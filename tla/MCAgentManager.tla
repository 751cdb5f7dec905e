--------------------------- MODULE MCAgentManager ---------------------------
(***************************************************************************)
(* Values of the constants of AgentManager for TLC: a cache of one, so     *)
(* that a call for the second session evicts the first; two messages to    *)
(* the first session, and one removal of it.                               *)
(***************************************************************************)
EXTENDS AgentManager

TheSessions  == {"s", "t"}
TheCallers   == {"m1", "m2", "d"}
TheMessages  == {"m1", "m2"}
TheRemovers  == {"r"}
TheSessionOf == [x \in TheCallers \cup TheRemovers |-> IF x = "d" THEN "t" ELSE "s"]
=============================================================================
