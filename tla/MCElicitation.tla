---------------------------- MODULE MCElicitation ----------------------------
(***************************************************************************)
(* Values of the constants of Elicitation for TLC: two questions fill a    *)
(* stream of capacity one; two answers race for a question and with its    *)
(* deadline, and one of them may come from another session; two dispatches *)
(* may find no stream and register one each.                               *)
(***************************************************************************)
EXTENDS Elicitation

TheRequests   == {"q1", "q2"}
TheAnswers    == {"a1", "a2"}
TheForeign    == {"a2"}
TheDispatches == {"d1", "d2"}
=============================================================================
