---------------------------- MODULE MCScheduler ----------------------------
(***************************************************************************)
(* Values of the constants of Scheduler for TLC: two executions, a kill,   *)
(* an edit and a crash, each of which can fall between any two of their    *)
(* steps; the executions are interchangeable.                              *)
(***************************************************************************)
EXTENDS Scheduler, TLC

TheKills      == {"k"}
TheEdits      == {"e1"}
RunSymmetry   == Permutations(Runs)
=============================================================================
