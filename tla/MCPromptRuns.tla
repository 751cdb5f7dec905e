---------------------------- MODULE MCPromptRuns ----------------------------
(***************************************************************************)
(* Values of the constants of PromptRuns for TLC: two runs are enough for  *)
(* one to outlive the other's cleanup; a close and a load can each fall    *)
(* between any two of their steps.                                         *)
(***************************************************************************)
EXTENDS PromptRuns

ThePrompts == {"p1", "p2"}
TheSteers  == {"s1"}
TheClosers == {"c1"}
TheLoaders == {"l1"}
=============================================================================
