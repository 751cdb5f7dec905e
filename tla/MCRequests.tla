----------------------------- MODULE MCRequests -----------------------------
(***************************************************************************)
(* Values of the constants of RequestHistory for TLC: two calls of one     *)
(* reply, both subject to approval, so that a compaction, a steer and an   *)
(* inference can fall between their answers.                               *)
(***************************************************************************)
EXTENDS RequestHistory

TheTools        == {"shell", "edit"}
CompactRequests == {"a", "b"}
CompactBatches  == {<<"a", "b">>}
CompactTool     == [r \in CompactRequests |-> "shell"]
CompactScreen   == [r \in CompactRequests |-> "needs_approval"]
=============================================================================
