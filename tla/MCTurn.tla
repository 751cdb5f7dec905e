------------------------------- MODULE MCTurn -------------------------------
(***************************************************************************)
(* Values of the constants of TurnMachine for TLC.                         *)
(***************************************************************************)
EXTENDS TurnProperties

NoRequests == {}
NoBatches  == {}
TheTools   == {"shell", "edit"}

(* Two calls in one reply, one in the next. *)
ApprovalRequests == {"a", "b", "c"}
ApprovalBatches  == {<<"a", "b">>, <<"c">>}
ApprovalTool     == [r \in ApprovalRequests |-> IF r = "b" THEN "edit" ELSE "shell"]
ApprovalScreen   == [r \in ApprovalRequests |-> IF r = "b" THEN "denied" ELSE "needs_approval"]

(* Final-output calls f and g beside the tool call a, two of them subject   *)
(* to approval; an unknown tool u and a malformed call m.                   *)
RecipeRequests == {"a", "f", "g", "u", "m"}
RecipeBatches  == {<<"a", "f", "g">>, <<"u", "m">>}
RecipeTool     == [r \in RecipeRequests |-> IF r = "a" THEN "shell" ELSE "edit"]
RecipeScreen   == [r \in RecipeRequests |-> IF r \in {"a", "g"} THEN "needs_approval" ELSE "approved"]

(* One call and no other to wait for. *)
SingleRequest == {"a"}

NoTool   == [r \in {} |-> "shell"]
NoScreen == [r \in {} |-> "approved"]
=============================================================================
