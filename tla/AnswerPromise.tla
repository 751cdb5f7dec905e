---------------------------- MODULE AnswerPromise ----------------------------
(***************************************************************************)
(* What a tool that asks the user a question is promised: at most one      *)
(* answer is recorded in the conversation for a question, the tool is told *)
(* that answer and no other, and it is told that there is none only when   *)
(* none is recorded.  A tool that goes away hears nothing.                 *)
(***************************************************************************)
CONSTANTS
  Requests,     \* questions
  Answers,      \* what users reply, from the session that was asked
  None

VARIABLES
  question,     \* "unasked", "open", "over" or "gone"
  record,       \* the answer in the conversation for each question, or None
  told          \* the answer the tool is given, or None

vars == <<question, record, told>>

Init ==
  /\ question = [r \in Requests |-> "unasked"]
  /\ record = [r \in Requests |-> None]
  /\ told = [r \in Requests |-> None]

Ask(r) ==
  /\ question[r] = "unasked"
  /\ question' = [question EXCEPT ![r] = "open"]
  /\ UNCHANGED <<record, told>>

(* A question that cannot be put to the user at all. *)
Refuse(r) ==
  /\ question[r] = "unasked"
  /\ question' = [question EXCEPT ![r] = "over"]
  /\ UNCHANGED <<record, told>>

Record(r, a) ==
  /\ question[r] \in {"open", "gone"} /\ record[r] = None
  /\ record' = [record EXCEPT ![r] = a]
  /\ UNCHANGED <<question, told>>

Tell(r) ==
  /\ question[r] = "open" /\ record[r] # None
  /\ question' = [question EXCEPT ![r] = "over"]
  /\ told' = [told EXCEPT ![r] = record[r]]
  /\ UNCHANGED record

GiveUp(r) ==
  /\ question[r] = "open" /\ record[r] = None
  /\ question' = [question EXCEPT ![r] = "over"]
  /\ UNCHANGED <<record, told>>

Leave(r) ==
  /\ question[r] = "open"
  /\ question' = [question EXCEPT ![r] = "gone"]
  /\ UNCHANGED <<record, told>>

Next ==
  \E r \in Requests :
    Ask(r) \/ Refuse(r) \/ Tell(r) \/ GiveUp(r) \/ Leave(r) \/ \E a \in Answers : Record(r, a)

Spec == Init /\ [][Next]_vars
=============================================================================
