----------------------------- MODULE Elicitation -----------------------------
(***************************************************************************)
(* Questions that an MCP server puts to the user while a tool call runs    *)
(* (action_required_manager.rs, elicitation.rs, extension_manager.rs): the *)
(* call's dispatches register and unregister the stream that carries the   *)
(* questions, each question waits with a deadline, and each answer claims  *)
(* the question, is written to the conversation and is then submitted.     *)
(* The module is about one tool call of one session: calls share nothing   *)
(* but the locks of the tables.                                            *)
(***************************************************************************)
EXTENDS Naturals, FiniteSets

CONSTANTS
  Requests,     \* elicitation requests of the server (request_and_wait)
  Answers,      \* answers from clients (complete_elicitation_with_message)
  Foreign,      \* those that may come from another session
  Dispatches,   \* dispatches of the tool call, nested ones included
  Capacity,     \* ACTION_REQUIRED_STREAM_CAPACITY
  None

ASSUME NoneAssumption  == None \notin Answers \cup Dispatches
ASSUME SizesAssumption == IsFiniteSet(Requests) /\ Capacity \in Nat \ {0}

VARIABLES
  sender,       \* action_required_senders[call]: whose stream is registered
  stream,       \* questions in the stream of each dispatch
  shown,        \* questions a consumer has taken out of a stream
  pending,      \* the table of pending requests
  unsent,       \* requests whose response_tx is still there
  holder,       \* the answer that holds the request's mutex, or None
  sent,         \* what is in the request's one-shot channel
  via,          \* the stream each request sends its question to
  told,         \* what request_and_wait returned: an answer, or None for an error
  recorded,     \* answers in the conversation
  naming,       \* the request each answer names
  strangers,    \* answers that come from another session
  ask, answer, dispatch   \* where each request, answer and dispatch is

channels == <<unsent, holder, sent>>
streams  == <<sender, stream, shown>>
vars == <<streams, pending, channels, via, told, recorded, naming, strangers, ask, answer, dispatch>>

AskStages == {"new", "insert", "send", "withdraw", "waiting", "expired", "late", "remove", "done",
              "dropped"}
AnswerStages   == {"new", "claim", "persist", "submit", "deliver", "done", "failed"}
DispatchStages == {"new", "absent", "running", "nested", "dropped", "gone"}

Init ==
  /\ sender = None /\ stream = [d \in Dispatches |-> {}] /\ shown = {}
  /\ pending = {} /\ unsent = {}
  /\ holder = [r \in Requests |-> None] /\ sent = [r \in Requests |-> None]
  /\ via = [r \in Requests |-> None] /\ told = [r \in Requests |-> None]
  /\ recorded = {} /\ naming = [a \in Answers |-> None] /\ strangers = {}
  /\ ask = [r \in Requests |-> "new"]
  /\ answer = [a \in Answers |-> "new"]
  /\ dispatch = [d \in Dispatches |-> "new"]

Ask(r, from, to)      == ask[r] = from /\ ask' = [ask EXCEPT ![r] = to]
Answer(a, from, to)   == answer[a] = from /\ answer' = [answer EXCEPT ![a] = to]
Dispatch(d, from, to) == dispatch[d] = from /\ dispatch' = [dispatch EXCEPT ![d] = to]

-----------------------------------------------------------------------------
(* dispatch_tool_call and ActionRequiredStream: a dispatch of a call that   *)
(* has no stream yet registers one, in two lock sections; dropping the      *)
(* stream spawns the task that unregisters whatever the call has then.  A   *)
(* nested dispatch has no stream to drop: its end changes nothing here.     *)

LookForStream(d) ==
  /\ Dispatch(d, "new", IF sender = None THEN "absent" ELSE "nested")
  /\ UNCHANGED <<streams, pending, channels, via, told, recorded, naming, strangers, ask, answer>>

RegisterStream(d) ==
  /\ Dispatch(d, "absent", "running")
  /\ sender' = d
  /\ UNCHANGED <<stream, shown, pending, channels, via, told, recorded, naming, strangers, ask, answer>>

(* tool_stream hands the question on to the client. *)
Show(d) ==
  /\ dispatch[d] = "running"
  /\ \E r \in stream[d] :
       /\ stream' = [stream EXCEPT ![d] = @ \ {r}]
       /\ shown' = shown \cup {r}
  /\ UNCHANGED <<sender, pending, channels, via, told, recorded, naming, strangers, ask, answer, dispatch>>

(* The call is over, or cancelled. *)
DropStream(d) ==
  /\ Dispatch(d, "running", "dropped")
  /\ stream' = [stream EXCEPT ![d] = {}]
  /\ UNCHANGED <<sender, shown, pending, channels, via, told, recorded, naming, strangers, ask, answer>>

(* Mutant: the entry outlives the stream. *)
StayRegistered(d) ==
  /\ Dispatch(d, "dropped", "gone")
  /\ UNCHANGED <<streams, pending, channels, via, told, recorded, naming, strangers, ask, answer>>

Unregister(d) ==
  /\ Dispatch(d, "dropped", "gone")
  /\ sender' = None
  /\ UNCHANGED <<stream, shown, pending, channels, via, told, recorded, naming, strangers, ask, answer>>

-----------------------------------------------------------------------------
(* request_and_wait *)

(* The server may ask as soon as a dispatch has reached it. *)
FindStream(r) ==
  /\ \E d \in Dispatches : dispatch[d] \notin {"new", "absent"}
  /\ Ask(r, "new", IF sender = None THEN "done" ELSE "insert")
  /\ via' = [via EXCEPT ![r] = sender]
  /\ UNCHANGED <<streams, pending, channels, told, recorded, naming, strangers, answer, dispatch>>

InsertPending(r) ==
  /\ Ask(r, "insert", "send")
  /\ pending' = pending \cup {r}
  /\ unsent' = unsent \cup {r}
  /\ UNCHANGED <<streams, holder, sent, via, told, recorded, naming, strangers, answer, dispatch>>

(* try_send fails on a stream that is full or closed. *)
Accepts(d) == dispatch[d] = "running" /\ Cardinality(stream[d]) < Capacity

SendQuestion(r) ==
  /\ Ask(r, "send", "waiting")
  /\ Accepts(via[r])
  /\ stream' = [stream EXCEPT ![via[r]] = @ \cup {r}]
  /\ UNCHANGED <<sender, shown, pending, channels, via, told, recorded, naming, strangers, answer, dispatch>>

SendFails(r) ==
  /\ Ask(r, "send", "withdraw")
  /\ ~Accepts(via[r])
  /\ UNCHANGED <<streams, pending, channels, via, told, recorded, naming, strangers, answer, dispatch>>

Withdraw(r) ==
  /\ Ask(r, "withdraw", "done")
  /\ pending' = pending \ {r}
  /\ UNCHANGED <<streams, channels, via, told, recorded, naming, strangers, answer, dispatch>>

(* wait_for_response: the answer arrives, in time or after the deadline ... *)
Receive(r) ==
  /\ sent[r] # None
  /\ Ask(r, "waiting", "remove") \/ Ask(r, "late", "remove")
  /\ told' = [told EXCEPT ![r] = sent[r]]
  /\ UNCHANGED <<streams, pending, channels, via, recorded, naming, strangers, answer, dispatch>>

Expire(r) ==
  /\ sent[r] = None
  /\ Ask(r, "waiting", "expired")
  /\ UNCHANGED <<streams, pending, channels, via, told, recorded, naming, strangers, answer, dispatch>>

(* Mutant: the timeout does not wait for the claim under way. *)
ExpireAtOnce(r) ==
  /\ Ask(r, "expired", "remove")
  /\ unsent' = unsent \ {r}
  /\ UNCHANGED <<streams, pending, holder, sent, via, told, recorded, naming, strangers, answer, dispatch>>

(* ... or the deadline passes: an answer that has claimed the request is    *)
(* waited for, and one that has been submitted is taken.                    *)
SettleTimeout(r) ==
  /\ holder[r] = None
  /\ Ask(r, "expired", IF r \in unsent THEN "remove" ELSE "late")
  /\ unsent' = unsent \ {r}
  /\ UNCHANGED <<streams, pending, holder, sent, via, told, recorded, naming, strangers, answer, dispatch>>

(* Mutant: the request is left in the table. *)
LeavePending(r) ==
  /\ Ask(r, "remove", "done")
  /\ UNCHANGED <<streams, pending, channels, via, told, recorded, naming, strangers, answer, dispatch>>

RemovePending(r) ==
  /\ Ask(r, "remove", "done")
  /\ pending' = pending \ {r}
  /\ UNCHANGED <<streams, channels, via, told, recorded, naming, strangers, answer, dispatch>>

(* The task that waits is dropped: its receiver closes, its entry stays.    *)
DropWaiter(r) ==
  /\ \E s \in {"waiting", "expired", "late"} : Ask(r, s, "dropped")
  /\ UNCHANGED <<streams, pending, channels, via, told, recorded, naming, strangers, answer, dispatch>>

Waiter(r) ==
  \/ InsertPending(r) \/ SendQuestion(r) \/ SendFails(r) \/ Withdraw(r)
  \/ Receive(r) \/ Expire(r) \/ SettleTimeout(r) \/ RemovePending(r)

-----------------------------------------------------------------------------
(* complete_elicitation_with_message: claim, persist, submit *)

Listening(r) == ask[r] \notin {"done", "dropped"}

(* The client names a question it was shown, perhaps from another session;  *)
(* a question may be answered twice.                                        *)
FindPending(a) ==
  \E r \in shown :
    /\ naming' = [naming EXCEPT ![a] = r]
    /\ strangers' \in {strangers, strangers \cup ({a} \cap Foreign)}
    /\ Answer(a, "new", IF r \in pending THEN "claim" ELSE "failed")
    /\ UNCHANGED <<streams, pending, channels, via, told, recorded, ask, dispatch>>

(* Mutant: the claim does not keep the request's mutex. *)
ClaimUnlocked(a) ==
  /\ Answer(a, "claim", "persist")
  /\ naming[a] \in unsent
  /\ UNCHANGED <<streams, pending, channels, via, told, recorded, naming, strangers, ask, dispatch>>

Claim(a) ==
  /\ Answer(a, "claim", "persist")
  /\ holder[naming[a]] = None
  /\ a \notin strangers /\ naming[a] \in unsent /\ Listening(naming[a])
  /\ holder' = [holder EXCEPT ![naming[a]] = a]
  /\ UNCHANGED <<streams, pending, unsent, sent, via, told, recorded, naming, strangers, ask, dispatch>>

(* Mutant: an answer from another session uses the request up. *)
RejectConsumes(a) ==
  /\ Answer(a, "claim", "failed")
  /\ holder[naming[a]] = None
  /\ a \in strangers \/ naming[a] \notin unsent
  /\ unsent' = unsent \ {naming[a]}
  /\ UNCHANGED <<streams, pending, holder, sent, via, told, recorded, naming, strangers, ask, dispatch>>

(* Another session's answer, or one to a request that is already completed. *)
Reject(a) ==
  /\ Answer(a, "claim", "failed")
  /\ holder[naming[a]] = None
  /\ a \in strangers \/ naming[a] \notin unsent
  /\ UNCHANGED <<streams, pending, channels, via, told, recorded, naming, strangers, ask, dispatch>>

(* Nobody waits any more: the sender is thrown away. *)
FindClosed(a) ==
  /\ Answer(a, "claim", "failed")
  /\ holder[naming[a]] = None
  /\ a \notin strangers /\ naming[a] \in unsent /\ ~Listening(naming[a])
  /\ unsent' = unsent \ {naming[a]}
  /\ UNCHANGED <<streams, pending, holder, sent, via, told, recorded, naming, strangers, ask, dispatch>>

(* add_message commits ... *)
Persist(a) ==
  /\ Answer(a, "persist", "submit")
  /\ recorded' = recorded \cup {a}
  /\ UNCHANGED <<streams, pending, channels, via, told, naming, strangers, ask, dispatch>>

(* Mutant: the failed answer keeps its claim. *)
KeepClaim(a) ==
  /\ Answer(a, "persist", "failed")
  /\ UNCHANGED <<streams, pending, channels, via, told, recorded, naming, strangers, ask, dispatch>>

(* ... or fails, and the claim is dropped with the sender in its place. *)
PersistFails(a) ==
  /\ Answer(a, "persist", "failed")
  /\ holder' = [holder EXCEPT ![naming[a]] = None]
  /\ UNCHANGED <<streams, pending, unsent, sent, via, told, recorded, naming, strangers, ask, dispatch>>

(* submit takes the sender, releases the mutex, then sends. *)
Submit(a) ==
  /\ Answer(a, "submit", IF naming[a] \in unsent THEN "deliver" ELSE "failed")
  /\ unsent' = unsent \ {naming[a]}
  /\ holder' = [holder EXCEPT ![naming[a]] = None]
  /\ UNCHANGED <<streams, pending, sent, via, told, recorded, naming, strangers, ask, dispatch>>

Deliver(a) ==
  /\ Answer(a, "deliver", IF Listening(naming[a]) THEN "done" ELSE "failed")
  /\ sent' = [sent EXCEPT ![naming[a]] = IF Listening(naming[a]) THEN a ELSE @]
  /\ UNCHANGED <<streams, pending, unsent, holder, via, told, recorded, naming, strangers, ask, dispatch>>

Complete(a) ==
  \/ Claim(a) \/ Reject(a) \/ FindClosed(a) \/ Persist(a) \/ PersistFails(a)
  \/ Submit(a) \/ Deliver(a)

-----------------------------------------------------------------------------

Next ==
  \/ \E d \in Dispatches : \/ LookForStream(d) \/ RegisterStream(d) \/ Show(d)
                           \/ DropStream(d) \/ Unregister(d)
  \/ \E r \in Requests : FindStream(r) \/ Waiter(r) \/ DropWaiter(r)
  \/ \E a \in Answers : FindPending(a) \/ Complete(a)

Spec == Init /\ [][Next]_vars

(* Tasks that have begun are polled until they end, timers fire and         *)
(* add_message returns.  Nobody has to ask, show, answer or end a call.      *)
FairSpec ==
  /\ Spec
  /\ \A r \in Requests : WF_vars(Waiter(r))
  /\ \A a \in Answers : WF_vars(Complete(a))

-----------------------------------------------------------------------------
(* Properties *)

TypeOK ==
  /\ sender \in Dispatches \cup {None} /\ stream \in [Dispatches -> SUBSET Requests]
  /\ shown \subseteq Requests /\ pending \subseteq Requests /\ unsent \subseteq Requests
  /\ holder \in [Requests -> Answers \cup {None}] /\ sent \in [Requests -> Answers \cup {None}]
  /\ via \in [Requests -> Dispatches \cup {None}] /\ told \in [Requests -> Answers \cup {None}]
  /\ recorded \subseteq Answers /\ naming \in [Answers -> Requests \cup {None}]
  /\ strangers \subseteq Answers
  /\ ask \in [Requests -> AskStages] /\ answer \in [Answers -> AnswerStages]
  /\ dispatch \in [Dispatches -> DispatchStages]

(* An answer that is in the conversation came from the session that was     *)
(* asked, and is not reported to the client as refused, unless the tool     *)
(* went away meanwhile: the claim keeps the deadline and other answers off  *)
(* the request while it is written (complete_elicitation_with_message).     *)
RecordedIsAccepted ==
  \A a \in recorded : /\ a \notin strangers
                     /\ answer[a] = "failed" => ask[naming[a]] = "dropped"

(* A request that a client could still answer is one that somebody waits    *)
(* for: what is over leaves no pending entry, unless the waiting task was   *)
(* dropped (request_and_wait, full_tool_call_stream_rejects_without_pending *)
(* _state).                                                                 *)
NothingLeftPending == \A r \in pending : ask[r] \notin {"new", "insert", "done"}

(* Once no dispatch of the call is under way, its stream is unregistered,   *)
(* though several dispatches may have found none and registered their own   *)
(* (ActionRequiredStream::drop).                                            *)
NoStaleStream ==
  (\A d \in Dispatches : dispatch[d] \in {"new", "nested", "gone"}) => sender = None

(* Every question comes to an end, whoever answers and whatever fails: the  *)
(* deadline is waited out at most, and an answer that holds the request     *)
(* lets it go (wait_for_response).  A question is asked once, so all that   *)
(* are asked have ended from some point on.                                 *)
EveryQuestionEnds == <>[](\A r \in Requests : ask[r] \in {"new", "done", "dropped"})

(* The promise to the tool, kept by the three-step answer.                  *)
RecordOf(r) == {a \in recorded : naming[a] = r}

TheOnly(S)  == IF S = {} THEN None ELSE CHOOSE a \in S : TRUE

QuestionOf(r) ==
  CASE ask[r] = "new" -> "unasked"
    [] ask[r] = "dropped" -> "gone"
    [] ask[r] \in {"withdraw", "remove", "done"} -> "over"
    [] OTHER -> "open"

Promise == INSTANCE AnswerPromise WITH
  question <- [r \in Requests |-> QuestionOf(r)],
  record   <- [r \in Requests |-> TheOnly(RecordOf(r))],
  told     <- told

KeepsThePromise == Promise!Spec

=============================================================================
