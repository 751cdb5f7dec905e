-------------------------- MODULE ElicitationProofs --------------------------
(***************************************************************************)
(* Proofs about the questions of a tool call, for any number of questions, *)
(* answers and dispatches and any stream capacity: a recorded answer is    *)
(* accepted, nothing is left pending, no stream stays registered, and the  *)
(* three-step answer keeps the promise made to the tool.                   *)
(***************************************************************************)
EXTENDS Elicitation, TLAPS

-----------------------------------------------------------------------------
(* The inductive invariant. *)

(* An answer that has found its request names one that was shown.           *)
Named == \A a \in Answers : answer[a] # "new" => naming[a] \in shown

(* What is shown, or about to be, has been sent.                            *)
Unsendable == {"new", "insert", "send", "withdraw"}
Offered ==
  /\ \A r \in shown : ask[r] \notin Unsendable
  /\ \A d \in Dispatches : \A r \in stream[d] : ask[r] \notin Unsendable

(* The mutex of a request is held by the answer that has claimed it, and    *)
(* nobody else takes the sender meanwhile.                                  *)
Claiming == {"persist", "submit"}
Held ==
  /\ \A r \in Requests : holder[r] # None =>
       holder[r] \in Answers /\ answer[holder[r]] \in Claiming /\ naming[holder[r]] = r /\ r \in unsent
  /\ \A a \in Answers : answer[a] \in Claiming => holder[naming[a]] = a

(* A sender that a client can still reach belongs to a waiter, present or   *)
(* dropped, that has not been told anything.                                *)
Offers(r) == r \in shown \/ \E d \in Dispatches : r \in stream[d]
Reachable == \A r \in unsent : Offers(r) => ask[r] \notin {"late", "remove", "done"}

(* What is recorded, and when; a recorded answer uses up the sender.        *)
Recording ==
  /\ \A a \in recorded : a \notin strangers /\ answer[a] \notin {"new", "claim", "persist"}
  /\ \A a \in Answers : answer[a] \in Claiming => a \notin strangers
  /\ \A a \in Answers : answer[a] \in {"submit", "deliver", "done"} => a \in recorded
Consumed  == \A a \in recorded : answer[a] # "submit" => naming[a] \notin unsent
OneRecord == \A a, b \in recorded : naming[a] = naming[b] => a = b

(* What the one-shot channel holds was recorded.                            *)
Sent ==
  \A r \in Requests : sent[r] # None => 
    sent[r] \in recorded /\ answer[sent[r]] = "done" /\ naming[sent[r]] = r

(* While an answer is being delivered the waiter stays, unless dropped.     *)
Delivering ==
  \A a \in Answers : answer[a] = "deliver" =>
    ask[naming[a]] \in {"waiting", "expired", "late", "dropped"}

Answering == Named /\ Offered /\ Held /\ Reachable /\ Recording /\ Consumed /\ OneRecord /\ Sent
             /\ Delivering /\ RecordedIsAccepted

IInv == TypeOK /\ Answering

LEMMA InitTyped == Init => TypeOK
BY NoneAssumption DEF Init, TypeOK, AskStages, AnswerStages, DispatchStages

LEMMA DispatchTyped ==
  ASSUME TypeOK, NEW d \in Dispatches,
         \/ LookForStream(d) \/ RegisterStream(d) \/ Show(d) \/ DropStream(d) \/ Unregister(d)
  PROVE  TypeOK'
<1>1. CASE LookForStream(d)
  BY <1>1 DEF LookForStream, Dispatch, TypeOK, DispatchStages, streams, channels
<1>2. CASE RegisterStream(d)
  BY <1>2 DEF RegisterStream, Dispatch, TypeOK, DispatchStages, channels
<1>3. CASE Show(d)
  BY <1>3 DEF Show, TypeOK, channels
<1>4. CASE DropStream(d)
  BY <1>4 DEF DropStream, Dispatch, TypeOK, DispatchStages, channels
<1>5. CASE Unregister(d)
  BY <1>5 DEF Unregister, Dispatch, TypeOK, DispatchStages, channels
<1> QED
  BY <1>1, <1>2, <1>3, <1>4, <1>5

LEMMA WaiterTyped ==
  ASSUME TypeOK, NEW r \in Requests, FindStream(r) \/ Waiter(r) \/ DropWaiter(r)
  PROVE  TypeOK'
<1>1. CASE FindStream(r)
  BY <1>1 DEF FindStream, Ask, TypeOK, AskStages, streams, channels
<1>2. CASE InsertPending(r)
  BY <1>2 DEF InsertPending, Ask, TypeOK, AskStages, streams
<1>3. CASE SendQuestion(r)
  BY <1>3 DEF SendQuestion, Ask, TypeOK, AskStages, channels
<1>4. CASE SendFails(r)
  BY <1>4 DEF SendFails, Ask, TypeOK, AskStages, streams, channels
<1>5. CASE Withdraw(r)
  BY <1>5 DEF Withdraw, Ask, TypeOK, AskStages, streams, channels
<1>6. CASE Receive(r)
  BY <1>6 DEF Receive, Ask, TypeOK, AskStages, streams, channels
<1>7. CASE Expire(r)
  BY <1>7 DEF Expire, Ask, TypeOK, AskStages, streams, channels
<1>8. CASE SettleTimeout(r)
  BY <1>8 DEF SettleTimeout, Ask, TypeOK, AskStages, streams
<1>9. CASE RemovePending(r)
  BY <1>9 DEF RemovePending, Ask, TypeOK, AskStages, streams, channels
<1>10. CASE DropWaiter(r)
  BY <1>10 DEF DropWaiter, Ask, TypeOK, AskStages, streams, channels
<1> QED
  BY <1>1, <1>2, <1>3, <1>4, <1>5, <1>6, <1>7, <1>8, <1>9, <1>10 DEF Waiter

LEMMA AnswerTyped ==
  ASSUME TypeOK, Named, NEW a \in Answers, FindPending(a) \/ Complete(a)
  PROVE  TypeOK'
<1>0. answer[a] # "new" => naming[a] \in Requests
  BY DEF Named, TypeOK
<1>1. CASE FindPending(a)
  BY <1>1 DEF FindPending, Answer, TypeOK, AnswerStages, streams, channels
<1>2. CASE Claim(a)
  BY <1>0, <1>2 DEF Claim, Answer, TypeOK, AnswerStages, streams
<1>3. CASE Reject(a)
  BY <1>3 DEF Reject, Answer, TypeOK, AnswerStages, streams, channels
<1>4. CASE FindClosed(a)
  BY <1>4 DEF FindClosed, Answer, TypeOK, AnswerStages, streams
<1>5. CASE Persist(a)
  BY <1>5 DEF Persist, Answer, TypeOK, AnswerStages, streams, channels
<1>6. CASE PersistFails(a)
  BY <1>6 DEF PersistFails, Answer, TypeOK, AnswerStages, streams
<1>7. CASE Submit(a)
  BY <1>7 DEF Submit, Answer, TypeOK, AnswerStages, streams
<1>8. CASE Deliver(a)
  BY <1>8 DEF Deliver, Answer, TypeOK, AnswerStages, streams
<1> QED
  BY <1>1, <1>2, <1>3, <1>4, <1>5, <1>6, <1>7, <1>8 DEF Complete


LEMMA LookForStreamInv ==
  ASSUME IInv, NEW d \in Dispatches, LookForStream(d)
  PROVE  Answering'
BY NoneAssumption DEF LookForStream, IInv, TypeOK, Answering, Named, Offered, Unsendable,
   Held, Claiming, Reachable, Offers, Recording, Consumed, OneRecord, Sent, Delivering,
   RecordedIsAccepted, Dispatch, streams, channels

LEMMA RegisterStreamInv ==
  ASSUME IInv, NEW d \in Dispatches, RegisterStream(d)
  PROVE  Answering'
BY NoneAssumption DEF RegisterStream, IInv, TypeOK, Answering, Named, Offered,
   Unsendable, Held, Claiming, Reachable, Offers, Recording, Consumed, OneRecord, Sent,
   Delivering, RecordedIsAccepted, Dispatch, streams, channels

LEMMA ShowInv ==
  ASSUME IInv, NEW d \in Dispatches, Show(d)
  PROVE  Answering'
<1> USE DEF Show, IInv, TypeOK, Answering, channels
<1>1. PICK r \in stream[d] : /\ stream' = [stream EXCEPT ![d] = @ \ {r}]
                             /\ shown' = shown \cup {r}
  OBVIOUS
<1>2. r \in Requests /\ ask[r] \notin Unsendable
  BY <1>1 DEF Offered
<1>3. Named' /\ Offered'
  BY <1>1, <1>2 DEF Named, Offered
<1>4. Reachable'
  BY <1>1, <1>2 DEF Reachable, Offers
<1>5. Held' /\ Recording' /\ Consumed' /\ OneRecord'
  BY DEF Held, Recording, Consumed, OneRecord
<1>6. Sent' /\ Delivering' /\ RecordedIsAccepted'
  BY DEF Sent, Delivering, RecordedIsAccepted
<1> QED
  BY <1>3, <1>4, <1>5, <1>6

LEMMA DropStreamInv ==
  ASSUME IInv, NEW d \in Dispatches, DropStream(d)
  PROVE  Answering'
BY NoneAssumption DEF DropStream, IInv, TypeOK, Answering, Named, Offered, Unsendable,
   Held, Claiming, Reachable, Offers, Recording, Consumed, OneRecord, Sent, Delivering,
   RecordedIsAccepted, Dispatch, streams, channels

LEMMA UnregisterInv ==
  ASSUME IInv, NEW d \in Dispatches, Unregister(d)
  PROVE  Answering'
BY NoneAssumption DEF Unregister, IInv, TypeOK, Answering, Named, Offered, Unsendable,
   Held, Claiming, Reachable, Offers, Recording, Consumed, OneRecord, Sent, Delivering,
   RecordedIsAccepted, Dispatch, streams, channels

LEMMA FindStreamInv ==
  ASSUME IInv, NEW r \in Requests, FindStream(r)
  PROVE  Answering'
BY NoneAssumption DEF FindStream, IInv, TypeOK, Answering, Named, Offered, Unsendable,
   Held, Claiming, Reachable, Offers, Recording, Consumed, OneRecord, Sent, Delivering,
   RecordedIsAccepted, Ask, streams, channels

LEMMA InsertPendingInv ==
  ASSUME IInv, NEW r \in Requests, InsertPending(r)
  PROVE  Answering'
BY NoneAssumption DEF InsertPending, IInv, TypeOK, Answering, Named, Offered, Unsendable,
   Held, Claiming, Reachable, Offers, Recording, Consumed, OneRecord, Sent, Delivering,
   RecordedIsAccepted, Ask, streams, channels

LEMMA SendQuestionInv ==
  ASSUME IInv, NEW r \in Requests, SendQuestion(r)
  PROVE  Answering'
BY NoneAssumption DEF SendQuestion, IInv, TypeOK, Answering, Named, Offered, Unsendable,
   Held, Claiming, Reachable, Offers, Recording, Consumed, OneRecord, Sent, Delivering,
   RecordedIsAccepted, Ask, streams, channels

LEMMA SendFailsInv ==
  ASSUME IInv, NEW r \in Requests, SendFails(r)
  PROVE  Answering'
BY NoneAssumption DEF SendFails, IInv, TypeOK, Answering, Named, Offered, Unsendable,
   Held, Claiming, Reachable, Offers, Recording, Consumed, OneRecord, Sent, Delivering,
   RecordedIsAccepted, Ask, streams, channels

LEMMA WithdrawInv ==
  ASSUME IInv, NEW r \in Requests, Withdraw(r)
  PROVE  Answering'
BY NoneAssumption DEF Withdraw, IInv, TypeOK, Answering, Named, Offered, Unsendable,
   Held, Claiming, Reachable, Offers, Recording, Consumed, OneRecord, Sent, Delivering,
   RecordedIsAccepted, Ask, streams, channels

LEMMA ReceiveInv ==
  ASSUME IInv, NEW r \in Requests, Receive(r)
  PROVE  Answering'
BY NoneAssumption DEF Receive, IInv, TypeOK, Answering, Named, Offered, Unsendable, Held,
   Claiming, Reachable, Offers, Recording, Consumed, OneRecord, Sent, Delivering,
   RecordedIsAccepted, Ask, streams, channels

LEMMA ExpireInv ==
  ASSUME IInv, NEW r \in Requests, Expire(r)
  PROVE  Answering'
BY NoneAssumption DEF Expire, IInv, TypeOK, Answering, Named, Offered, Unsendable, Held,
   Claiming, Reachable, Offers, Recording, Consumed, OneRecord, Sent, Delivering,
   RecordedIsAccepted, Ask, streams, channels

LEMMA SettleTimeoutInv ==
  ASSUME IInv, NEW r \in Requests, SettleTimeout(r)
  PROVE  Answering'
BY NoneAssumption DEF SettleTimeout, IInv, TypeOK, Answering, Named, Offered, Unsendable,
   Held, Claiming, Reachable, Offers, Recording, Consumed, OneRecord, Sent, Delivering,
   RecordedIsAccepted, Ask, streams, channels

LEMMA RemovePendingInv ==
  ASSUME IInv, NEW r \in Requests, RemovePending(r)
  PROVE  Answering'
BY NoneAssumption DEF RemovePending, IInv, TypeOK, Answering, Named, Offered, Unsendable,
   Held, Claiming, Reachable, Offers, Recording, Consumed, OneRecord, Sent, Delivering,
   RecordedIsAccepted, Ask, streams, channels

LEMMA DropWaiterInv ==
  ASSUME IInv, NEW r \in Requests, DropWaiter(r)
  PROVE  Answering'
BY NoneAssumption DEF DropWaiter, IInv, TypeOK, Answering, Named, Offered, Unsendable,
   Held, Claiming, Reachable, Offers, Recording, Consumed, OneRecord, Sent, Delivering,
   RecordedIsAccepted, Ask, streams, channels

LEMMA FindPendingInv ==
  ASSUME IInv, NEW a \in Answers, FindPending(a)
  PROVE  Answering'
BY NoneAssumption DEF FindPending, IInv, TypeOK, Answering, Named, Offered, Unsendable,
   Held, Claiming, Reachable, Offers, Recording, Consumed, OneRecord, Sent, Delivering,
   RecordedIsAccepted, Answer, streams, channels

LEMMA ClaimInv ==
  ASSUME IInv, NEW a \in Answers, Claim(a)
  PROVE  Answering'
BY NoneAssumption DEF Claim, IInv, TypeOK, Answering, Named, Offered, Unsendable, Held,
   Claiming, Reachable, Offers, Recording, Consumed, OneRecord, Sent, Delivering,
   RecordedIsAccepted, Listening, Answer, streams, channels

LEMMA RejectInv ==
  ASSUME IInv, NEW a \in Answers, Reject(a)
  PROVE  Answering'
BY NoneAssumption DEF Reject, IInv, TypeOK, Answering, Named, Offered, Unsendable, Held,
   Claiming, Reachable, Offers, Recording, Consumed, OneRecord, Sent, Delivering,
   RecordedIsAccepted, Answer, streams, channels

LEMMA FindClosedInv ==
  ASSUME IInv, NEW a \in Answers, FindClosed(a)
  PROVE  Answering'
BY NoneAssumption DEF FindClosed, IInv, TypeOK, Answering, Named, Offered, Unsendable,
   Held, Claiming, Reachable, Offers, Recording, Consumed, OneRecord, Sent, Delivering,
   RecordedIsAccepted, Listening, Answer, streams, channels

LEMMA PersistInv ==
  ASSUME IInv, NEW a \in Answers, Persist(a)
  PROVE  Answering'
BY NoneAssumption DEF Persist, IInv, TypeOK, Answering, Named, Offered, Unsendable, Held,
   Claiming, Reachable, Offers, Recording, Consumed, OneRecord, Sent, Delivering,
   RecordedIsAccepted, Answer, streams, channels

LEMMA PersistFailsInv ==
  ASSUME IInv, NEW a \in Answers, PersistFails(a)
  PROVE  Answering'
BY NoneAssumption DEF PersistFails, IInv, TypeOK, Answering, Named, Offered, Unsendable,
   Held, Claiming, Reachable, Offers, Recording, Consumed, OneRecord, Sent, Delivering,
   RecordedIsAccepted, Answer, streams, channels

LEMMA SubmitInv ==
  ASSUME IInv, NEW a \in Answers, Submit(a)
  PROVE  Answering'
<1> USE DEF Submit, Answer, IInv, TypeOK, Answering, streams
<1>1. /\ answer[a] = "submit" /\ naming[a] \in shown /\ naming[a] \in Requests
      /\ holder[naming[a]] = a /\ naming[a] \in unsent
  BY NoneAssumption DEF Named, IInv, Held, Claiming
<1>2. /\ answer' = [answer EXCEPT ![a] = "deliver"]
      /\ unsent' = unsent \ {naming[a]}
      /\ holder' = [holder EXCEPT ![naming[a]] = None]
  BY <1>1
<1>3. Named' /\ Offered' /\ Reachable'
  BY <1>1, <1>2 DEF Named, Offered, Reachable, Offers
<1>4. Held'
  BY <1>1, <1>2 DEF Held, Claiming
<1>5. Recording' /\ Consumed' /\ OneRecord'
  BY <1>1, <1>2 DEF Recording, Claiming, Consumed, OneRecord
<1>6. Sent'
  BY <1>1, <1>2 DEF Sent
<1>7. ask[naming[a]] \in {"waiting", "expired", "dropped"}
  BY <1>1 DEF Offered, Unsendable, Reachable, Offers, AskStages
<1>8. Delivering' /\ RecordedIsAccepted'
  BY <1>1, <1>2, <1>7 DEF Delivering, RecordedIsAccepted
<1> QED
  BY <1>3, <1>4, <1>5, <1>6, <1>8

LEMMA DeliverInv ==
  ASSUME IInv, NEW a \in Answers, Deliver(a)
  PROVE  Answering'
BY NoneAssumption DEF Deliver, IInv, TypeOK, Answering, Named, Offered, Unsendable, Held,
   Claiming, Reachable, Offers, Recording, Consumed, OneRecord, Sent, Delivering,
   RecordedIsAccepted, Listening, Answer, streams, channels

(* A change of nothing keeps what speaks of the unprimed variables only.    *)
LEMMA AnsweringInit == Init => Answering
BY NoneAssumption DEF Init, Answering, Named, Offered, Held, Claiming, Reachable, Offers, Recording, Consumed,
   OneRecord, Sent, Delivering, RecordedIsAccepted

LEMMA IInvStep ==
  ASSUME IInv, [Next]_vars
  PROVE  IInv'
<1>1. CASE UNCHANGED vars
  BY <1>1 DEF vars, streams, channels, IInv, TypeOK, Answering, Named, Offered, Held, Reachable, Offers,
     Recording, Consumed, OneRecord, Sent, Delivering, RecordedIsAccepted
<1>2. ASSUME NEW d \in Dispatches,
             LookForStream(d) \/ RegisterStream(d) \/ Show(d) \/ DropStream(d) \/ Unregister(d)
      PROVE  IInv'
  BY <1>2, DispatchTyped, LookForStreamInv, RegisterStreamInv, ShowInv, DropStreamInv, UnregisterInv
     DEF IInv
<1>3. ASSUME NEW r \in Requests, FindStream(r) \/ Waiter(r) \/ DropWaiter(r)
      PROVE  IInv'
  BY <1>3, WaiterTyped, FindStreamInv, InsertPendingInv, SendQuestionInv, SendFailsInv, WithdrawInv,
     ReceiveInv, ExpireInv, SettleTimeoutInv, RemovePendingInv, DropWaiterInv DEF IInv, Waiter
<1>4. ASSUME NEW a \in Answers, FindPending(a) \/ Complete(a)
      PROVE  IInv'
  BY <1>4, AnswerTyped, FindPendingInv, ClaimInv, RejectInv, FindClosedInv, PersistInv,
     PersistFailsInv, SubmitInv, DeliverInv DEF IInv, Answering, Complete
<1> QED
  BY <1>1, <1>2, <1>3, <1>4 DEF Next

(* The variables keep to their types.                                       *)
THEOREM Typed == Spec => []TypeOK
<1>1. Init => IInv
  BY InitTyped, AnsweringInit DEF IInv
<1>2. IInv /\ [Next]_vars => IInv'
  BY IInvStep
<1>3. IInv => TypeOK
  BY DEF IInv
<1> QED
  BY <1>1, <1>2, <1>3, PTL DEF Spec

(* An answer in the conversation came from the session that was asked and   *)
(* is not reported as refused, unless the tool went away meanwhile.         *)
THEOREM AcceptedTheorem == Spec => []RecordedIsAccepted
<1>1. Init => IInv
  BY InitTyped, AnsweringInit DEF IInv
<1>2. IInv /\ [Next]_vars => IInv'
  BY IInvStep
<1>3. IInv => RecordedIsAccepted
  BY DEF IInv, Answering
<1> QED
  BY <1>1, <1>2, <1>3, PTL DEF Spec

-----------------------------------------------------------------------------
(* What is over leaves no entry in the table of pending requests.           *)
LEMMA PendingStep ==
  ASSUME TypeOK, NothingLeftPending, [Next]_vars
  PROVE  NothingLeftPending'
<1> USE DEF NothingLeftPending
<1>1. CASE UNCHANGED vars
  BY <1>1 DEF vars
<1>2. ASSUME NEW d \in Dispatches,
             LookForStream(d) \/ RegisterStream(d) \/ Show(d) \/ DropStream(d) \/ Unregister(d)
      PROVE  NothingLeftPending'
  BY <1>2 DEF LookForStream, RegisterStream, Show, DropStream, Unregister
<1>3. ASSUME NEW r \in Requests, FindStream(r) \/ Waiter(r) \/ DropWaiter(r)
      PROVE  NothingLeftPending'
  BY <1>3 DEF TypeOK, FindStream, Waiter, DropWaiter, InsertPending, SendQuestion, SendFails,
     Withdraw, Receive, Expire, SettleTimeout, RemovePending, Ask
<1>4. ASSUME NEW a \in Answers, FindPending(a) \/ Complete(a)
      PROVE  NothingLeftPending'
  BY <1>4 DEF FindPending, Complete, Claim, Reject, FindClosed, Persist, PersistFails, Submit, Deliver
<1> QED
  BY <1>1, <1>2, <1>3, <1>4 DEF Next

THEOREM PendingTheorem == Spec => []NothingLeftPending
<1>1. Init => NothingLeftPending
  BY DEF Init, NothingLeftPending
<1>2. TypeOK /\ NothingLeftPending /\ [Next]_vars => NothingLeftPending'
  BY PendingStep
<1> QED
  BY <1>1, <1>2, Typed, PTL DEF Spec

(* The registered stream belongs to a dispatch that will unregister it, so  *)
(* none stays when no dispatch is under way, however many overlapped.       *)
Owned == sender # None => dispatch[sender] \in {"running", "dropped"}

LEMMA OwnedStep ==
  ASSUME TypeOK, Owned, [Next]_vars
  PROVE  Owned'
<1> USE NoneAssumption DEF Owned
<1>1. CASE UNCHANGED vars
  BY <1>1 DEF vars, streams
<1>2. ASSUME NEW d \in Dispatches,
             LookForStream(d) \/ RegisterStream(d) \/ Show(d) \/ DropStream(d) \/ Unregister(d)
      PROVE  Owned'
  BY <1>2 DEF TypeOK, LookForStream, RegisterStream, Show, DropStream, Unregister, Dispatch, streams
<1>3. ASSUME NEW r \in Requests, FindStream(r) \/ Waiter(r) \/ DropWaiter(r)
      PROVE  Owned'
  BY <1>3 DEF FindStream, Waiter, DropWaiter, InsertPending, SendQuestion, SendFails,
     Withdraw, Receive, Expire, SettleTimeout, RemovePending, streams
<1>4. ASSUME NEW a \in Answers, FindPending(a) \/ Complete(a)
      PROVE  Owned'
  BY <1>4 DEF FindPending, Complete, Claim, Reject, FindClosed, Persist, PersistFails, Submit,
     Deliver, streams
<1> QED
  BY <1>1, <1>2, <1>3, <1>4 DEF Next

THEOREM StreamTheorem == Spec => []NoStaleStream
<1>1. Init => Owned
  BY DEF Init, Owned
<1>2. TypeOK /\ Owned /\ [Next]_vars => Owned'
  BY OwnedStep
<1>3. TypeOK /\ Owned => NoStaleStream
  BY DEF Owned, NoStaleStream, TypeOK
<1> QED
  BY <1>1, <1>2, <1>3, Typed, PTL DEF Spec

-----------------------------------------------------------------------------
(* The three-step answer implements the promise. *)

RecordMap   == [r \in Requests |-> TheOnly(RecordOf(r))]
QuestionMap == [r \in Requests |-> QuestionOf(r)]

(* There is one record, and it is what the map says.                        *)
LEMMA RecordIs ==
  ASSUME OneRecord, NEW r \in Requests, NEW a \in recorded, naming[a] = r
  PROVE  RecordMap[r] = a
<1>1. RecordOf(r) = {a}
  BY DEF OneRecord, RecordOf
<1> QED
  BY <1>1 DEF RecordMap, TheOnly

LEMMA NoRecord ==
  ASSUME NEW r \in Requests, \A a \in recorded : naming[a] # r
  PROVE  RecordMap[r] = None
BY DEF RecordMap, RecordOf, TheOnly

(* The map changes only with what is recorded; found answers keep their     *)
(* names, and an answer that is not found is not recorded.                  *)
LEMMA SameRecords ==
  ASSUME recorded' = recorded, \A a \in recorded : naming'[a] = naming[a]
  PROVE  RecordMap' = RecordMap
<1>1. \A r \in Requests : RecordOf(r)' = RecordOf(r)
  BY DEF RecordOf
<1> QED
  BY <1>1 DEF RecordMap

LEMMA PromiseInit == Init => Promise!Init
<1> SUFFICES ASSUME Init PROVE Promise!Init
  OBVIOUS
<1>1. QuestionMap = [r \in Requests |-> "unasked"]
  BY DEF QuestionMap, QuestionOf, Init
<1>2. RecordMap = [r \in Requests |-> None]
  BY DEF RecordMap, RecordOf, TheOnly, Init
<1> QED
  BY <1>1, <1>2 DEF Promise!Init, QuestionMap, RecordMap, Init

(* A step that moves no question and records nothing is a stutter.          *)
LEMMA Stutters ==
  ASSUME RecordMap' = RecordMap, told' = told,
         \A r \in Requests : QuestionOf(r)' = QuestionOf(r)
  PROVE  UNCHANGED Promise!vars
BY DEF Promise!vars, QuestionMap, RecordMap

(* Steps of dispatches and of answers move no question.                     *)
LEMMA AskKept ==
  ASSUME ask' = ask
  PROVE  \A r \in Requests : QuestionOf(r)' = QuestionOf(r)
BY DEF QuestionOf

(* A step of one waiter moves one question.                                 *)
Phase(stage) ==
  CASE stage = "new" -> "unasked"
    [] stage = "dropped" -> "gone"
    [] stage \in {"withdraw", "remove", "done"} -> "over"
    [] OTHER -> "open"

LEMMA OneMoves ==
  ASSUME TypeOK, NEW r \in Requests, NEW from, NEW to, Ask(r, from, to)
  PROVE  /\ \A q \in Requests \ {r} : QuestionOf(q)' = QuestionOf(q)
         /\ QuestionOf(r) = Phase(from) /\ QuestionOf(r)' = Phase(to)
         /\ QuestionMap[r] = Phase(from) /\ QuestionMap' = [QuestionMap EXCEPT ![r] = Phase(to)]
<1>1. \A q \in Requests \ {r} : ask'[q] = ask[q]
  BY DEF Ask, TypeOK
<1>2. \A q \in Requests \ {r} : QuestionOf(q)' = QuestionOf(q)
  BY <1>1 DEF QuestionOf
<1>3. ask[r] = from /\ ask'[r] = to
  BY DEF Ask, TypeOK
<1>4. QuestionOf(r) = Phase(from) /\ QuestionOf(r)' = Phase(to)
  BY <1>3 DEF QuestionOf, Phase
<1>5. QuestionMap[r] = Phase(from) /\ QuestionMap' = [QuestionMap EXCEPT ![r] = Phase(to)]
  BY <1>2, <1>4 DEF QuestionMap
<1> QED
  BY <1>2, <1>4, <1>5

LEMMA DispatchKeeps ==
  ASSUME IInv, NEW d \in Dispatches,
         LookForStream(d) \/ RegisterStream(d) \/ Show(d) \/ DropStream(d) \/ Unregister(d)
  PROVE  UNCHANGED Promise!vars
<1>1. recorded' = recorded /\ naming' = naming /\ told' = told /\ ask' = ask
  BY DEF LookForStream, RegisterStream, Show, DropStream, Unregister
<1> QED
  BY <1>1, SameRecords, AskKept, Stutters

LEMMA AnswerKeeps ==
  ASSUME IInv, NEW a \in Answers, FindPending(a) \/ Complete(a)
  PROVE  Promise!Next \/ UNCHANGED Promise!vars
<1>1. CASE Persist(a)
  <2>0. answer[a] = "persist" /\ naming[a] \in Requests
    BY <1>1, NoneAssumption DEF Persist, Answer, IInv, Answering, Named, TypeOK
  <2>r. PICK r \in Requests : r = naming[a]
    BY <2>0
  <2>1. /\ answer[a] = "persist" /\ recorded' = recorded \cup {a} /\ naming' = naming
        /\ ask' = ask /\ told' = told
    BY <1>1 DEF Persist, Answer
  <2>2. r \in shown /\ r \in unsent /\ holder[r] = a
    BY <2>1, <2>r, NoneAssumption DEF IInv, Answering, Named, Held, Claiming, TypeOK
  <2>3. ask[r] \in {"waiting", "expired", "dropped"}
    BY <2>2 DEF IInv, Answering, Offered, Unsendable, Reachable, Offers, TypeOK, AskStages
  <2>4. \A b \in recorded : naming[b] # r
    BY <2>1, <2>2, <2>r DEF IInv, Answering, Consumed, Held, Claiming, Recording, TypeOK
  <2>5. RecordMap[r] = None
    BY <2>2, <2>4, NoRecord
  <2>6. RecordOf(r)' = {a} /\ \A q \in Requests \ {r} : RecordOf(q)' = RecordOf(q)
    BY <2>1, <2>4, <2>r DEF RecordOf
  <2>7. RecordMap' = [RecordMap EXCEPT ![r] = a]
    <3>1. TheOnly({a}) = a
      BY DEF TheOnly
    <3>2. TheOnly(RecordOf(r)') = a
      BY <2>6, <3>1
    <3>3. \A q \in Requests \ {r} : TheOnly(RecordOf(q)') = TheOnly(RecordOf(q))
      BY <2>6
    <3>4. RecordMap'[r] = a /\ \A q \in Requests \ {r} : RecordMap'[q] = RecordMap[q]
      BY <2>2, <3>2, <3>3 DEF RecordMap
    <3>5. /\ RecordMap = [q \in Requests |-> RecordMap[q]]
          /\ RecordMap' = [q \in Requests |-> RecordMap'[q]]
      BY DEF RecordMap
    <3> HIDE DEF RecordMap
    <3> QED
      BY <2>2, <3>4, <3>5
  <2>8. QuestionMap' = QuestionMap /\ QuestionMap[r] \in {"open", "gone"}
    BY <2>1, <2>2, <2>3, AskKept DEF QuestionMap, QuestionOf
  <2>9. Promise!Record(r, a)
    BY <2>1, <2>5, <2>7, <2>8 DEF Promise!Record, QuestionMap, RecordMap
  <2> QED
    BY <2>2, <2>9 DEF Promise!Next
<1>2. CASE ~Persist(a)
  <2>1. recorded' = recorded /\ told' = told /\ ask' = ask
    BY <1>2 DEF FindPending, Complete, Claim, Reject, FindClosed, PersistFails, Submit, Deliver
  <2>2. \A b \in recorded : naming'[b] = naming[b]
    <3>1. CASE FindPending(a)
      BY <3>1 DEF FindPending, Answer, IInv, Answering, Recording, TypeOK
    <3>2. CASE ~FindPending(a)
      BY <3>2, <1>2 DEF Complete, Claim, Reject, FindClosed, PersistFails, Submit, Deliver
    <3> QED
      BY <3>1, <3>2
  <2> QED
    BY <2>1, <2>2, SameRecords, AskKept, Stutters
<1> QED
  BY <1>1, <1>2

LEMMA WaiterKeeps ==
  ASSUME IInv, NEW r \in Requests, FindStream(r) \/ Waiter(r) \/ DropWaiter(r)
  PROVE  Promise!Next \/ UNCHANGED Promise!vars
<1>0. recorded' = recorded /\ naming' = naming
  BY DEF FindStream, Waiter, DropWaiter, InsertPending, SendQuestion, SendFails, Withdraw, Receive,
     Expire, SettleTimeout, RemovePending
<1>a. RecordMap' = RecordMap
  BY <1>0, SameRecords
<1>b. TypeOK
  BY DEF IInv
<1>1. CASE FindStream(r)
  <2>1. told' = told /\ (Ask(r, "new", "done") \/ Ask(r, "new", "insert"))
    BY <1>1 DEF FindStream
  <2>2. CASE Ask(r, "new", "done")
    <3>1. QuestionMap[r] = "unasked" /\ QuestionMap' = [QuestionMap EXCEPT ![r] = "over"]
      BY <1>b, <2>2, OneMoves DEF Phase
    <3>2. Promise!Refuse(r)
      BY <1>a, <2>1, <3>1 DEF Promise!Refuse, QuestionMap, RecordMap
    <3> QED
      BY <3>2 DEF Promise!Next
  <2>3. CASE Ask(r, "new", "insert")
    <3>1. QuestionMap[r] = "unasked" /\ QuestionMap' = [QuestionMap EXCEPT ![r] = "open"]
      BY <1>b, <2>3, OneMoves DEF Phase
    <3>2. Promise!Ask(r)
      BY <1>a, <2>1, <3>1 DEF Promise!Ask, QuestionMap, RecordMap
    <3> QED
      BY <3>2 DEF Promise!Next
  <2> QED
    BY <2>1, <2>2, <2>3
<1>2. CASE InsertPending(r) \/ SendQuestion(r) \/ Expire(r)
  <2>1. /\ told' = told
        /\ Ask(r, "insert", "send") \/ Ask(r, "send", "waiting") \/ Ask(r, "waiting", "expired")
    BY <1>2 DEF InsertPending, SendQuestion, Expire
  <2>2. \A q \in Requests : QuestionOf(q)' = QuestionOf(q)
    BY <1>b, <2>1, OneMoves DEF Phase
  <2> QED
    BY <1>a, <2>1, <2>2, Stutters
<1>3. CASE Withdraw(r) \/ RemovePending(r)
  <2>1. told' = told /\ (Ask(r, "withdraw", "done") \/ Ask(r, "remove", "done"))
    BY <1>3 DEF Withdraw, RemovePending
  <2>2. \A q \in Requests : QuestionOf(q)' = QuestionOf(q)
    BY <1>b, <2>1, OneMoves DEF Phase
  <2> QED
    BY <1>a, <2>1, <2>2, Stutters
<1>4. CASE SendFails(r)
  <2>1. told' = told /\ Ask(r, "send", "withdraw")
    BY <1>4 DEF SendFails
  <2>2. \A a \in recorded : naming[a] # r
    BY <2>1 DEF Ask, IInv, Answering, Recording, Named, Offered, Unsendable, TypeOK
  <2>3. QuestionMap[r] = "open" /\ QuestionMap' = [QuestionMap EXCEPT ![r] = "over"]
    BY <1>b, <2>1, OneMoves DEF Phase
  <2>4. RecordMap[r] = None
    BY <2>2, NoRecord
  <2>5. Promise!GiveUp(r)
    BY <1>a, <2>1, <2>3, <2>4 DEF Promise!GiveUp, QuestionMap, RecordMap
  <2> QED
    BY <2>5 DEF Promise!Next
<1>5. CASE SettleTimeout(r)
  <2>1. told' = told /\ holder[r] = None
        /\ Ask(r, "expired", IF r \in unsent THEN "remove" ELSE "late")
    BY <1>5 DEF SettleTimeout
  <2>2. CASE r \in unsent
    <3>1. \A a \in recorded : naming[a] # r
      BY <2>1, <2>2, NoneAssumption DEF IInv, Answering, Consumed, Held, Claiming, TypeOK
    <3>2. QuestionMap[r] = "open" /\ QuestionMap' = [QuestionMap EXCEPT ![r] = "over"]
      BY <1>b, <2>1, <2>2, OneMoves DEF Phase
    <3>3. RecordMap[r] = None
      BY <3>1, NoRecord
    <3>4. Promise!GiveUp(r)
      BY <1>a, <2>1, <3>2, <3>3 DEF Promise!GiveUp, QuestionMap, RecordMap
    <3> QED
      BY <3>4 DEF Promise!Next
  <2>3. CASE r \notin unsent
    <3>1. Ask(r, "expired", "late")
      BY <2>1, <2>3
    <3>2. \A q \in Requests : QuestionOf(q)' = QuestionOf(q)
      BY <1>b, <3>1, OneMoves DEF Phase
    <3> QED
      BY <1>a, <2>1, <3>2, Stutters
  <2> QED
    BY <2>2, <2>3
<1>6. CASE Receive(r)
  <2>1. /\ sent[r] # None /\ told' = [told EXCEPT ![r] = sent[r]]
        /\ Ask(r, "waiting", "remove") \/ Ask(r, "late", "remove")
    BY <1>6 DEF Receive
  <2>2. RecordMap[r] = sent[r]
    BY <2>1, RecordIs DEF IInv, Answering, Sent
  <2>3. QuestionMap[r] = "open" /\ QuestionMap' = [QuestionMap EXCEPT ![r] = "over"]
    BY <1>b, <2>1, OneMoves DEF Phase
  <2>4. Promise!Tell(r)
    BY <1>a, <2>1, <2>2, <2>3 DEF Promise!Tell, QuestionMap, RecordMap
  <2> QED
    BY <2>4 DEF Promise!Next
<1>7. CASE DropWaiter(r)
  <2>1. PICK s \in {"waiting", "expired", "late"} : told' = told /\ Ask(r, s, "dropped")
    BY <1>7 DEF DropWaiter
  <2>2. QuestionMap[r] = "open" /\ QuestionMap' = [QuestionMap EXCEPT ![r] = "gone"]
    BY <1>b, <2>1, OneMoves DEF Phase
  <2>3. Promise!Leave(r)
    BY <1>a, <2>1, <2>2 DEF Promise!Leave, QuestionMap, RecordMap
  <2> QED
    BY <2>3 DEF Promise!Next
<1> QED
  BY <1>1, <1>2, <1>3, <1>4, <1>5, <1>6, <1>7 DEF Waiter

(* A tool is told the answer that is recorded, only that one is ever        *)
(* recorded, and it is told of none only when none is.                      *)
THEOREM PromiseTheorem == Spec => KeepsThePromise
<1>1. Init => IInv /\ Promise!Init
  BY InitTyped, AnsweringInit, PromiseInit DEF IInv
<1>2. IInv /\ [Next]_vars => IInv'
  BY IInvStep
<1>3. IInv /\ [Next]_vars => [Promise!Next]_(Promise!vars)
  <2>1. CASE UNCHANGED vars
    <3>1. recorded' = recorded /\ naming' = naming /\ told' = told /\ ask' = ask
      BY <2>1 DEF vars
    <3> QED
      BY <3>1, SameRecords, AskKept, Stutters
  <2> QED
    BY <2>1, DispatchKeeps, WaiterKeeps, AnswerKeeps DEF Next
<1> QED
  BY <1>1, <1>2, <1>3, PTL DEF Spec, Promise!Spec, KeepsThePromise

=============================================================================
