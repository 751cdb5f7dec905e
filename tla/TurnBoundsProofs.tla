-------------------------- MODULE TurnBoundsProofs --------------------------
(***************************************************************************)
(* The bounds a turn keeps, for all values of the constants of             *)
(* TurnMachine: Stop-hook denials, reactive compactions and retries are    *)
(* counted in the conversation itself, which effects append to, edit and   *)
(* replace while clients write to it; and no queued guidance is lost.      *)
(*                                                                         *)
(* Every step of the machine is first put into one of six classes by what  *)
(* it does to the store and to the effects that are still to be persisted; *)
(* each invariant is then shown to survive the six.                        *)
(***************************************************************************)
EXTENDS TurnProofs

Working == Operations \cup {"tools", "provider"}

Adds(e, kind) == e.op = "append" /\ e.msg.kind = kind

(* What was stored after the snapshot was taken can only be answers of the *)
(* user.                                                                   *)
Continues(c, s) ==
  /\ Len(s) <= Len(c)
  /\ \A i \in DOMAIN s : c[i] = s[i]
  /\ \A i \in DOMAIN c \ DOMAIN s : c[i].kind = "approval" /\ ~c[i].uv /\ c[i].note \in Answers

(* A step holds effects only while they are persisted, tools only while    *)
(* they run, and replaces the conversation by an effect that comes alone.  *)
StepInv ==
  /\ pc # "apply" => effects = <<>>
  /\ pc # "tools" => running = {}
  /\ pc \in Working => Continues(conv, snap)
  /\ \A k \in DOMAIN effects : effects[k].op = "replace" => Len(effects) = 1

-----------------------------------------------------------------------------
(* The classes of steps *)

(* Effects that open no turn, count for none of the bounds, carry no        *)
(* guidance of the user and ask no question in chat mode.                   *)
LightMsg(m) ==
  /\ m.kind \notin {"denial", "summary", "approval"} /\ ~IsKickoff(m) /\ m.note # "steer"
  /\ m.kind = "contextError" => ~m.av
  /\ m.kind = "ask" => Mode # "chat"

Light(e) == e.op \in {"patch", "hide", "usage"} \/ (e.op = "append" /\ LightMsg(e.msg))

Denial == Msg("denial", FALSE, TRUE, {}, "none")

(* Calls the turn has not answered. *)
Open(c) == IdsAt(c, Unanswered(c))

(* What an operation or a stream leaves to be persisted: remarks, marks and *)
(* questions;                                                               *)
Remarks ==
  /\ \A k \in DOMAIN effects' :
       Light(effects'[k]) /\ ~Adds(effects'[k], "request") /\ ~Adds(effects'[k], "response")
  /\ UNCHANGED <<executed, emitted, resets, queue>>

(* the response to calls that were running, open, or executed on the spot;  *)
Responds ==
  /\ \E S \in SUBSET Requests, note \in {"none", "success"} :
       /\ effects' = <<Append_(Response(S, note))>>
       /\ \/ pc = "tools" /\ S = running /\ executed' = executed
          \/ S \subseteq Open(snap) /\ executed' = executed
          \/ \E r \in Open(snap) : S = {r} /\ executed' = [executed EXCEPT ![r] = @ + 1]
  /\ UNCHANGED <<emitted, resets, queue>>

(* what a stream brought, closed if the run is cancelled;                   *)
Streams ==
  /\ \E streamed \in SUBSET (Requests \ emitted), effs \in Seq(Effect) :
       /\ emitted' = emitted \cup streamed
       /\ effects' \in {effs, effs \o Closing(snap, streamed)}
       /\ \A k \in DOMAIN effs :
            /\ Light(effs[k]) /\ ~Adds(effs[k], "response")
            /\ Adds(effs[k], "request") => effs[k].msg.ids \subseteq streamed
  /\ UNCHANGED <<executed, resets, queue>>

(* a prompt: the recipe's, the user's guidance, or a Stop hook's;           *)
Urges ==
  /\ \/ FinalOutput /\ effects' = <<Append_(Prompt("continuation"))>> /\ queue' = queue
     \/ effects' = [k \in 1 .. queue |-> Append_(Prompt("steer"))] /\ queue' = 0
     \/ /\ effects' = <<Append_(Denial)>> /\ queue' = queue
        /\ Cardinality(Denials(snap)) + 1 <= BlockCap
  /\ UNCHANGED <<executed, emitted, resets>>

(* a compacted conversation, or one that begins the turn again.             *)
Rewrites ==
  /\ \/ /\ NeedsCompaction(snap) /\ effects' = <<Replace(Compacted(snap))>> /\ resets' = resets
     \/ /\ snap[Kickoff(snap)].attempts < MaxRetries
        /\ effects' = <<Replace(ResetConversation(snap))>> /\ resets' = resets + 1
  /\ UNCHANGED <<executed, emitted, queue>>

Brings == Remarks \/ Responds \/ Streams \/ Urges \/ Rewrites

Works ==
  /\ pc \in Working /\ pc' = "apply" /\ conv' = conv /\ snap' = snap /\ running' = {}
  /\ used'.crashes = used.crashes /\ used'.steers = used.steers
  /\ Brings

(* Neither the store nor what is to be persisted changes. *)
Steady == used'.crashes = used.crashes /\ used'.steers + queue = used.steers + queue'

Onward ==
  /\ UNCHANGED <<conv, effects, emitted, resets>> /\ Steady
  /\ \/ pc \in Operations /\ pc' \in Working /\ snap' = snap
     \/ pc = "load" /\ pc' \in Working /\ snap' = conv
     \/ pc = "idle" /\ pc' = "load"
     \/ pc' = pc /\ snap' = snap
  /\ UNCHANGED <<executed, running>> \/ (DispatchTools /\ pc' = "tools")

(* The step is over, or the run is. *)
Ends ==
  /\ UNCHANGED <<conv, executed, emitted, resets>>
  /\ effects' = <<>> /\ running' = {} /\ pc' \in {"idle", "load"}
  /\ \/ used'.crashes = used.crashes + 1
     \/ effects = <<>> /\ running = {} /\ Steady

(* A client's message is stored. *)
Speaks ==
  \/ \E note \in PromptNotes : Reply(note)
  \/ \E r \in Requests, ans \in GivenAnswers : Confirm(r, ans)

LEMMA WorkingFacts ==
  /\ Operations \subseteq Working /\ "tools" \in Working /\ "provider" \in Working
  /\ {"apply", "idle", "load"} \cap Working = {} /\ "tools" \notin Operations
BY PipelineOrder DEF Working

LEMMA PassOnward ==
  ASSUME TypeInv, NEW op \in Operations \ {"llm"}, pc = op, Pass(op),
         UNCHANGED <<conv, emitted, resets, executed, queue, used>>
  PROVE  Onward
<1>1. After(op) \in Working
  BY AfterTyped, WorkingFacts
<1>2. queue \in Nat /\ used.steers \in Nat
  BY DEF TypeInv, MemoryOK, HistoryOK
<1>3. pc \in Operations /\ pc' \in Working /\ UNCHANGED <<snap, effects, running>>
  BY <1>1, WorkingFacts DEF Pass, step
<1> QED BY <1>2, <1>3 DEF Onward, Steady

LEMMA AppliedWorks ==
  ASSUME NEW effs, NEW yield, Applied(effs, yield), pc \in Working, conv' = conv, used' = used,
         effects' = effs => Brings
  PROVE  Works
BY DEF Applied, Works

(* The messages of the machine, by what they count for. *)
Casual(m) == LightMsg(m) /\ m.kind \notin {"request", "response"}

LEMMA MessageKinds ==
  /\ \A note \in {"none", "budget"} : Casual(Text(note))
  /\ Casual(UserOnlyText) /\ Casual(HiddenPrompt) /\ Casual(Msg("nudge", FALSE, TRUE, {}, "none"))
  /\ \A kind \in Errors : Casual(ErrorMsg(kind))
  /\ Mode # "chat" => \A r : Casual(Ask(r))
  /\ \A r : /\ LightMsg(Request(r)) /\ Request(r).kind = "request" /\ Request(r).ids = {r}
  /\ \A S : \A note \in {"none", "success"} :
       LightMsg(Response(S, note)) /\ Response(S, note).kind = "response" /\ Response(S, note).ids = S
BY DEF Casual, LightMsg, IsKickoff, Msg, Text, UserOnlyText, HiddenPrompt, ErrorMsg, Errors, Ask, Request,
       Response, UserKinds

Remark(e) == Light(e) /\ ~Adds(e, "request") /\ ~Adds(e, "response")

LEMMA RemarkEffects ==
  /\ \A m : Casual(m) => Remark(Append_(m))
  /\ \A i : Remark(Hide(i))
  /\ \A r, note : Remark(Patch(r, note))
  /\ \A b : Remark(Usage(b))
BY DEF Remark, Casual, Light, Adds, Append_, Hide, Patch, Usage

LEMMA RemarkLists ==
  /\ \A k \in DOMAIN <<>> : FALSE
  /\ \A a : Remark(a) => \A k \in DOMAIN <<a>> : Remark(<<a>>[k])
  /\ \A a, b, c : Remark(a) /\ Remark(b) /\ Remark(c) => \A k \in DOMAIN <<a, b, c>> : Remark(<<a, b, c>>[k])
<1>1. \A a : \A k \in DOMAIN <<a>> : <<a>>[k] = a
  OBVIOUS
<1>2. \A a, b, c : \A k \in DOMAIN <<a, b, c>> : <<a, b, c>>[k] \in {a, b, c}
  OBVIOUS
<1>3. \A k \in DOMAIN <<>> : FALSE
  OBVIOUS
<1>4. ASSUME NEW a, NEW b, NEW c, Remark(a), Remark(b), Remark(c), NEW k \in DOMAIN <<a, b, c>>
      PROVE  Remark(<<a, b, c>>[k])
  <2>1. <<a, b, c>>[k] = a \/ <<a, b, c>>[k] = b \/ <<a, b, c>>[k] = c
    BY <1>2
  <2> QED BY <1>4, <2>1
<1> QED BY <1>1, <1>3, <1>4

(* The history and the queue are as they were. *)
Idle == UNCHANGED <<executed, emitted, resets, queue>>

LEMMA AppliedRemarks ==
  ASSUME NEW effs, NEW yield, Applied(effs, yield), pc \in Working, conv' = conv, used' = used, Idle,
         \A k \in DOMAIN effs : Remark(effs[k])
  PROVE  Works
BY AppliedWorks DEF Brings, Remarks, Remark, Idle

LEMMA AppliedRemark ==
  ASSUME NEW m, Casual(m), NEW yield, Applied(<<Append_(m)>>, yield), pc \in Working, conv' = conv,
         used' = used, Idle
  PROVE  Works
<1>1. \A k \in DOMAIN <<Append_(m)>> : Remark(<<Append_(m)>>[k])
  BY RemarkEffects, RemarkLists
<1> QED BY <1>1, AppliedRemarks

-----------------------------------------------------------------------------
(* The class of each step *)

LEMMA KernelClass ==
  ASSUME TypeInv, StepInv, Load \/ SkipCancelled \/ EndStep
  PROVE  Onward \/ Ends
<1>1. UNCHANGED <<conv, executed, emitted, resets, queue, used>>
  BY DEF Load, SkipCancelled, EndStep, persisted, memory, history
<1>2. queue \in Nat /\ used.steers \in Nat
  BY DEF TypeInv, MemoryOK, HistoryOK
<1>3. CASE Load
  <2>1. pc = "load" /\ pc' \in Working /\ snap' = conv /\ UNCHANGED <<effects, running>>
    BY <1>3, PipelineOrder, WorkingFacts DEF Load
  <2> QED BY <1>1, <1>2, <2>1 DEF Onward, Steady
<1>4. CASE SkipCancelled
  BY <1>1, <1>4, PassOnward DEF SkipCancelled
<1>5. CASE EndStep
  <2>1. effects = <<>> /\ running = {} /\ effects' = <<>> /\ running' = {} /\ pc' \in {"idle", "load"}
    BY <1>5 DEF EndStep, Clear, StepInv
  <2> QED BY <1>1, <1>2, <2>1 DEF Ends, Steady
<1> QED BY <1>3, <1>4, <1>5

LEMMA SlashCommandClass ==
  ASSUME TypeInv, SlashCommand
  PROVE  Onward \/ Works
<1> DEFINE effs == <<Hide(Len(snap)), Append_(UserOnlyText), Append_(HiddenPrompt)>>
<1>1. /\ pc = "slash_command" /\ pc \in Operations \ {"llm"} /\ pc \in Working
      /\ UNCHANGED <<conv, executed, emitted, resets, queue, used>>
  BY PipelineOrder, WorkingFacts DEF SlashCommand, At, persisted, history
<1>2. \A k \in DOMAIN effs : Remark(effs[k])
  BY MessageKinds, RemarkEffects, RemarkLists
<1> HIDE DEF effs
<1>3. Pass("slash_command") \/ Applied(effs, FALSE)
  BY DEF SlashCommand, effs
<1> QED BY <1>1, <1>2, <1>3, PassOnward, AppliedRemarks DEF Idle

LEMMA SteerClass ==
  ASSUME TypeInv, Steer
  PROVE  Onward \/ Works
<1> DEFINE effs == [k \in 1 .. queue |-> Append_(Prompt("steer"))]
<1>1. /\ pc = "steer" /\ pc \in Operations \ {"llm"} /\ pc \in Working
      /\ UNCHANGED <<conv, executed, emitted, resets, used>>
  BY PipelineOrder, WorkingFacts DEF Steer, At, persisted, history
<1>2. CASE Pass("steer") /\ UNCHANGED queue
  BY <1>1, <1>2, PassOnward
<1>3. CASE Applied(effs, FALSE) /\ queue' = 0
  <2>1. effects' = effs => Urges
    BY <1>1, <1>3 DEF Urges
  <2> HIDE DEF effs
  <2> QED BY <1>1, <1>3, <2>1, AppliedWorks DEF Brings
<1> QED BY <1>2, <1>3 DEF Steer

(* Operations that append one message or rewrite the conversation. *)
LEMMA QuietOperationsClass ==
  ASSUME TypeInv, StepInv, StopAtMaxTurns \/ Compact \/ StopHook \/ ExitOnError
  PROVE  Onward \/ Works
<1>1. UNCHANGED <<conv, executed, emitted, resets, queue, used>>
  BY DEF StopAtMaxTurns, Compact, StopHook, ExitOnError, persisted, memory, history
<1>2. ASSUME NEW op \in Operations \ {"llm"}, pc = op,
             \/ Pass(op)
             \/ \E yield : Applied(<<>>, yield)
             \/ \E m, yield : Casual(m) /\ Applied(<<Append_(m)>>, yield)
      PROVE  Onward \/ Works
  <2>1. pc \in Working /\ \A k \in DOMAIN <<>> : Remark(<<>>[k])
    BY <1>2, WorkingFacts
  <2> QED BY <1>1, <1>2, <2>1, PassOnward, AppliedRemarks, AppliedRemark DEF Idle
<1>3. CASE StopAtMaxTurns
  <2>1. pc = "max_turns" /\ "max_turns" \in Operations \ {"llm"}
    BY <1>3, PipelineOrder DEF StopAtMaxTurns, At
  <2>2. Pass("max_turns") \/ Applied(<<Append_(Text("budget"))>>, TRUE)
    BY <1>3 DEF StopAtMaxTurns
  <2> QED BY <1>2, <2>1, <2>2, MessageKinds
<1>4. CASE Compact
  <2>1. pc = "compaction" /\ "compaction" \in Operations \ {"llm"} /\ pc \in Working
    BY <1>4, PipelineOrder, WorkingFacts DEF Compact, At
  <2>2. \/ Pass("compaction") \/ Applied(<<>>, TRUE)
        \/ Applied(<<Replace(Compacted(snap))>>, FALSE) /\ NeedsCompaction(snap)
    BY <1>4 DEF Compact
  <2>3. CASE Applied(<<Replace(Compacted(snap))>>, FALSE) /\ NeedsCompaction(snap)
    <3> DEFINE effs == <<Replace(Compacted(snap))>>
    <3>1. effects' = effs => Rewrites
      BY <1>1, <2>3 DEF Rewrites
    <3> HIDE DEF effs
    <3> QED BY <1>1, <2>1, <2>3, <3>1, AppliedWorks DEF Brings, effs
  <2> QED BY <1>2, <2>1, <2>2, <2>3
<1>5. CASE StopHook
  <2>1. pc = "stop_hook" /\ "stop_hook" \in Operations \ {"llm"} /\ pc \in Working
    BY <1>5, PipelineOrder, WorkingFacts DEF StopHook, At
  <2>2. \/ Pass("stop_hook") \/ Applied(<<>>, TRUE) \/ Applied(<<Append_(UserOnlyText)>>, TRUE)
        \/ Applied(<<Append_(Denial)>>, FALSE) /\ ~(Cardinality(Denials(snap)) + 1 > BlockCap)
    BY <1>5 DEF StopHook, Denial
  <2>3. CASE Applied(<<Append_(Denial)>>, FALSE) /\ ~(Cardinality(Denials(snap)) + 1 > BlockCap)
    <3>1. Denials(snap) \subseteq DOMAIN snap /\ IsFiniteSet(DOMAIN snap) /\ BlockCap \in Nat
      <4>1. snap \in Seq(Message)
        BY DEF TypeInv, ControlOK
      <4>2. DOMAIN snap = 1 .. Len(snap) /\ Len(snap) \in Nat
        BY <4>1
      <4> QED BY <4>2, FS_Interval, NumbersAssumption DEF Denials, Turn
    <3>2. Cardinality(Denials(snap)) \in Nat
      BY <3>1, FS_Subset, FS_CardinalityType
    <3>3. Cardinality(Denials(snap)) + 1 <= BlockCap
      BY <2>3, <3>1, <3>2
    <3> DEFINE effs == <<Append_(Denial)>>
    <3>4. effects' = effs => Urges
      BY <1>1, <3>3 DEF Urges
    <3> HIDE DEF effs
    <3> QED BY <1>1, <2>1, <2>3, <3>4, AppliedWorks DEF Brings, effs
  <2> QED BY <1>2, <2>1, <2>2, <2>3, MessageKinds
<1>6. CASE ExitOnError
  <2>1. pc = "exit_on_error" /\ "exit_on_error" \in Operations \ {"llm"}
    BY <1>6, PipelineOrder DEF ExitOnError, At
  <2>2. Pass("exit_on_error") \/ Applied(<<>>, TRUE)
    BY <1>6 DEF ExitOnError
  <2> QED BY <1>2, <2>1, <2>2
<1> QED BY <1>3, <1>4, <1>5, <1>6

(* Marks on requests, and the questions to the user. *)
LEMMA ApprovalShape ==
  ASSUME NEW c \in Seq(Message), NEW q1 \in Orders(ToMark(c)), NEW lvl,
         NEW q2 \in Orders(WithVerdict(c, lvl, "denied")),
         NEW q3 \in Orders(WithVerdict(c, lvl, "needs_approval"))
  PROVE  \A k \in DOMAIN ApprovalEffects(c, q1, q2, q3) :
           ApprovalEffects(c, q1, q2, q3)[k] \in
             {Patch(RequestAt(c, i), note) : i \in DOMAIN c, note \in {"yes", "no"}}
               \cup {Append_(Ask(RequestAt(c, i))) : i \in WithVerdict(c, lvl, "needs_approval")}
<1> DEFINE R == {Patch(RequestAt(c, i), note) : i \in DOMAIN c, note \in {"yes", "no"}}
                  \cup {Append_(Ask(RequestAt(c, i))) : i \in WithVerdict(c, lvl, "needs_approval")}
           marks == [k \in 1 .. Len(q1) |-> Patch(RequestAt(c, q1[k]), Decision(c, q1[k]))]
           denials == [k \in 1 .. Len(q2) |-> Patch(RequestAt(c, q2[k]), "no")]
           questions == [k \in 1 .. 2 * Len(q3) |->
                          IF k % 2 = 1 THEN Patch(RequestAt(c, q3[(k + 1) \div 2]), "no")
                                       ELSE Append_(Ask(RequestAt(c, q3[k \div 2])))]
<1>1. /\ \A k \in 1 .. Len(q1) : q1[k] \in DOMAIN c
      /\ \A k \in 1 .. Len(q2) : q2[k] \in DOMAIN c
      /\ \A k \in 1 .. Len(q3) : q3[k] \in DOMAIN c /\ q3[k] \in WithVerdict(c, lvl, "needs_approval")
      /\ Len(q1) \in Nat /\ Len(q2) \in Nat /\ Len(q3) \in Nat
  <2>1. /\ ToMark(c) \in SUBSET DOMAIN c /\ WithVerdict(c, lvl, "denied") \in SUBSET DOMAIN c
        /\ WithVerdict(c, lvl, "needs_approval") \in SUBSET DOMAIN c
    BY DEF ToMark, WithVerdict, Decided, Pending, Unanswered, Turn
  <2> QED BY <2>1, OrdersTyped
<1>2. marks \in Seq(R)
  <2>1. \A k \in 1 .. Len(q1) : marks[k] \in R
    BY <1>1 DEF Decision
  <2> HIDE DEF R
  <2> QED BY <1>1, <2>1
<1>3. denials \in Seq(R)
  <2>1. \A k \in 1 .. Len(q2) : denials[k] \in R
    BY <1>1
  <2> HIDE DEF R
  <2> QED BY <1>1, <2>1
<1>4. questions \in Seq(R)
  <2>1. \A k \in 1 .. 2 * Len(q3) : IF k % 2 = 1 THEN (k + 1) \div 2 \in 1 .. Len(q3)
                                                  ELSE k \div 2 \in 1 .. Len(q3)
    BY <1>1
  <2>2. \A k \in 1 .. 2 * Len(q3) : questions[k] \in R
    BY <1>1, <2>1
  <2>3. 2 * Len(q3) \in Nat
    BY <1>1
  <2> HIDE DEF R
  <2> QED BY <2>2, <2>3
<1>5. ApprovalEffects(c, q1, q2, q3) = marks \o denials \o questions
  BY DEF ApprovalEffects
<1> HIDE DEF R, marks, denials, questions
<1>6. ApprovalEffects(c, q1, q2, q3) \in Seq(R)
  BY <1>2, <1>3, <1>4, <1>5
<1>7. \A k \in DOMAIN ApprovalEffects(c, q1, q2, q3) : ApprovalEffects(c, q1, q2, q3)[k] \in R
  BY <1>6
<1> QED BY <1>7 DEF R

LEMMA ApprovalRemarks ==
  ASSUME NEW c \in Seq(Message), NEW q1 \in Orders(ToMark(c)), NEW lvl,
         NEW q2 \in Orders(WithVerdict(c, lvl, "denied")),
         NEW q3 \in Orders(WithVerdict(c, lvl, "needs_approval")), Mode # "chat"
  PROVE  \A k \in DOMAIN ApprovalEffects(c, q1, q2, q3) : Remark(ApprovalEffects(c, q1, q2, q3)[k])
<1>1. \A i, note : Remark(Patch(RequestAt(c, i), note)) /\ Remark(Append_(Ask(RequestAt(c, i))))
  BY RemarkEffects, MessageKinds
<1> QED BY <1>1, ApprovalShape

LEMMA ApproveClass ==
  ASSUME TypeInv, Approve
  PROVE  Onward \/ Works
<1> DEFINE lvl    == IF Mode = "chat" THEN level ELSE UpdatedLevel(snap)
           denied == WithVerdict(snap, lvl, "denied")
           ask    == WithVerdict(snap, lvl, "needs_approval")
<1>1. /\ pc = "tool_approval" /\ "tool_approval" \in Operations \ {"llm"} /\ pc \in Working
      /\ snap \in Seq(Message)
      /\ UNCHANGED <<conv, executed, emitted, resets, queue, used>>
  BY PipelineOrder, WorkingFacts DEF Approve, At, TypeInv, ControlOK, memory, history
<1>2. \/ Pass("tool_approval")
      \/ /\ Mode # "chat"
         /\ \E q1 \in Orders(ToMark(snap)), q2 \in Orders(denied), q3 \in Orders(ask) :
              Applied(ApprovalEffects(snap, q1, q2, q3), FALSE)
  BY DEF Approve
<1> HIDE DEF lvl
<1>3. ASSUME NEW q1 \in Orders(ToMark(snap)), NEW q2 \in Orders(denied), NEW q3 \in Orders(ask),
             Applied(ApprovalEffects(snap, q1, q2, q3), FALSE), Mode # "chat"
      PROVE  Works
  <2>1. \A k \in DOMAIN ApprovalEffects(snap, q1, q2, q3) : Remark(ApprovalEffects(snap, q1, q2, q3)[k])
    BY <1>1, <1>3, ApprovalRemarks
  <2> QED BY <1>1, <1>3, <2>1, AppliedRemarks DEF Idle
<1> QED BY <1>1, <1>2, <1>3, PassOnward

(* The call at an unanswered position. *)
LEMMA OpenTyped ==
  ASSUME NEW c \in Seq(Message)
  PROVE  /\ \A i \in Unanswered(c) : RequestAt(c, i) \in Open(c)
         /\ Open(c) \subseteq Requests
<1>1. \A i \in Unanswered(c) : i \in DOMAIN c /\ c[i].kind = "request"
  BY DEF Unanswered, Turn
<1> QED BY <1>1, RequestAtTyped DEF Open, IdsAt

LEMMA AppliedResponse ==
  ASSUME NEW S \in SUBSET Requests, NEW note \in {"none", "success"}, NEW yield,
         Applied(<<Append_(Response(S, note))>>, yield), pc \in Working,
         UNCHANGED <<conv, emitted, resets, queue, used>>,
         \/ pc = "tools" /\ S = running /\ executed' = executed
         \/ S \subseteq Open(snap) /\ executed' = executed
         \/ \E r \in Open(snap) : S = {r} /\ executed' = [executed EXCEPT ![r] = @ + 1]
  PROVE  Works
<1> DEFINE effs == <<Append_(Response(S, note))>>
<1>1. effects' = effs => Responds
  BY DEF Responds
<1> HIDE DEF effs
<1> QED BY <1>1, AppliedWorks DEF Brings, effs

LEMMA RecipeClass ==
  ASSUME TypeInv, Recipe
  PROVE  Onward \/ Works
<1>1. /\ pc = "recipe" /\ "recipe" \in Operations \ {"llm"} /\ pc \in Working /\ snap \in Seq(Message)
      /\ UNCHANGED <<conv, emitted, resets, queue, used>>
  BY PipelineOrder, WorkingFacts DEF Recipe, At, TypeInv, ControlOK, persisted, memory
<1>2. CASE Pass("recipe") /\ UNCHANGED executed
  BY <1>1, <1>2, PassOnward
<1>3. ASSUME NEW i \in FirstFinal(snap), NEW outcome \in {"none", "success"},
             Applied(<<Append_(Response({RequestAt(snap, i)}, outcome))>>, FALSE),
             \/ UNCHANGED executed
             \/ executed' = [executed EXCEPT ![RequestAt(snap, i)] = @ + 1]
      PROVE  Works
  <2>1. i \in Unanswered(snap)
    BY DEF FirstFinal
  <2>2. RequestAt(snap, i) \in Open(snap) /\ RequestAt(snap, i) \in Requests
    BY <1>1, <2>1, OpenTyped
  <2> QED BY <1>1, <1>3, <2>2, AppliedResponse
<1>4. CASE Applied(<<Append_(Text("none"))>>, FALSE) /\ UNCHANGED executed
  BY <1>1, <1>4, MessageKinds, AppliedRemark DEF Idle
<1>5. CASE FinalOutput /\ Applied(<<Append_(Prompt("continuation"))>>, FALSE) /\ UNCHANGED executed
  <2> DEFINE effs == <<Append_(Prompt("continuation"))>>
  <2>1. effects' = effs => Urges
    BY <1>1, <1>5 DEF Urges
  <2> HIDE DEF effs
  <2> QED BY <1>1, <1>5, <2>1, AppliedWorks DEF Brings, effs
<1> QED BY <1>2, <1>3, <1>4, <1>5 DEF Recipe

LEMMA ToolClass ==
  ASSUME TypeInv, StepInv, DispatchTools \/ FinishTools \/ AnswerUnknown
  PROVE  Onward \/ Works
<1>1. /\ snap \in Seq(Message) /\ running \in SUBSET Requests
      /\ UNCHANGED <<conv, emitted, resets, queue, used>>
  BY DEF DispatchTools, FinishTools, AnswerUnknown, TypeInv, ControlOK, persisted, memory, history
<1>2. queue \in Nat /\ used.steers \in Nat
  BY DEF TypeInv, MemoryOK, HistoryOK
<1>3. CASE DispatchTools
  <2>1. pc = "tool_execution" /\ "tool_execution" \in Operations \ {"llm"} /\ pc \in Working
    BY <1>3, PipelineOrder, WorkingFacts DEF DispatchTools, At
  <2>2. CASE Pass("tool_execution") /\ UNCHANGED executed
    BY <1>1, <2>1, <2>2, PassOnward
  <2>3. CASE pc' = "tools" /\ UNCHANGED <<snap, effects>>
    BY <1>1, <1>2, <1>3, <2>1, <2>3, WorkingFacts DEF Onward, Steady
  <2> QED BY <1>3, <2>2, <2>3 DEF DispatchTools
<1>4. CASE FinishTools
  <2>1. pc = "tools" /\ pc \in Working /\ executed' = executed
        /\ Applied(<<Append_(Response(running, "none"))>>, FALSE)
    BY <1>4, WorkingFacts DEF FinishTools, history
  <2> QED BY <1>1, <2>1, AppliedResponse
<1>5. CASE AnswerUnknown
  <2>1. /\ pc = "unknown_tool" /\ "unknown_tool" \in Operations \ {"llm"} /\ pc \in Working
        /\ executed' = executed
    BY <1>5, PipelineOrder, WorkingFacts DEF AnswerUnknown, At, history
  <2> DEFINE S == IdsAt(snap, Unclaimed(snap))
  <2>2. Pass("unknown_tool") \/ Applied(<<Append_(Response(S, "none"))>>, FALSE)
    BY <1>5 DEF AnswerUnknown
  <2>3. S \subseteq Open(snap)
    BY DEF Unclaimed, Open, IdsAt
  <2>4. S \in SUBSET Requests
    BY <1>1, <2>3, OpenTyped
  <2> HIDE DEF S
  <2> QED BY <1>1, <2>1, <2>2, <2>3, <2>4, PassOnward, AppliedResponse
<1> QED BY <1>3, <1>4, <1>5

LEMMA RetryClass ==
  ASSUME TypeInv, Retry
  PROVE  Onward \/ Works
<1> DEFINE nudge == Msg("nudge", FALSE, TRUE, {}, "none")
           effs  == <<Replace(ResetConversation(snap))>>
<1>1. /\ pc = "retry" /\ "retry" \in Operations \ {"llm"} /\ pc \in Working
      /\ UNCHANGED <<conv, executed, emitted, queue, used>>
  BY PipelineOrder, WorkingFacts DEF Retry, At, persisted
<1>2. \/ /\ UNCHANGED resets
         /\ \/ Pass("retry") \/ Applied(<<Append_(nudge)>>, FALSE) \/ Applied(<<Append_(HiddenPrompt)>>, FALSE)
            \/ Applied(<<Append_(ErrorMsg("otherError"))>>, FALSE)
      \/ /\ Applied(effs, FALSE) /\ resets' = resets + 1
         /\ snap[Kickoff(snap)].attempts < MaxRetries
  BY DEF Retry, Nudge, Check
<1>3. Casual(nudge) /\ Casual(HiddenPrompt) /\ Casual(ErrorMsg("otherError"))
  BY MessageKinds DEF Errors
<1>4. CASE Applied(effs, FALSE) /\ resets' = resets + 1 /\ snap[Kickoff(snap)].attempts < MaxRetries
  <2>1. effects' = effs => Rewrites
    BY <1>1, <1>4 DEF Rewrites
  <2> HIDE DEF effs
  <2> QED BY <1>1, <1>4, <2>1, AppliedWorks DEF Brings
<1> HIDE DEF nudge, effs
<1> QED BY <1>1, <1>2, <1>3, <1>4, PassOnward, AppliedRemark DEF Idle

LEMMA StopEnds ==
  ASSUME StepInv, Stop, pc = "llm", UNCHANGED <<conv, executed, emitted, resets, queue, used>>,
         TypeInv
  PROVE  Ends
<1>1. effects = <<>> /\ running = {}
  BY DEF StepInv
<1>2. queue \in Nat /\ used.steers \in Nat
  BY DEF TypeInv, MemoryOK, HistoryOK
<1> QED BY <1>1, <1>2 DEF Ends, Stop, Clear, Steady

LEMMA InferenceClass ==
  ASSUME TypeInv, StepInv, Infer \/ CancelOpen
  PROVE  Onward \/ Ends \/ Works
<1>1. /\ pc = "llm" /\ pc \in Operations /\ pc \in Working /\ snap \in Seq(Message) /\ emitted \subseteq Requests
      /\ UNCHANGED <<conv, executed, emitted, resets, queue, used>>
  BY PipelineOrder, WorkingFacts
     DEF Infer, CancelOpen, At, TypeInv, ControlOK, HistoryOK, persisted, memory, history
<1>2. queue \in Nat /\ used.steers \in Nat
  BY DEF TypeInv, MemoryOK, HistoryOK
<1>3. CASE Stop
  BY <1>1, <1>3, StopEnds
<1>4. CASE pc' = "provider" /\ UNCHANGED <<step, cancelled>>
  BY <1>1, <1>2, <1>4, WorkingFacts DEF Onward, Steady, step
<1>5. CASE Applied(Closing(snap, {}), TRUE)
  <2> DEFINE effs == Closing(snap, {})
  <2>1. effs \in Seq(Effect)
    BY <1>1, ClosingTyped
  <2>2. effects' = effs => Streams
    <3> HIDE DEF effs
    <3> SUFFICES ASSUME effects' = effs PROVE Streams
      OBVIOUS
    <3>1. <<>> \in Seq(Effect) /\ \A k \in DOMAIN <<>> : FALSE
      BY NoEffects
    <3>2. effs = <<>> \o effs
      BY <2>1
    <3>3. {} \in SUBSET (Requests \ emitted) /\ emitted' = emitted \cup {}
      BY <1>1
    <3>4. \E e \in Seq(Effect) :
            /\ effects' \in {e, e \o Closing(snap, {})}
            /\ \A k \in DOMAIN e : /\ Light(e[k]) /\ ~Adds(e[k], "response")
                                   /\ Adds(e[k], "request") => e[k].msg.ids \subseteq {}
      BY <3>1, <3>2 DEF effs
    <3> QED BY <1>1, <3>3, <3>4 DEF Streams
  <2> HIDE DEF effs
  <2> QED BY <1>1, <1>5, <2>2, AppliedWorks DEF Brings, effs
<1> QED BY <1>3, <1>4, <1>5 DEF Infer, CancelOpen

(* What a stream may bring: remarks and new requests. *)
Brought(effs, streamed) ==
  /\ effs \in Seq(Effect)
  /\ \A k \in DOMAIN effs :
       /\ Light(effs[k]) /\ ~Adds(effs[k], "response")
       /\ Adds(effs[k], "request") => effs[k].msg.ids \subseteq streamed

LEMMA BroughtJoined ==
  ASSUME NEW S, NEW a, NEW b, Brought(a, S), Brought(b, S)
  PROVE  Brought(a \o b, S)
<1>1. a \o b \in Seq(Effect)
  BY DEF Brought
<1>2. \A k \in DOMAIN (a \o b) : \/ k \in DOMAIN a /\ (a \o b)[k] = a[k]
                                 \/ k - Len(a) \in DOMAIN b /\ (a \o b)[k] = b[k - Len(a)]
  BY DEF Brought
<1> QED BY <1>1, <1>2 DEF Brought

LEMMA StreamClass ==
  ASSUME TypeInv, StepInv, NEW effs, NEW streamed \in SUBSET Requests, NEW yield,
         Brought(effs, streamed), StreamEnds(effs, streamed, yield), pc = "provider",
         used'.crashes = used.crashes, used'.steers = used.steers
  PROVE  Works
<1>1. /\ pc \in Working /\ pc' = "apply" /\ UNCHANGED <<conv, snap, running, executed, resets, queue>>
      /\ effects' \in {effs, effs \o Closing(snap, streamed)} /\ emitted' = emitted \cup streamed
      /\ streamed \in SUBSET (Requests \ emitted)
  BY WorkingFacts DEF StreamEnds, persisted, memory
<1>2. running' = {}
  BY <1>1 DEF StepInv
<1>3. Streams
  BY <1>1 DEF Streams, Brought
<1> QED BY <1>1, <1>2, <1>3 DEF Works, Brings

(* However the provider answers, a stream of its ends. *)
LEMMA ProviderStreams ==
  ASSUME ProviderReplies \/ ProviderFails
  PROVE  \E effs, yield : \E streamed \in SUBSET Requests :
           Brought(effs, streamed) /\ StreamEnds(effs, streamed, yield)
<1> DEFINE Ended == \E effs, yield : \E streamed \in SUBSET Requests :
                      Brought(effs, streamed) /\ StreamEnds(effs, streamed, yield)
<1>1. \A S : \A m \in Message : Casual(m) => Brought(<<Append_(m)>>, S)
  <2>1. ASSUME NEW S, NEW m \in Message, Casual(m)
        PROVE  Brought(<<Append_(m)>>, S)
    <3>1. <<Append_(m)>> \in Seq(Effect) /\ Remark(Append_(m))
      BY <2>1, AppendTyped, RemarkEffects
    <3>2. \A k \in DOMAIN <<Append_(m)>> : Remark(<<Append_(m)>>[k])
      BY <3>1, RemarkLists
    <3> QED BY <3>1, <3>2 DEF Brought, Remark
  <2> QED BY <2>1
<1>2. \A S : /\ Brought(<<Append_(Text("none"))>>, S)
             /\ \A kind \in Errors : Brought(<<Append_(ErrorMsg(kind))>>, S)
  BY <1>1, MessageKinds, MessagesTyped DEF Notes
<1>3. \A S : \A u \in RecordUsage : Brought(u, S)
  <2>1. ASSUME NEW b \in BOOLEAN, NEW S
        PROVE  Brought(<<Usage(b)>>, S)
    <3>1. Usage(b) \in Effect /\ \A k \in DOMAIN <<Usage(b)>> : Remark(<<Usage(b)>>[k])
      BY EffectsTyped, RemarkEffects, RemarkLists
    <3> DEFINE e == Usage(b)
    <3>2. e \in Effect /\ \A k \in DOMAIN <<e>> : Remark(<<e>>[k])
      BY <3>1
    <3> HIDE DEF e
    <3>3. <<e>> \in Seq(Effect)
      BY <3>2
    <3>4. Brought(<<e>>, S)
      BY <3>2, <3>3 DEF Brought, Remark
    <3> QED BY <3>4 DEF e
  <2>2. \A S : Brought(<<>>, S)
    BY NoEffects DEF Brought
  <2> QED BY <2>1, <2>2 DEF RecordUsage
<1>4. \A b \in Batches \cup {<<>>} : IdsIn(b) \in SUBSET Requests /\ Brought(RequestsOf(b), IdsIn(b))
  <2>1. \A b \in Batches \cup {<<>>} : b \in Seq(Requests)
    <3>1. Batches \subseteq Seq(Requests) /\ <<>> \in Seq(Requests)
      BY SetsAssumption
    <3> QED BY <3>1
  <2>2. ASSUME NEW b \in Batches \cup {<<>>}
        PROVE  IdsIn(b) \in SUBSET Requests /\ Brought(RequestsOf(b), IdsIn(b))
    <3>1. IdsIn(b) \subseteq Requests /\ RequestsOf(b) \in Seq(Effect)
      BY <2>1, RequestsOfTyped
    <3>2. ASSUME NEW k \in DOMAIN RequestsOf(b)
          PROVE  LET e == RequestsOf(b)[k] IN
                   Light(e) /\ ~Adds(e, "response") /\ e.msg.ids \subseteq IdsIn(b)
      <4>1. b \in Seq(Requests) /\ k \in DOMAIN b /\ RequestsOf(b)[k] = Append_(Request(b[k]))
        BY <2>1 DEF RequestsOf
      <4>2. /\ Append_(Request(b[k])).op = "append" /\ Append_(Request(b[k])).msg = Request(b[k])
            /\ LightMsg(Request(b[k])) /\ Request(b[k]).kind = "request" /\ Request(b[k]).ids = {b[k]}
        BY MessageKinds DEF Append_
      <4> QED BY <4>1, <4>2 DEF Light, Adds, IdsIn
    <3> QED BY <3>1, <3>2 DEF Brought
  <2> QED BY <2>2
<1>5. CASE ProviderReplies
  <2>1. PICK u \in RecordUsage :
          \/ StreamEnds(u \o <<Append_(Text("none"))>>, {}, FALSE)
          \/ \E b \in Batches : StreamEnds(u \o RequestsOf(b), IdsIn(b), FALSE)
    BY <1>5 DEF ProviderReplies
  <2>2. ASSUME NEW b \in Batches, StreamEnds(u \o RequestsOf(b), IdsIn(b), FALSE)
        PROVE  Ended
    <3>1. Brought(u \o RequestsOf(b), IdsIn(b)) /\ IdsIn(b) \in SUBSET Requests
      BY <1>3, <1>4, BroughtJoined
    <3> QED BY <2>2, <3>1
  <2>3. CASE StreamEnds(u \o <<Append_(Text("none"))>>, {}, FALSE)
    <3>1. Brought(u \o <<Append_(Text("none"))>>, {}) /\ {} \in SUBSET Requests
      BY <1>2, <1>3, BroughtJoined
    <3> QED BY <2>3, <3>1
  <2> QED BY <2>1, <2>2, <2>3
<1>6. CASE ProviderFails
  <2>1. ASSUME NEW kind \in Errors, NEW b \in Batches \cup {<<>>},
               StreamEnds(RequestsOf(b) \o <<Append_(ErrorMsg(kind))>>, IdsIn(b), FALSE)
        PROVE  Ended
    <3>1. Brought(RequestsOf(b) \o <<Append_(ErrorMsg(kind))>>, IdsIn(b)) /\ IdsIn(b) \in SUBSET Requests
      BY <1>2, <1>4, BroughtJoined
    <3> QED BY <2>1, <3>1
  <2>2. CASE StreamEnds(<<Append_(Text("none"))>>, {}, TRUE)
    <3>1. Brought(<<Append_(Text("none"))>>, {}) /\ {} \in SUBSET Requests
      BY <1>2
    <3> QED BY <2>2, <3>1
  <2> QED BY <1>6, <2>1, <2>2 DEF ProviderFails
<1> QED BY <1>5, <1>6

LEMMA ProviderClass ==
  ASSUME TypeInv, StepInv, ProviderReplies \/ ProviderFails
  PROVE  Works
<1>1. /\ pc = "provider" /\ used'.crashes = used.crashes /\ used'.steers = used.steers
  <2>1. used \in [prompts: Nat, steers: Nat, errors: Nat, crashes: Nat]
    BY DEF TypeInv, HistoryOK
  <2>2. pc = "provider" /\ used' \in {used, [used EXCEPT !.errors = @ + 1]}
    BY DEF ProviderReplies, ProviderFails
  <2> QED BY <2>1, <2>2
<1> QED BY <1>1, ProviderStreams, StreamClass

LEMMA OthersClass ==
  ASSUME TypeInv, StepInv, Resume \/ QueueSteer \/ Cancel \/ Abort \/ Crash \/ UNCHANGED vars
  PROVE  Onward \/ Ends
<1>1. /\ used \in [prompts: Nat, steers: Nat, errors: Nat, crashes: Nat]
      /\ queue \in Nat
  BY DEF TypeInv, HistoryOK, MemoryOK
<1>2. CASE Resume
  BY <1>1, <1>2 DEF Resume, persisted, memory, step, history, Onward, Steady
<1>3. CASE QueueSteer
  <2>1. queue' = queue + 1 /\ used'.steers = used.steers + 1 /\ used'.crashes = used.crashes
    BY <1>1, <1>3 DEF QueueSteer
  <2>2. Steady
    BY <1>1, <2>1 DEF Steady
  <2> QED BY <1>3, <2>2 DEF QueueSteer, persisted, step, Onward
<1>4. CASE Cancel \/ UNCHANGED vars
  BY <1>1, <1>4 DEF Cancel, vars, persisted, memory, step, history, Onward, Steady
<1>5. CASE Abort \/ Crash
  <2>1. used'.crashes = used.crashes + 1
    BY <1>1, <1>5 DEF Abort, Crash
  <2> QED BY <1>5, <2>1 DEF Abort, Crash, Clear, persisted, Ends
<1> QED BY <1>2, <1>3, <1>4, <1>5

LEMMA StepClass ==
  ASSUME TypeInv, StepInv, [Next]_vars
  PROVE  Onward \/ Ends \/ ApplyEffect \/ Speaks \/ Works
<1>1. CASE Machine
  BY <1>1, KernelClass, SlashCommandClass, SteerClass, QuietOperationsClass, ApproveClass, RecipeClass,
     ToolClass, RetryClass, InferenceClass, ProviderClass DEF Machine
<1>2. CASE Client
  BY <1>2, OthersClass DEF Client, Speaks
<1>3. CASE Abort \/ Crash \/ UNCHANGED vars
  BY <1>3, OthersClass
<1> QED BY <1>1, <1>2, <1>3 DEF Next

(* Most of what a step leaves to be persisted is light. *)
LEMMA WorksLightly ==
  ASSUME TypeInv, Works
  PROVE  \/ (\A k \in DOMAIN effects' : Light(effects'[k])) /\ UNCHANGED <<resets, queue>>
         \/ Urges \/ Rewrites
<1>1. ASSUME NEW S, NEW note \in {"none", "success"}
      PROVE  \A k \in DOMAIN <<Append_(Response(S, note))>> : Light(<<Append_(Response(S, note))>>[k])
  BY MessageKinds DEF Light, Append_
<1>2. CASE Remarks
  BY <1>2 DEF Remarks
<1>3. CASE Responds
  BY <1>1, <1>3 DEF Responds
<1>4. CASE Streams
  <2>1. PICK streamed \in SUBSET Requests, effs \in Seq(Effect) :
          /\ effects' \in {effs, effs \o Closing(snap, streamed)}
          /\ \A k \in DOMAIN effs : Light(effs[k])
    BY <1>4 DEF Streams
  <2>2. /\ Closing(snap, streamed) \in Seq(Effect)
        /\ \A k \in DOMAIN Closing(snap, streamed) : Light(Closing(snap, streamed)[k])
    <3>1. \A k \in DOMAIN <<>> : FALSE
      BY NoEffects
    <3> QED BY <1>1, <3>1, ClosingTyped DEF Closing, TypeInv, ControlOK
  <2> DEFINE closing == Closing(snap, streamed)
  <2>3. \A k \in DOMAIN (effs \o closing) : \/ k \in DOMAIN effs /\ (effs \o closing)[k] = effs[k]
                                            \/ k - Len(effs) \in DOMAIN closing
                                                 /\ (effs \o closing)[k] = closing[k - Len(effs)]
    <3> HIDE DEF closing
    <3>1. closing \in Seq(Effect)
      BY <2>2 DEF closing
    <3> QED BY <3>1
  <2>4. \A k \in DOMAIN effects' : Light(effects'[k])
    <3> HIDE DEF closing
    <3>1. \A k \in DOMAIN closing : Light(closing[k])
      BY <2>2 DEF closing
    <3>2. effects' \in {effs, effs \o closing}
      BY <2>1 DEF closing
    <3> QED BY <2>1, <2>3, <3>1, <3>2
  <2> QED BY <1>4, <2>4 DEF Streams
<1> QED BY <1>2, <1>3, <1>4 DEF Works, Brings

-----------------------------------------------------------------------------
(* The shape of a step *)

LEMMA SpeaksFacts ==
  ASSUME TypeInv, StepInv, Speaks
  PROVE  /\ \E m \in Message :
              /\ conv' = Append(conv, m)
              /\ \/ /\ pc = "idle" /\ pc' = "load" /\ effects = <<>> /\ resets' = 0
                    /\ IsKickoff(m) /\ m.kind = "prompt" /\ m.note # "steer" /\ m.attempts = 0
                 \/ /\ pc' = pc /\ resets' = resets
                    /\ m.kind = "approval" /\ ~m.uv /\ ~IsKickoff(m) /\ m.note \in Answers
         /\ UNCHANGED <<snap, effects, running, executed, emitted, queue>>
         /\ used'.crashes = used.crashes /\ used'.steers = used.steers
<1>1. used \in [prompts: Nat, steers: Nat, errors: Nat, crashes: Nat]
  BY DEF TypeInv, HistoryOK
<1>2. ASSUME NEW note \in PromptNotes, Reply(note)
      PROVE  /\ IsKickoff(Prompt(note)) /\ Prompt(note).kind = "prompt" /\ Prompt(note).note # "steer"
             /\ Prompt(note).attempts = 0 /\ Prompt(note) \in Message
             /\ pc = "idle" /\ pc' = "load" /\ effects = <<>> /\ resets' = 0 /\ conv' = Append(conv, Prompt(note))
             /\ UNCHANGED <<snap, effects, running, executed, emitted, queue>>
             /\ used'.crashes = used.crashes /\ used'.steers = used.steers
  <2>1. note \in {"none"} \cup Commands
    BY SetsAssumption
  <2>2. Prompt(note) \in Message
    BY <2>1, MessagesTyped DEF Notes
  <2>3. /\ IsKickoff(Prompt(note)) /\ Prompt(note).kind = "prompt" /\ Prompt(note).note = note
        /\ Prompt(note).attempts = 0 /\ note # "steer"
    BY <2>1 DEF Prompt, Msg, IsKickoff, UserKinds, Commands
  <2> QED BY <1>1, <1>2, <2>2, <2>3 DEF Reply, StepInv, memory, step
<1>3. ASSUME NEW r \in Requests, NEW ans \in GivenAnswers, Confirm(r, ans)
      PROVE  /\ Approval(r, ans) \in Message /\ Approval(r, ans).kind = "approval" /\ ~Approval(r, ans).uv
             /\ ~IsKickoff(Approval(r, ans)) /\ Approval(r, ans).note \in Answers
             /\ conv' = Append(conv, Approval(r, ans))
             /\ UNCHANGED <<pc, resets, snap, effects, running, executed, emitted, queue, cancelled, used>>
  <2>1. ans \in Answers
    BY SetsAssumption
  <2>2. Approval(r, ans) \in Message
    BY <2>1, MessagesTyped
  <2>3. /\ Approval(r, ans).kind = "approval" /\ ~Approval(r, ans).uv /\ Approval(r, ans).note = ans
        /\ ~IsKickoff(Approval(r, ans))
    BY DEF Approval, Msg, IsKickoff
  <2> QED BY <1>3, <2>1, <2>2, <2>3 DEF Confirm, memory, step
<1> QED BY <1>2, <1>3 DEF Speaks

LEMMA ContinuesAppend ==
  ASSUME NEW c \in Seq(Message), NEW s \in Seq(Message), NEW m \in Message, Continues(c, s),
         m.kind = "approval" /\ ~m.uv /\ m.note \in Answers
  PROVE  Continues(Append(c, m), s)
<1> DEFINE d == Append(c, m)
<1>1. /\ Len(d) = Len(c) + 1 /\ Len(c) \in Nat /\ Len(s) \in Nat /\ d[Len(c) + 1] = m
      /\ DOMAIN c = 1 .. Len(c) /\ DOMAIN s = 1 .. Len(s) /\ DOMAIN d = 1 .. Len(c) + 1
      /\ \A i \in 1 .. Len(c) : d[i] = c[i]
  OBVIOUS
<1> HIDE DEF d
<1>2. Len(s) <= Len(d) /\ \A i \in DOMAIN s : d[i] = s[i]
  BY <1>1 DEF Continues
<1>3. \A i \in DOMAIN d \ DOMAIN s : d[i].kind = "approval" /\ ~d[i].uv /\ d[i].note \in Answers
  <2>1. \A i \in DOMAIN d : i \in DOMAIN c \/ d[i] = m
    BY <1>1
  <2> QED BY <1>1, <2>1 DEF Continues
<1> QED BY <1>2, <1>3 DEF Continues, d

LEMMA StepInvStep ==
  ASSUME TypeInv, StepInv, [Next]_vars
  PROVE  StepInv'
<1>0. /\ conv \in Seq(Message) /\ snap \in Seq(Message) /\ effects \in Seq(Effect)
  BY DEF TypeInv, ControlOK, StoreOK
<1>1. CASE Onward
  <2>1. pc' # "apply" => pc # "apply"
    BY <1>1, WorkingFacts DEF Onward
  <2>2. pc' # "tools" => running' = {}
    BY <1>1, WorkingFacts DEF Onward, StepInv
  <2>3. pc' \in Working => Continues(conv', snap')
    <3>1. Continues(conv, conv)
      BY <1>0 DEF Continues
    <3> QED BY <1>1, <3>1, WorkingFacts DEF Onward, StepInv
  <2> QED BY <1>1, <2>1, <2>2, <2>3 DEF Onward, StepInv
<1>2. CASE Ends
  <2>1. pc' \notin Working /\ \A k \in DOMAIN <<>> : FALSE
    BY <1>2, WorkingFacts, NoEffects DEF Ends
  <2> QED BY <1>2, <2>1 DEF Ends, StepInv
<1>3. CASE ApplyEffect
  <2>1. /\ effects # <<>> /\ effects' = Tail(effects) /\ pc = "apply" /\ pc' = "apply" /\ running' = running
    BY <1>3 DEF ApplyEffect
  <2>2. \A k \in DOMAIN Tail(effects) : k + 1 \in DOMAIN effects /\ Tail(effects)[k] = effects[k + 1]
                                          /\ Len(effects) # 1
    BY <1>0, <2>1
  <2>3. \A k \in DOMAIN effects' : effects'[k].op # "replace"
    BY <2>1, <2>2 DEF StepInv
  <2> QED BY <2>1, <2>3, WorkingFacts DEF StepInv
<1>4. CASE Speaks
  <2>1. PICK m \in Message :
          /\ conv' = Append(conv, m)
          /\ \/ pc = "idle" /\ pc' = "load" /\ effects = <<>>
             \/ pc' = pc /\ m.kind = "approval" /\ ~m.uv /\ m.note \in Answers
    BY <1>4, SpeaksFacts
  <2>2. UNCHANGED <<snap, effects, running>>
    BY <1>4, SpeaksFacts
  <2>3. pc' \in Working => Continues(conv', snap')
    BY <1>0, <2>1, <2>2, ContinuesAppend, WorkingFacts DEF StepInv
  <2>4. (pc' # "apply" => effects' = <<>>) /\ (pc' # "tools" => running' = {})
    BY <2>1, <2>2 DEF StepInv
  <2> QED BY <2>2, <2>3, <2>4 DEF StepInv
<1>5. CASE Works
  <2>1. pc' = "apply" /\ running' = {} /\ pc' \notin Working
    BY <1>5, WorkingFacts DEF Works
  <2>2. \A k \in DOMAIN effects' : effects'[k].op = "replace" => Len(effects') = 1
    <3>1. CASE \A k \in DOMAIN effects' : Light(effects'[k])
      BY <3>1 DEF Light
    <3>2. CASE Urges
      <4>1. /\ Append_(Prompt("continuation")).op = "append" /\ Append_(Prompt("steer")).op = "append"
            /\ Append_(Denial).op = "append"
        BY DEF Append_
      <4>2. \A e : \A k \in DOMAIN <<e>> : <<e>>[k] = e
        OBVIOUS
      <4>3. \E e : e.op = "append" /\ \A k \in DOMAIN effects' : effects'[k] = e
        BY <3>2, <4>1, <4>2 DEF Urges
      <4> QED BY <4>3
    <3>3. CASE Rewrites
      <4>1. \E e : effects' = <<e>>
        BY <3>3 DEF Rewrites
      <4> QED BY <4>1
    <3> QED BY <1>5, <3>1, <3>2, <3>3, WorksLightly
  <2> QED BY <2>1, <2>2 DEF StepInv
<1> QED BY <1>1, <1>2, <1>3, <1>4, <1>5, StepClass

LEMMA StepInvInit == Init => StepInv
BY WorkingFacts, NoEffects DEF Init, StepInv

LEMMA StepInvHolds == Spec => [](TypeInv /\ StepInv)
<1>1. TypeInv /\ StepInv /\ [Next]_vars => StepInv'
  BY StepInvStep
<1> QED BY <1>1, StepInvInit, TurnTypeCorrect, PTL DEF Spec

-----------------------------------------------------------------------------
(* What becomes of a conversation *)

(* Persisting an effect and compacting change a message at most in what the *)
(* agent sees of it and, on a request, in its executable flag.              *)
Like(m, o) ==
  /\ m.kind = o.kind /\ m.uv = o.uv /\ m.ids = o.ids /\ m.attempts = o.attempts
  /\ m.note = o.note \/ (m.kind = "request" /\ m.note \in {"yes", "no"})
  /\ m.av => o.av

Extended(d, c) == Len(c) <= Len(d) /\ \A i \in DOMAIN c : Like(d[i], c[i])

Added(d, c) == DOMAIN d \ DOMAIN c

LEMMA ExtendedTurn ==
  ASSUME NEW c \in Seq(Message), NEW d \in Seq(Message), Extended(d, c)
  PROVE  /\ DOMAIN c \subseteq DOMAIN d
         /\ \A i \in DOMAIN c : IsKickoff(c[i]) = IsKickoff(d[i])
         /\ HasKickoff(c) => HasKickoff(d)
         /\ Turn(d) \cap DOMAIN c \subseteq Turn(c)
         /\ (\A i \in Added(d, c) : ~IsKickoff(d[i])) =>
              /\ Turn(d) = Turn(c) \cup Added(d, c)
              /\ HasKickoff(d) => HasKickoff(c)
              /\ HasKickoff(c) => Kickoff(d) = Kickoff(c)
<1>1. /\ DOMAIN c = 1 .. Len(c) /\ Len(c) \in Nat /\ DOMAIN d = 1 .. Len(d) /\ Len(d) \in Nat
      /\ Len(c) <= Len(d)
  BY DEF Extended
<1>2. DOMAIN c \subseteq DOMAIN d
  BY <1>1
<1>3. \A i \in DOMAIN c : IsKickoff(c[i]) = IsKickoff(d[i])
  BY DEF Extended, Like, IsKickoff
<1>4. HasKickoff(c) => HasKickoff(d)
  BY <1>2, <1>3 DEF HasKickoff
<1>5. Turn(d) \cap DOMAIN c \subseteq Turn(c)
  BY <1>2, <1>3 DEF Turn
<1>6. ASSUME \A i \in Added(d, c) : ~IsKickoff(d[i])
      PROVE  /\ Turn(d) = Turn(c) \cup Added(d, c)
             /\ HasKickoff(d) => HasKickoff(c)
             /\ HasKickoff(c) => Kickoff(d) = Kickoff(c)
  <2>1. \A j \in DOMAIN d : IsKickoff(d[j]) => j \in DOMAIN c /\ IsKickoff(c[j])
    BY <1>3, <1>6 DEF Added
  <2>2. Turn(c) \subseteq Turn(d)
    BY <1>2, <2>1 DEF Turn
  <2>3. Added(d, c) \subseteq Turn(d)
    BY <1>1, <2>1 DEF Turn, Added
  <2>4. Turn(d) \subseteq Turn(c) \cup Added(d, c)
    BY <1>5 DEF Turn, Added
  <2>5. HasKickoff(d) => HasKickoff(c)
    BY <2>1 DEF HasKickoff
  <2>6. ASSUME HasKickoff(c) PROVE Kickoff(d) = Kickoff(c)
    <3>1. /\ Kickoff(c) \in DOMAIN c /\ IsKickoff(c[Kickoff(c)])
          /\ \A j \in DOMAIN c : IsKickoff(c[j]) => j <= Kickoff(c)
      BY <2>6, KickoffExists
    <3>2. /\ Kickoff(d) \in DOMAIN d /\ IsKickoff(d[Kickoff(d)])
          /\ \A j \in DOMAIN d : IsKickoff(d[j]) => j <= Kickoff(d)
      BY <1>4, <2>6, KickoffExists
    <3>3. Kickoff(c) <= Kickoff(d) /\ Kickoff(d) <= Kickoff(c)
      BY <1>2, <1>3, <2>1, <3>1, <3>2
    <3> QED BY <1>1, <3>1, <3>2, <3>3
  <2> QED BY <2>2, <2>3, <2>4, <2>5, <2>6
<1> QED BY <1>2, <1>3, <1>4, <1>5, <1>6

LEMMA AppendShape ==
  ASSUME NEW c \in Seq(Message), NEW m \in Message
  PROVE  /\ Append(c, m) \in Seq(Message) /\ Extended(Append(c, m), c)
         /\ Len(Append(c, m)) = Len(c) + 1
         /\ Added(Append(c, m), c) = {Len(c) + 1} /\ Append(c, m)[Len(c) + 1] = m
<1> DEFINE d == Append(c, m)
<1>1. /\ Len(d) = Len(c) + 1 /\ Len(c) \in Nat /\ d[Len(c) + 1] = m /\ d \in Seq(Message)
      /\ DOMAIN c = 1 .. Len(c) /\ DOMAIN d = 1 .. Len(c) + 1
      /\ \A i \in 1 .. Len(c) : d[i] = c[i]
  OBVIOUS
<1> HIDE DEF d
<1>2. Extended(d, c)
  BY <1>1 DEF Extended, Like
<1>3. Added(d, c) = {Len(c) + 1}
  BY <1>1 DEF Added
<1> QED BY <1>1, <1>2, <1>3 DEF d

LEMMA AppendedKickoff ==
  ASSUME NEW c \in Seq(Message), NEW m \in Message, IsKickoff(m)
  PROVE  /\ HasKickoff(Append(c, m)) /\ Turn(Append(c, m)) = {Len(c) + 1}
         /\ Kickoff(Append(c, m)) = Len(c) + 1
<1> DEFINE d == Append(c, m)
<1>1. /\ Len(c) \in Nat /\ DOMAIN d = 1 .. Len(c) + 1 /\ d[Len(c) + 1] = m
  OBVIOUS
<1> HIDE DEF d
<1>2. HasKickoff(d)
  BY <1>1 DEF HasKickoff
<1>3. Turn(d) = {Len(c) + 1}
  BY <1>1 DEF Turn
<1>4. Kickoff(d) = Len(c) + 1
  BY <1>1, <1>3 DEF Kickoff
<1> QED BY <1>2, <1>3, <1>4 DEF d

LEMMA ContinuesShape ==
  ASSUME NEW c \in Seq(Message), NEW s \in Seq(Message), Continues(c, s)
  PROVE  /\ Extended(c, s)
         /\ \A i \in Added(c, s) : c[i].kind = "approval" /\ ~IsKickoff(c[i]) /\ c[i].note \in Answers
<1>1. Extended(c, s)
  BY DEF Continues, Extended, Like
<1> QED BY <1>1 DEF Continues, Added, IsKickoff

LEMMA StoredShape ==
  ASSUME NEW c \in Seq(Message), NEW e \in Effect
  PROVE  /\ e.op = "append" => Stored(c, e) = Append(c, e.msg) /\ e.msg \in Message
         /\ e.op = "replace" => Stored(c, e) = e.conv /\ e.conv \in Seq(Message)
         /\ e.op \in {"patch", "hide", "usage"} =>
              /\ Stored(c, e) \in Seq(Message) /\ Extended(Stored(c, e), c)
              /\ Added(Stored(c, e), c) = {}
         /\ e.op \in {"append", "replace", "patch", "hide", "usage"}
<1>1. DOMAIN c = 1 .. Len(c) /\ Len(c) \in Nat /\ \A i \in DOMAIN c : c[i] \in Message
  OBVIOUS
<1>2. \A m \in Message : Like(m, m)
  BY DEF Like
<1>3. ASSUME e.op = "patch"
      PROVE  /\ Stored(c, e) \in Seq(Message) /\ Extended(Stored(c, e), c)
             /\ Added(Stored(c, e), c) = {}
  <2> DEFINE d == [i \in DOMAIN c |-> IF c[i].kind = "request" /\ e.id \in c[i].ids
                                      THEN [c[i] EXCEPT !.note = e.note] ELSE c[i]]
  <2>1. e.note \in {"yes", "no"} /\ e.note \in Notes /\ Stored(c, e) = d
    BY <1>3, EffectFields DEF Stored, Notes
  <2>2. ASSUME NEW m \in Message, m.kind = "request"
        PROVE  [m EXCEPT !.note = e.note] \in Message /\ Like([m EXCEPT !.note = e.note], m)
    BY <2>1, <2>2, EditsTyped DEF Like, Message
  <2>3. \A i \in DOMAIN c : d[i] \in Message /\ Like(d[i], c[i])
    BY <1>1, <1>2, <2>2
  <2>4. d \in Seq(Message) /\ DOMAIN d = DOMAIN c /\ Len(d) = Len(c)
    BY <1>1, <2>3
  <2> QED BY <1>1, <2>1, <2>3, <2>4 DEF Extended, Added
<1>4. ASSUME e.op = "hide"
      PROVE  /\ Stored(c, e) \in Seq(Message) /\ Extended(Stored(c, e), c)
             /\ Added(Stored(c, e), c) = {}
  <2> DEFINE d == [i \in DOMAIN c |-> IF i = e.at THEN [c[i] EXCEPT !.av = FALSE] ELSE c[i]]
  <2>1. Stored(c, e) = d
    BY <1>4 DEF Stored
  <2>2. ASSUME NEW m \in Message
        PROVE  [m EXCEPT !.av = FALSE] \in Message /\ Like([m EXCEPT !.av = FALSE], m)
    BY EditsTyped DEF Like, Message
  <2>3. \A i \in DOMAIN c : d[i] \in Message /\ Like(d[i], c[i])
    BY <1>1, <1>2, <2>2
  <2>4. d \in Seq(Message) /\ DOMAIN d = DOMAIN c /\ Len(d) = Len(c)
    BY <1>1, <2>3
  <2> QED BY <1>1, <2>1, <2>3, <2>4 DEF Extended, Added
<1>5. ASSUME e.op = "usage"
      PROVE  /\ Stored(c, e) \in Seq(Message) /\ Extended(Stored(c, e), c)
             /\ Added(Stored(c, e), c) = {}
  <2>1. Stored(c, e) = c
    BY <1>5 DEF Stored
  <2> QED BY <1>1, <1>2, <2>1 DEF Extended, Added
<1>6. /\ e.op = "append" => Stored(c, e) = Append(c, e.msg)
      /\ e.op = "replace" => Stored(c, e) = e.conv
  BY DEF Stored
<1> QED BY <1>3, <1>4, <1>5, <1>6, EffectFields

LEMMA CompactedShape ==
  ASSUME NEW c \in Seq(Message), HasKickoff(c)
  PROVE  /\ Compacted(c) \in Seq(Message) /\ Extended(Compacted(c), c)
         /\ Len(Compacted(c)) \in {Len(c) + 1, Len(c) + 2}
         /\ \A i \in DOMAIN c : ~Compacted(c)[i].av
         /\ \A i \in Added(Compacted(c), c) :
              /\ ~IsKickoff(Compacted(c)[i]) /\ Compacted(c)[i].note = "none" /\ Compacted(c)[i].av
              /\ \/ i = Len(c) + 1 /\ Compacted(c)[i].kind = "summary"
                 \/ i = Len(c) + 2 /\ Compacted(c)[i].kind = "prompt"
<1> DEFINE hidden == [i \in DOMAIN c |-> [c[i] EXCEPT !.av = FALSE]]
           sm == Msg("summary", FALSE, TRUE, {}, "none")
           hp == HiddenPrompt
           latest == IF \E i \in DOMAIN c : c[i].av /\ c[i].kind \in {"prompt", "nudge", "denial"}
                     THEN <<hp>> ELSE <<>>
           d == Compacted(c)
<1>1. DOMAIN c = 1 .. Len(c) /\ Len(c) \in Nat
  OBVIOUS
<1>2. ASSUME NEW i \in DOMAIN c
      PROVE  hidden[i] \in Message /\ Like(hidden[i], c[i]) /\ ~hidden[i].av
  <2>1. c[i] \in Message
    OBVIOUS
  <2>2. hidden[i] = [c[i] EXCEPT !.av = FALSE] /\ [c[i] EXCEPT !.av = FALSE] \in Message
    BY <2>1, EditsTyped
  <2>3. ASSUME NEW m \in Message
        PROVE  Like([m EXCEPT !.av = FALSE], m) /\ ~[m EXCEPT !.av = FALSE].av
    BY DEF Like, Message
  <2> QED BY <2>1, <2>2, <2>3
<1>3. hidden \in Seq(Message) /\ Len(hidden) = Len(c)
  BY <1>1, <1>2
<1>4. /\ hp \in Message /\ sm \in Message
      /\ ~IsKickoff(hp) /\ hp.note = "none" /\ hp.kind = "prompt" /\ hp.av
      /\ ~IsKickoff(sm) /\ sm.note = "none" /\ sm.kind = "summary" /\ sm.av
  BY MessagesTyped DEF HiddenPrompt, Msg, IsKickoff
<1>5. d = hidden \o <<sm>> \o latest
  BY DEF Compacted
<1>6. latest = <<hp>> \/ latest = <<>>
  OBVIOUS
<1>7. d \in Seq(Message)
  BY CompactedTyped
<1> HIDE DEF hidden, sm, hp, latest, d
<1>8. /\ Len(d) \in {Len(c) + 1, Len(c) + 2}
      /\ \A i \in 1 .. Len(c) : d[i] = hidden[i]
      /\ d[Len(c) + 1] = sm
      /\ Len(d) = Len(c) + 2 => d[Len(c) + 2] = hp
  <2> DEFINE t == hidden \o <<sm>>
  <2>1. /\ t \in Seq(Message) /\ Len(t) = Len(c) + 1 /\ t[Len(c) + 1] = sm
        /\ \A i \in 1 .. Len(c) : t[i] = hidden[i]
    BY <1>1, <1>3, <1>4
  <2>2. d = t \o latest
    BY <1>5
  <2> HIDE DEF t
  <2>3. CASE latest = <<hp>>
    <3>1. d = t \o <<hp>>
      BY <2>2, <2>3
    <3>2. /\ Len(d) = Len(c) + 2 /\ d[Len(c) + 2] = hp
          /\ \A i \in 1 .. Len(c) + 1 : d[i] = t[i]
      BY <1>1, <1>4, <2>1, <3>1
    <3> QED BY <1>1, <2>1, <3>2
  <2>4. CASE latest = <<>>
    <3>1. d = t \o <<>>
      BY <2>2, <2>4
    <3>2. Len(d) = Len(c) + 1 /\ \A i \in 1 .. Len(c) + 1 : d[i] = t[i]
      BY <1>1, <2>1, <3>1
    <3> QED BY <1>1, <2>1, <3>2
  <2> QED BY <1>6, <2>3, <2>4
<1>9. Extended(d, c) /\ \A i \in DOMAIN c : ~d[i].av
  BY <1>1, <1>2, <1>8 DEF Extended
<1>10. \A i \in Added(d, c) : \/ i = Len(c) + 1 /\ d[i] = sm
                              \/ i = Len(c) + 2 /\ d[i] = hp
  <2>1. DOMAIN d = 1 .. Len(d) /\ DOMAIN c = 1 .. Len(c) /\ Len(c) \in Nat
    BY <1>1, <1>7
  <2>2. \A i \in Added(d, c) : i = Len(c) + 1 \/ (i = Len(c) + 2 /\ Len(d) = Len(c) + 2)
    <3>1. Len(d) = Len(c) + 1 \/ Len(d) = Len(c) + 2
      BY <1>8
    <3>2. \A i \in Added(d, c) : i \in 1 .. Len(d) /\ i \notin 1 .. Len(c)
      BY <2>1 DEF Added
    <3>3. ASSUME NEW m \in Nat, NEW n \in Nat, n = m + 1 \/ n = m + 2, NEW i, i \in 1 .. n, i \notin 1 .. m
          PROVE  i = m + 1 \/ (i = m + 2 /\ n = m + 2)
      BY <3>3
    <3>4. Len(d) \in Nat
      BY <1>7
    <3> QED BY <2>1, <3>1, <3>2, <3>3, <3>4
  <2> QED BY <1>8, <2>2
<1>11. \A i \in Added(d, c) :
              /\ ~IsKickoff(d[i]) /\ d[i].note = "none" /\ d[i].av
              /\ \/ i = Len(c) + 1 /\ d[i].kind = "summary"
                 \/ i = Len(c) + 2 /\ d[i].kind = "prompt"
  BY <1>4, <1>10
<1> QED BY <1>7, <1>8, <1>9, <1>11 DEF d

LEMMA ResetShape ==
  ASSUME NEW c \in Seq(Message), HasKickoff(c)
  PROVE  LET k == Kickoff(c)
             d == ResetConversation(c)
         IN  /\ d \in Seq(Message) /\ DOMAIN d = 1 .. k /\ k \in DOMAIN c /\ IsKickoff(c[k])
             /\ HasKickoff(d) /\ Kickoff(d) = k /\ Turn(d) = {k} /\ k \in Turn(c)
             /\ \A i \in 1 .. k - 1 : d[i] = c[i]
             /\ d[k].kind = c[k].kind /\ d[k].uv = c[k].uv /\ d[k].ids = c[k].ids
             /\ d[k].note = c[k].note /\ d[k].av = c[k].av /\ d[k].attempts = c[k].attempts + 1
<1> DEFINE k == Kickoff(c)
           d == ResetConversation(c)
<1>1. /\ DOMAIN c = 1 .. Len(c) /\ Len(c) \in Nat /\ k \in 1 .. Len(c) /\ IsKickoff(c[k])
      /\ \A j \in DOMAIN c : IsKickoff(c[j]) => j <= k
  BY KickoffExists
<1>2. d = [i \in 1 .. k |-> IF i = k THEN [c[i] EXCEPT !.attempts = @ + 1] ELSE c[i]]
  BY DEF ResetConversation
<1>3. d \in Seq(Message)
  BY ResetTyped
<1> HIDE DEF k, d
<1>4. /\ DOMAIN d = 1 .. k
      /\ \A i \in 1 .. k - 1 : d[i] = c[i]
      /\ d[k] = [c[k] EXCEPT !.attempts = @ + 1]
  BY <1>1, <1>2
<1>5. /\ d[k].kind = c[k].kind /\ d[k].uv = c[k].uv /\ d[k].ids = c[k].ids
      /\ d[k].note = c[k].note /\ d[k].av = c[k].av /\ d[k].attempts = c[k].attempts + 1
  <2>1. c[k] \in Message
    BY <1>1
  <2>2. ASSUME NEW m \in Message
        PROVE  LET n == [m EXCEPT !.attempts = @ + 1]
               IN  /\ n.kind = m.kind /\ n.uv = m.uv /\ n.ids = m.ids
                   /\ n.note = m.note /\ n.av = m.av /\ n.attempts = m.attempts + 1
    BY DEF Message
  <2> QED BY <1>4, <2>1, <2>2
<1>6. IsKickoff(d[k])
  BY <1>1, <1>5 DEF IsKickoff
<1>7. HasKickoff(d) /\ Turn(d) = {k}
  BY <1>1, <1>4, <1>6 DEF HasKickoff, Turn
<1>8. Kickoff(d) = k
  BY <1>6, <1>7 DEF Kickoff
<1>9. k \in Turn(c)
  BY <1>1 DEF Turn
<1> QED BY <1>1, <1>3, <1>4, <1>5, <1>7, <1>8, <1>9 DEF k, d

(* Sets of positions are counted by their members. *)
LEMMA Positions ==
  ASSUME NEW c, NEW S, c \in Seq(S), NEW P \in SUBSET DOMAIN c
  PROVE  /\ IsFiniteSet(P) /\ Cardinality(P) \in Nat
         /\ \A Q \in SUBSET P : IsFiniteSet(Q) /\ Cardinality(Q) \in Nat /\ Cardinality(Q) <= Cardinality(P)
<1>1. DOMAIN c = 1 .. Len(c) /\ Len(c) \in Nat
  OBVIOUS
<1>2. IsFiniteSet(P)
  <2>1. IsFiniteSet(1 .. Len(c))
    BY <1>1, FS_Interval
  <2> QED BY <1>1, <2>1, FS_Subset
<1> QED BY <1>2, FS_Subset, FS_CardinalityType

(* The effect that is persisted, and those that remain. *)
LEMMA ApplyEffectShape ==
  ASSUME TypeInv, StepInv, ApplyEffect
  PROVE  \E e \in Effect :
           /\ e = effects[1] /\ 1 \in DOMAIN effects /\ conv' = Stored(conv, e)
           /\ effects' = Tail(effects)
           /\ \A k \in DOMAIN effects' : k + 1 \in DOMAIN effects /\ effects'[k] = effects[k + 1]
           /\ \A k \in DOMAIN effects : k = 1 \/ (k - 1 \in DOMAIN effects' /\ effects[k] = effects'[k - 1])
           /\ \A k \in DOMAIN effects' : effects'[k].op # "replace"
           /\ e.op = "replace" => effects' = <<>>
           /\ UNCHANGED <<executed, emitted, used, queue, running, snap>>
           /\ pc' = pc
           /\ resets' = IF e.op = "append" /\ e.msg.note = "steer" THEN 0 ELSE resets
<1>1. effects \in Seq(Effect) /\ effects # <<>> /\ effects' = Tail(effects)
  BY DEF TypeInv, ControlOK, ApplyEffect
<1>2. /\ 1 \in DOMAIN effects /\ Head(effects) = effects[1] /\ effects[1] \in Effect
      /\ DOMAIN effects = 1 .. Len(effects) /\ Len(effects) \in Nat /\ Len(effects) >= 1
      /\ DOMAIN Tail(effects) = 1 .. Len(effects) - 1
      /\ \A k \in 1 .. Len(effects) - 1 : Tail(effects)[k] = effects[k + 1]
  BY <1>1
<1>3. \A k \in DOMAIN effects' : k + 1 \in DOMAIN effects /\ effects'[k] = effects[k + 1]
  BY <1>1, <1>2
<1>4. \A k \in DOMAIN effects : k = 1 \/ (k - 1 \in DOMAIN effects' /\ effects[k] = effects'[k - 1])
  BY <1>1, <1>2
<1>5. \A k \in DOMAIN effects' : effects'[k].op # "replace"
  BY <1>1, <1>2, <1>3 DEF StepInv
<1>6. effects[1].op = "replace" => effects' = <<>>
  <2>1. effects[1].op = "replace" => Len(effects) = 1
    BY <1>2 DEF StepInv
  <2> QED BY <1>1, <2>1
<1> QED BY <1>1, <1>2, <1>3, <1>4, <1>5, <1>6 DEF ApplyEffect, memory

-----------------------------------------------------------------------------
(* Stop-hook denials *)

(* A denial is only on its way when there is room for it, and it comes      *)
(* alone; what replaces the conversation holds no more than it may.         *)
DenialsInv ==
  /\ Cardinality(Denials(conv)) <= BlockCap
  /\ \A k \in DOMAIN effects :
       /\ Adds(effects[k], "denial") => Len(effects) = 1 /\ Cardinality(Denials(conv)) + 1 <= BlockCap
       /\ effects[k].op = "replace" => Cardinality(Denials(effects[k].conv)) <= BlockCap

LEMMA ExtendedDenials ==
  ASSUME NEW c \in Seq(Message), NEW d \in Seq(Message), Extended(d, c)
  PROVE  /\ Denials(d) \subseteq Denials(c) \cup Added(d, c)
         /\ (\A i \in Added(d, c) : d[i].kind # "denial") => Denials(d) \subseteq Denials(c)
         /\ (\A i \in Added(d, c) : ~IsKickoff(d[i])) => Denials(c) \subseteq Denials(d)
<1>1. Turn(d) \cap DOMAIN c \subseteq Turn(c) /\ Turn(d) \subseteq DOMAIN d /\ DOMAIN c \subseteq DOMAIN d
  BY ExtendedTurn DEF Turn
<1>2. \A i \in DOMAIN c : d[i].kind = c[i].kind
  BY DEF Extended, Like
<1>3. Denials(d) \subseteq Denials(c) \cup Added(d, c)
  BY <1>1, <1>2 DEF Denials, Added
<1>4. (\A i \in Added(d, c) : d[i].kind # "denial") => Denials(d) \subseteq Denials(c)
  BY <1>3 DEF Denials
<1>5. ASSUME \A i \in Added(d, c) : ~IsKickoff(d[i])
      PROVE  Denials(c) \subseteq Denials(d)
  <2>1. Turn(c) \subseteq Turn(d)
    BY <1>5, ExtendedTurn
  <2> QED BY <1>2, <2>1 DEF Denials, Turn
<1> QED BY <1>3, <1>4, <1>5

LEMMA FewerDenials ==
  ASSUME NEW c \in Seq(Message), NEW d, Denials(d) \subseteq Denials(c), Cardinality(Denials(c)) <= BlockCap
  PROVE  /\ Cardinality(Denials(c)) \in Nat /\ Cardinality(Denials(d)) \in Nat
         /\ Cardinality(Denials(d)) <= Cardinality(Denials(c)) /\ Cardinality(Denials(d)) <= BlockCap
<1>1. Denials(c) \in SUBSET DOMAIN c /\ BlockCap \in Nat
  BY NumbersAssumption DEF Denials, Turn
<1>2. /\ Cardinality(Denials(c)) \in Nat /\ Cardinality(Denials(d)) \in Nat
      /\ Cardinality(Denials(d)) <= Cardinality(Denials(c))
  BY <1>1, Positions
<1> QED BY <1>1, <1>2

LEMMA RewrittenDenials ==
  ASSUME NEW c \in Seq(Message), HasKickoff(c)
  PROVE  /\ Denials(Compacted(c)) \subseteq Denials(c)
         /\ Denials(ResetConversation(c)) \subseteq Denials(c)
<1>1. Denials(Compacted(c)) \subseteq Denials(c)
  BY CompactedShape, ExtendedDenials
<1>2. Denials(ResetConversation(c)) \subseteq Denials(c)
  BY ResetShape DEF Denials
<1> QED BY <1>1, <1>2

LEMMA DenialsInvStep ==
  ASSUME TypeInv, TypeInv', StepInv, DenialsInv, [Next]_vars
  PROVE  DenialsInv'
<1>1. /\ conv \in Seq(Message) /\ snap \in Seq(Message) /\ effects \in Seq(Effect)
      /\ conv' \in Seq(Message) /\ effects' \in Seq(Effect) /\ BlockCap \in Nat
  BY NumbersAssumption DEF TypeInv, ControlOK, StoreOK
<1>2. CASE Onward
  BY <1>2 DEF Onward, DenialsInv
<1>3. CASE Ends
  BY <1>3, NoEffects DEF Ends, DenialsInv
<1>4. CASE ApplyEffect
  <2>1. PICK e \in Effect :
          /\ e = effects[1] /\ 1 \in DOMAIN effects /\ conv' = Stored(conv, e)
          /\ \A k \in DOMAIN effects' : k + 1 \in DOMAIN effects /\ effects'[k] = effects[k + 1]
          /\ \A k \in DOMAIN effects' : effects'[k].op # "replace"
    BY <1>4, ApplyEffectShape
  <2>2. \A k \in DOMAIN effects' : ~Adds(effects'[k], "denial")
    <3>1. \A k \in DOMAIN effects' : Len(effects) # 1
      BY <1>1, <2>1
    <3> QED BY <2>1, <3>1 DEF DenialsInv
  <2>3. CASE e.op = "append" /\ e.msg.kind = "denial"
    <3>1. /\ conv' = Append(conv, e.msg) /\ e.msg \in Message
          /\ Cardinality(Denials(conv)) + 1 <= BlockCap
      BY <1>1, <2>1, <2>3, StoredShape DEF DenialsInv, Adds
    <3>2. Extended(conv', conv) /\ Added(conv', conv) = {Len(conv) + 1}
      BY <1>1, <3>1, AppendShape
    <3>3. Denials(conv') \subseteq Denials(conv) \cup {Len(conv) + 1}
      BY <1>1, <3>2, ExtendedDenials
    <3>4. IsFiniteSet(Denials(conv)) /\ Cardinality(Denials(conv)) \in Nat
      BY <1>1, Positions DEF Denials, Turn
    <3> DEFINE P == Denials(conv) \cup {Len(conv) + 1}
    <3>5. IsFiniteSet(P) /\ Cardinality(P) <= Cardinality(Denials(conv)) + 1 /\ Cardinality(P) \in Nat
      <4>1. /\ IsFiniteSet(P)
            /\ Cardinality(P) = IF Len(conv) + 1 \in Denials(conv) THEN Cardinality(Denials(conv))
                               ELSE Cardinality(Denials(conv)) + 1
        BY <3>4, FS_AddElement
      <4> QED BY <3>4, <4>1
    <3>6. Cardinality(Denials(conv')) <= Cardinality(P) /\ Cardinality(Denials(conv')) \in Nat
      BY <3>3, <3>5, FS_Subset, FS_CardinalityType
    <3>7. Cardinality(Denials(conv')) <= BlockCap
      BY <1>1, <3>1, <3>4, <3>5, <3>6
    <3> QED BY <2>1, <2>2, <3>7 DEF DenialsInv
  <2>4. CASE e.op = "append" /\ e.msg.kind # "denial"
    <3>1. conv' = Append(conv, e.msg) /\ e.msg \in Message
      BY <1>1, <2>1, <2>4, StoredShape
    <3>2. Extended(conv', conv) /\ \A i \in Added(conv', conv) : conv'[i].kind # "denial"
      BY <1>1, <2>4, <3>1, AppendShape
    <3>3. Denials(conv') \subseteq Denials(conv)
      BY <1>1, <3>2, ExtendedDenials
    <3> QED BY <1>1, <2>1, <2>2, <3>3, FewerDenials DEF DenialsInv
  <2>5. CASE e.op \in {"patch", "hide", "usage"}
    <3>1. Extended(conv', conv) /\ Added(conv', conv) = {}
      BY <1>1, <2>1, <2>5, StoredShape
    <3>2. Denials(conv') \subseteq Denials(conv)
      BY <1>1, <3>1, ExtendedDenials
    <3> QED BY <1>1, <2>1, <2>2, <3>2, FewerDenials DEF DenialsInv
  <2>6. CASE e.op = "replace"
    <3>1. conv' = e.conv
      BY <1>1, <2>1, <2>6, StoredShape
    <3> QED BY <2>1, <2>2, <2>6, <3>1 DEF DenialsInv
  <2> QED BY <1>1, <2>3, <2>4, <2>5, <2>6, StoredShape
<1>5. CASE Speaks
  <2>1. PICK m \in Message : conv' = Append(conv, m) /\ m.kind \in {"prompt", "approval"}
    BY <1>5, SpeaksFacts
  <2>2. effects' = effects
    BY <1>5, SpeaksFacts
  <2>3. Extended(conv', conv) /\ \A i \in Added(conv', conv) : conv'[i].kind # "denial"
    BY <1>1, <2>1, AppendShape
  <2>4. Denials(conv') \subseteq Denials(conv)
    BY <1>1, <2>3, ExtendedDenials
  <2>5. /\ Cardinality(Denials(conv)) \in Nat /\ Cardinality(Denials(conv')) \in Nat
        /\ Cardinality(Denials(conv')) <= Cardinality(Denials(conv))
        /\ Cardinality(Denials(conv')) <= BlockCap
    BY <1>1, <2>4, FewerDenials DEF DenialsInv
  <2>6. Cardinality(Denials(conv)) + 1 <= BlockCap => Cardinality(Denials(conv')) + 1 <= BlockCap
    BY <1>1, <2>5
  <2> QED BY <2>2, <2>5, <2>6 DEF DenialsInv
<1>6. CASE Works
  <2>1. /\ conv' = conv /\ Continues(conv, snap) /\ HasKickoff(snap)
    BY <1>6 DEF Works, StepInv, TypeInv, ControlOK, Working
  <2>2. /\ Denials(conv) \subseteq Denials(snap) /\ Denials(snap) \subseteq Denials(conv)
    <3>1. \A i \in Added(conv, snap) : conv[i].kind # "denial" /\ ~IsKickoff(conv[i])
      BY <1>1, <2>1, ContinuesShape
    <3> QED BY <1>1, <2>1, <3>1, ContinuesShape, ExtendedDenials
  <2>3. Denials(snap) = Denials(conv)
    BY <2>2
  <2>4. CASE \A k \in DOMAIN effects' : Light(effects'[k])
    <3>1. \A k \in DOMAIN effects' : ~Adds(effects'[k], "denial") /\ effects'[k].op # "replace"
      BY <2>4 DEF Light, LightMsg, Adds
    <3> QED BY <2>1, <3>1 DEF DenialsInv
  <2>5. CASE Urges
    <3>0. \A e : Len(<<e>>) = 1 /\ \A k \in DOMAIN <<e>> : <<e>>[k] = e
      OBVIOUS
    <3>1. ASSUME NEW e, \A k \in DOMAIN effects' : effects'[k] = e, e.op = "append", e.msg.kind # "denial"
          PROVE  DenialsInv'
      BY <2>1, <3>1 DEF DenialsInv, Adds
    <3>2. /\ \A note : /\ Append_(Prompt(note)).op = "append"
                       /\ Append_(Prompt(note)).msg.kind # "denial"
          /\ Append_(Denial).op = "append"
      BY DEF Append_, Prompt, Msg
    <3>3. CASE effects' = <<Append_(Prompt("continuation"))>>
      BY <3>0, <3>1, <3>2, <3>3
    <3>4. CASE effects' = [k \in 1 .. queue |-> Append_(Prompt("steer"))]
      BY <3>1, <3>2, <3>4
    <3>5. CASE effects' = <<Append_(Denial)>> /\ Cardinality(Denials(snap)) + 1 <= BlockCap
      BY <2>1, <2>3, <3>0, <3>2, <3>5 DEF DenialsInv
    <3> QED BY <2>5, <3>3, <3>4, <3>5 DEF Urges
  <2>6. CASE Rewrites
    <3>1. PICK c : effects' = <<Replace(c)>> /\ c \in {Compacted(snap), ResetConversation(snap)}
      BY <2>6 DEF Rewrites
    <3>2. \A k \in DOMAIN effects' : effects'[k] = Replace(c)
      <4>1. \A e : \A k \in DOMAIN <<e>> : <<e>>[k] = e
        OBVIOUS
      <4> QED BY <3>1, <4>1
    <3>3. Replace(c).op = "replace" /\ Replace(c).conv = c
      BY DEF Replace
    <3>4. Cardinality(Denials(c)) <= BlockCap
      <4>1. Denials(c) \subseteq Denials(snap) /\ Cardinality(Denials(snap)) <= BlockCap
        BY <1>1, <2>1, <2>3, <3>1, RewrittenDenials DEF DenialsInv
      <4> QED BY <1>1, <4>1, FewerDenials
    <3> QED BY <2>1, <3>2, <3>3, <3>4 DEF DenialsInv, Adds
  <2> QED BY <1>6, <2>4, <2>5, <2>6, WorksLightly
<1> QED BY <1>2, <1>3, <1>4, <1>5, <1>6, StepClass

LEMMA DenialsInvInit == Init => DenialsInv
<1> SUFFICES ASSUME Init PROVE DenialsInv
  OBVIOUS
<1>1. conv = <<>> /\ effects = <<>>
  BY DEF Init
<1>2. Denials(conv) = {}
  BY <1>1, NoEffects DEF Denials, Turn
<1>3. Cardinality(Denials(conv)) <= BlockCap
  <2>1. Cardinality(Denials(conv)) = 0 /\ BlockCap \in Nat
    BY <1>2, FS_EmptySet, NumbersAssumption
  <2> QED BY <2>1
<1> QED BY <1>1, <1>3, NoEffects DEF DenialsInv

(* A Stop hook denies at most BlockCap times in a turn (ops_stop_hook):     *)
(* the count is read from a snapshot, and neither what clients write        *)
(* meanwhile nor a compaction makes it lag behind the store.                *)
THEOREM StopHooksAreCapped == Spec => []DenialsBounded
<1>1. TypeInv /\ StepInv /\ TypeInv' /\ DenialsInv /\ [Next]_vars => DenialsInv'
  BY DenialsInvStep
<1>2. DenialsInv => DenialsBounded
  BY DEF DenialsInv, DenialsBounded
<1> QED BY <1>1, <1>2, DenialsInvInit, StepInvHolds, PTL DEF Spec

-----------------------------------------------------------------------------
(* Reactive compactions *)

(* The provider is never shown a context-length error: the errors that      *)
(* count a turn's compactions are told apart by that.                       *)
Unseen(c) == \A i \in DOMAIN c : c[i].kind = "contextError" => ~c[i].av

CompactionsInv ==
  /\ Cardinality(ReactiveCompactions(conv)) <= MaxContextErrorCompactions /\ Unseen(conv)
  /\ \A k \in DOMAIN effects :
       /\ ~Adds(effects[k], "summary")
       /\ Adds(effects[k], "contextError") => ~effects[k].msg.av
       /\ effects[k].op = "replace" =>
            /\ Unseen(effects[k].conv)
            /\ Cardinality(ReactiveCompactions(effects[k].conv)) <= MaxContextErrorCompactions

LEMMA ExtendedCompactions ==
  ASSUME NEW c \in Seq(Message), NEW d \in Seq(Message), Extended(d, c)
  PROVE  /\ ReactiveCompactions(d) \subseteq ReactiveCompactions(c) \cup {i \in Added(d, c) : d[i].kind = "summary"}
         /\ (\A i \in Added(d, c) : ~IsKickoff(d[i])) => ReactiveCompactions(c) \subseteq ReactiveCompactions(d)
<1>1. Turn(d) \cap DOMAIN c \subseteq Turn(c) /\ Turn(d) \subseteq DOMAIN d /\ DOMAIN c \subseteq DOMAIN d
  BY ExtendedTurn DEF Turn
<1>2. \A i \in DOMAIN c : d[i].kind = c[i].kind
  BY DEF Extended, Like
<1>3. \A i \in DOMAIN c : i > 1 => i - 1 \in DOMAIN c
  OBVIOUS
<1>4. ReactiveCompactions(d) \subseteq ReactiveCompactions(c) \cup {i \in Added(d, c) : d[i].kind = "summary"}
  BY <1>1, <1>2, <1>3 DEF ReactiveCompactions, Added
<1>5. ASSUME \A i \in Added(d, c) : ~IsKickoff(d[i])
      PROVE  ReactiveCompactions(c) \subseteq ReactiveCompactions(d)
  <2>1. Turn(c) \subseteq Turn(d) /\ Turn(c) \subseteq DOMAIN c
    BY <1>5, ExtendedTurn DEF Turn
  <2> QED BY <1>2, <1>3, <2>1 DEF ReactiveCompactions
<1> QED BY <1>4, <1>5

LEMMA FewerCompactions ==
  ASSUME NEW c \in Seq(Message), NEW d, ReactiveCompactions(d) \subseteq ReactiveCompactions(c),
         Cardinality(ReactiveCompactions(c)) <= MaxContextErrorCompactions
  PROVE  Cardinality(ReactiveCompactions(d)) <= MaxContextErrorCompactions
<1>1. ReactiveCompactions(c) \in SUBSET DOMAIN c /\ MaxContextErrorCompactions \in Nat
  BY NumbersAssumption DEF ReactiveCompactions, Turn
<1>2. /\ Cardinality(ReactiveCompactions(c)) \in Nat /\ Cardinality(ReactiveCompactions(d)) \in Nat
      /\ Cardinality(ReactiveCompactions(d)) <= Cardinality(ReactiveCompactions(c))
  BY <1>1, Positions
<1> QED BY <1>1, <1>2

LEMMA ExtendedUnseen ==
  ASSUME NEW c \in Seq(Message), NEW d \in Seq(Message), Extended(d, c), Unseen(c),
         \A i \in Added(d, c) : d[i].kind = "contextError" => ~d[i].av
  PROVE  Unseen(d)
<1>1. \A i \in DOMAIN c : d[i].kind = c[i].kind /\ (d[i].av => c[i].av)
  BY DEF Extended, Like
<1> QED BY <1>1 DEF Unseen, Added

(* A compaction counts as reactive for the error before its summary: those  *)
(* errors are in the turn, and there were not too many of them.             *)
LEMMA CompactedCounts ==
  ASSUME NEW c \in Seq(Message), HasKickoff(c), Unseen(c), NeedsCompaction(c),
         Cardinality(ReactiveCompactions(c)) <= MaxContextErrorCompactions
  PROVE  Cardinality(ReactiveCompactions(Compacted(c))) <= MaxContextErrorCompactions
<1> DEFINE d == Compacted(c)
<1>1. /\ d \in Seq(Message) /\ Extended(d, c) /\ MaxContextErrorCompactions \in Nat
      /\ DOMAIN c = 1 .. Len(c) /\ Len(c) \in Nat
      /\ \A i \in Added(d, c) : /\ ~IsKickoff(d[i])
                                /\ d[i].kind = "summary" => i = Len(c) + 1
  BY CompactedShape, NumbersAssumption
<1> HIDE DEF d
<1>2. c # <<>> /\ Len(c) \in DOMAIN c
  <2>1. \E i : i \in DOMAIN c
    BY DEF HasKickoff
  <2> QED BY <1>1, <2>1
<1>3. \A i \in DOMAIN c : d[i].kind = c[i].kind
  BY <1>1 DEF Extended, Like
<1>4. CASE c[Len(c)].kind = "contextError"
  <2>1. Cardinality(ContextErrors(c)) <= MaxContextErrorCompactions
    BY <1>2, <1>4 DEF NeedsCompaction, TrailingError, Last, Errors
  <2>2. ASSUME NEW i \in ReactiveCompactions(d)
        PROVE  i \in Int /\ i - 1 \in ContextErrors(c)
    <3>1. i \in DOMAIN d /\ i > 1 /\ d[i].kind = "summary" /\ d[i - 1].kind = "contextError" /\ i \in Turn(d)
      BY DEF ReactiveCompactions, Turn
    <3>2. i \in DOMAIN c \/ i = Len(c) + 1
      BY <1>1, <3>1 DEF Added
    <3>3. i - 1 \in DOMAIN c
      BY <1>1, <3>1, <3>2
    <3>4. c[i - 1].kind = "contextError" /\ ~c[i - 1].av
      BY <1>3, <3>1, <3>3 DEF Unseen
    <3>5. ASSUME NEW j \in DOMAIN c, IsKickoff(c[j])
          PROVE  j <= i - 1
      <4>1. j \in DOMAIN d /\ IsKickoff(d[j])
        BY <1>1, <3>5, ExtendedTurn
      <4>2. j <= i /\ j # i
        BY <3>1, <4>1 DEF Turn, IsKickoff, UserKinds
      <4> QED BY <1>1, <3>2, <4>2
    <3> QED BY <1>1, <3>2, <3>3, <3>4, <3>5 DEF ContextErrors, Turn
  <2> DEFINE f == [i \in ReactiveCompactions(d) |-> i - 1]
  <2>3. f \in Injection(ReactiveCompactions(d), ContextErrors(c))
    BY <2>2 DEF Injection, IsInjective
  <2>4. ContextErrors(c) \in SUBSET DOMAIN c
    BY DEF ContextErrors, Turn
  <2>5. IsFiniteSet(ContextErrors(c)) /\ Cardinality(ContextErrors(c)) \in Nat
    BY <2>4, Positions
  <2> HIDE DEF f
  <2>6. /\ IsFiniteSet(ReactiveCompactions(d))
        /\ Cardinality(ReactiveCompactions(d)) <= Cardinality(ContextErrors(c))
    BY <2>3, <2>5, FS_Injection
  <2>7. Cardinality(ReactiveCompactions(d)) \in Nat
    BY <2>6, FS_CardinalityType
  <2> QED BY <1>1, <2>1, <2>5, <2>6, <2>7 DEF d
<1>5. CASE c[Len(c)].kind # "contextError"
  <2>1. ReactiveCompactions(d) \subseteq ReactiveCompactions(c)
    <3>1. ASSUME NEW i \in ReactiveCompactions(d)
          PROVE  i \in ReactiveCompactions(c)
      <4>1. i \in DOMAIN d /\ i > 1 /\ d[i].kind = "summary" /\ d[i - 1].kind = "contextError"
        BY DEF ReactiveCompactions, Turn
      <4>2. i \in ReactiveCompactions(c) \/ i = Len(c) + 1
        BY <1>1, <4>1, ExtendedCompactions
      <4>3. i = Len(c) + 1 => i - 1 = Len(c)
        BY <1>1
      <4> QED BY <1>2, <1>3, <1>5, <4>1, <4>2, <4>3
    <3> QED BY <3>1
  <2> QED BY <2>1, FewerCompactions DEF d
<1> QED BY <1>4, <1>5

LEMMA ResetCompactions ==
  ASSUME NEW c \in Seq(Message), HasKickoff(c), Unseen(c)
  PROVE  /\ Unseen(ResetConversation(c))
         /\ Cardinality(ReactiveCompactions(ResetConversation(c))) <= MaxContextErrorCompactions
<1> DEFINE k == Kickoff(c)
           d == ResetConversation(c)
<1>1. /\ DOMAIN d = 1 .. k /\ k \in DOMAIN c /\ IsKickoff(c[k]) /\ Turn(d) = {k}
      /\ \A i \in 1 .. k - 1 : d[i] = c[i]
      /\ d[k].kind = c[k].kind /\ d[k].av = c[k].av
      /\ DOMAIN c = 1 .. Len(c) /\ Len(c) \in Nat
  BY ResetShape
<1> HIDE DEF k, d
<1>2. \A i \in DOMAIN d : i \in DOMAIN c /\ d[i].kind = c[i].kind /\ d[i].av = c[i].av
  <2>1. \A i \in 1 .. k : i \in DOMAIN c /\ (i = k \/ i \in 1 .. k - 1)
    BY <1>1
  <2> QED BY <1>1, <2>1
<1>3. Unseen(d)
  BY <1>2 DEF Unseen
<1>4. ReactiveCompactions(d) = {}
  BY <1>1 DEF ReactiveCompactions, IsKickoff, UserKinds
<1>5. Cardinality({}) = 0 /\ MaxContextErrorCompactions \in Nat
  BY FS_EmptySet, NumbersAssumption
<1> QED BY <1>3, <1>4, <1>5 DEF d

LEMMA CompactionsInvStep ==
  ASSUME TypeInv, TypeInv', StepInv, CompactionsInv, [Next]_vars
  PROVE  CompactionsInv'
<1>1. /\ conv \in Seq(Message) /\ snap \in Seq(Message) /\ effects \in Seq(Effect)
      /\ conv' \in Seq(Message) /\ effects' \in Seq(Effect)
  BY DEF TypeInv, ControlOK, StoreOK
<1>2. CASE Onward
  BY <1>2 DEF Onward, CompactionsInv
<1>3. CASE Ends
  BY <1>3, NoEffects DEF Ends, CompactionsInv
(* The store grows by what is neither a summary nor a visible error. *)
<1>4. ASSUME Extended(conv', conv),
             \A i \in Added(conv', conv) : /\ conv'[i].kind # "summary"
                                           /\ conv'[i].kind = "contextError" => ~conv'[i].av
      PROVE  Unseen(conv') /\ Cardinality(ReactiveCompactions(conv')) <= MaxContextErrorCompactions
  <2>1. {i \in Added(conv', conv) : conv'[i].kind = "summary"} = {}
    BY <1>4
  <2>2. ReactiveCompactions(conv')
          \subseteq ReactiveCompactions(conv) \cup {i \in Added(conv', conv) : conv'[i].kind = "summary"}
    BY <1>1, <1>4, ExtendedCompactions
  <2>3. ReactiveCompactions(conv') \subseteq ReactiveCompactions(conv)
    BY <2>1, <2>2
  <2> QED BY <1>1, <1>4, <2>3, FewerCompactions, ExtendedUnseen DEF CompactionsInv
<1>5. CASE ApplyEffect
  <2>1. PICK e \in Effect :
          /\ e = effects[1] /\ 1 \in DOMAIN effects /\ conv' = Stored(conv, e)
          /\ \A k \in DOMAIN effects' : k + 1 \in DOMAIN effects /\ effects'[k] = effects[k + 1]
    BY <1>5, ApplyEffectShape
  <2>2. CASE e.op = "append"
    <3>1. conv' = Append(conv, e.msg) /\ e.msg \in Message
      BY <1>1, <2>1, <2>2, StoredShape
    <3>2. e.msg.kind # "summary" /\ (e.msg.kind = "contextError" => ~e.msg.av)
      BY <2>1, <2>2 DEF CompactionsInv, Adds
    <3>3. Unseen(conv') /\ Cardinality(ReactiveCompactions(conv')) <= MaxContextErrorCompactions
      BY <1>1, <1>4, <3>1, <3>2, AppendShape
    <3> QED BY <2>1, <3>3 DEF CompactionsInv
  <2>3. CASE e.op \in {"patch", "hide", "usage"}
    <3>1. Extended(conv', conv) /\ Added(conv', conv) = {}
      BY <1>1, <2>1, <2>3, StoredShape
    <3> QED BY <1>4, <2>1, <3>1 DEF CompactionsInv
  <2>4. CASE e.op = "replace"
    <3>1. conv' = e.conv
      BY <1>1, <2>1, <2>4, StoredShape
    <3> QED BY <2>1, <2>4, <3>1 DEF CompactionsInv
  <2> QED BY <1>1, <2>2, <2>3, <2>4, StoredShape
<1>6. CASE Speaks
  <2>1. PICK m \in Message : conv' = Append(conv, m) /\ m.kind \in {"prompt", "approval"}
    BY <1>6, SpeaksFacts
  <2>2. effects' = effects
    BY <1>6, SpeaksFacts
  <2>3. Extended(conv', conv) /\ \A i \in Added(conv', conv) : conv'[i].kind \in {"prompt", "approval"}
    BY <1>1, <2>1, AppendShape
  <2>4. Unseen(conv') /\ Cardinality(ReactiveCompactions(conv')) <= MaxContextErrorCompactions
    BY <1>4, <2>3
  <2> QED BY <2>2, <2>4 DEF CompactionsInv
<1>7. CASE Works
  <2>1. /\ conv' = conv /\ Continues(conv, snap) /\ HasKickoff(snap)
    BY <1>7 DEF Works, StepInv, TypeInv, ControlOK, Working
  <2>2. Unseen(snap) /\ Cardinality(ReactiveCompactions(snap)) <= MaxContextErrorCompactions
    <3>1. Unseen(snap)
      <4>1. \A i \in DOMAIN snap : i \in DOMAIN conv /\ conv[i] = snap[i]
        BY <1>1, <2>1 DEF Continues
      <4> QED BY <4>1 DEF CompactionsInv, Unseen
    <3>2. ReactiveCompactions(snap) \subseteq ReactiveCompactions(conv)
      BY <1>1, <2>1, ContinuesShape, ExtendedCompactions
    <3> QED BY <1>1, <3>1, <3>2, FewerCompactions DEF CompactionsInv
  <2>3. ASSUME NEW e, \A k \in DOMAIN effects' : effects'[k] = e,
               e.op = "append", e.msg.kind \in {"prompt", "denial"}
        PROVE  CompactionsInv'
    BY <2>1, <2>3 DEF CompactionsInv, Adds
  <2>4. CASE \A k \in DOMAIN effects' : Light(effects'[k])
    <3>1. \A k \in DOMAIN effects' :
             /\ ~Adds(effects'[k], "summary") /\ effects'[k].op # "replace"
             /\ Adds(effects'[k], "contextError") => ~effects'[k].msg.av
      BY <2>4 DEF Light, LightMsg, Adds
    <3> QED BY <2>1, <3>1 DEF CompactionsInv
  <2>5. CASE Urges
    <3>1. \A e : \A k \in DOMAIN <<e>> : <<e>>[k] = e
      OBVIOUS
    <3>2. /\ \A note : /\ Append_(Prompt(note)).op = "append"
                       /\ Append_(Prompt(note)).msg.kind = "prompt"
          /\ Append_(Denial).op = "append" /\ Append_(Denial).msg.kind = "denial"
      BY DEF Append_, Prompt, Msg, Denial
    <3> DEFINE e1 == Append_(Prompt("continuation"))
               e2 == Append_(Prompt("steer"))
               e3 == Append_(Denial)
    <3>3. effects' = <<e1>> \/ effects' = [k \in 1 .. queue |-> e2] \/ effects' = <<e3>>
      BY <2>5 DEF Urges
    <3>4. /\ e1.op = "append" /\ e1.msg.kind = "prompt" /\ e2.op = "append" /\ e2.msg.kind = "prompt"
          /\ e3.op = "append" /\ e3.msg.kind = "denial"
      BY <3>2
    <3> HIDE DEF e1, e2, e3
    <3> QED BY <2>3, <3>1, <3>3, <3>4
  <2>6. CASE Rewrites
    <3>1. PICK c : /\ effects' = <<Replace(c)>>
                   /\ (c = Compacted(snap) /\ NeedsCompaction(snap)) \/ c = ResetConversation(snap)
      BY <2>6 DEF Rewrites
    <3>2. \A k \in DOMAIN effects' : effects'[k] = Replace(c)
      <4>1. \A e : \A k \in DOMAIN <<e>> : <<e>>[k] = e
        OBVIOUS
      <4> QED BY <3>1, <4>1
    <3>3. Replace(c).op = "replace" /\ Replace(c).conv = c
      BY DEF Replace
    <3>4. Unseen(c) /\ Cardinality(ReactiveCompactions(c)) <= MaxContextErrorCompactions
      <4>1. CASE c = Compacted(snap) /\ NeedsCompaction(snap)
        <5>1. /\ c \in Seq(Message) /\ Extended(c, snap)
              /\ \A i \in Added(c, snap) : c[i].kind # "contextError"
          BY <1>1, <2>1, <4>1, CompactedShape
        <5> QED BY <1>1, <2>1, <2>2, <4>1, <5>1, ExtendedUnseen, CompactedCounts
      <4>2. CASE c = ResetConversation(snap)
        BY <1>1, <2>1, <2>2, <4>2, ResetCompactions
      <4> QED BY <3>1, <4>1, <4>2
    <3> QED BY <2>1, <3>2, <3>3, <3>4 DEF CompactionsInv, Adds
  <2> QED BY <1>7, <2>4, <2>5, <2>6, WorksLightly
<1> QED BY <1>2, <1>3, <1>5, <1>6, <1>7, StepClass

LEMMA CompactionsInvInit == Init => CompactionsInv
<1> SUFFICES ASSUME Init PROVE CompactionsInv
  OBVIOUS
<1>1. conv = <<>> /\ effects = <<>>
  BY DEF Init
<1>2. ReactiveCompactions(conv) = {} /\ Unseen(conv)
  BY <1>1, NoEffects DEF ReactiveCompactions, Turn, Unseen
<1>3. Cardinality(ReactiveCompactions(conv)) <= MaxContextErrorCompactions
  <2>1. Cardinality(ReactiveCompactions(conv)) = 0 /\ MaxContextErrorCompactions \in Nat
    BY <1>2, FS_EmptySet, NumbersAssumption
  <2> QED BY <2>1
<1> QED BY <1>1, <1>2, <1>3, NoEffects DEF CompactionsInv

(* A turn is compacted at most MaxContextErrorCompactions times for         *)
(* context-length errors (ops_compaction): each such compaction follows     *)
(* the error it answers, and the errors stay in the turn it rewrites.       *)
THEOREM CompactionsAreCapped == Spec => []ReactiveCompactionsBounded
<1>1. TypeInv /\ StepInv /\ TypeInv' /\ CompactionsInv /\ [Next]_vars => CompactionsInv'
  BY CompactionsInvStep
<1>2. CompactionsInv => ReactiveCompactionsBounded
  BY DEF CompactionsInv, ReactiveCompactionsBounded
<1> QED BY <1>1, <1>2, CompactionsInvInit, StepInvHolds, PTL DEF Spec

-----------------------------------------------------------------------------
(* Queued guidance *)

SteerAt(c)       == {i \in DOMAIN c : c[i].note = "steer"}
SteerAppends(es) == {k \in DOMAIN es : es[k].op = "append" /\ es[k].msg.note = "steer"}

(* Guidance opens a turn, so that a retry, which goes back to where the     *)
(* turn began, keeps it.                                                    *)
SteersOpen(c) == \A i \in SteerAt(c) : IsKickoff(c[i])

SteersInv ==
  /\ SteersKept /\ SteersOpen(conv)
  /\ \A k \in SteerAppends(effects) : IsKickoff(effects[k].msg)
  /\ \A k \in DOMAIN effects :
       effects[k].op = "replace" => SteersOpen(effects[k].conv) /\ SteerAt(effects[k].conv) = SteerAt(conv)

LEMMA ExtendedSteers ==
  ASSUME NEW c \in Seq(Message), NEW d \in Seq(Message), Extended(d, c), SteersOpen(c)
  PROVE  /\ SteerAt(d) = SteerAt(c) \cup {i \in Added(d, c) : d[i].note = "steer"}
         /\ (\A i \in Added(d, c) : d[i].note = "steer" => IsKickoff(d[i])) => SteersOpen(d)
<1>1. DOMAIN c \subseteq DOMAIN d /\ \A i \in DOMAIN c : IsKickoff(c[i]) = IsKickoff(d[i])
  BY ExtendedTurn
<1>2. \A i \in DOMAIN c : c[i].note = "steer" <=> d[i].note = "steer"
  <2>1. \A i \in DOMAIN c : /\ d[i].kind = c[i].kind
                            /\ d[i].note = c[i].note \/ (d[i].kind = "request" /\ d[i].note \in {"yes", "no"})
    BY DEF Extended, Like
  <2>2. \A i \in DOMAIN c : c[i].note = "steer" => c[i].kind # "request"
    BY DEF SteersOpen, SteerAt, IsKickoff, UserKinds
  <2> QED BY <2>1, <2>2
<1>3. SteerAt(d) = SteerAt(c) \cup {i \in Added(d, c) : d[i].note = "steer"}
  BY <1>1, <1>2 DEF SteerAt, Added
<1> QED BY <1>1, <1>2, <1>3 DEF SteersOpen, SteerAt

(* What carries no guidance leaves it where it was. *)
LEMMA PlainSteers ==
  ASSUME NEW c \in Seq(Message), NEW d \in Seq(Message), Extended(d, c), SteersOpen(c),
         \A i \in Added(d, c) : d[i].note # "steer"
  PROVE  SteerAt(d) = SteerAt(c) /\ SteersOpen(d)
<1>1. {i \in Added(d, c) : d[i].note = "steer"} = {}
  OBVIOUS
<1>2. SteerAt(d) = SteerAt(c) \cup {i \in Added(d, c) : d[i].note = "steer"}
  BY ExtendedSteers
<1>3. (\A i \in Added(d, c) : d[i].note = "steer" => IsKickoff(d[i])) => SteersOpen(d)
  BY ExtendedSteers
<1> QED BY <1>1, <1>2, <1>3

LEMMA ResetSteers ==
  ASSUME NEW c \in Seq(Message), HasKickoff(c), SteersOpen(c)
  PROVE  /\ SteerAt(ResetConversation(c)) = SteerAt(c)
         /\ SteersOpen(ResetConversation(c))
<1> DEFINE k == Kickoff(c)
           d == ResetConversation(c)
<1>1. /\ DOMAIN d = 1 .. k /\ k \in DOMAIN c /\ IsKickoff(c[k])
      /\ \A i \in 1 .. k - 1 : d[i] = c[i]
      /\ d[k].kind = c[k].kind /\ d[k].uv = c[k].uv /\ d[k].note = c[k].note
      /\ DOMAIN c = 1 .. Len(c) /\ Len(c) \in Nat
  BY ResetShape
<1>2. \A j \in DOMAIN c : IsKickoff(c[j]) => j <= k
  BY KickoffExists
<1> HIDE DEF k, d
<1>3. \A i \in DOMAIN d : i \in DOMAIN c /\ d[i].note = c[i].note /\ (IsKickoff(d[i]) <=> IsKickoff(c[i]))
  <2>1. \A i \in 1 .. k : i \in DOMAIN c /\ (i = k \/ i \in 1 .. k - 1)
    BY <1>1
  <2> QED BY <1>1, <2>1 DEF IsKickoff
<1>4. \A i \in SteerAt(c) : i \in DOMAIN d
  BY <1>1, <1>2 DEF SteersOpen, SteerAt
<1>5. SteerAt(d) = SteerAt(c)
  BY <1>3, <1>4 DEF SteerAt
<1>6. SteersOpen(d)
  BY <1>3 DEF SteersOpen, SteerAt
<1> QED BY <1>5, <1>6 DEF d

LEMMA SteersCounted ==
  ASSUME NEW c \in Seq(Message), NEW es \in Seq(Effect)
  PROVE  /\ SteersIn(c) = Cardinality(SteerAt(c)) /\ SteersIn(c) \in Nat /\ IsFiniteSet(SteerAt(c))
         /\ SteersIn2(es) = Cardinality(SteerAppends(es)) /\ SteersIn2(es) \in Nat
         /\ SteerAppends(es) = {} => SteersIn2(es) = 0
         /\ es # <<>> =>
              SteersIn2(es) = SteersIn2(Tail(es)) + IF 1 \in SteerAppends(es) THEN 1 ELSE 0
<1>1. SteersIn(c) = Cardinality(SteerAt(c)) /\ \A ls : SteersIn2(ls) = Cardinality(SteerAppends(ls))
  BY DEF SteersIn, SteersIn2, SteerAt, SteerAppends
<1>2. SteerAt(c) \in SUBSET DOMAIN c /\ \A ls : SteerAppends(ls) \in SUBSET DOMAIN ls
  BY DEF SteerAt, SteerAppends
<1>3. IsFiniteSet(SteerAt(c)) /\ Cardinality(SteerAt(c)) \in Nat
  BY <1>2, Positions
<1>4. IsFiniteSet(SteerAppends(es)) /\ Cardinality(SteerAppends(es)) \in Nat
  BY <1>2, Positions
<1>5. ASSUME es # <<>>
      PROVE  SteersIn2(es) = SteersIn2(Tail(es)) + IF 1 \in SteerAppends(es) THEN 1 ELSE 0
  <2> DEFINE A == SteerAppends(es)
             B == SteerAppends(Tail(es))
  <2>1. /\ Tail(es) \in Seq(Effect) /\ DOMAIN es = 1 .. Len(es) /\ Len(es) \in Nat /\ Len(es) >= 1
        /\ DOMAIN Tail(es) = 1 .. Len(es) - 1
        /\ \A k \in 1 .. Len(es) - 1 : Tail(es)[k] = es[k + 1]
    BY <1>5
  <2>2. IsFiniteSet(B) /\ Cardinality(B) \in Nat /\ B \subseteq 1 .. Len(es) - 1
    BY <1>2, <2>1, Positions
  <2>3. \A k \in B : k \in Nat /\ k + 1 \in A \ {1}
    BY <2>1, <2>2 DEF SteerAppends
  <2>4. \A k \in A \ {1} : k \in Nat /\ k - 1 \in B
    <3>1. ASSUME NEW k \in A \ {1}
          PROVE  k \in Nat /\ k - 1 \in B
      <4>1. k \in 1 .. Len(es) /\ k # 1 /\ es[k].op = "append" /\ es[k].msg.note = "steer"
        BY <2>1 DEF SteerAppends
      <4>2. k - 1 \in 1 .. Len(es) - 1 /\ (k - 1) + 1 = k
        BY <2>1, <4>1
      <4>3. Tail(es)[k - 1] = es[k]
        BY <2>1, <4>2
      <4> QED BY <2>1, <4>1, <4>2, <4>3 DEF SteerAppends
    <3> QED BY <3>1
  <2> DEFINE f == [k \in B |-> k + 1]
  <2> HIDE DEF A, B
  <2>5. f \in Bijection(B, A \ {1})
    <3>1. f \in Injection(B, A \ {1})
      BY <2>3 DEF Injection, IsInjective
    <3>2. f \in Surjection(B, A \ {1})
      <4>1. \A k \in A \ {1} : k - 1 \in B /\ f[k - 1] = k
        BY <2>4
      <4> HIDE DEF f
      <4> QED BY <3>1, <4>1 DEF Injection, Surjection
    <3> HIDE DEF f
    <3> QED BY <3>1, <3>2 DEF Bijection
  <2>6. Cardinality(A \ {1}) = Cardinality(B)
    <3>1. ExistsBijection(B, A \ {1})
      BY <2>5 DEF ExistsBijection
    <3> QED BY <2>2, <3>1, FS_Bijection
  <2>7. Cardinality(A \ {1}) = IF 1 \in A THEN Cardinality(A) - 1 ELSE Cardinality(A)
    BY <1>4, FS_RemoveElement DEF A
  <2> QED BY <1>1, <1>4, <2>2, <2>6, <2>7 DEF A, B
<1>6. SteerAppends(es) = {} => SteersIn2(es) = 0
  BY <1>1, FS_EmptySet
<1> QED BY <1>1, <1>3, <1>4, <1>5, <1>6

(* Guidance before a step is as much as after it. *)
LEMMA SameSum ==
  ASSUME SteersIn(conv) \in Nat, SteersIn(conv') \in Nat,
         SteersIn2(effects) \in Nat, SteersIn2(effects') \in Nat,
         queue \in Nat, queue' \in Nat, used.steers \in Nat, used'.steers \in Nat,
         SteersIn(conv') + SteersIn2(effects') + queue' + used.steers =
           SteersIn(conv) + SteersIn2(effects) + queue + used'.steers,
         SteersIn(conv) + SteersIn2(effects) + queue = used.steers
  PROVE  SteersIn(conv') + SteersIn2(effects') + queue' = used'.steers
OBVIOUS

LEMMA SteadySum ==
  ASSUME SteersIn(conv) \in Nat, SteersIn2(effects) \in Nat,
         queue \in Nat, queue' \in Nat, used.steers \in Nat, used'.steers \in Nat,
         used'.steers + queue = used.steers + queue'
  PROVE  SteersIn(conv) + SteersIn2(effects) + queue' + used.steers =
           SteersIn(conv) + SteersIn2(effects) + queue + used'.steers
OBVIOUS

LEMMA SameSteers ==
  ASSUME TypeInv, TypeInv', SteersKept, used'.crashes = used.crashes,
         SteersIn(conv') + SteersIn2(effects') + queue' + used.steers =
           SteersIn(conv) + SteersIn2(effects) + queue + used'.steers
  PROVE  SteersKept'
<1>1. /\ conv \in Seq(Message) /\ effects \in Seq(Effect) /\ queue \in Nat
      /\ conv' \in Seq(Message) /\ effects' \in Seq(Effect) /\ queue' \in Nat
      /\ used.steers \in Nat /\ used'.steers \in Nat
  BY DEF TypeInv, ControlOK, StoreOK, MemoryOK, HistoryOK
<1>2. /\ SteersIn(conv) \in Nat /\ SteersIn2(effects) \in Nat
      /\ SteersIn(conv') \in Nat /\ SteersIn2(effects') \in Nat
  BY <1>1, SteersCounted
<1>3. ASSUME used.crashes = 0
      PROVE  SteersIn(conv') + SteersIn2(effects') + queue' = used'.steers
  <2>1. SteersIn(conv) + SteersIn2(effects) + queue = used.steers
    BY <1>3 DEF SteersKept
  <2> QED BY <1>1, <1>2, <2>1, SameSum
<1> QED BY <1>3 DEF SteersKept

LEMMA SteersInvStep ==
  ASSUME TypeInv, TypeInv', StepInv, SteersInv, [Next]_vars
  PROVE  SteersInv'
<1>1. /\ conv \in Seq(Message) /\ snap \in Seq(Message) /\ effects \in Seq(Effect)
      /\ conv' \in Seq(Message) /\ effects' \in Seq(Effect)
      /\ queue \in Nat /\ queue' \in Nat /\ used.steers \in Nat /\ used'.steers \in Nat
      /\ used.crashes \in Nat
  BY DEF TypeInv, ControlOK, StoreOK, MemoryOK, HistoryOK
<1>2. /\ SteersIn(conv) \in Nat /\ SteersIn2(effects) \in Nat
      /\ SteersIn(conv') \in Nat /\ SteersIn2(effects') \in Nat
  BY <1>1, SteersCounted
<1>3. SteerAppends(<<>>) = {} /\ SteersIn2(<<>>) = 0
  <2>1. SteerAppends(<<>>) = {}
    BY NoEffects DEF SteerAppends
  <2> QED BY <2>1, NoEffects, SteersCounted
<1>4. CASE Onward
  <2>1. SteersKept'
    <3>1. /\ SteersIn(conv') = SteersIn(conv) /\ SteersIn2(effects') = SteersIn2(effects)
          /\ used'.crashes = used.crashes /\ used'.steers + queue = used.steers + queue'
      BY <1>4 DEF Onward, Steady
    <3> QED BY <1>1, <1>2, <3>1, SteadySum, SameSteers DEF SteersInv
  <2> QED BY <1>4, <2>1 DEF Onward, SteersInv, SteersOpen, SteerAt, SteerAppends
<1>5. CASE Ends
  <2>1. SteersKept'
    <3>1. CASE used'.crashes = used.crashes + 1
      BY <1>1, <3>1 DEF SteersKept
    <3>2. CASE effects = <<>> /\ Steady
      <4>1. /\ SteersIn(conv') = SteersIn(conv) /\ SteersIn2(effects') = SteersIn2(effects)
            /\ used'.crashes = used.crashes /\ used'.steers + queue = used.steers + queue'
        BY <1>5, <3>2 DEF Ends, Steady
      <4> QED BY <1>1, <1>2, <4>1, SteadySum, SameSteers DEF SteersInv
    <3> QED BY <1>5, <3>1, <3>2 DEF Ends
  <2> QED BY <1>3, <1>5, <2>1, NoEffects DEF Ends, SteersInv, SteersOpen, SteerAt
<1>6. CASE ApplyEffect
  <2>1. PICK e \in Effect :
          /\ e = effects[1] /\ 1 \in DOMAIN effects /\ conv' = Stored(conv, e)
          /\ effects' = Tail(effects)
          /\ \A k \in DOMAIN effects' : k + 1 \in DOMAIN effects /\ effects'[k] = effects[k + 1]
          /\ \A k \in DOMAIN effects' : effects'[k].op # "replace"
          /\ UNCHANGED <<used, queue>>
    BY <1>6, ApplyEffectShape
  <2>2. /\ \A k \in SteerAppends(effects') : IsKickoff(effects'[k].msg)
        /\ \A k \in DOMAIN effects' : effects'[k].op = "replace" =>
             SteersOpen(effects'[k].conv) /\ SteerAt(effects'[k].conv) = SteerAt(conv')
    BY <2>1 DEF SteersInv, SteerAppends
  <2>3. SteersIn2(effects) = SteersIn2(effects') + IF 1 \in SteerAppends(effects) THEN 1 ELSE 0
    <3>1. effects # <<>>
      BY <2>1
    <3> QED BY <1>1, <2>1, <3>1, SteersCounted
  <2>4. ASSUME SteersOpen(conv'),
               SteersIn(conv') = SteersIn(conv) + IF 1 \in SteerAppends(effects) THEN 1 ELSE 0
        PROVE  SteersInv'
    <3>1. SteersKept'
      BY <1>1, <1>2, <2>1, <2>3, <2>4, SameSteers DEF SteersInv
    <3> QED BY <2>2, <2>4, <3>1 DEF SteersInv
  <2>5. CASE e.op = "append"
    <3>1. conv' = Append(conv, e.msg) /\ e.msg \in Message
      BY <1>1, <2>1, <2>5, StoredShape
    <3>2. /\ Extended(conv', conv) /\ Added(conv', conv) = {Len(conv) + 1}
          /\ conv'[Len(conv) + 1] = e.msg
      BY <1>1, <3>1, AppendShape
    <3>3. 1 \in SteerAppends(effects) <=> e.msg.note = "steer"
      BY <2>1, <2>5 DEF SteerAppends
    <3>4. e.msg.note = "steer" => IsKickoff(e.msg)
      BY <2>1, <3>3 DEF SteersInv
    <3>5. /\ SteerAt(conv') = SteerAt(conv) \cup {i \in {Len(conv) + 1} : e.msg.note = "steer"}
          /\ SteersOpen(conv')
      BY <1>1, <3>2, <3>4, ExtendedSteers DEF SteersInv
    <3>6. /\ SteersIn(conv') = Cardinality(SteerAt(conv')) /\ SteersIn(conv) = Cardinality(SteerAt(conv))
          /\ IsFiniteSet(SteerAt(conv))
      BY <1>1, SteersCounted
    <3>7. SteersIn(conv') = SteersIn(conv) + IF 1 \in SteerAppends(effects) THEN 1 ELSE 0
      <4>1. CASE e.msg.note = "steer"
        <5>1. SteerAt(conv') = SteerAt(conv) \cup {Len(conv) + 1}
          BY <3>5, <4>1
        <5>2. Len(conv) + 1 \notin SteerAt(conv)
          BY <1>1 DEF SteerAt
        <5> QED BY <3>3, <3>6, <4>1, <5>1, <5>2, FS_AddElement
      <4>2. CASE e.msg.note # "steer"
        <5>1. SteerAt(conv') = SteerAt(conv)
          BY <3>5, <4>2
        <5> QED BY <1>2, <3>3, <3>6, <4>2, <5>1
      <4> QED BY <4>1, <4>2
    <3> QED BY <2>4, <3>5, <3>7
  <2>6. CASE e.op \in {"patch", "hide", "usage"}
    <3>1. Extended(conv', conv) /\ Added(conv', conv) = {}
      BY <1>1, <2>1, <2>6, StoredShape
    <3>2. SteerAt(conv') = SteerAt(conv) /\ SteersOpen(conv')
      BY <1>1, <3>1, PlainSteers DEF SteersInv
    <3>3. 1 \notin SteerAppends(effects) /\ SteersIn(conv') = SteersIn(conv)
      BY <2>1, <2>6, <3>2 DEF SteerAppends, SteersIn, SteerAt
    <3> QED BY <1>2, <2>4, <3>2, <3>3
  <2>7. CASE e.op = "replace"
    <3>1. SteerAt(conv') = SteerAt(conv) /\ SteersOpen(conv')
      BY <1>1, <2>1, <2>7, StoredShape DEF SteersInv
    <3>2. 1 \notin SteerAppends(effects) /\ SteersIn(conv') = SteersIn(conv)
      BY <2>1, <2>7, <3>1 DEF SteerAppends, SteersIn, SteerAt
    <3> QED BY <1>2, <2>4, <3>1, <3>2
  <2> QED BY <1>1, <2>5, <2>6, <2>7, StoredShape
<1>7. CASE Speaks
  <2>1. PICK m \in Message : conv' = Append(conv, m) /\ m.note # "steer"
    <3>1. "steer" \notin Answers
      BY DEF Answers
    <3> QED BY <1>7, <3>1, SpeaksFacts
  <2>2. /\ UNCHANGED <<effects, queue>>
        /\ used'.crashes = used.crashes /\ used'.steers = used.steers
    BY <1>7, SpeaksFacts
  <2>3. Extended(conv', conv) /\ \A i \in Added(conv', conv) : conv'[i].note # "steer"
    BY <1>1, <2>1, AppendShape
  <2>4. SteerAt(conv') = SteerAt(conv) /\ SteersOpen(conv')
    BY <1>1, <2>3, PlainSteers DEF SteersInv
  <2>5. SteersIn(conv') = SteersIn(conv)
    BY <2>4 DEF SteersIn, SteerAt
  <2>6. SteersKept'
    BY <1>1, <1>2, <2>2, <2>5, SameSteers DEF SteersInv
  <2> QED BY <2>2, <2>4, <2>6 DEF SteersInv
<1>8. CASE Works
  <2>1. /\ conv' = conv /\ Continues(conv, snap) /\ HasKickoff(snap)
        /\ used'.crashes = used.crashes /\ used'.steers = used.steers
        /\ effects = <<>>
    BY <1>8, WorkingFacts DEF Works, StepInv, TypeInv, ControlOK, Working
  <2>2. SteersIn2(effects) = 0
    BY <1>3, <2>1
  <2>3. SteersOpen(snap) /\ SteerAt(snap) = SteerAt(conv)
    <3>1. \A i \in DOMAIN snap : i \in DOMAIN conv /\ conv[i] = snap[i]
      BY <1>1, <2>1 DEF Continues
    <3>2. SteersOpen(snap)
      BY <3>1 DEF SteersInv, SteersOpen, SteerAt
    <3>3. \A i \in Added(conv, snap) : conv[i].note # "steer"
      BY <1>1, <2>1, ContinuesShape DEF Answers
    <3> QED BY <1>1, <2>1, <3>2, <3>3, ContinuesShape, PlainSteers
  <2>4. ASSUME queue' = queue, SteerAppends(effects') = {},
               \A k \in DOMAIN effects' : effects'[k].op = "replace" =>
                 SteersOpen(effects'[k].conv) /\ SteerAt(effects'[k].conv) = SteerAt(conv)
        PROVE  SteersInv'
    <3>1. SteersIn2(effects') = 0
      BY <1>1, <2>4, SteersCounted
    <3>2. SteersKept'
      BY <1>1, <1>2, <2>1, <2>2, <2>4, <3>1, SameSteers DEF SteersInv
    <3> QED BY <2>1, <2>4, <3>2 DEF SteersInv
  <2>5. CASE (\A k \in DOMAIN effects' : Light(effects'[k])) /\ queue' = queue
    <3>1. SteerAppends(effects') = {} /\ \A k \in DOMAIN effects' : effects'[k].op # "replace"
      BY <2>5 DEF SteerAppends, Light, LightMsg
    <3> QED BY <2>4, <2>5, <3>1
  <2>6. CASE Urges
    <3>1. \A e : \A k \in DOMAIN <<e>> : <<e>>[k] = e
      OBVIOUS
    <3>2. ASSUME NEW m, effects' = <<Append_(m)>>, m.note # "steer", queue' = queue
          PROVE  SteersInv'
      <4>1. Append_(m).op = "append" /\ Append_(m).msg = m
        BY DEF Append_
      <4>2. \A k \in DOMAIN effects' : effects'[k] = Append_(m)
        BY <3>1, <3>2
      <4> QED BY <2>4, <3>2, <4>1, <4>2 DEF SteerAppends
    <3>3. CASE effects' = <<Append_(Prompt("continuation"))>> /\ queue' = queue
      <4>1. Prompt("continuation").note # "steer"
        BY DEF Prompt, Msg
      <4> QED BY <3>2, <3>3, <4>1
    <3>4. CASE effects' = <<Append_(Denial)>> /\ queue' = queue
      <4>1. Denial.note # "steer"
        BY DEF Denial, Msg
      <4> QED BY <3>2, <3>4, <4>1
    <3>5. CASE effects' = [k \in 1 .. queue |-> Append_(Prompt("steer"))] /\ queue' = 0
      <4>1. /\ Append_(Prompt("steer")).op = "append" /\ Append_(Prompt("steer")).msg = Prompt("steer")
            /\ Prompt("steer").note = "steer" /\ IsKickoff(Prompt("steer"))
        BY DEF Append_, Prompt, Msg, IsKickoff, UserKinds
      <4>2. DOMAIN effects' = 1 .. queue /\ \A k \in 1 .. queue : effects'[k] = Append_(Prompt("steer"))
        BY <3>5
      <4>3. SteerAppends(effects') = 1 .. queue
        BY <4>1, <4>2 DEF SteerAppends
      <4>4. SteersIn2(effects') = queue
        <5>1. Cardinality(1 .. queue) = IF 1 > queue THEN 0 ELSE queue - 1 + 1
          BY <1>1, FS_Interval
        <5> QED BY <1>1, <4>3, <5>1, SteersCounted
      <4>5. SteersKept'
        BY <1>1, <1>2, <2>1, <2>2, <3>5, <4>4, SameSteers DEF SteersInv
      <4>6. /\ \A k \in SteerAppends(effects') : IsKickoff(effects'[k].msg)
            /\ \A k \in DOMAIN effects' : effects'[k].op # "replace"
        BY <4>1, <4>2, <4>3
      <4> QED BY <2>1, <4>5, <4>6 DEF SteersInv
    <3> QED BY <2>6, <3>3, <3>4, <3>5 DEF Urges
  <2>7. CASE Rewrites
    <3>1. PICK c : effects' = <<Replace(c)>> /\ queue' = queue /\ c \in {Compacted(snap), ResetConversation(snap)}
      BY <2>7 DEF Rewrites
    <3>2. \A k \in DOMAIN effects' : effects'[k] = Replace(c)
      <4>1. \A e : \A k \in DOMAIN <<e>> : <<e>>[k] = e
        OBVIOUS
      <4> QED BY <3>1, <4>1
    <3>3. Replace(c).op = "replace" /\ Replace(c).conv = c
      BY DEF Replace
    <3>4. SteersOpen(c) /\ SteerAt(c) = SteerAt(conv)
      <4>1. CASE c = Compacted(snap)
        <5>1. /\ c \in Seq(Message) /\ Extended(c, snap)
              /\ \A i \in Added(c, snap) : c[i].note # "steer"
          BY <1>1, <2>1, <4>1, CompactedShape
        <5> QED BY <1>1, <2>3, <5>1, PlainSteers
      <4>2. CASE c = ResetConversation(snap)
        BY <1>1, <2>1, <2>3, <4>2, ResetSteers
      <4> QED BY <3>1, <4>1, <4>2
    <3>5. SteerAppends(effects') = {}
      BY <3>2, <3>3 DEF SteerAppends
    <3> QED BY <2>4, <3>1, <3>2, <3>3, <3>4, <3>5
  <2> QED BY <1>8, <2>5, <2>6, <2>7, WorksLightly
<1> QED BY <1>4, <1>5, <1>6, <1>7, <1>8, StepClass

LEMMA SteersInvInit == Init => SteersInv
<1> SUFFICES ASSUME Init PROVE SteersInv
  OBVIOUS
<1>1. conv = <<>> /\ effects = <<>> /\ queue = 0 /\ used.steers = 0
  BY DEF Init
<1>2. SteerAt(conv) = {} /\ SteerAppends(effects) = {}
  BY <1>1, NoEffects DEF SteerAt, SteerAppends
<1>3. SteersIn(conv) = 0 /\ SteersIn2(effects) = 0
  BY <1>1, <1>2, NoEffects, SteersCounted, FS_EmptySet
<1>4. SteersKept
  BY <1>1, <1>3 DEF SteersKept
<1> QED BY <1>1, <1>2, <1>4, NoEffects DEF SteersInv, SteersOpen

(* As long as no run is cut off, guidance the user queued is in the queue,  *)
(* on its way to the store or in the conversation (ops_steer, the steer     *)
(* queue of a session), whatever compactions and retries do to the          *)
(* conversation meanwhile.                                                  *)
THEOREM GuidanceIsKept == Spec => []SteersKept
<1>1. TypeInv /\ StepInv /\ TypeInv' /\ SteersInv /\ [Next]_vars => SteersInv'
  BY SteersInvStep
<1>2. SteersInv => SteersKept
  BY DEF SteersInv
<1> QED BY <1>1, <1>2, SteersInvInit, StepInvHolds, PTL DEF Spec

-----------------------------------------------------------------------------
(* Retries *)

Attempts(c) == c[Kickoff(c)].attempts

(* A retry is on its way to the store. *)
Resetting == \E k \in DOMAIN effects : effects[k].op = "replace"

(* What is persisted opens a turn only as guidance of the user, which ends  *)
(* the count; the conversation that replaces the stored one has counted     *)
(* the retry that brings it.                                                *)
RetriesInv ==
  /\ ~HasKickoff(conv) => resets <= used.crashes
  /\ HasKickoff(conv) =>
       /\ Attempts(conv) <= MaxRetries
       /\ resets <= Attempts(conv) + used.crashes + IF Resetting THEN 1 ELSE 0
  /\ \A k \in DOMAIN effects :
       /\ effects[k].op = "append" /\ IsKickoff(effects[k].msg) =>
            effects[k].msg.note = "steer" /\ effects[k].msg.attempts = 0
       /\ effects[k].op = "replace" =>
            /\ Attempts(effects[k].conv) <= MaxRetries
            /\ resets <= Attempts(effects[k].conv) + used.crashes

LEMMA AttemptsTyped ==
  ASSUME NEW c \in Seq(Message), HasKickoff(c)
  PROVE  Attempts(c) \in Nat
<1>1. c[Kickoff(c)] \in Message
  BY KickoffExists
<1> QED BY <1>1 DEF Attempts, Message

LEMMA ExtendedAttempts ==
  ASSUME NEW c \in Seq(Message), NEW d \in Seq(Message), Extended(d, c),
         \A i \in Added(d, c) : ~IsKickoff(d[i])
  PROVE  /\ HasKickoff(d) <=> HasKickoff(c)
         /\ HasKickoff(c) => Attempts(d) = Attempts(c)
<1>1. HasKickoff(d) <=> HasKickoff(c)
  BY ExtendedTurn
<1>2. ASSUME HasKickoff(c) PROVE Attempts(d) = Attempts(c)
  <2>1. Kickoff(d) = Kickoff(c) /\ Kickoff(c) \in DOMAIN c
    BY <1>2, ExtendedTurn, KickoffExists
  <2> QED BY <2>1 DEF Attempts, Extended, Like
<1> QED BY <1>1, <1>2

LEMMA AppendedAttempts ==
  ASSUME NEW c \in Seq(Message), NEW m \in Message, IsKickoff(m)
  PROVE  HasKickoff(Append(c, m)) /\ Attempts(Append(c, m)) = m.attempts
<1>1. Append(c, m)[Len(c) + 1] = m
  BY AppendShape
<1> QED BY <1>1, AppendedKickoff DEF Attempts

LEMMA ResetAttempts ==
  ASSUME NEW c \in Seq(Message), HasKickoff(c)
  PROVE  Attempts(ResetConversation(c)) = Attempts(c) + 1
BY ResetShape DEF Attempts

LEMMA RetriesInvStep ==
  ASSUME FinalOutput = FALSE, TypeInv, TypeInv', StepInv, RetriesInv, [Next]_vars
  PROVE  RetriesInv'
<1>1. /\ conv \in Seq(Message) /\ snap \in Seq(Message) /\ effects \in Seq(Effect)
      /\ conv' \in Seq(Message) /\ effects' \in Seq(Effect)
      /\ resets \in Nat /\ resets' \in Nat /\ used.crashes \in Nat /\ used'.crashes \in Nat
      /\ MaxRetries \in Nat
  BY NumbersAssumption DEF TypeInv, ControlOK, StoreOK, HistoryOK
<1>2. /\ HasKickoff(conv) => Attempts(conv) \in Nat
      /\ HasKickoff(conv') => Attempts(conv') \in Nat
  BY <1>1, AttemptsTyped
<1>3. Resetting' = (\E k \in DOMAIN effects' : effects'[k].op = "replace")
  BY DEF Resetting
<1>4. CASE Onward
  BY <1>4 DEF Onward, Steady, RetriesInv, Resetting
<1>5. CASE Ends
  <2>1. effects' = <<>> /\ conv' = conv /\ resets' = resets
    BY <1>5 DEF Ends
  <2>2. CASE used'.crashes = used.crashes + 1
    <3>1. resets <= used.crashes => resets' <= used'.crashes
      BY <1>1, <2>1, <2>2
    <3>2. HasKickoff(conv) => resets' <= Attempts(conv) + used'.crashes
      BY <1>1, <1>2, <2>1, <2>2 DEF RetriesInv
    <3> QED BY <1>1, <1>2, <2>1, <3>1, <3>2, NoEffects DEF RetriesInv
  <2>3. CASE effects = <<>> /\ used'.crashes = used.crashes
    BY <2>1, <2>3 DEF RetriesInv, Resetting
  <2> QED BY <1>5, <2>2, <2>3 DEF Ends, Steady
<1>6. CASE ApplyEffect
  <2>1. PICK e \in Effect :
          /\ e = effects[1] /\ 1 \in DOMAIN effects /\ conv' = Stored(conv, e)
          /\ \A k \in DOMAIN effects' : k + 1 \in DOMAIN effects /\ effects'[k] = effects[k + 1]
          /\ \A k \in DOMAIN effects : k = 1 \/ (k - 1 \in DOMAIN effects' /\ effects[k] = effects'[k - 1])
          /\ \A k \in DOMAIN effects' : effects'[k].op # "replace"
          /\ used' = used
          /\ resets' = IF e.op = "append" /\ e.msg.note = "steer" THEN 0 ELSE resets
    BY <1>6, ApplyEffectShape
  <2>2. HasKickoff(conv) /\ HasKickoff(conv')
    BY <1>6 DEF ApplyEffect, TypeInv, StoreOK
  <2>3. /\ ~Resetting'
        /\ e.op # "replace" => ~Resetting
    BY <1>3, <2>1 DEF Resetting
  <2>4. \A k \in DOMAIN effects' :
          effects'[k].op = "append" /\ IsKickoff(effects'[k].msg) =>
            effects'[k].msg.note = "steer" /\ effects'[k].msg.attempts = 0
    BY <2>1 DEF RetriesInv
  <2>5. ASSUME Attempts(conv') <= MaxRetries, resets' <= Attempts(conv') + used.crashes
        PROVE  RetriesInv'
    <3>1. resets' <= Attempts(conv') + used'.crashes + IF Resetting' THEN 1 ELSE 0
      BY <1>1, <1>2, <2>1, <2>2, <2>3, <2>5
    <3> QED BY <2>1, <2>2, <2>4, <2>5, <3>1 DEF RetriesInv
  <2>6. ASSUME e.op # "replace", Attempts(conv') = Attempts(conv), resets' <= resets
        PROVE  RetriesInv'
    <3>1. Attempts(conv) <= MaxRetries /\ resets <= Attempts(conv) + used.crashes
      BY <1>1, <1>2, <2>2, <2>3, <2>6 DEF RetriesInv
    <3>2. resets' <= Attempts(conv') + used.crashes
      BY <1>1, <1>2, <2>2, <2>6, <3>1
    <3> QED BY <2>5, <2>6, <3>1, <3>2
  <2>7. resets' <= resets
    BY <1>1, <2>1
  <2>8. CASE e.op = "append"
    <3>1. conv' = Append(conv, e.msg) /\ e.msg \in Message
      BY <1>1, <2>1, <2>8, StoredShape
    <3>2. CASE IsKickoff(e.msg)
      <4>1. e.msg.note = "steer" /\ e.msg.attempts = 0
        BY <2>1, <2>8, <3>2 DEF RetriesInv
      <4>2. Attempts(conv') = 0 /\ resets' = 0
        BY <1>1, <2>1, <2>8, <3>1, <3>2, <4>1, AppendedAttempts
      <4> QED BY <1>1, <2>5, <4>2
    <3>3. CASE ~IsKickoff(e.msg)
      <4>1. Attempts(conv') = Attempts(conv)
        <5>1. Extended(conv', conv) /\ \A i \in Added(conv', conv) : ~IsKickoff(conv'[i])
          BY <1>1, <3>1, <3>3, AppendShape
        <5> QED BY <1>1, <2>2, <5>1, ExtendedAttempts
      <4> QED BY <2>6, <2>7, <2>8, <4>1
    <3> QED BY <3>2, <3>3
  <2>9. CASE e.op \in {"patch", "hide", "usage"}
    <3>1. Extended(conv', conv) /\ Added(conv', conv) = {}
      BY <1>1, <2>1, <2>9, StoredShape
    <3>2. Attempts(conv') = Attempts(conv)
      BY <1>1, <2>2, <3>1, ExtendedAttempts
    <3> QED BY <2>6, <2>7, <2>9, <3>2
  <2>10. CASE e.op = "replace"
    <3>1. conv' = e.conv /\ resets' = resets
      BY <1>1, <2>1, <2>10, StoredShape
    <3> QED BY <2>1, <2>5, <2>10, <3>1 DEF RetriesInv
  <2> QED BY <1>1, <2>8, <2>9, <2>10, StoredShape
<1>7. CASE Speaks
  <2>1. PICK m \in Message :
          /\ conv' = Append(conv, m)
          /\ \/ effects = <<>> /\ resets' = 0 /\ IsKickoff(m) /\ m.attempts = 0
             \/ resets' = resets /\ ~IsKickoff(m)
    BY <1>7, SpeaksFacts
  <2>2. effects' = effects /\ used'.crashes = used.crashes
    BY <1>7, SpeaksFacts
  <2>3. CASE effects = <<>> /\ resets' = 0 /\ IsKickoff(m) /\ m.attempts = 0
    <3>1. HasKickoff(conv') /\ Attempts(conv') = 0
      BY <1>1, <2>1, <2>3, AppendedAttempts
    <3>2. resets' <= Attempts(conv') + used'.crashes + IF Resetting' THEN 1 ELSE 0
      BY <1>1, <2>3, <3>1
    <3> QED BY <1>1, <2>2, <2>3, <3>1, <3>2, NoEffects DEF RetriesInv
  <2>4. CASE resets' = resets /\ ~IsKickoff(m)
    <3>1. /\ HasKickoff(conv') <=> HasKickoff(conv)
          /\ HasKickoff(conv) => Attempts(conv') = Attempts(conv)
      <4>1. Extended(conv', conv) /\ \A i \in Added(conv', conv) : ~IsKickoff(conv'[i])
        BY <1>1, <2>1, <2>4, AppendShape
      <4> QED BY <1>1, <4>1, ExtendedAttempts
    <3>2. Resetting' = Resetting
      BY <2>2 DEF Resetting
    <3> QED BY <2>2, <2>4, <3>1, <3>2 DEF RetriesInv
  <2> QED BY <2>1, <2>3, <2>4
<1>8. CASE Works
  <2>1. /\ conv' = conv /\ Continues(conv, snap) /\ HasKickoff(snap) /\ HasKickoff(conv)
        /\ used'.crashes = used.crashes /\ effects = <<>>
    BY <1>8, WorkingFacts DEF Works, StepInv, TypeInv, ControlOK, StoreOK, Working
  <2>2. /\ Attempts(conv) <= MaxRetries /\ resets <= Attempts(conv) + used.crashes
        /\ Attempts(snap) = Attempts(conv)
    <3>1. ~Resetting
      BY <2>1, NoEffects DEF Resetting
    <3>2. Attempts(snap) = Attempts(conv)
      BY <1>1, <2>1, ContinuesShape, ExtendedAttempts
    <3> QED BY <1>1, <1>2, <2>1, <3>1, <3>2 DEF RetriesInv
  <2>3. ASSUME resets' = resets,
               \A k \in DOMAIN effects' :
                 effects'[k].op # "replace" /\
                 (effects'[k].op = "append" /\ IsKickoff(effects'[k].msg) =>
                   effects'[k].msg.note = "steer" /\ effects'[k].msg.attempts = 0)
        PROVE  RetriesInv'
    <3>1. resets' <= Attempts(conv') + used'.crashes + IF Resetting' THEN 1 ELSE 0
      BY <1>1, <1>2, <2>1, <2>2, <2>3
    <3> QED BY <2>1, <2>2, <2>3, <3>1 DEF RetriesInv
  <2>4. CASE (\A k \in DOMAIN effects' : Light(effects'[k])) /\ resets' = resets
    BY <2>3, <2>4 DEF Light, LightMsg
  <2>5. CASE Urges
    <3>1. \A e : \A k \in DOMAIN <<e>> : <<e>>[k] = e
      OBVIOUS
    <3>2. /\ Append_(Prompt("steer")).msg.note = "steer" /\ Append_(Prompt("steer")).msg.attempts = 0
          /\ Append_(Prompt("steer")).op # "replace"
          /\ ~IsKickoff(Append_(Denial).msg) /\ Append_(Denial).op # "replace"
      BY DEF Append_, Prompt, Msg, Denial, IsKickoff
    <3> DEFINE e2 == Append_(Prompt("steer"))
               e3 == Append_(Denial)
    <3>3. (effects' = [k \in 1 .. queue |-> e2] \/ effects' = <<e3>>) /\ resets' = resets
      BY <2>5 DEF Urges
    <3>4. /\ e2.msg.note = "steer" /\ e2.msg.attempts = 0 /\ e2.op # "replace"
          /\ ~IsKickoff(e3.msg) /\ e3.op # "replace"
      BY <3>2
    <3> HIDE DEF e2, e3
    <3> QED BY <2>3, <3>1, <3>3, <3>4
  <2>6. CASE Rewrites
    <3>1. PICK c : /\ effects' = <<Replace(c)>>
                   /\ \/ c = Compacted(snap) /\ resets' = resets
                      \/ /\ c = ResetConversation(snap) /\ resets' = resets + 1
                         /\ snap[Kickoff(snap)].attempts < MaxRetries
      BY <2>6 DEF Rewrites
    <3>2. \A k \in DOMAIN effects' : effects'[k] = Replace(c)
      <4>1. \A e : \A k \in DOMAIN <<e>> : <<e>>[k] = e
        OBVIOUS
      <4> QED BY <3>1, <4>1
    <3>3. Replace(c).op = "replace" /\ Replace(c).conv = c
      BY DEF Replace
    <3>4. Attempts(snap) \in Nat
      BY <1>1, <2>1, AttemptsTyped
    <3>5. Attempts(c) <= MaxRetries /\ resets' <= Attempts(c) + used'.crashes
      <4>1. CASE c = Compacted(snap) /\ resets' = resets
        <5>1. Attempts(c) = Attempts(snap)
          BY <1>1, <2>1, <4>1, CompactedShape, ExtendedAttempts
        <5> QED BY <2>1, <2>2, <4>1, <5>1
      <4>2. CASE c = ResetConversation(snap) /\ resets' = resets + 1 /\ Attempts(snap) < MaxRetries
        <5>1. Attempts(c) = Attempts(snap) + 1
          BY <1>1, <2>1, <4>2, ResetAttempts
        <5> QED BY <1>1, <2>1, <2>2, <3>4, <4>2, <5>1
      <4> QED BY <3>1, <4>1, <4>2 DEF Attempts
    <3>6. resets' <= Attempts(conv') + used'.crashes + 1
      <4>1. resets' <= resets + 1
        BY <1>1, <3>1
      <4> QED BY <1>1, <1>2, <2>1, <2>2, <4>1
    <3>7. Resetting'
      <4>1. 1 \in DOMAIN effects'
        BY <3>1
      <4> QED BY <1>3, <3>2, <3>3, <4>1
    <3> QED BY <2>1, <2>2, <3>2, <3>3, <3>5, <3>6, <3>7 DEF RetriesInv
  <2> QED BY <1>8, <2>4, <2>5, <2>6, WorksLightly
<1> QED BY <1>4, <1>5, <1>6, <1>7, <1>8, StepClass

LEMMA RetriesInvInit == Init => RetriesInv
<1> SUFFICES ASSUME Init PROVE RetriesInv
  OBVIOUS
<1>1. conv = <<>> /\ effects = <<>> /\ resets = 0 /\ used.crashes = 0
  BY DEF Init
<1>2. ~HasKickoff(conv)
  BY <1>1, NoEffects DEF HasKickoff
<1> QED BY <1>1, <1>2, NoEffects DEF RetriesInv

(* Success checks restart a turn at most MaxRetries times between two       *)
(* inputs of the user (ops_retry), plus once per interrupted run: the count *)
(* travels on the kickoff message through every reset, compaction and       *)
(* crash.  A recipe with a response schema is left out: the continuation    *)
(* message ops_recipe writes opens a turn whose kickoff counts from zero.   *)
THEOREM RetriesAreCapped ==
  ASSUME FinalOutput = FALSE
  PROVE  Spec => []RetriesBounded
<1>1. TypeInv /\ StepInv /\ TypeInv' /\ RetriesInv /\ [Next]_vars => RetriesInv'
  BY RetriesInvStep
<1>2. ASSUME TypeInv, RetriesInv
      PROVE  RetriesBounded
  <2>1. /\ resets \in Nat /\ used.crashes \in Nat /\ MaxRetries \in Nat /\ conv \in Seq(Message)
        /\ effects \in Seq(Effect)
    BY <1>2, NumbersAssumption DEF TypeInv, HistoryOK, StoreOK, ControlOK
  <2>2. CASE HasKickoff(conv) /\ ~Resetting
    <3>1. Attempts(conv) \in Nat
      BY <2>1, <2>2, AttemptsTyped
    <3> QED BY <1>2, <2>1, <2>2, <3>1 DEF RetriesInv, RetriesBounded
  <2>3. CASE Resetting
    <3>1. PICK k \in DOMAIN effects : effects[k].op = "replace"
      BY <2>3 DEF Resetting
    <3>2. effects[k].conv \in Seq(Message) /\ HasKickoff(effects[k].conv)
      <4>1. effects[k] \in Effect
        BY <2>1
      <4> QED BY <1>2, <3>1, <4>1, EffectFields DEF TypeInv, ControlOK
    <3>3. Attempts(effects[k].conv) \in Nat
      BY <3>2, AttemptsTyped
    <3> QED BY <1>2, <2>1, <3>1, <3>3 DEF RetriesInv, RetriesBounded
  <2>4. CASE ~HasKickoff(conv)
    BY <1>2, <2>1, <2>4 DEF RetriesInv, RetriesBounded
  <2> QED BY <2>2, <2>3, <2>4
<1> QED BY <1>1, <1>2, RetriesInvInit, StepInvHolds, PTL DEF Spec

=============================================================================
