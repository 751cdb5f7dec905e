----------------------------- MODULE TurnProofs -----------------------------
(***************************************************************************)
(* Type correctness of the turn state machine, for all values of its       *)
(* constants.                                                              *)
(***************************************************************************)
EXTENDS TurnProperties, FiniteSetTheorems, WellFoundedInduction, TLAPS

-----------------------------------------------------------------------------
(* Messages, effects, the pipeline *)

LEMMA NoEffects ==
  /\ <<>> \in Seq(Message) /\ <<>> \in Seq(Effect)
  /\ \A k \in DOMAIN <<>> : FALSE
OBVIOUS

LEMMA MsgTyped ==
  ASSUME NEW kind \in UserKinds \cup AssistantKinds, NEW uv \in BOOLEAN, NEW av \in BOOLEAN,
         NEW ids \in SUBSET Requests, NEW note \in Notes,
         kind = "request" => \E r \in Requests : ids = {r}
  PROVE  Msg(kind, uv, av, ids, note) \in Message
BY DEF Msg, Message

LEMMA MessagesTyped ==
  /\ \A note \in Notes : Prompt(note) \in Message /\ Text(note) \in Message
  /\ HiddenPrompt \in Message /\ UserOnlyText \in Message
  /\ \A r \in Requests : Request(r) \in Message /\ Ask(r) \in Message
  /\ \A r \in Requests, ans \in Answers : Approval(r, ans) \in Message
  /\ \A S \in SUBSET Requests, note \in Notes : Response(S, note) \in Message
  /\ \A kind \in Errors : ErrorMsg(kind) \in Message
  /\ Msg("nudge", FALSE, TRUE, {}, "none") \in Message
  /\ Msg("denial", FALSE, TRUE, {}, "none") \in Message
  /\ Msg("summary", FALSE, TRUE, {}, "none") \in Message
BY DEF Msg, Message, Prompt, Text, HiddenPrompt, UserOnlyText, Request, Ask, Approval, Response,
       ErrorMsg, UserKinds, AssistantKinds, Errors, Notes, Commands, Answers

(* What patches, compactions and retries do to a message leaves a message. *)
LEMMA EditsTyped ==
  ASSUME NEW m \in Message
  PROVE  /\ [m EXCEPT !.av = FALSE] \in Message
         /\ \A note \in Notes : [m EXCEPT !.note = note] \in Message
         /\ [m EXCEPT !.attempts = @ + 1] \in Message
         /\ IsKickoff(m) => /\ IsKickoff([m EXCEPT !.av = FALSE])
                            /\ \A note \in Notes : IsKickoff([m EXCEPT !.note = note])
                            /\ IsKickoff([m EXCEPT !.attempts = @ + 1])
<1> DEFINE Shape == [kind: UserKinds \cup AssistantKinds, uv: BOOLEAN, av: BOOLEAN,
                     ids: SUBSET Requests, note: Notes, attempts: Nat]
<1>1. m \in Shape /\ (m.kind = "request" => \E r \in Requests : m.ids = {r})
  BY DEF Message
<1>2. \A n \in Shape : n.kind = m.kind /\ n.ids = m.ids => n \in Message
  BY <1>1 DEF Message
<1>3. [m EXCEPT !.av = FALSE] \in Shape
  BY <1>1
<1>4. \A note \in Notes : [m EXCEPT !.note = note] \in Shape
  BY <1>1
<1>5. [m EXCEPT !.attempts = @ + 1] \in Shape
  BY <1>1
<1>6. /\ [m EXCEPT !.av = FALSE].kind = m.kind /\ [m EXCEPT !.av = FALSE].ids = m.ids
      /\ \A note \in Notes : [m EXCEPT !.note = note].kind = m.kind /\ [m EXCEPT !.note = note].ids = m.ids
      /\ [m EXCEPT !.attempts = @ + 1].kind = m.kind /\ [m EXCEPT !.attempts = @ + 1].ids = m.ids
  BY <1>1
<1>7. /\ [m EXCEPT !.av = FALSE].uv = m.uv
      /\ \A note \in Notes : [m EXCEPT !.note = note].uv = m.uv
      /\ [m EXCEPT !.attempts = @ + 1].uv = m.uv
  BY <1>1
<1> HIDE DEF Shape
<1> QED
  BY <1>2, <1>3, <1>4, <1>5, <1>6, <1>7 DEF IsKickoff

LEMMA EffectsTyped ==
  /\ \A m \in Message : Append_(m) \in Effect
  /\ \A r \in Requests, note \in {"yes", "no"} : Patch(r, note) \in Effect
  /\ \A i \in Nat : Hide(i) \in Effect
  /\ \A c \in Seq(Message) : Replace(c) \in Effect
  /\ \A b \in BOOLEAN : Usage(b) \in Effect
BY DEF Append_, Patch, Hide, Replace, Usage, Effect

LEMMA PipelineOrder ==
  /\ Operations = {"slash_command", "steer", "max_turns", "compaction", "tool_approval", "recipe",
                   "tool_execution", "unknown_tool", "retry", "stop_hook", "exit_on_error", "llm"}
  /\ Pipeline[1] = "slash_command"
  /\ After("slash_command") = "steer" /\ After("steer") = "max_turns"
  /\ After("max_turns") = "compaction" /\ After("compaction") = "tool_approval"
  /\ After("tool_approval") = "recipe" /\ After("recipe") = "tool_execution"
  /\ After("tool_execution") = "unknown_tool" /\ After("unknown_tool") = "retry"
  /\ After("retry") = "stop_hook" /\ After("stop_hook") = "exit_on_error"
  /\ After("exit_on_error") = "llm"
<1>1. DOMAIN Pipeline = 1 .. 12
  BY DEF Pipeline
<1>2. /\ Pipeline[1] = "slash_command" /\ Pipeline[2] = "steer" /\ Pipeline[3] = "max_turns"
      /\ Pipeline[4] = "compaction" /\ Pipeline[5] = "tool_approval" /\ Pipeline[6] = "recipe"
      /\ Pipeline[7] = "tool_execution" /\ Pipeline[8] = "unknown_tool" /\ Pipeline[9] = "retry"
      /\ Pipeline[10] = "stop_hook" /\ Pipeline[11] = "exit_on_error" /\ Pipeline[12] = "llm"
  BY DEF Pipeline
<1>3. ASSUME NEW n \in 1 .. 11
      PROVE  After(Pipeline[n]) = Pipeline[n + 1]
  <2>1. \A k \in DOMAIN Pipeline : Pipeline[k] = Pipeline[n] => k = n
    BY <1>1, <1>2
  <2>2. Place(Pipeline[n]) = n
    BY <2>1, <1>1 DEF Place
  <2> QED BY <2>2 DEF After
<1>4. \A n \in 1 .. 12 : n = 1 \/ n = 2 \/ n = 3 \/ n = 4 \/ n = 5 \/ n = 6 \/ n = 7 \/ n = 8
                           \/ n = 9 \/ n = 10 \/ n = 11 \/ n = 12
  OBVIOUS
<1>5. Operations = {"slash_command", "steer", "max_turns", "compaction", "tool_approval", "recipe",
                    "tool_execution", "unknown_tool", "retry", "stop_hook", "exit_on_error", "llm"}
  BY <1>1, <1>2, <1>4 DEF Operations
<1> QED
  BY <1>2, <1>3, <1>5

LEMMA AfterTyped == \A op \in Operations \ {"llm"} : After(op) \in Operations
BY PipelineOrder

-----------------------------------------------------------------------------
(* The kickoff of a turn *)

(* A conversation with a kickoff message has a last one, where its turn     *)
(* begins.                                                                  *)
LEMMA KickoffExists ==
  ASSUME NEW c \in Seq(Message), HasKickoff(c)
  PROVE  /\ Kickoff(c) \in DOMAIN c /\ IsKickoff(c[Kickoff(c)])
         /\ \A j \in DOMAIN c : IsKickoff(c[j]) => j <= Kickoff(c)
<1> DEFINE T == {n \in Nat : \E i \in DOMAIN c : IsKickoff(c[i]) /\ n = Len(c) - i}
<1>1. DOMAIN c = 1 .. Len(c) /\ Len(c) \in Nat
  OBVIOUS
<1>2. T \subseteq Nat /\ T # {}
  <2>1. PICK i \in DOMAIN c : IsKickoff(c[i])
    BY DEF HasKickoff
  <2>2. Len(c) - i \in T
    BY <1>1, <2>1
  <2> QED BY <2>2
<1>3. PICK n \in T : \A m \in T : ~(<<m, n>> \in OpToRel(<, Nat))
  BY <1>2, WFMin, NatLessThanWellFounded
<1>4. \A m \in T : ~(m < n)
  BY <1>2, <1>3 DEF OpToRel
<1>5. PICK i \in DOMAIN c : IsKickoff(c[i]) /\ n = Len(c) - i
  BY <1>3
<1>6. \A j \in DOMAIN c : IsKickoff(c[j]) => j <= i
  BY <1>1, <1>4, <1>5
<1>7. i \in Turn(c)
  BY <1>6 DEF Turn
<1>8. \A k \in Turn(c) : IsKickoff(c[k]) => k = i
  BY <1>1, <1>5, <1>6 DEF Turn
<1>9. Kickoff(c) = i
  BY <1>5, <1>7, <1>8 DEF Kickoff
<1> QED
  BY <1>5, <1>6, <1>9

LEMMA CompactedTyped ==
  ASSUME NEW c \in Seq(Message), HasKickoff(c)
  PROVE  Compacted(c) \in Seq(Message) /\ HasKickoff(Compacted(c))
<1> DEFINE hidden == [i \in DOMAIN c |-> [c[i] EXCEPT !.av = FALSE]]
           tail   == <<Msg("summary", FALSE, TRUE, {}, "none")>>
           latest == IF \E i \in DOMAIN c : c[i].av /\ c[i].kind \in {"prompt", "nudge", "denial"}
                     THEN <<HiddenPrompt>> ELSE <<>>
<1>1. DOMAIN c = 1 .. Len(c) /\ Len(c) \in Nat
  OBVIOUS
<1>2. ASSUME NEW i \in DOMAIN c
      PROVE  c[i] \in Message /\ [c[i] EXCEPT !.av = FALSE] \in Message
  <2>1. c[i] \in Message
    OBVIOUS
  <2> QED BY <2>1, EditsTyped
<1>3. hidden \in Seq(Message) /\ Len(hidden) = Len(c)
  BY <1>1, <1>2
<1>4. tail \in Seq(Message) /\ latest \in Seq(Message)
  <2> DEFINE hp == HiddenPrompt
             sm == Msg("summary", FALSE, TRUE, {}, "none")
  <2>1. hp \in Message /\ sm \in Message
    BY MessagesTyped
  <2>2. (latest = <<hp>> \/ latest = <<>>) /\ tail = <<sm>>
    OBVIOUS
  <2> HIDE DEF hp, sm, latest, tail
  <2>3. <<hp>> \in Seq(Message) /\ <<sm>> \in Seq(Message) /\ <<>> \in Seq(Message)
    BY <2>1
  <2> QED BY <2>2, <2>3
<1>5. Compacted(c) = hidden \o tail \o latest
  BY DEF Compacted
<1>6. PICK i \in DOMAIN c : IsKickoff(c[i])
  BY DEF HasKickoff
<1> HIDE DEF tail, latest
<1>7. /\ hidden \o tail \o latest \in Seq(Message)
      /\ i \in DOMAIN (hidden \o tail \o latest)
      /\ (hidden \o tail \o latest)[i] = hidden[i]
  <2> HIDE DEF hidden
  <2> QED BY <1>1, <1>3, <1>4
<1>8. IsKickoff(hidden[i])
  BY <1>2, <1>6, EditsTyped
<1> QED
  BY <1>5, <1>7, <1>8 DEF HasKickoff

LEMMA ResetTyped ==
  ASSUME NEW c \in Seq(Message), HasKickoff(c)
  PROVE  ResetConversation(c) \in Seq(Message) /\ HasKickoff(ResetConversation(c))
<1> DEFINE k == Kickoff(c)
<1>1. k \in 1 .. Len(c) /\ DOMAIN c = 1 .. Len(c) /\ Len(c) \in Nat /\ IsKickoff(c[k])
  BY KickoffExists
<1>2. ASSUME NEW i \in 1 .. k
      PROVE  /\ c[i] \in Message /\ [c[i] EXCEPT !.attempts = @ + 1] \in Message
             /\ IsKickoff(c[i]) => IsKickoff([c[i] EXCEPT !.attempts = @ + 1])
  <2>1. c[i] \in Message
    BY <1>1
  <2> QED BY <2>1, EditsTyped
<1>3. ResetConversation(c) = [i \in 1 .. k |-> IF i = k THEN [c[i] EXCEPT !.attempts = @ + 1] ELSE c[i]]
  BY DEF ResetConversation
<1> HIDE DEF k
<1>4. ResetConversation(c) \in Seq(Message) /\ DOMAIN ResetConversation(c) = 1 .. k
  BY <1>1, <1>2, <1>3
<1>5. IsKickoff(ResetConversation(c)[k])
  <2>1. ResetConversation(c)[k] = [c[k] EXCEPT !.attempts = @ + 1]
    BY <1>1, <1>3
  <2> QED BY <1>1, <1>2, <2>1
<1> QED
  BY <1>1, <1>4, <1>5 DEF HasKickoff

-----------------------------------------------------------------------------
(* Requests and the effects of the operations *)

LEMMA RequestAtTyped ==
  ASSUME NEW c \in Seq(Message), NEW i \in DOMAIN c, c[i].kind = "request"
  PROVE  RequestAt(c, i) \in Requests /\ c[i].ids = {RequestAt(c, i)}
<1>1. c[i] \in Message
  OBVIOUS
<1>2. \E r \in Requests : c[i].ids = {r}
  BY <1>1 DEF Message
<1> QED
  BY <1>2 DEF RequestAt

LEMMA OrdersTyped ==
  ASSUME NEW c \in Seq(Message), NEW P \in SUBSET (DOMAIN c), NEW q \in Orders(P)
  PROVE  q \in Seq(P) /\ \A k \in 1 .. Len(q) : q[k] \in P
<1>1. IsFiniteSet(DOMAIN c)
  <2>1. DOMAIN c = 1 .. Len(c) /\ Len(c) \in Nat
    OBVIOUS
  <2> QED BY <2>1, FS_Interval
<1>2. Cardinality(P) \in Nat
  BY <1>1, FS_Subset, FS_CardinalityType
<1> QED
  BY <1>2 DEF Orders

LEMMA ApprovalEffectsTyped ==
  ASSUME NEW c \in Seq(Message), NEW q1 \in Orders(ToMark(c)), NEW lvl,
         NEW q2 \in Orders(WithVerdict(c, lvl, "denied")),
         NEW q3 \in Orders(WithVerdict(c, lvl, "needs_approval"))
  PROVE  /\ ApprovalEffects(c, q1, q2, q3) \in Seq(Effect)
         /\ \A k \in DOMAIN ApprovalEffects(c, q1, q2, q3) :
                ApprovalEffects(c, q1, q2, q3)[k].op # "replace"
<1> DEFINE NoReplace == {e \in Effect : e.op # "replace"}
           marks == [k \in 1 .. Len(q1) |-> Patch(RequestAt(c, q1[k]), Decision(c, q1[k]))]
           denials == [k \in 1 .. Len(q2) |-> Patch(RequestAt(c, q2[k]), "no")]
           questions == [k \in 1 .. 2 * Len(q3) |->
                          IF k % 2 = 1 THEN Patch(RequestAt(c, q3[(k + 1) \div 2]), "no")
                                       ELSE Append_(Ask(RequestAt(c, q3[k \div 2])))]
<1>1. /\ ToMark(c) \subseteq DOMAIN c /\ WithVerdict(c, lvl, "denied") \subseteq DOMAIN c
      /\ WithVerdict(c, lvl, "needs_approval") \subseteq DOMAIN c
      /\ \A i \in ToMark(c) \cup WithVerdict(c, lvl, "denied") \cup WithVerdict(c, lvl, "needs_approval") :
            c[i].kind = "request"
  BY DEF ToMark, WithVerdict, Decided, Pending, Unanswered, Turn
<1>2. \A i \in ToMark(c) \cup WithVerdict(c, lvl, "denied") \cup WithVerdict(c, lvl, "needs_approval") :
        RequestAt(c, i) \in Requests
  BY <1>1, RequestAtTyped
<1>3. \A r \in Requests : /\ \A note \in {"yes", "no"} : Patch(r, note) \in NoReplace
                           /\ Append_(Ask(r)) \in NoReplace
  BY EffectsTyped, MessagesTyped DEF Patch, Append_
<1> HIDE DEF NoReplace
<1>4. marks \in Seq(NoReplace)
  <2>1. q1 \in Seq(ToMark(c)) /\ \A k \in 1 .. Len(q1) : q1[k] \in ToMark(c)
    BY <1>1, OrdersTyped
  <2>2. \A i \in ToMark(c) : Decision(c, i) \in {"yes", "no"}
    BY DEF Decision
  <2> QED BY <1>2, <1>3, <2>1, <2>2
<1>5. denials \in Seq(NoReplace)
  <2>1. /\ q2 \in Seq(WithVerdict(c, lvl, "denied"))
        /\ \A k \in 1 .. Len(q2) : q2[k] \in WithVerdict(c, lvl, "denied")
    BY <1>1, OrdersTyped
  <2> QED BY <1>2, <1>3, <2>1
<1>6. questions \in Seq(NoReplace)
  <2>1. /\ q3 \in Seq(WithVerdict(c, lvl, "needs_approval"))
        /\ \A k \in 1 .. Len(q3) : q3[k] \in WithVerdict(c, lvl, "needs_approval")
    BY <1>1, OrdersTyped
  <2>2. \A k \in 1 .. 2 * Len(q3) : IF k % 2 = 1 THEN (k + 1) \div 2 \in 1 .. Len(q3)
                                                  ELSE k \div 2 \in 1 .. Len(q3)
    BY <2>1
  <2>3. \A k \in 1 .. 2 * Len(q3) : questions[k] \in NoReplace
    BY <1>2, <1>3, <2>1, <2>2
  <2>4. 2 * Len(q3) \in Nat
    BY <2>1
  <2> HIDE DEF questions
  <2>5. DOMAIN questions = 1 .. 2 * Len(q3) /\ questions = [k \in 1 .. 2 * Len(q3) |-> questions[k]]
    BY DEF questions
  <2> QED BY <2>3, <2>4, <2>5
<1>7. ApprovalEffects(c, q1, q2, q3) = marks \o denials \o questions
  BY DEF ApprovalEffects
<1> HIDE DEF marks, denials, questions
<1>8. ApprovalEffects(c, q1, q2, q3) \in Seq(NoReplace)
  BY <1>4, <1>5, <1>6, <1>7
<1> QED
  BY <1>8 DEF NoReplace

LEMMA ClosingTyped ==
  ASSUME NEW c \in Seq(Message), NEW streamed \in SUBSET Requests
  PROVE  /\ Closing(c, streamed) \in Seq(Effect)
         /\ \A k \in DOMAIN Closing(c, streamed) : Closing(c, streamed)[k].op # "replace"
<1> DEFINE open == (IdsOf(c, "request") \cup streamed) \ AnsweredEver(c)
<1>1. IdsOf(c, "request") \subseteq Requests
  BY DEF IdsOf, Turn, Message
<1>2. open \subseteq Requests /\ "none" \in Notes
  BY <1>1 DEF Notes
<1> HIDE DEF open
<1>3. Append_(Response(open, "none")) \in Effect /\ Append_(Response(open, "none")).op = "append"
  BY <1>2, MessagesTyped, EffectsTyped DEF Append_
<1>4. Closing(c, streamed) = IF open = {} THEN <<>> ELSE <<Append_(Response(open, "none"))>>
  BY DEF Closing, open
<1> QED
  BY <1>3, <1>4

-----------------------------------------------------------------------------
(* The type invariant, in inductive form *)

(* The part of the state an operation works on.  A step that is under way  *)
(* has a kickoff to work from.                                             *)
ControlOK ==
  /\ snap \in Seq(Message)
  /\ pc \in Operations \cup {"idle", "load", "tools", "provider", "apply"}
  /\ effects \in Seq(Effect)
  /\ yielding \in BOOLEAN /\ cancelled \in BOOLEAN
  /\ running \subseteq Requests
  /\ pc \in Operations \cup {"tools", "provider"} => HasKickoff(snap)
  /\ \A k \in DOMAIN effects : effects[k].op = "replace" => HasKickoff(effects[k].conv)

StoreOK ==
  /\ conv \in Seq(Message)
  /\ level \in [Tools -> {"default", "allow", "deny"}]
  /\ over \in BOOLEAN
  /\ pc # "idle" => HasKickoff(conv)

MemoryOK == goal \in BOOLEAN /\ grind \in BOOLEAN /\ queue \in Nat

HistoryOK ==
  /\ executed \in [Requests -> Nat] /\ emitted \subseteq Requests
  /\ answers \subseteq Requests \X Answers
  /\ calls \in Nat /\ resets \in Nat
  /\ used \in [prompts: Nat, steers: Nat, errors: Nat, crashes: Nat]

TypeInv == ControlOK /\ StoreOK /\ MemoryOK /\ HistoryOK

LEMMA TypeInvInit == Init => TypeInv
<1> SUFFICES ASSUME Init PROVE TypeInv
  OBVIOUS
<1>1. ControlOK
  BY PipelineOrder, NoEffects DEF Init, ControlOK
<1>2. StoreOK /\ MemoryOK
  BY NoEffects DEF Init, StoreOK, MemoryOK
<1>3. HistoryOK
  BY DEF Init, HistoryOK
<1> QED BY <1>1, <1>2, <1>3 DEF TypeInv

(* The four ways an operation leaves the step. *)

LEMMA PassTyped ==
  ASSUME ControlOK, NEW op \in Operations \ {"llm"}, pc = op, Pass(op)
  PROVE  ControlOK' /\ pc' # "idle"
<1>1. After(op) \in Operations /\ "idle" \notin Operations
  BY PipelineOrder, AfterTyped
<1> QED
  BY <1>1 DEF ControlOK, Pass, step

LEMMA AppliedTyped ==
  ASSUME ControlOK, NEW effs \in Seq(Effect), NEW yield \in BOOLEAN, Applied(effs, yield),
         \A k \in DOMAIN effs : effs[k].op = "replace" => HasKickoff(effs[k].conv)
  PROVE  ControlOK' /\ pc' = "apply"
<1>1. "apply" \notin Operations \cup {"tools", "provider", "idle"}
  BY PipelineOrder
<1>2. cancelled' \in BOOLEAN /\ yielding' \in BOOLEAN
  BY NumbersAssumption DEF ControlOK, Applied
<1> QED
  BY <1>1, <1>2 DEF ControlOK, Applied

(* The common case: messages are appended. *)
LEMMA AppendTyped ==
  ASSUME NEW m \in Message
  PROVE  /\ <<Append_(m)>> \in Seq(Effect)
         /\ \A k \in DOMAIN <<Append_(m)>> : <<Append_(m)>>[k].op # "replace"
<1>1. Append_(m) \in Effect /\ Append_(m).op # "replace"
  BY EffectsTyped DEF Append_
<1> QED
  BY <1>1

LEMMA AppliedAppendTyped ==
  ASSUME ControlOK, NEW m \in Message, NEW yield \in BOOLEAN, Applied(<<Append_(m)>>, yield)
  PROVE  ControlOK' /\ pc' = "apply"
BY AppendTyped, AppliedTyped

LEMMA AppliedNothingTyped ==
  ASSUME ControlOK, NEW yield \in BOOLEAN, Applied(<<>>, yield)
  PROVE  ControlOK' /\ pc' = "apply"
BY NoEffects, AppliedTyped

LEMMA AppliedReplaceTyped ==
  ASSUME ControlOK, NEW c \in Seq(Message), HasKickoff(c), NEW yield \in BOOLEAN,
         Applied(<<Replace(c)>>, yield)
  PROVE  ControlOK' /\ pc' = "apply"
<1>1. Replace(c) \in Effect /\ Replace(c).conv = c
  BY EffectsTyped DEF Replace
<1>2. /\ <<Replace(c)>> \in Seq(Effect)
      /\ \A k \in DOMAIN <<Replace(c)>> : HasKickoff(<<Replace(c)>>[k].conv)
  BY <1>1
<1> QED
  BY <1>2, AppliedTyped

LEMMA StopTyped ==
  ASSUME ControlOK, pc' = "idle", Clear, cancelled' \in BOOLEAN
  PROVE  ControlOK'
<1>1. "idle" \notin Operations
  BY PipelineOrder
<1> QED
  BY <1>1, NoEffects DEF ControlOK, Clear

(* What an operation leaves alone. *)
LEMMA StoreKept ==
  ASSUME StoreOK, conv' = conv, level' = level, over' = over, pc # "idle"
  PROVE  StoreOK'
BY DEF StoreOK

LEMMA MemoryKept == ASSUME MemoryOK, UNCHANGED memory PROVE MemoryOK'
BY DEF MemoryOK, memory

LEMMA HistoryKept == ASSUME HistoryOK, UNCHANGED history PROVE HistoryOK'
BY DEF HistoryOK, history

-----------------------------------------------------------------------------
(* Persisting effects *)

LEMMA EffectFields ==
  ASSUME NEW e \in Effect
  PROVE  /\ e.op \in {"append", "patch", "hide", "replace", "usage"}
         /\ e.op = "append" => e.msg \in Message
         /\ e.op = "patch" => e.id \in Requests /\ e.note \in {"yes", "no"}
         /\ e.op = "replace" => e.conv \in Seq(Message)
         /\ e.op = "usage" => e.over \in BOOLEAN
BY DEF Effect

LEMMA StoredTyped ==
  ASSUME NEW c \in Seq(Message), NEW e \in Effect, HasKickoff(c),
         e.op = "replace" => HasKickoff(e.conv)
  PROVE  Stored(c, e) \in Seq(Message) /\ HasKickoff(Stored(c, e))
<1>1. DOMAIN c = 1 .. Len(c) /\ Len(c) \in Nat
  OBVIOUS
<1>2. PICK k \in DOMAIN c : IsKickoff(c[k])
  BY DEF HasKickoff
<1>3. ASSUME NEW i \in DOMAIN c
      PROVE  c[i] \in Message
  OBVIOUS
<1>4. CASE e.op = "append"
  <2>1. e.msg \in Message /\ Stored(c, e) = Append(c, e.msg)
    BY <1>4, EffectFields DEF Stored
  <2>2. k \in DOMAIN Append(c, e.msg) /\ Append(c, e.msg)[k] = c[k]
    BY <1>1
  <2> QED BY <1>2, <2>1, <2>2 DEF HasKickoff
<1>5. CASE e.op = "patch"
  <2> DEFINE d == [i \in DOMAIN c |-> IF c[i].kind = "request" /\ e.id \in c[i].ids
                                      THEN [c[i] EXCEPT !.note = e.note] ELSE c[i]]
  <2>1. e.note \in Notes /\ Stored(c, e) = d
    BY <1>5, EffectFields DEF Stored, Notes
  <2>2. ASSUME NEW i \in DOMAIN c
        PROVE  d[i] \in Message /\ (IsKickoff(c[i]) => IsKickoff(d[i]))
    BY <1>3, <2>1, EditsTyped
  <2> QED BY <1>1, <1>2, <2>1, <2>2 DEF HasKickoff
<1>6. CASE e.op = "hide"
  <2> DEFINE d == [i \in DOMAIN c |-> IF i = e.at THEN [c[i] EXCEPT !.av = FALSE] ELSE c[i]]
  <2>1. Stored(c, e) = d
    BY <1>6 DEF Stored
  <2>2. ASSUME NEW i \in DOMAIN c
        PROVE  d[i] \in Message /\ (IsKickoff(c[i]) => IsKickoff(d[i]))
    BY <1>3, EditsTyped
  <2> QED BY <1>1, <1>2, <2>1, <2>2 DEF HasKickoff
<1>7. CASE e.op = "replace"
  BY <1>7, EffectFields DEF Stored
<1>8. CASE e.op = "usage"
  BY <1>8 DEF Stored
<1> QED
  BY <1>4, <1>5, <1>6, <1>7, <1>8, EffectFields

LEMMA ApplyEffectTyped ==
  ASSUME TypeInv, ApplyEffect
  PROVE  TypeInv'
<1> DEFINE e == Head(effects)
<1>1. /\ e \in Effect /\ Tail(effects) \in Seq(Effect)
      /\ e.op = "replace" => HasKickoff(e.conv)
      /\ \A k \in DOMAIN Tail(effects) : k + 1 \in DOMAIN effects /\ Tail(effects)[k] = effects[k + 1]
  <2>1. effects \in Seq(Effect) /\ effects # <<>>
    BY DEF TypeInv, ControlOK, ApplyEffect
  <2>2. 1 \in DOMAIN effects /\ e = effects[1]
    BY <2>1
  <2> QED BY <2>1, <2>2 DEF TypeInv, ControlOK
<1>2. ControlOK'
  BY <1>1, PipelineOrder DEF TypeInv, ControlOK, ApplyEffect
<1>3. conv' \in Seq(Message) /\ HasKickoff(conv')
  BY <1>1, StoredTyped DEF TypeInv, StoreOK, ApplyEffect
<1>4. over' \in BOOLEAN
  BY <1>1, EffectFields, NumbersAssumption DEF TypeInv, StoreOK, ApplyEffect
<1>5. StoreOK'
  BY <1>3, <1>4 DEF TypeInv, StoreOK, ApplyEffect
<1>6. MemoryOK'
  BY MemoryKept DEF TypeInv, ApplyEffect
<1>7. HistoryOK'
  BY DEF TypeInv, HistoryOK, ApplyEffect
<1> QED BY <1>2, <1>5, <1>6, <1>7 DEF TypeInv

-----------------------------------------------------------------------------
(* The steps of the machine *)

LEMMA KernelTyped ==
  ASSUME TypeInv, Load \/ SkipCancelled \/ EndStep
  PROVE  TypeInv'
<1>1. CASE Load
  <2>1. /\ pc' = "slash_command" /\ "slash_command" \in Operations /\ pc = "load"
        /\ "load" # "idle" /\ "idle" \notin Operations
    BY <1>1, PipelineOrder DEF Load
  <2>2. ControlOK'
    BY <1>1, <2>1 DEF Load, TypeInv, ControlOK, StoreOK, persisted
  <2>3. StoreOK'
    BY <1>1, <2>1, StoreKept DEF Load, TypeInv, persisted
  <2> QED BY <1>1, <2>2, <2>3, MemoryKept, HistoryKept DEF Load, TypeInv
<1>2. CASE SkipCancelled
  <2>1. pc \in Operations \ {"llm"} /\ pc # "idle" /\ Pass(pc)
    BY <1>2, PipelineOrder DEF SkipCancelled
  <2>2. ControlOK'
    BY <2>1, PassTyped DEF TypeInv
  <2>3. StoreOK'
    BY <1>2, <2>1, StoreKept DEF SkipCancelled, TypeInv, persisted
  <2> QED BY <1>2, <2>2, <2>3, MemoryKept, HistoryKept DEF SkipCancelled, TypeInv
<1>3. CASE EndStep
  <2>1. pc = "apply" /\ pc' \in {"idle", "load"} /\ Clear /\ "idle" \notin Operations /\ "load" \notin Operations
    BY <1>3, PipelineOrder DEF EndStep
  <2>2. ControlOK'
    BY <1>3, <2>1, NoEffects DEF EndStep, Clear, TypeInv, ControlOK
  <2>3. StoreOK'
    BY <1>3, <2>1, StoreKept DEF EndStep, TypeInv, persisted
  <2> QED BY <1>3, <2>2, <2>3, MemoryKept, HistoryKept DEF EndStep, TypeInv
<1> QED BY <1>1, <1>2, <1>3

(* An operation that leaves the store alone and its own part of the state  *)
(* well typed.                                                             *)
LEMMA OperationTyped ==
  ASSUME TypeInv, NEW op \in Operations \cup {"tools", "provider"}, pc = op, UNCHANGED persisted,
         ControlOK', MemoryOK', HistoryOK'
  PROVE  TypeInv'
<1>1. pc # "idle"
  BY PipelineOrder
<1> QED
  BY <1>1, StoreKept DEF TypeInv, persisted

LEMMA SlashCommandTyped ==
  ASSUME TypeInv, SlashCommand
  PROVE  TypeInv'
<1> DEFINE effs == <<Hide(Len(snap)), Append_(UserOnlyText), Append_(HiddenPrompt)>>
<1>1. pc = "slash_command" /\ "slash_command" \in Operations \ {"llm"} /\ ControlOK
  BY PipelineOrder DEF SlashCommand, At, TypeInv
<1>2. /\ effs \in Seq(Effect)
      /\ \A k \in DOMAIN effs : effs[k].op # "replace"
  <2>1. /\ Hide(Len(snap)) \in Effect /\ Append_(UserOnlyText) \in Effect /\ Append_(HiddenPrompt) \in Effect
    BY <1>1, EffectsTyped, MessagesTyped DEF ControlOK
  <2>2. /\ Hide(Len(snap)).op # "replace" /\ Append_(UserOnlyText).op # "replace"
        /\ Append_(HiddenPrompt).op # "replace"
    BY DEF Hide, Append_
  <2>3. \A a, b, c : /\ a \in Effect /\ b \in Effect /\ c \in Effect => <<a, b, c>> \in Seq(Effect)
                      /\ \A k \in DOMAIN <<a, b, c>> : <<a, b, c>>[k] \in {a, b, c}
    OBVIOUS
  <2> QED BY <2>1, <2>2, <2>3
<1>3. ControlOK' /\ goal' \in BOOLEAN /\ grind' \in BOOLEAN
  <2> HIDE DEF effs
  <2>1. CASE Pass("slash_command") /\ UNCHANGED <<goal, grind>>
    BY <1>1, <2>1, PassTyped DEF TypeInv, MemoryOK
  <2>2. CASE /\ goal' = (goal \/ Last(snap).note = "goal") /\ grind' = (grind \/ Last(snap).note = "grind")
             /\ Applied(effs, FALSE)
    <3>1. goal' \in BOOLEAN /\ grind' \in BOOLEAN
      BY <2>2
    <3>2. ControlOK'
      BY <1>1, <1>2, <2>2, AppliedTyped
    <3> QED BY <3>1, <3>2
  <2> QED BY <2>1, <2>2 DEF SlashCommand, effs
<1>4. MemoryOK'
  BY <1>3 DEF SlashCommand, TypeInv, MemoryOK
<1>5. HistoryOK' /\ UNCHANGED persisted
  BY HistoryKept DEF SlashCommand, TypeInv
<1> QED BY <1>1, <1>3, <1>4, <1>5, OperationTyped

LEMMA SteerTyped ==
  ASSUME TypeInv, Steer
  PROVE  TypeInv'
<1> DEFINE effs == [k \in 1 .. queue |-> Append_(Prompt("steer"))]
<1>1. pc = "steer" /\ "steer" \in Operations \ {"llm"} /\ ControlOK /\ queue \in Nat
  BY PipelineOrder DEF Steer, At, TypeInv, MemoryOK
<1>2. /\ effs \in Seq(Effect)
      /\ \A k \in DOMAIN effs : effs[k].op # "replace"
  <2>1. Append_(Prompt("steer")) \in Effect /\ Append_(Prompt("steer")).op # "replace"
    BY EffectsTyped, MessagesTyped DEF Notes, Append_
  <2> QED BY <1>1, <2>1
<1>3. ControlOK' /\ queue' \in Nat
  <2> HIDE DEF effs
  <2>1. CASE Pass("steer") /\ UNCHANGED queue
    BY <1>1, <2>1, PassTyped
  <2>2. CASE Applied(effs, FALSE) /\ queue' = 0
    BY <1>1, <1>2, <2>2, AppliedTyped
  <2> QED BY <2>1, <2>2 DEF Steer, effs
<1>4. MemoryOK'
  BY <1>3 DEF Steer, TypeInv, MemoryOK
<1>5. HistoryOK' /\ UNCHANGED persisted
  BY HistoryKept DEF Steer, TypeInv
<1> QED BY <1>1, <1>3, <1>4, <1>5, OperationTyped

(* Operations that touch neither memory nor history. *)
LEMMA QuietOperationsTyped ==
  ASSUME TypeInv,
         StopAtMaxTurns \/ Compact \/ FinishTools \/ AnswerUnknown \/ StopHook \/ ExitOnError \/ CancelOpen
  PROVE  TypeInv'
<1>1. ControlOK /\ snap \in Seq(Message) /\ cancelled \in BOOLEAN
  BY DEF TypeInv, ControlOK
<1>2. UNCHANGED <<persisted, memory, history>>
  BY DEF StopAtMaxTurns, Compact, FinishTools, AnswerUnknown, StopHook, ExitOnError, CancelOpen
<1>3. MemoryOK' /\ HistoryOK'
  BY <1>2, MemoryKept, HistoryKept DEF TypeInv
<1>4. CASE StopAtMaxTurns
  <2>1. pc = "max_turns" /\ "max_turns" \in Operations \ {"llm"} /\ Text("budget") \in Message
    BY <1>4, PipelineOrder, MessagesTyped DEF StopAtMaxTurns, At, Notes
  <2>2. Pass("max_turns") \/ Applied(<<Append_(Text("budget"))>>, TRUE)
    BY <1>4 DEF StopAtMaxTurns
  <2>3. ControlOK'
    BY <1>1, <2>1, <2>2, PassTyped, AppliedAppendTyped
  <2> QED BY <1>2, <1>3, <2>1, <2>3, OperationTyped
<1>5. CASE Compact
  <2>1. pc = "compaction" /\ "compaction" \in Operations \ {"llm"} /\ HasKickoff(snap)
    BY <1>5, <1>1, PipelineOrder DEF Compact, At, ControlOK
  <2>2. \/ Pass("compaction") \/ Applied(<<Replace(Compacted(snap))>>, FALSE)
        \/ Applied(<<>>, TRUE)
    BY <1>5 DEF Compact
  <2>3. Compacted(snap) \in Seq(Message) /\ HasKickoff(Compacted(snap))
    BY <1>1, <2>1, CompactedTyped
  <2>4. ControlOK'
    BY <1>1, <2>1, <2>2, <2>3, PassTyped, AppliedReplaceTyped, AppliedNothingTyped
  <2> QED BY <1>2, <1>3, <2>1, <2>4, OperationTyped
<1>6. CASE FinishTools
  <2>1. pc = "tools" /\ Applied(<<Append_(Response(running, "none"))>>, FALSE)
    BY <1>6 DEF FinishTools
  <2>2. Response(running, "none") \in Message
    BY <1>1, MessagesTyped DEF ControlOK, Notes
  <2>3. ControlOK'
    BY <1>1, <2>1, <2>2, AppliedAppendTyped
  <2> QED BY <1>2, <1>3, <2>1, <2>3, OperationTyped
<1>7. CASE AnswerUnknown
  <2>1. pc = "unknown_tool" /\ "unknown_tool" \in Operations \ {"llm"}
    BY <1>7, PipelineOrder DEF AnswerUnknown, At
  <2> DEFINE S == IdsAt(snap, Unclaimed(snap))
  <2>2. Pass("unknown_tool") \/ Applied(<<Append_(Response(S, "none"))>>, FALSE)
    BY <1>7 DEF AnswerUnknown
  <2>3. S \subseteq Requests
    <3>1. \A i \in Unclaimed(snap) : i \in DOMAIN snap /\ snap[i].kind = "request"
      BY DEF Unclaimed, Unanswered, Turn
    <3> QED BY <1>1, <3>1, RequestAtTyped DEF IdsAt
  <2> HIDE DEF S
  <2>4. Response(S, "none") \in Message
    BY <2>3, MessagesTyped DEF Notes
  <2>5. ControlOK'
    BY <1>1, <2>1, <2>2, <2>4, PassTyped, AppliedAppendTyped
  <2> QED BY <1>2, <1>3, <2>1, <2>5, OperationTyped
<1>8. CASE StopHook
  <2> DEFINE denial == Msg("denial", FALSE, TRUE, {}, "none")
  <2>1. pc = "stop_hook" /\ "stop_hook" \in Operations \ {"llm"}
    BY <1>8, PipelineOrder DEF StopHook, At
  <2>2. \/ Pass("stop_hook") \/ Applied(<<>>, TRUE) \/ Applied(<<Append_(UserOnlyText)>>, TRUE)
        \/ Applied(<<Append_(denial)>>, FALSE)
    BY <1>8 DEF StopHook
  <2>3. denial \in Message /\ UserOnlyText \in Message
    BY MessagesTyped
  <2> HIDE DEF denial
  <2>4. ControlOK'
    BY <1>1, <2>1, <2>2, <2>3, PassTyped, AppliedNothingTyped, AppliedAppendTyped
  <2> QED BY <1>2, <1>3, <2>1, <2>4, OperationTyped
<1>9. CASE ExitOnError
  <2>1. pc = "exit_on_error" /\ "exit_on_error" \in Operations \ {"llm"}
    BY <1>9, PipelineOrder DEF ExitOnError, At
  <2>2. Pass("exit_on_error") \/ Applied(<<>>, TRUE)
    BY <1>9 DEF ExitOnError
  <2>3. ControlOK'
    BY <1>1, <2>1, <2>2, PassTyped, AppliedNothingTyped
  <2> QED BY <1>2, <1>3, <2>1, <2>3, OperationTyped
<1>10. CASE CancelOpen
  <2>1. pc = "llm" /\ "llm" \in Operations
    BY <1>10, PipelineOrder DEF CancelOpen
  <2>2. Stop \/ Applied(Closing(snap, {}), TRUE)
    BY <1>10 DEF CancelOpen
  <2>3. /\ Closing(snap, {}) \in Seq(Effect)
        /\ \A k \in DOMAIN Closing(snap, {}) : Closing(snap, {})[k].op # "replace"
    BY <1>1, ClosingTyped
  <2>4. ControlOK'
    BY <1>1, <2>2, <2>3, StopTyped, AppliedTyped DEF Stop
  <2> QED BY <1>2, <1>3, <2>1, <2>4, OperationTyped
<1> QED BY <1>4, <1>5, <1>6, <1>7, <1>8, <1>9, <1>10

LEMMA ApproveTyped ==
  ASSUME TypeInv, Approve
  PROVE  TypeInv'
<1> DEFINE lvl    == IF Mode = "chat" THEN level ELSE UpdatedLevel(snap)
           denied == WithVerdict(snap, lvl, "denied")
           ask    == WithVerdict(snap, lvl, "needs_approval")
<1>1. /\ pc = "tool_approval" /\ "tool_approval" \in Operations \ {"llm"} /\ pc # "idle"
      /\ ControlOK /\ snap \in Seq(Message)
  BY PipelineOrder DEF Approve, At, TypeInv, ControlOK
<1>2. level' = lvl
  BY DEF Approve
<1>3. \/ Pass("tool_approval")
      \/ \E q1 \in Orders(ToMark(snap)), q2 \in Orders(denied), q3 \in Orders(ask) :
           Applied(ApprovalEffects(snap, q1, q2, q3), FALSE)
  BY DEF Approve
<1>4. lvl \in [Tools -> {"default", "allow", "deny"}]
  <2>1. level \in [Tools -> {"default", "allow", "deny"}]
    BY DEF TypeInv, StoreOK
  <2>2. UpdatedLevel(snap) \in [Tools -> {"default", "allow", "deny"}]
    BY <2>1 DEF UpdatedLevel
  <2> QED BY <2>1, <2>2
<1> HIDE DEF lvl
<1>5. ControlOK' /\ pc' # "idle"
  <2>1. CASE Pass("tool_approval")
    BY <1>1, <2>1, PassTyped
  <2>2. ASSUME NEW q1 \in Orders(ToMark(snap)), NEW q2 \in Orders(denied), NEW q3 \in Orders(ask),
               Applied(ApprovalEffects(snap, q1, q2, q3), FALSE)
        PROVE  ControlOK' /\ pc' # "idle"
    <3>1. /\ ApprovalEffects(snap, q1, q2, q3) \in Seq(Effect)
          /\ \A k \in DOMAIN ApprovalEffects(snap, q1, q2, q3) :
                  ApprovalEffects(snap, q1, q2, q3)[k].op # "replace"
      BY <1>1, ApprovalEffectsTyped
    <3> QED BY <1>1, <2>2, <3>1, AppliedTyped
  <2> QED BY <1>3, <2>1, <2>2
<1>6. StoreOK'
  BY <1>1, <1>2, <1>4 DEF Approve, TypeInv, StoreOK
<1> QED
  BY <1>5, <1>6, MemoryKept, HistoryKept DEF Approve, TypeInv

(* Executions are counted. *)
LEMMA ExecutedTyped ==
  ASSUME HistoryOK, executed' \in [Requests -> Nat],
         UNCHANGED <<emitted, answers, calls, resets, used>>
  PROVE  HistoryOK'
BY DEF HistoryOK

LEMMA RecipeTyped ==
  ASSUME TypeInv, Recipe
  PROVE  TypeInv'
<1>1. pc = "recipe" /\ "recipe" \in Operations \ {"llm"} /\ ControlOK /\ snap \in Seq(Message)
  BY PipelineOrder DEF Recipe, At, TypeInv, ControlOK
<1>2. executed \in [Requests -> Nat]
  BY DEF TypeInv, HistoryOK
<1>3. ControlOK' /\ executed' \in [Requests -> Nat]
  <2>1. CASE Pass("recipe") /\ UNCHANGED executed
    BY <1>1, <1>2, <2>1, PassTyped
  <2>2. ASSUME NEW i \in FirstFinal(snap), NEW outcome \in {"none", "success"},
               Applied(<<Append_(Response({RequestAt(snap, i)}, outcome))>>, FALSE),
               \/ UNCHANGED executed
               \/ executed' = [executed EXCEPT ![RequestAt(snap, i)] = @ + 1]
        PROVE  ControlOK' /\ executed' \in [Requests -> Nat]
    <3>1. i \in DOMAIN snap /\ snap[i].kind = "request"
      BY DEF FirstFinal, Unanswered, Turn
    <3>2. RequestAt(snap, i) \in Requests
      BY <1>1, <3>1, RequestAtTyped
    <3>3. Response({RequestAt(snap, i)}, outcome) \in Message
      BY <3>2, MessagesTyped DEF Notes
    <3>4. executed' \in [Requests -> Nat]
      <4>1. executed[RequestAt(snap, i)] + 1 \in Nat
        BY <1>2, <3>2
      <4> QED BY <1>2, <2>2, <4>1
    <3> QED BY <1>1, <2>2, <3>3, <3>4, AppliedAppendTyped
  <2>3. CASE /\ \/ Applied(<<Append_(Text("none"))>>, FALSE)
                \/ Applied(<<Append_(Prompt("continuation"))>>, FALSE)
             /\ UNCHANGED executed
    <3>1. Text("none") \in Message /\ Prompt("continuation") \in Message
      BY MessagesTyped DEF Notes
    <3> QED BY <1>1, <1>2, <2>3, <3>1, AppliedAppendTyped
  <2> QED BY <2>1, <2>2, <2>3 DEF Recipe
<1>4. HistoryOK' /\ MemoryOK'
  BY <1>3, ExecutedTyped, MemoryKept DEF Recipe, TypeInv
<1> QED BY <1>1, <1>3, <1>4, OperationTyped DEF Recipe

LEMMA DispatchToolsTyped ==
  ASSUME TypeInv, DispatchTools
  PROVE  TypeInv'
<1>1. /\ pc = "tool_execution" /\ "tool_execution" \in Operations \ {"llm"}
      /\ "tools" \notin Operations /\ ControlOK /\ snap \in Seq(Message) /\ HasKickoff(snap)
  BY PipelineOrder DEF DispatchTools, At, TypeInv, ControlOK
<1>2. executed \in [Requests -> Nat]
  BY DEF TypeInv, HistoryOK
<1>3. ControlOK' /\ executed' \in [Requests -> Nat]
  <2>1. CASE Runnable(snap) = {}
    BY <1>1, <1>2, <2>1, PassTyped DEF DispatchTools
  <2>2. CASE Runnable(snap) # {}
    <3>1. IdsAt(snap, Runnable(snap)) \subseteq Requests
      <4>1. \A i \in Runnable(snap) : i \in DOMAIN snap /\ snap[i].kind = "request"
        BY DEF Runnable, Unanswered, Turn
      <4> QED BY <1>1, <4>1, RequestAtTyped DEF IdsAt
    <3>2. /\ running' = IdsAt(snap, Runnable(snap)) /\ pc' = "tools"
          /\ UNCHANGED <<snap, effects, yielding, cancelled>>
      BY <2>2 DEF DispatchTools
    <3>3. ControlOK'
      BY <1>1, <3>1, <3>2 DEF ControlOK
    <3>4. executed' \in [Requests -> Nat]
      <4>1. \A r \in Requests : executed[r] \in Nat /\ executed[r] + 1 \in Nat
        BY <1>2
      <4> QED BY <2>2, <4>1 DEF DispatchTools
    <3> QED BY <3>3, <3>4
  <2> QED BY <2>1, <2>2
<1>4. HistoryOK' /\ MemoryOK'
  BY <1>3, ExecutedTyped, MemoryKept DEF DispatchTools, TypeInv
<1> QED BY <1>1, <1>3, <1>4, OperationTyped DEF DispatchTools

LEMMA RetryTyped ==
  ASSUME TypeInv, Retry
  PROVE  TypeInv'
<1> DEFINE nudge == Msg("nudge", FALSE, TRUE, {}, "none")
<1>1. /\ pc = "retry" /\ "retry" \in Operations \ {"llm"} /\ ControlOK
      /\ snap \in Seq(Message) /\ HasKickoff(snap)
  BY PipelineOrder DEF Retry, At, TypeInv, ControlOK
<1>2. \/ Pass("retry") \/ Applied(<<Append_(nudge)>>, FALSE) \/ Applied(<<Append_(HiddenPrompt)>>, FALSE)
      \/ Applied(<<Append_(ErrorMsg("otherError"))>>, FALSE)
      \/ Applied(<<Replace(ResetConversation(snap))>>, FALSE)
  BY DEF Retry, Nudge, Check
<1>3. /\ nudge \in Message /\ HiddenPrompt \in Message /\ ErrorMsg("otherError") \in Message
      /\ ResetConversation(snap) \in Seq(Message) /\ HasKickoff(ResetConversation(snap))
  BY <1>1, MessagesTyped, ResetTyped DEF Errors
<1> HIDE DEF nudge
<1>4. ControlOK'
  BY <1>1, <1>2, <1>3, PassTyped, AppliedAppendTyped, AppliedReplaceTyped
<1>5. goal' \in BOOLEAN /\ grind' \in BOOLEAN /\ queue' = queue
  BY DEF Retry, TypeInv, MemoryOK
<1>6. MemoryOK'
  BY <1>5 DEF TypeInv, MemoryOK
<1>7. calls' \in Nat /\ resets' \in Nat /\ UNCHANGED <<executed, emitted, answers, used, persisted>>
  <2>1. calls \in Nat /\ resets \in Nat
    BY DEF TypeInv, HistoryOK
  <2>2. \/ UNCHANGED <<calls, resets>>
        \/ calls' = 0 /\ resets' = resets + 1
    BY DEF Retry, Check
  <2>3. UNCHANGED <<executed, emitted, answers, used, persisted>>
    BY DEF Retry
  <2> QED BY <2>1, <2>2, <2>3
<1>8. HistoryOK'
  BY <1>7 DEF TypeInv, HistoryOK
<1> QED BY <1>1, <1>4, <1>6, <1>7, <1>8, OperationTyped

LEMMA InferTyped ==
  ASSUME TypeInv, Infer
  PROVE  TypeInv'
<1>1. /\ pc = "llm" /\ "llm" \in Operations /\ "provider" \notin Operations
      /\ ControlOK /\ HasKickoff(snap)
  BY PipelineOrder DEF Infer, At, TypeInv, ControlOK
<1>2. \/ Stop /\ UNCHANGED calls
      \/ pc' = "provider" /\ calls' = calls + 1 /\ UNCHANGED <<step, cancelled>>
  BY DEF Infer
<1>3. ControlOK'
  BY <1>1, <1>2, StopTyped DEF ControlOK, Stop, step
<1>4. calls' \in Nat
  BY <1>2 DEF TypeInv, HistoryOK
<1>5. HistoryOK'
  BY <1>4 DEF Infer, TypeInv, HistoryOK
<1> QED BY <1>1, <1>3, <1>5, MemoryKept, OperationTyped DEF Infer, TypeInv

(* What a stream leaves. *)
LEMMA StreamEndsTyped ==
  ASSUME TypeInv, NEW effs \in Seq(Effect), NEW streamed \in SUBSET Requests, NEW yield \in BOOLEAN,
         \A k \in DOMAIN effs : effs[k].op # "replace",
         pc = "provider", StreamEnds(effs, streamed, yield),
         used' \in [prompts: Nat, steers: Nat, errors: Nat, crashes: Nat]
  PROVE  TypeInv'
<1> DEFINE closing == Closing(snap, streamed)
<1>1. /\ pc' = "apply" /\ UNCHANGED <<persisted, memory, snap, running, cancelled, executed, answers, calls, resets>>
      /\ effects' \in {effs, effs \o closing} /\ emitted' = emitted \cup streamed
      /\ yielding' \in BOOLEAN
  BY DEF StreamEnds, TypeInv, ControlOK
<1>2. closing \in Seq(Effect) /\ \A k \in DOMAIN closing : closing[k].op # "replace"
  BY ClosingTyped DEF TypeInv, ControlOK
<1> HIDE DEF closing
<1>3. effects' \in Seq(Effect) /\ \A k \in DOMAIN effects' : effects'[k].op # "replace"
  <2>1. effs \o closing \in Seq(Effect) /\ \A k \in DOMAIN (effs \o closing) : (effs \o closing)[k].op # "replace"
    BY <1>2
  <2> QED BY <1>1, <2>1
<1>4. ControlOK'
  BY <1>1, <1>3, PipelineOrder DEF TypeInv, ControlOK
<1>5. HistoryOK'
  BY <1>1 DEF TypeInv, HistoryOK
<1>6. MemoryOK'
  BY <1>1, MemoryKept DEF TypeInv
<1> QED BY <1>1, <1>4, <1>5, <1>6, OperationTyped

LEMMA RequestsOfTyped ==
  ASSUME NEW b \in Seq(Requests)
  PROVE  /\ IdsIn(b) \subseteq Requests /\ RequestsOf(b) \in Seq(Effect)
         /\ \A k \in DOMAIN RequestsOf(b) : RequestsOf(b)[k].op # "replace"
<1>1. Len(b) \in Nat /\ DOMAIN b = 1 .. Len(b)
  OBVIOUS
<1>2. \A r \in Requests : Append_(Request(r)) \in Effect /\ Append_(Request(r)).op # "replace"
  BY EffectsTyped, MessagesTyped DEF Append_
<1>3. \A k \in 1 .. Len(b) : b[k] \in Requests
  OBVIOUS
<1> QED BY <1>1, <1>2, <1>3 DEF IdsIn, RequestsOf

LEMMA ProviderTyped ==
  ASSUME TypeInv, ProviderReplies \/ ProviderFails
  PROVE  TypeInv'
<1> DEFINE Harmless(s) == s \in Seq(Effect) /\ \A k \in DOMAIN s : s[k].op # "replace"
<1>1. \A s, t : Harmless(s) /\ Harmless(t) => Harmless(s \o t)
  OBVIOUS
<1>2. /\ Harmless(<<Append_(Text("none"))>>)
      /\ \A kind \in Errors : Harmless(<<Append_(ErrorMsg(kind))>>)
  <2>1. Text("none") \in Message /\ \A kind \in Errors : ErrorMsg(kind) \in Message
    BY MessagesTyped DEF Notes
  <2> QED BY <2>1, AppendTyped
<1>3. \A u \in RecordUsage : Harmless(u)
  <2>1. \A b \in BOOLEAN : Usage(b) \in Effect /\ Usage(b).op # "replace"
    BY EffectsTyped DEF Usage
  <2>2. \A b \in BOOLEAN : Harmless(<<Usage(b)>>)
    BY <2>1
  <2> QED BY <2>2, NoEffects DEF RecordUsage
<1>4. \A b \in Batches \cup {<<>>} : IdsIn(b) \subseteq Requests /\ Harmless(RequestsOf(b))
  <2>1. \A b \in Batches \cup {<<>>} : b \in Seq(Requests)
    <3>1. Batches \subseteq Seq(Requests) /\ <<>> \in Seq(Requests)
      BY SetsAssumption
    <3> QED BY <3>1
  <2> QED BY <2>1, RequestsOfTyped
<1>5. /\ pc = "provider"
      /\ used' \in [prompts: Nat, steers: Nat, errors: Nat, crashes: Nat]
  <2>1. used \in [prompts: Nat, steers: Nat, errors: Nat, crashes: Nat]
    BY DEF TypeInv, HistoryOK
  <2>2. [used EXCEPT !.errors = @ + 1] \in [prompts: Nat, steers: Nat, errors: Nat, crashes: Nat]
    BY <2>1
  <2>3. pc = "provider" /\ used' \in {used, [used EXCEPT !.errors = @ + 1]}
    BY DEF ProviderReplies, ProviderFails
  <2> QED BY <2>1, <2>2, <2>3
<1> HIDE DEF Harmless
<1>6. ASSUME NEW effs, NEW streamed \in SUBSET Requests, NEW yield \in BOOLEAN,
             Harmless(effs), StreamEnds(effs, streamed, yield)
      PROVE  TypeInv'
  BY <1>5, <1>6, StreamEndsTyped DEF Harmless
<1>7. CASE ProviderReplies
  <2>1. PICK u \in RecordUsage :
          \/ StreamEnds(u \o <<Append_(Text("none"))>>, {}, FALSE)
          \/ \E b \in Batches : StreamEnds(u \o RequestsOf(b), IdsIn(b), FALSE)
    BY <1>7 DEF ProviderReplies
  <2> QED BY <1>1, <1>2, <1>3, <1>4, <1>6, <2>1
<1>8. CASE ProviderFails
  <2>1. \/ \E kind \in Errors, b \in Batches \cup {<<>>} :
             StreamEnds(RequestsOf(b) \o <<Append_(ErrorMsg(kind))>>, IdsIn(b), FALSE)
        \/ StreamEnds(<<Append_(Text("none"))>>, {}, TRUE)
    BY <1>8 DEF ProviderFails
  <2> QED BY <1>1, <1>2, <1>4, <1>6, <2>1
<1> QED BY <1>7, <1>8

-----------------------------------------------------------------------------
(* Clients and failures *)

LEMMA ReplyTyped ==
  ASSUME TypeInv, NEW note \in PromptNotes, Reply(note)
  PROVE  TypeInv'
<1>1. /\ pc = "idle" /\ pc' = "load" /\ conv' = Append(conv, Prompt(note)) /\ cancelled' = FALSE
      /\ UNCHANGED <<level, over, memory, step, executed, emitted, answers>>
      /\ calls' = 0 /\ resets' = 0 /\ used' = [used EXCEPT !.prompts = @ + 1]
  BY DEF Reply
<1>2. Prompt(note) \in Message /\ IsKickoff(Prompt(note))
  <2>1. note \in Notes
    BY SetsAssumption DEF Notes
  <2>2. IsKickoff(Prompt(note))
    BY DEF Prompt, Msg, IsKickoff, UserKinds
  <2> QED BY <2>1, <2>2, MessagesTyped
<1>3. conv \in Seq(Message) /\ Len(conv) \in Nat
  BY DEF TypeInv, StoreOK
<1>4. conv' \in Seq(Message) /\ HasKickoff(conv')
  <2> DEFINE p == Prompt(note)
  <2>1. p \in Message /\ IsKickoff(p) /\ conv' = Append(conv, p)
    BY <1>1, <1>2
  <2> HIDE DEF p
  <2>2. /\ Append(conv, p) \in Seq(Message) /\ Len(conv) + 1 \in DOMAIN Append(conv, p)
        /\ Append(conv, p)[Len(conv) + 1] = p
    BY <1>3, <2>1
  <2> QED BY <2>1, <2>2 DEF HasKickoff
<1>5. StoreOK'
  BY <1>1, <1>4 DEF TypeInv, StoreOK
<1>6. ControlOK'
  BY <1>1, PipelineOrder DEF TypeInv, ControlOK, step
<1>7. HistoryOK'
  <2>1. used' \in [prompts: Nat, steers: Nat, errors: Nat, crashes: Nat]
    BY <1>1 DEF TypeInv, HistoryOK
  <2> QED BY <1>1, <2>1 DEF TypeInv, HistoryOK
<1> QED BY <1>1, <1>5, <1>6, <1>7, MemoryKept DEF TypeInv

LEMMA ConfirmTyped ==
  ASSUME TypeInv, NEW r \in Requests, NEW ans \in GivenAnswers, Confirm(r, ans)
  PROVE  TypeInv'
<1>1. /\ conv' = Append(conv, Approval(r, ans)) /\ answers' = answers \cup {<<r, ans>>}
      /\ UNCHANGED <<level, over, memory, pc, step, cancelled, executed, emitted, calls, resets, used>>
  BY DEF Confirm
<1>2. ans \in Answers /\ Approval(r, ans) \in Message
  BY SetsAssumption, MessagesTyped
<1>3. conv \in Seq(Message)
  BY DEF TypeInv, StoreOK
<1>4. conv' \in Seq(Message) /\ (HasKickoff(conv) => HasKickoff(conv'))
  <2> DEFINE p == Approval(r, ans)
  <2>1. p \in Message /\ conv' = Append(conv, p)
    BY <1>1, <1>2
  <2> HIDE DEF p
  <2>2. /\ Append(conv, p) \in Seq(Message)
        /\ \A i \in DOMAIN conv : i \in DOMAIN Append(conv, p) /\ Append(conv, p)[i] = conv[i]
    BY <1>3, <2>1
  <2> QED BY <2>1, <2>2 DEF HasKickoff
<1>5. StoreOK'
  BY <1>1, <1>4 DEF TypeInv, StoreOK
<1>6. ControlOK'
  BY <1>1 DEF TypeInv, ControlOK, step
<1>7. HistoryOK'
  BY <1>1, <1>2 DEF TypeInv, HistoryOK
<1> QED BY <1>1, <1>5, <1>6, <1>7, MemoryKept DEF TypeInv

LEMMA OtherClientsTyped ==
  ASSUME TypeInv, Resume \/ QueueSteer \/ Cancel
  PROVE  TypeInv'
<1>1. CASE Resume
  <2>1. StoreOK'
    BY <1>1 DEF Resume, TypeInv, StoreOK, persisted
  <2>2. ControlOK'
    BY <1>1, PipelineOrder DEF Resume, TypeInv, ControlOK, step
  <2> QED BY <1>1, <2>1, <2>2, MemoryKept, HistoryKept DEF Resume, TypeInv
<1>2. CASE QueueSteer
  <2>1. StoreOK'
    BY <1>2 DEF QueueSteer, TypeInv, StoreOK, persisted
  <2>2. ControlOK'
    BY <1>2 DEF QueueSteer, TypeInv, ControlOK, step
  <2>3. MemoryOK'
    BY <1>2 DEF QueueSteer, TypeInv, MemoryOK
  <2>4. used' \in [prompts: Nat, steers: Nat, errors: Nat, crashes: Nat]
    BY <1>2 DEF QueueSteer, TypeInv, HistoryOK
  <2>5. HistoryOK'
    BY <1>2, <2>4 DEF QueueSteer, TypeInv, HistoryOK
  <2> QED BY <2>1, <2>2, <2>3, <2>5 DEF TypeInv
<1>3. CASE Cancel
  <2>1. StoreOK'
    BY <1>3 DEF Cancel, TypeInv, StoreOK, persisted
  <2>2. ControlOK'
    BY <1>3 DEF Cancel, TypeInv, ControlOK, step
  <2> QED BY <1>3, <2>1, <2>2, MemoryKept, HistoryKept DEF Cancel, TypeInv
<1> QED BY <1>1, <1>2, <1>3

LEMMA FailuresTyped ==
  ASSUME TypeInv, Abort \/ Crash
  PROVE  TypeInv'
<1>1. /\ pc' = "idle" /\ Clear /\ UNCHANGED <<persisted, executed, emitted, answers, calls, resets>>
      /\ used' = [used EXCEPT !.crashes = @ + 1]
  BY DEF Abort, Crash
<1>2. ControlOK'
  <2>1. cancelled' \in BOOLEAN
    BY DEF Abort, Crash, TypeInv, ControlOK
  <2> QED BY <1>1, <2>1, StopTyped DEF TypeInv
<1>3. StoreOK'
  BY <1>1 DEF TypeInv, StoreOK, persisted
<1>4. MemoryOK'
  <2>1. \/ UNCHANGED memory
        \/ queue' = 0 /\ goal' = FALSE /\ grind' = FALSE
    BY DEF Abort, Crash
  <2>2. CASE UNCHANGED memory
    BY <2>2, MemoryKept DEF TypeInv
  <2>3. CASE queue' = 0 /\ goal' = FALSE /\ grind' = FALSE
    BY <2>3 DEF MemoryOK
  <2> QED BY <2>1, <2>2, <2>3
<1>5. HistoryOK'
  <2>1. used' \in [prompts: Nat, steers: Nat, errors: Nat, crashes: Nat]
    BY <1>1 DEF TypeInv, HistoryOK
  <2> QED BY <1>1, <2>1 DEF TypeInv, HistoryOK
<1> QED BY <1>2, <1>3, <1>4, <1>5 DEF TypeInv

-----------------------------------------------------------------------------

LEMMA TypeInvStep == TypeInv /\ [Next]_vars => TypeInv'
<1> SUFFICES ASSUME TypeInv, [Next]_vars PROVE TypeInv'
  OBVIOUS
<1>1. CASE Machine
  BY <1>1, KernelTyped, ApplyEffectTyped, SlashCommandTyped, SteerTyped, QuietOperationsTyped,
     ApproveTyped, RecipeTyped, DispatchToolsTyped, RetryTyped, InferTyped, ProviderTyped DEF Machine
<1>2. CASE Client
  BY <1>2, ReplyTyped, ConfirmTyped, OtherClientsTyped DEF Client
<1>3. CASE Abort \/ Crash
  BY <1>3, FailuresTyped
<1>4. CASE UNCHANGED vars
  <2>1. ControlOK'
    BY <1>4 DEF vars, TypeInv, ControlOK, step
  <2>2. StoreOK'
    BY <1>4 DEF vars, TypeInv, StoreOK, persisted
  <2>3. MemoryOK' /\ HistoryOK'
    BY <1>4, MemoryKept, HistoryKept DEF vars, TypeInv
  <2> QED BY <2>1, <2>2, <2>3 DEF TypeInv
<1> QED BY <1>1, <1>2, <1>3, <1>4 DEF Next

(* Every reachable state of the machine has its shape (agents/             *)
(* state_machine): in particular every step that is under way works on a    *)
(* conversation with a kickoff message, which a compaction, a retry and     *)
(* every other effect leave in place.                                       *)
THEOREM TurnTypeCorrect == Spec => []TypeInv
BY TypeInvInit, TypeInvStep, PTL DEF Spec

(* The type invariant the runs check. *)
THEOREM TurnTypeOK == Spec => []TypeOK
<1>1. TypeInv => TypeOK
  BY DEF TypeInv, ControlOK, StoreOK, MemoryOK, HistoryOK, TypeOK
<1> QED BY <1>1, TurnTypeCorrect, PTL

=============================================================================
