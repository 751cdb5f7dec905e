---------------------------- MODULE ToolCallProofs ----------------------------
(***************************************************************************)
(* What becomes of a tool call, for all values of the constants of         *)
(* TurnMachine: it is answered once and executed once whatever cuts the    *)
(* run off, a cancelled run answers it before it ends, and a run that      *)
(* stops by itself leaves no call behind that nobody will answer, nor a    *)
(* recipe without its output.  The last part counts the inferences of a    *)
(* turn: they keep within the budget.                                      *)
(***************************************************************************)
EXTENDS TurnBoundsProofs

-----------------------------------------------------------------------------
(* Requests and responses of a conversation *)

Carries(m) == m.kind \in {"request", "response"}

Overlap(m, n) == m.ids \cap n.ids # {}

(* Calls were emitted, responses follow what they answer, and no two        *)
(* responses answer the same call.                                          *)
Traffic(c, E) ==
  /\ \A i \in DOMAIN c : Carries(c[i]) => c[i].ids \subseteq E
  /\ \A i, j \in DOMAIN c :
       c[i].kind = "request" /\ c[j].kind = "response" /\ Overlap(c[i], c[j]) => i < j
  /\ \A i, j \in DOMAIN c :
       i # j /\ c[i].kind = "response" /\ c[j].kind = "response" => ~Overlap(c[i], c[j])

(* The same of what is still to be persisted to conversation c. *)
Outgoing(es, c, E) ==
  /\ \A k \in DOMAIN es :
       Adds(es[k], "request") \/ Adds(es[k], "response") =>
         es[k].msg.ids \subseteq E \ AnsweredEver(c)
  /\ \A k, j \in DOMAIN es :
       Adds(es[k], "request") /\ Adds(es[j], "response") /\ Overlap(es[k].msg, es[j].msg) => k < j
  /\ \A k, j \in DOMAIN es :
       k # j /\ Adds(es[k], "response") /\ Adds(es[j], "response") => ~Overlap(es[k].msg, es[j].msg)
  /\ \A k \in DOMAIN es : es[k].op = "replace" => Traffic(es[k].conv, E)

ResponsesInv ==
  /\ Traffic(conv, emitted)
  /\ running \subseteq emitted \ AnsweredEver(conv)
  /\ Outgoing(effects, conv, emitted)

LEMMA AnsweredAt ==
  ASSUME NEW c, NEW r
  PROVE  r \in AnsweredEver(c) <=> \E j \in DOMAIN c : c[j].kind = "response" /\ r \in c[j].ids
BY DEF AnsweredEver

(* Conversations that agree on a part of their positions. *)
LEMMA ExtendedTraffic ==
  ASSUME NEW c \in Seq(Message), NEW d \in Seq(Message), Extended(d, c), NEW E
  PROVE  /\ Traffic(d, E) => Traffic(c, E)
         /\ AnsweredEver(c) \subseteq AnsweredEver(d)
         /\ (\A i \in Added(d, c) : d[i].kind # "response") => AnsweredEver(d) = AnsweredEver(c)
         /\ (\A i \in Added(d, c) : ~Carries(d[i])) /\ Traffic(c, E) => Traffic(d, E)
<1>1. DOMAIN c \subseteq DOMAIN d /\ \A i \in DOMAIN c : d[i].kind = c[i].kind /\ d[i].ids = c[i].ids
  BY ExtendedTurn DEF Extended, Like
<1>2. Traffic(d, E) => Traffic(c, E)
  BY <1>1 DEF Traffic, Carries, Overlap
<1>3. AnsweredEver(c) \subseteq AnsweredEver(d)
  BY <1>1, AnsweredAt
<1>4. ASSUME \A i \in Added(d, c) : d[i].kind # "response"
      PROVE  AnsweredEver(d) = AnsweredEver(c)
  <2>1. \A j \in DOMAIN d : d[j].kind = "response" => j \in DOMAIN c /\ c[j].kind = "response" /\ c[j].ids = d[j].ids
    BY <1>1, <1>4 DEF Added
  <2>2. AnsweredEver(d) \subseteq AnsweredEver(c)
    BY <2>1, AnsweredAt
  <2> QED BY <1>3, <2>2
<1>5. ASSUME \A i \in Added(d, c) : ~Carries(d[i]), Traffic(c, E)
      PROVE  Traffic(d, E)
  <2>1. \A i \in DOMAIN d : Carries(d[i]) => i \in DOMAIN c /\ d[i].kind = c[i].kind /\ d[i].ids = c[i].ids
    BY <1>1, <1>5 DEF Added
  <2> QED BY <1>5, <2>1 DEF Traffic, Carries, Overlap
<1> QED BY <1>2, <1>3, <1>4, <1>5

LEMMA AppendTraffic ==
  ASSUME NEW c \in Seq(Message), NEW m \in Message, NEW E, Traffic(c, E),
         Carries(m) => m.ids \subseteq E \ AnsweredEver(c)
  PROVE  /\ Traffic(Append(c, m), E)
         /\ AnsweredEver(Append(c, m)) = AnsweredEver(c) \cup IF m.kind = "response" THEN m.ids ELSE {}
<1> DEFINE d == Append(c, m)
<1>1. /\ Len(c) \in Nat /\ d[Len(c) + 1] = m
      /\ DOMAIN c = 1 .. Len(c) /\ DOMAIN d = 1 .. Len(c) + 1
      /\ \A i \in 1 .. Len(c) : d[i] = c[i]
  OBVIOUS
<1> HIDE DEF d
<1>2. \A i \in DOMAIN d : (i \in DOMAIN c /\ d[i] = c[i]) \/ (i = Len(c) + 1 /\ d[i] = m)
  BY <1>1
<1>3. DOMAIN c \subseteq DOMAIN d /\ Len(c) + 1 \in DOMAIN d /\ \A i \in DOMAIN c : i < Len(c) + 1
  BY <1>1
<1>4. AnsweredEver(d) = AnsweredEver(c) \cup IF m.kind = "response" THEN m.ids ELSE {}
  <2>1. ASSUME NEW r
        PROVE  r \in AnsweredEver(d) <=> r \in AnsweredEver(c) \/ (m.kind = "response" /\ r \in m.ids)
    BY <1>1, <1>2, <1>3, AnsweredAt
  <2> QED BY <2>1
<1>5. \A i \in DOMAIN d : Carries(d[i]) => d[i].ids \subseteq E
  BY <1>2 DEF Traffic
<1>6. ASSUME NEW i \in DOMAIN c, c[i].kind = "response", Carries(m)
      PROVE  ~Overlap(c[i], m) /\ ~Overlap(m, c[i])
  <2>1. c[i].ids \subseteq AnsweredEver(c)
    BY <1>6, AnsweredAt
  <2> QED BY <1>6, <2>1 DEF Overlap
<1>7. ASSUME NEW i \in DOMAIN d, NEW j \in DOMAIN d,
             d[i].kind = "request", d[j].kind = "response", Overlap(d[i], d[j])
      PROVE  i < j
  <2>1. CASE i \in DOMAIN c /\ d[i] = c[i]
    BY <1>2, <1>3, <1>7, <2>1 DEF Traffic
  <2>2. CASE i = Len(c) + 1 /\ d[i] = m
    BY <1>2, <1>6, <1>7, <2>2 DEF Carries
  <2> QED BY <1>2, <2>1, <2>2
<1>8. ASSUME NEW i \in DOMAIN d, NEW j \in DOMAIN d, i # j,
             d[i].kind = "response", d[j].kind = "response"
      PROVE  ~Overlap(d[i], d[j])
  BY <1>2, <1>6, <1>8 DEF Traffic, Carries
<1>9. Traffic(d, E)
  BY <1>5, <1>7, <1>8 DEF Traffic
<1> QED BY <1>4, <1>9 DEF d

LEMMA RewrittenTraffic ==
  ASSUME NEW c \in Seq(Message), HasKickoff(c), NEW E, Traffic(c, E)
  PROVE  Traffic(Compacted(c), E) /\ Traffic(ResetConversation(c), E)
<1>1. Traffic(Compacted(c), E)
  <2>1. /\ Compacted(c) \in Seq(Message) /\ Extended(Compacted(c), c)
        /\ \A i \in Added(Compacted(c), c) : ~Carries(Compacted(c)[i])
    BY CompactedShape DEF Carries
  <2> QED BY <2>1, ExtendedTraffic
<1>2. Traffic(ResetConversation(c), E)
  <2> DEFINE k == Kickoff(c)
             d == ResetConversation(c)
  <2>1. /\ DOMAIN d = 1 .. k /\ k \in DOMAIN c /\ \A i \in 1 .. k - 1 : d[i] = c[i]
        /\ d[k].kind = c[k].kind /\ d[k].ids = c[k].ids
        /\ DOMAIN c = 1 .. Len(c) /\ Len(c) \in Nat
    BY ResetShape
  <2> HIDE DEF k, d
  <2>2. \A i \in DOMAIN d : i \in DOMAIN c /\ d[i].kind = c[i].kind /\ d[i].ids = c[i].ids
    <3>1. \A i \in 1 .. k : i \in DOMAIN c /\ (i = k \/ i \in 1 .. k - 1)
      BY <2>1
    <3> QED BY <2>1, <3>1
  <2>3. Traffic(d, E)
    BY <2>2 DEF Traffic, Carries, Overlap
  <2> QED BY <2>3 DEF d
<1> QED BY <1>1, <1>2

LEMMA TurnIsASuffix ==
  ASSUME NEW c, NEW i \in Turn(c), NEW j \in DOMAIN c, c \in Seq(Message), i <= j
  PROVE  j \in Turn(c)
BY DEF Turn

(* An open call has not been answered by any turn. *)
LEMMA OpenUnanswered ==
  ASSUME NEW c \in Seq(Message), NEW E, Traffic(c, E)
  PROVE  Open(c) \subseteq E \ AnsweredEver(c)
<1>1. ASSUME NEW r \in Open(c)
      PROVE  r \in E /\ r \notin AnsweredEver(c)
  <2>1. PICK i \in Unanswered(c) : r = RequestAt(c, i)
    BY DEF Open, IdsAt
  <2>2. i \in Turn(c) /\ i \in DOMAIN c /\ c[i].kind = "request" /\ c[i].ids \cap Answered(c) = {}
    BY DEF Unanswered, Turn
  <2>3. r \in Requests /\ c[i].ids = {r}
    BY <2>1, <2>2, RequestAtTyped
  <2>4. r \in E
    BY <2>2, <2>3 DEF Traffic, Carries
  <2>5. ASSUME NEW j \in DOMAIN c, c[j].kind = "response", r \in c[j].ids
        PROVE  FALSE
    <3>1. i < j
      BY <2>2, <2>3, <2>5 DEF Traffic, Overlap
    <3>2. i <= j
      BY <2>2, <3>1
    <3>3. j \in Turn(c)
      BY <2>2, <3>2, TurnIsASuffix
    <3> QED BY <2>2, <2>3, <2>5, <3>3 DEF Answered, IdsOf
  <2> QED BY <2>4, <2>5, AnsweredAt
<1> QED BY <1>1

(* The snapshot and the store tell the same of calls. *)
LEMMA SnapTraffic ==
  ASSUME TypeInv, StepInv, ResponsesInv, pc \in Working
  PROVE  /\ HasKickoff(snap) /\ snap \in Seq(Message) /\ Continues(conv, snap)
         /\ Traffic(snap, emitted) /\ AnsweredEver(snap) = AnsweredEver(conv)
         /\ Open(snap) \subseteq emitted \ AnsweredEver(conv)
<1>1. /\ HasKickoff(snap) /\ snap \in Seq(Message) /\ conv \in Seq(Message) /\ Continues(conv, snap)
  BY DEF TypeInv, ControlOK, StoreOK, StepInv, Working
<1>2. Extended(conv, snap) /\ \A i \in Added(conv, snap) : conv[i].kind # "response"
  BY <1>1, ContinuesShape
<1>3. Traffic(snap, emitted) /\ AnsweredEver(snap) = AnsweredEver(conv)
  BY <1>1, <1>2, ExtendedTraffic DEF ResponsesInv
<1> QED BY <1>1, <1>3, OpenUnanswered

LEMMA MoreTraffic ==
  ASSUME NEW c, NEW E, NEW F, E \subseteq F, Traffic(c, E)
  PROVE  Traffic(c, F)
BY DEF Traffic

(* Lists without requests, responses and replacements; single responses;    *)
(* single replacements.                                                     *)
LEMMA SimpleOutgoing ==
  ASSUME NEW es, NEW c, NEW E
  PROVE  /\ (\A k \in DOMAIN es : ~Adds(es[k], "request") /\ ~Adds(es[k], "response") /\ es[k].op # "replace")
              => Outgoing(es, c, E)
         /\ \A S, note : es = <<Append_(Response(S, note))>> /\ S \subseteq E \ AnsweredEver(c)
              => Outgoing(es, c, E)
         /\ \A d : es = <<Replace(d)>> /\ Traffic(d, E) => Outgoing(es, c, E)
<1>1. \A e : DOMAIN <<e>> = {1} /\ <<e>>[1] = e
  OBVIOUS
<1>2. ASSUME \A k \in DOMAIN es : ~Adds(es[k], "request") /\ ~Adds(es[k], "response") /\ es[k].op # "replace"
      PROVE  Outgoing(es, c, E)
  BY <1>2 DEF Outgoing
<1>3. ASSUME NEW S, NEW note, es = <<Append_(Response(S, note))>>, S \subseteq E \ AnsweredEver(c)
      PROVE  Outgoing(es, c, E)
  <2> DEFINE e == Append_(Response(S, note))
  <2>1. e.op = "append" /\ e.msg.kind = "response" /\ e.msg.ids = S
    BY DEF Append_, Response, Msg
  <2>2. es = <<e>>
    BY <1>3
  <2> HIDE DEF e
  <2>3. \A k \in DOMAIN es : k = 1 /\ es[k] = e
    BY <1>1, <2>2
  <2> QED BY <1>3, <2>1, <2>3 DEF Outgoing, Adds
<1>4. ASSUME NEW d, es = <<Replace(d)>>, Traffic(d, E)
      PROVE  Outgoing(es, c, E)
  <2> DEFINE e == Replace(d)
  <2>1. e.op = "replace" /\ e.conv = d
    BY DEF Replace
  <2>2. es = <<e>>
    BY <1>4
  <2> HIDE DEF e
  <2>3. \A k \in DOMAIN es : k = 1 /\ es[k] = e
    BY <1>1, <2>2
  <2> QED BY <1>4, <2>1, <2>3 DEF Outgoing, Adds
<1> QED BY <1>2, <1>3, <1>4

(* What is urged on the provider are prompts and denials.                   *)
LEMMA UrgedPrompts ==
  ASSUME Urges
  PROVE  \A k \in DOMAIN effects' :
           effects'[k].op = "append" /\ effects'[k].msg.kind \in {"prompt", "denial"}
<1>1. \A e : \A k \in DOMAIN <<e>> : <<e>>[k] = e
  OBVIOUS
<1>2. /\ \A note : Append_(Prompt(note)).op = "append" /\ Append_(Prompt(note)).msg.kind = "prompt"
      /\ Append_(Denial).op = "append" /\ Append_(Denial).msg.kind = "denial"
  BY DEF Append_, Prompt, Msg, Denial
<1> DEFINE e1 == Append_(Prompt("continuation"))
           e2 == Append_(Prompt("steer"))
           e3 == Append_(Denial)
<1>3. effects' = <<e1>> \/ effects' = [k \in 1 .. queue |-> e2] \/ effects' = <<e3>>
  BY DEF Urges
<1>4. /\ e1.op = "append" /\ e1.msg.kind = "prompt" /\ e2.op = "append" /\ e2.msg.kind = "prompt"
      /\ e3.op = "append" /\ e3.msg.kind = "denial"
  BY <1>2
<1> HIDE DEF e1, e2, e3
<1>5. \A k \in DOMAIN effects' : effects'[k] = e1 \/ effects'[k] = e2 \/ effects'[k] = e3
  BY <1>1, <1>3
<1> QED BY <1>4, <1>5

(* What a stream brought, and the response that closes it. *)
LEMMA StreamOutgoing ==
  ASSUME NEW c \in Seq(Message), NEW s \in Seq(Message), NEW streamed \in SUBSET Requests,
         NEW effs \in Seq(Effect), NEW es, NEW E,
         Traffic(s, E), AnsweredEver(s) = AnsweredEver(c), streamed \cap AnsweredEver(c) = {},
         es \in {effs, effs \o Closing(s, streamed)},
         \A k \in DOMAIN effs :
            /\ Light(effs[k]) /\ ~Adds(effs[k], "response")
            /\ Adds(effs[k], "request") => effs[k].msg.ids \subseteq streamed
  PROVE  Outgoing(es, c, E \cup streamed)
<1>1. Outgoing(effs, c, E \cup streamed)
  BY DEF Outgoing, Light
<1>2. ASSUME NEW S, S \subseteq (E \cup streamed) \ AnsweredEver(c)
      PROVE  Outgoing(effs \o <<Append_(Response(S, "none"))>>, c, E \cup streamed)
  <2> DEFINE e == Append_(Response(S, "none"))
             d == effs \o <<e>>
             n == Len(effs)
  <2>1. e.op = "append" /\ e.msg.kind = "response" /\ e.msg.ids = S
    BY DEF Append_, Response, Msg
  <2> HIDE DEF e
  <2>2. /\ DOMAIN effs = 1 .. n /\ n \in Nat /\ DOMAIN d = 1 .. n + 1 /\ d[n + 1] = e
        /\ \A k \in 1 .. n : d[k] = effs[k]
    OBVIOUS
  <2> HIDE DEF d, n
  <2>3. \A k \in DOMAIN d : (k \in DOMAIN effs /\ d[k] = effs[k] /\ k < n + 1) \/ (k = n + 1 /\ d[k] = e)
    BY <2>2
  <2>4. \A k \in DOMAIN d : Adds(d[k], "response") => k = n + 1 /\ d[k] = e
    BY <2>3
  <2>5. \A k \in DOMAIN d : Adds(d[k], "request") => k \in DOMAIN effs /\ k < n + 1 /\ d[k] = effs[k]
    BY <2>1, <2>3 DEF Adds
  <2>6. \A k \in DOMAIN d : d[k].op # "replace"
    BY <2>1, <2>3 DEF Light
  <2>7. \A k \in DOMAIN d : Adds(d[k], "request") \/ Adds(d[k], "response") =>
           d[k].msg.ids \subseteq (E \cup streamed) \ AnsweredEver(c)
    BY <1>2, <2>1, <2>4, <2>5
  <2>8. \A k, j \in DOMAIN d : Adds(d[k], "request") /\ Adds(d[j], "response") => k < j
    BY <2>4, <2>5
  <2>9. \A k, j \in DOMAIN d : Adds(d[k], "response") /\ Adds(d[j], "response") => k = j
    BY <2>4
  <2>10. Outgoing(d, c, E \cup streamed)
    BY <2>6, <2>7, <2>8, <2>9 DEF Outgoing
  <2> QED BY <2>10 DEF d, e
<1>3. \/ Closing(s, streamed) = <<>>
      \/ \E S : S \subseteq (E \cup streamed) \ AnsweredEver(c) /\ Closing(s, streamed) = <<Append_(Response(S, "none"))>>
  <2> DEFINE open == (IdsOf(s, "request") \cup streamed) \ AnsweredEver(s)
  <2>1. IdsOf(s, "request") \subseteq E
    BY DEF IdsOf, Turn, Traffic, Carries
  <2>2. open \subseteq (E \cup streamed) \ AnsweredEver(c)
    BY <2>1
  <2>3. Closing(s, streamed) = <<>> \/ Closing(s, streamed) = <<Append_(Response(open, "none"))>>
    BY DEF Closing
  <2> QED BY <2>2, <2>3
<1>4. effs \o <<>> = effs
  OBVIOUS
<1>5. CASE es = effs
  BY <1>1, <1>5
<1>6. CASE es = effs \o Closing(s, streamed)
  <2>1. CASE Closing(s, streamed) = <<>>
    BY <1>1, <1>4, <1>6, <2>1
  <2>2. CASE \E S : S \subseteq (E \cup streamed) \ AnsweredEver(c) /\ Closing(s, streamed) = <<Append_(Response(S, "none"))>>
    BY <1>2, <1>6, <2>2
  <2> QED BY <1>3, <2>1, <2>2
<1> QED BY <1>5, <1>6

LEMMA ResponsesInvStep ==
  ASSUME TypeInv, TypeInv', StepInv, StepInv', ResponsesInv, [Next]_vars
  PROVE  ResponsesInv'
<1>1. /\ conv \in Seq(Message) /\ effects \in Seq(Effect)
      /\ conv' \in Seq(Message) /\ effects' \in Seq(Effect)
  BY DEF TypeInv, ControlOK, StoreOK
<1>2. \A E : Outgoing(<<>>, conv, E)
  BY NoEffects DEF Outgoing
<1>3. CASE Onward
  <2>1. running' \subseteq emitted \ AnsweredEver(conv)
    <3>1. CASE running' = running
      BY <3>1 DEF ResponsesInv
    <3>2. CASE DispatchTools /\ pc' = "tools"
      <4>1. pc = "tool_execution" /\ "tools" \notin Operations /\ "tool_execution" \in Operations
        BY <3>2, PipelineOrder, WorkingFacts DEF DispatchTools, At
      <4>2. running' = IdsAt(snap, Runnable(snap))
        BY <3>2, <4>1, PipelineOrder DEF DispatchTools, Pass
      <4>3. running' \subseteq Open(snap)
        BY <4>2 DEF IdsAt, Runnable, Open
      <4> QED BY <4>1, <4>3, SnapTraffic, WorkingFacts
    <3> QED BY <1>3, <3>1, <3>2 DEF Onward
  <2> QED BY <1>3, <2>1 DEF Onward, ResponsesInv
<1>4. CASE Ends
  <2>1. conv' = conv /\ emitted' = emitted /\ effects' = <<>> /\ running' = {}
    BY <1>4 DEF Ends
  <2> QED BY <1>2, <2>1 DEF ResponsesInv
<1>5. CASE ApplyEffect
  <2>1. PICK e \in Effect :
          /\ e = effects[1] /\ 1 \in DOMAIN effects /\ conv' = Stored(conv, e)
          /\ \A k \in DOMAIN effects' : k + 1 \in DOMAIN effects /\ effects'[k] = effects[k + 1]
          /\ \A k \in DOMAIN effects' : effects'[k].op # "replace"
          /\ UNCHANGED <<emitted, running>>
    BY <1>5, ApplyEffectShape
  <2>2. running = {}
    BY <1>5 DEF ApplyEffect, StepInv
  <2>3. \A k \in DOMAIN effects' : k \in Nat /\ k + 1 # 1 /\ ~(k + 1 < 1)
    BY <1>1
  <2>4. ASSUME Traffic(conv', emitted),
               \A k \in DOMAIN effects' :
                 Adds(effects'[k], "request") \/ Adds(effects'[k], "response") =>
                   effects'[k].msg.ids \cap AnsweredEver(conv') = {}
        PROVE  ResponsesInv'
    <3>1. \A k \in DOMAIN effects' : Adds(effects'[k], "request") \/ Adds(effects'[k], "response") =>
            effects'[k].msg.ids \subseteq emitted' \ AnsweredEver(conv')
      BY <2>1, <2>4 DEF ResponsesInv, Outgoing
    <3>2. \A k, j \in DOMAIN effects' :
            Adds(effects'[k], "request") /\ Adds(effects'[j], "response") /\ Overlap(effects'[k].msg, effects'[j].msg)
              => k < j
      <4>1. ASSUME NEW k \in DOMAIN effects', NEW j \in DOMAIN effects', Adds(effects'[k], "request"),
                   Adds(effects'[j], "response"), Overlap(effects'[k].msg, effects'[j].msg)
            PROVE  k < j
        <5>1. k + 1 < j + 1
          BY <2>1, <4>1 DEF ResponsesInv, Outgoing
        <5> QED BY <2>3, <5>1
      <4> QED BY <4>1
    <3>3. \A k, j \in DOMAIN effects' :
            k # j /\ Adds(effects'[k], "response") /\ Adds(effects'[j], "response")
              => ~Overlap(effects'[k].msg, effects'[j].msg)
      <4>1. \A k, j \in DOMAIN effects' : k # j => k + 1 # j + 1
        BY <2>3
      <4> QED BY <2>1, <4>1 DEF ResponsesInv, Outgoing
    <3> QED BY <2>1, <2>2, <2>4, <3>1, <3>2, <3>3 DEF ResponsesInv, Outgoing
  <2>5. CASE e.op = "append"
    <3>1. conv' = Append(conv, e.msg) /\ e.msg \in Message
      BY <1>1, <2>1, <2>5, StoredShape
    <3>2. Carries(e.msg) => e.msg.ids \subseteq emitted \ AnsweredEver(conv)
      BY <2>1, <2>5 DEF ResponsesInv, Outgoing, Adds, Carries
    <3>3. /\ Traffic(conv', emitted)
          /\ AnsweredEver(conv') = AnsweredEver(conv) \cup IF e.msg.kind = "response" THEN e.msg.ids ELSE {}
      BY <1>1, <3>1, <3>2, AppendTraffic DEF ResponsesInv
    <3>4. ASSUME NEW k \in DOMAIN effects', Adds(effects'[k], "request") \/ Adds(effects'[k], "response")
          PROVE  effects'[k].msg.ids \cap AnsweredEver(conv') = {}
      <4>1. effects'[k].msg.ids \cap AnsweredEver(conv) = {}
        BY <2>1, <3>4 DEF ResponsesInv, Outgoing
      <4>2. ASSUME e.msg.kind = "response"
            PROVE  effects'[k].msg.ids \cap e.msg.ids = {}
        <5>1. Adds(e, "response")
          BY <2>5, <4>2 DEF Adds
        <5>2. k + 1 \in DOMAIN effects /\ effects'[k] = effects[k + 1] /\ k + 1 # 1 /\ ~(k + 1 < 1)
          BY <2>1, <2>3
        <5>3. ~Overlap(effects[k + 1].msg, effects[1].msg)
          BY <2>1, <3>4, <5>1, <5>2 DEF ResponsesInv, Outgoing
        <5> QED BY <2>1, <5>2, <5>3 DEF Overlap
      <4> QED BY <3>3, <4>1, <4>2
    <3> QED BY <2>4, <3>3, <3>4
  <2>6. CASE e.op \in {"patch", "hide", "usage"}
    <3>1. Extended(conv', conv) /\ Added(conv', conv) = {}
      BY <1>1, <2>1, <2>6, StoredShape
    <3>2. Traffic(conv', emitted) /\ AnsweredEver(conv') = AnsweredEver(conv)
      BY <1>1, <3>1, ExtendedTraffic DEF ResponsesInv
    <3> QED BY <2>1, <2>4, <3>2 DEF ResponsesInv, Outgoing
  <2>7. CASE e.op = "replace"
    <3>1. conv' = e.conv /\ Traffic(conv', emitted)
      BY <1>1, <2>1, <2>7, StoredShape DEF ResponsesInv, Outgoing
    <3>2. effects' = <<>>
      BY <1>5, <2>1, <2>7, ApplyEffectShape
    <3> QED BY <2>4, <3>1, <3>2, NoEffects
  <2> QED BY <1>1, <2>5, <2>6, <2>7, StoredShape
<1>6. CASE Speaks
  <2>1. PICK m \in Message : conv' = Append(conv, m) /\ m.kind \in {"prompt", "approval"}
    BY <1>6, SpeaksFacts
  <2>2. UNCHANGED <<effects, running, emitted>>
    BY <1>6, SpeaksFacts
  <2>3. Extended(conv', conv) /\ \A i \in Added(conv', conv) : ~Carries(conv'[i]) /\ conv'[i].kind # "response"
    BY <1>1, <2>1, AppendShape DEF Carries
  <2>4. Traffic(conv', emitted) /\ AnsweredEver(conv') = AnsweredEver(conv)
    BY <1>1, <2>3, ExtendedTraffic DEF ResponsesInv
  <2> QED BY <2>2, <2>4 DEF ResponsesInv, Outgoing
<1>7. CASE Works
  <2>1. /\ conv' = conv /\ running' = {} /\ pc \in Working
    BY <1>7 DEF Works
  <2>2. /\ HasKickoff(snap) /\ snap \in Seq(Message) /\ Continues(conv, snap)
        /\ Traffic(snap, emitted) /\ AnsweredEver(snap) = AnsweredEver(conv)
        /\ Open(snap) \subseteq emitted \ AnsweredEver(conv)
    BY <2>1, SnapTraffic
  <2>3. ASSUME emitted' = emitted, Outgoing(effects', conv, emitted)
        PROVE  ResponsesInv'
    BY <2>1, <2>3 DEF ResponsesInv
  <2>4. CASE Remarks
    <3>1. /\ emitted' = emitted
          /\ \A k \in DOMAIN effects' :
               ~Adds(effects'[k], "request") /\ ~Adds(effects'[k], "response") /\ effects'[k].op # "replace"
      BY <2>4 DEF Remarks, Light
    <3> QED BY <2>3, <3>1, SimpleOutgoing
  <2>5. CASE Responds
    <3>1. PICK S \in SUBSET Requests, note \in {"none", "success"} :
            /\ effects' = <<Append_(Response(S, note))>>
            /\ S = running \/ S \subseteq Open(snap) \/ \E r \in Open(snap) : S = {r}
      BY <2>5 DEF Responds
    <3>2. S \subseteq emitted \ AnsweredEver(conv)
      BY <2>2, <3>1 DEF ResponsesInv
    <3> QED BY <2>3, <2>5, <3>1, <3>2, SimpleOutgoing DEF Responds
  <2>6. CASE Streams
    <3>1. PICK streamed \in SUBSET (Requests \ emitted), effs \in Seq(Effect) :
            /\ emitted' = emitted \cup streamed
            /\ effects' \in {effs, effs \o Closing(snap, streamed)}
            /\ \A k \in DOMAIN effs :
                 /\ Light(effs[k]) /\ ~Adds(effs[k], "response")
                 /\ Adds(effs[k], "request") => effs[k].msg.ids \subseteq streamed
      BY <2>6 DEF Streams
    <3>2. AnsweredEver(conv) \subseteq emitted
      BY AnsweredAt DEF ResponsesInv, Traffic, Carries
    <3>3. streamed \cap AnsweredEver(conv) = {} /\ streamed \in SUBSET Requests
      BY <3>1, <3>2
    <3>4. Outgoing(effects', conv, emitted')
      BY <1>1, <2>2, <3>1, <3>3, StreamOutgoing
    <3>5. Traffic(conv, emitted')
      BY <3>1, MoreTraffic DEF ResponsesInv
    <3> QED BY <2>1, <3>4, <3>5 DEF ResponsesInv
  <2>7. CASE Urges
    <3>1. \A k \in DOMAIN effects' :
            ~Adds(effects'[k], "request") /\ ~Adds(effects'[k], "response") /\ effects'[k].op # "replace"
      BY <2>7, UrgedPrompts DEF Adds
    <3> QED BY <2>3, <2>7, <3>1, SimpleOutgoing DEF Urges
  <2>8. CASE Rewrites
    <3>1. PICK c \in {Compacted(snap), ResetConversation(snap)} : effects' = <<Replace(c)>>
      BY <2>8 DEF Rewrites
    <3>2. Traffic(c, emitted)
      BY <2>2, <3>1, RewrittenTraffic
    <3> QED BY <2>3, <2>8, <3>1, <3>2, SimpleOutgoing DEF Rewrites
  <2> QED BY <1>7, <2>4, <2>5, <2>6, <2>7, <2>8 DEF Works, Brings
<1> QED BY <1>3, <1>4, <1>5, <1>6, <1>7, StepClass

LEMMA ResponsesInvInit == Init => ResponsesInv
<1> SUFFICES ASSUME Init PROVE ResponsesInv
  OBVIOUS
<1>1. conv = <<>> /\ effects = <<>> /\ running = {}
  BY DEF Init
<1> QED BY <1>1, NoEffects DEF ResponsesInv, Traffic, Outgoing

LEMMA ResponsesInvHolds == Spec => [](TypeInv /\ StepInv /\ ResponsesInv)
<1>1. TypeInv /\ StepInv /\ ResponsesInv /\ [Next]_vars /\ TypeInv' /\ StepInv' => ResponsesInv'
  BY ResponsesInvStep
<1> QED BY <1>1, ResponsesInvInit, StepInvHolds, PTL DEF Spec

(* No request gets a second response, whichever of the tool operation, the  *)
(* recipe, the unknown-tool operation and a cancelled inference answers it, *)
(* and however runs are cut off and resumed: a call is open in a turn only  *)
(* if no response to it was ever stored.                                    *)
THEOREM CallsAreAnsweredOnce == Spec => []AnsweredOnce
<1>1. ResponsesInv => AnsweredOnce
  BY DEF ResponsesInv, Traffic, Overlap, AnsweredOnce
<1> QED BY <1>1, ResponsesInvHolds, PTL

-----------------------------------------------------------------------------
(* Executions *)

(* The turn holds no call r that nobody ever answered. *)
SettledIn(c, r) == \A i \in Turn(c) : c[i].kind = "request" /\ r \in c[i].ids => r \in AnsweredEver(c)

(* A call executed more often than runs were cut off is in the batch at     *)
(* hand, about to be answered, or settled, so that it is not dispatched     *)
(* again; a call that is still to be stored was never executed.             *)
ExecutedInv ==
  \A r \in Requests :
    /\ executed[r] <= 1 + used.crashes
    /\ executed[r] > 0 => r \in emitted
    /\ executed[r] > used.crashes =>
         /\ r \in running \/ RespondedIn(effects, r) \/ SettledIn(conv, r)
         /\ \A k \in DOMAIN effects : effects[k].op = "replace" => SettledIn(effects[k].conv, r)
    /\ \A k \in DOMAIN effects : Adds(effects[k], "request") /\ r \in effects[k].msg.ids => executed[r] = 0

LEMMA SettledExtended ==
  ASSUME NEW c \in Seq(Message), NEW d \in Seq(Message), Extended(d, c), NEW r, SettledIn(c, r),
         \A i \in Added(d, c) : d[i].kind = "request" => r \notin d[i].ids
  PROVE  SettledIn(d, r)
<1>1. /\ Turn(d) \cap DOMAIN c \subseteq Turn(c)
      /\ \A i \in DOMAIN c : d[i].kind = c[i].kind /\ d[i].ids = c[i].ids
  BY ExtendedTurn DEF Extended, Like
<1>2. AnsweredEver(c) \subseteq AnsweredEver(d)
  BY ExtendedTraffic
<1>3. \A i \in Turn(d) : i \in Added(d, c) \/ i \in Turn(d) \cap DOMAIN c
  BY DEF Turn, Added
<1> QED BY <1>1, <1>2, <1>3 DEF SettledIn

(* The snapshot of a step agrees with the store. *)
LEMMA SnapSettled ==
  ASSUME TypeInv, StepInv, ResponsesInv, pc \in Working, NEW r, SettledIn(conv, r)
  PROVE  SettledIn(snap, r) /\ r \notin Open(snap)
<1>1. /\ HasKickoff(snap) /\ snap \in Seq(Message) /\ conv \in Seq(Message) /\ Continues(conv, snap)
      /\ AnsweredEver(snap) = AnsweredEver(conv) /\ Open(snap) \cap AnsweredEver(conv) = {}
  BY SnapTraffic DEF TypeInv, StoreOK
<1>2. Extended(conv, snap) /\ \A i \in Added(conv, snap) : ~IsKickoff(conv[i])
  BY <1>1, ContinuesShape
<1>3. /\ Turn(snap) \subseteq Turn(conv) /\ Turn(snap) \subseteq DOMAIN snap
      /\ \A i \in DOMAIN snap : conv[i].kind = snap[i].kind /\ conv[i].ids = snap[i].ids
  BY <1>1, <1>2, ExtendedTurn DEF Extended, Like, Turn
<1>4. SettledIn(snap, r)
  BY <1>1, <1>3 DEF SettledIn
<1>5. ASSUME r \in Open(snap)
      PROVE  FALSE
  <2>1. PICK i \in Unanswered(snap) : r = RequestAt(snap, i)
    BY <1>5 DEF Open, IdsAt
  <2>2. i \in Turn(snap) /\ snap[i].kind = "request"
    BY DEF Unanswered
  <2>3. r \in snap[i].ids
    BY <1>1, <1>3, <2>1, <2>2, RequestAtTyped
  <2> QED BY <1>1, <1>4, <1>5, <2>2, <2>3 DEF SettledIn
<1> QED BY <1>4, <1>5

(* Tools that run end in one response to all of them. *)
LEMMA ToolsFinish ==
  ASSUME [Next]_vars, pc = "tools", pc' = "apply"
  PROVE  effects' = <<Append_(Response(running, "none"))>> /\ UNCHANGED <<executed, emitted, conv>>
<1>1. "tools" \notin Operations /\ "tools" # "apply"
  BY PipelineOrder
<1>2. ~(Load \/ SkipCancelled \/ ApplyEffect \/ EndStep)
  BY <1>1 DEF Load, SkipCancelled, ApplyEffect, EndStep
<1>3. /\ ~(SlashCommand \/ Steer \/ StopAtMaxTurns \/ Compact \/ Approve \/ Recipe)
      /\ ~(DispatchTools \/ AnswerUnknown \/ Retry \/ StopHook \/ ExitOnError)
  BY DEF SlashCommand, Steer, StopAtMaxTurns, Compact, Approve, Recipe, DispatchTools, AnswerUnknown,
         Retry, StopHook, ExitOnError, At
<1>4. ~(Infer \/ CancelOpen \/ ProviderReplies \/ ProviderFails)
  BY DEF Infer, CancelOpen, ProviderReplies, ProviderFails, At
<1>5. ~Client /\ ~Abort /\ ~Crash
  BY <1>1 DEF Client, Reply, Resume, Confirm, QueueSteer, Cancel, Abort, Crash
<1>6. ~UNCHANGED vars
  BY <1>1 DEF vars
<1>7. FinishTools
  BY <1>2, <1>3, <1>4, <1>5, <1>6 DEF Next, Machine
<1> QED BY <1>7 DEF FinishTools, Applied, persisted, history

(* A call that may be dispatched was executed at most as often as runs were *)
(* cut off.                                                                 *)
LEMMA OpenExecuted ==
  ASSUME TypeInv, StepInv, ResponsesInv, ExecutedInv, pc \in Working, running = {}
  PROVE  /\ Open(snap) \subseteq Requests \cap emitted
         /\ \A r \in Open(snap) : executed[r] <= used.crashes
         /\ \A r \in Requests : executed[r] > used.crashes => SettledIn(conv, r) /\ SettledIn(snap, r)
<1>1. effects = <<>>
  BY WorkingFacts DEF StepInv
<1>2. \A r : ~RespondedIn(effects, r)
  BY <1>1, NoEffects DEF RespondedIn
<1>3. \A r \in Requests : executed[r] > used.crashes => SettledIn(conv, r)
  BY <1>2 DEF ExecutedInv
<1>4. Open(snap) \subseteq Requests \cap emitted
  BY SnapTraffic, OpenTyped
<1>5. \A r \in Requests : executed[r] \in Nat /\ used.crashes \in Nat
  BY DEF TypeInv, HistoryOK
<1>6. ASSUME NEW r \in Open(snap)
      PROVE  executed[r] <= used.crashes
  <2>1. ~(executed[r] > used.crashes)
    BY <1>3, <1>4, SnapSettled
  <2> QED BY <1>4, <1>5, <2>1
<1> QED BY <1>3, <1>4, <1>6, SnapSettled

(* The response an effect list begins or consists of. *)
LEMMA RespondedAt ==
  ASSUME NEW S, NEW note, NEW es, es = <<Append_(Response(S, note))>>
  PROVE  /\ \A r \in S : RespondedIn(es, r)
         /\ \A k \in DOMAIN es : es[k].op # "replace" /\ ~Adds(es[k], "request")
<1> DEFINE e == Append_(Response(S, note))
<1>1. e.op = "append" /\ e.msg.kind = "response" /\ e.msg.ids = S
  BY DEF Append_, Response, Msg
<1>2. \A k \in DOMAIN es : es[k] = e
  OBVIOUS
<1>3. 1 \in DOMAIN es /\ es[1] = e
  OBVIOUS
<1> HIDE DEF e
<1> QED BY <1>1, <1>2, <1>3 DEF RespondedIn, Adds

LEMMA RewrittenSettled ==
  ASSUME NEW c \in Seq(Message), HasKickoff(c), NEW r, SettledIn(c, r)
  PROVE  SettledIn(Compacted(c), r) /\ SettledIn(ResetConversation(c), r)
<1>1. SettledIn(Compacted(c), r)
  <2>1. /\ Compacted(c) \in Seq(Message) /\ Extended(Compacted(c), c)
        /\ \A i \in Added(Compacted(c), c) : Compacted(c)[i].kind # "request"
    BY CompactedShape
  <2> QED BY <2>1, SettledExtended
<1>2. SettledIn(ResetConversation(c), r)
  <2> DEFINE k == Kickoff(c)
             d == ResetConversation(c)
  <2>1. Turn(d) = {k} /\ d[k].kind = c[k].kind /\ IsKickoff(c[k])
    BY ResetShape
  <2> HIDE DEF k, d
  <2>2. d[k].kind # "request"
    BY <2>1 DEF IsKickoff, UserKinds
  <2>3. SettledIn(d, r)
    BY <2>1, <2>2 DEF SettledIn
  <2> QED BY <2>3 DEF d
<1> QED BY <1>1, <1>2

(* While an operation or a stream leaves effects behind. *)
LEMMA WorksExecuted ==
  ASSUME TypeInv, TypeInv', StepInv, ResponsesInv, ExecutedInv, Works, [Next]_vars
  PROVE  ExecutedInv'
<1>1. /\ conv' = conv /\ running' = {} /\ pc \in Working /\ pc' = "apply" /\ used'.crashes = used.crashes
  BY DEF Works
<1>2. /\ effects = <<>> /\ HasKickoff(snap) /\ snap \in Seq(Message) /\ executed \in [Requests -> Nat]
      /\ used.crashes \in Nat
  BY <1>1, WorkingFacts, SnapTraffic DEF StepInv, TypeInv, HistoryOK
<1>3. CASE pc = "tools"
  <2>1. effects' = <<Append_(Response(running, "none"))>> /\ UNCHANGED <<executed, emitted, conv>>
    BY <1>1, <1>3, ToolsFinish
  <2>2. /\ \A r \in running : RespondedIn(effects', r)
        /\ \A k \in DOMAIN effects' : effects'[k].op # "replace" /\ ~Adds(effects'[k], "request")
    BY <2>1, RespondedAt
  <2>3. \A r : ~RespondedIn(effects, r)
    BY <1>2, NoEffects DEF RespondedIn
  <2> QED BY <1>1, <2>1, <2>2, <2>3 DEF ExecutedInv
<1>4. CASE pc # "tools"
  <2>1. running = {}
    BY <1>4 DEF StepInv
  <2>2. /\ Open(snap) \subseteq Requests \cap emitted
        /\ \A r \in Open(snap) : executed[r] <= used.crashes
        /\ \A r \in Requests : executed[r] > used.crashes => SettledIn(conv, r) /\ SettledIn(snap, r)
    BY <1>1, <2>1, OpenExecuted
  <2>3. ASSUME executed' = executed, emitted \subseteq emitted',
               \A k \in DOMAIN effects' :
                  /\ effects'[k].op # "replace"
                  /\ \A r \in Requests : Adds(effects'[k], "request") /\ r \in effects'[k].msg.ids => executed[r] = 0
        PROVE  ExecutedInv'
    BY <1>1, <2>2, <2>3 DEF ExecutedInv
  <2>4. CASE Remarks
    <3>1. \A k \in DOMAIN effects' : effects'[k].op # "replace" /\ ~Adds(effects'[k], "request")
      BY <2>4 DEF Remarks, Light
    <3> QED BY <2>3, <2>4, <3>1 DEF Remarks
  <2>5. CASE Responds
    <3>1. PICK S \in SUBSET Requests, note \in {"none", "success"} :
            /\ effects' = <<Append_(Response(S, note))>>
            /\ \/ executed' = executed
               \/ \E r \in Open(snap) : S = {r} /\ executed' = [executed EXCEPT ![r] = @ + 1]
      BY <2>5 DEF Responds
    <3>2. /\ \A r \in S : RespondedIn(effects', r)
          /\ \A k \in DOMAIN effects' : effects'[k].op # "replace" /\ ~Adds(effects'[k], "request")
      BY <3>1, RespondedAt
    <3>3. CASE executed' = executed
      BY <2>3, <2>5, <3>2, <3>3 DEF Responds
    <3>4. ASSUME NEW q \in Open(snap), S = {q}, executed' = [executed EXCEPT ![q] = @ + 1]
          PROVE  ExecutedInv'
      <4>1. q \in Requests /\ q \in emitted /\ executed[q] <= used.crashes
        BY <2>2
      <4>2. executed'[q] <= 1 + used.crashes /\ \A r \in Requests \ {q} : executed'[r] = executed[r]
        BY <1>2, <3>4, <4>1
      <4>3. RespondedIn(effects', q)
        BY <3>2, <3>4
      <4>4. emitted' = emitted
        BY <2>5 DEF Responds
      <4>5. ASSUME NEW r \in Requests
            PROVE  /\ executed'[r] <= 1 + used.crashes /\ (executed'[r] > 0 => r \in emitted)
                   /\ executed'[r] > used.crashes => RespondedIn(effects', r) \/ SettledIn(conv, r)
        <5>1. CASE r = q
          BY <4>1, <4>2, <4>3, <5>1
        <5>2. CASE r # q
          BY <2>2, <4>2, <5>2 DEF ExecutedInv
        <5> QED BY <5>1, <5>2
      <4> QED BY <1>1, <3>2, <4>4, <4>5 DEF ExecutedInv
    <3> QED BY <3>1, <3>3, <3>4
  <2>6. CASE Streams
    <3>1. PICK streamed \in SUBSET (Requests \ emitted), effs \in Seq(Effect) :
            /\ emitted' = emitted \cup streamed
            /\ effects' \in {effs, effs \o Closing(snap, streamed)}
            /\ \A k \in DOMAIN effs :
                 /\ Light(effs[k]) /\ ~Adds(effs[k], "response")
                 /\ Adds(effs[k], "request") => effs[k].msg.ids \subseteq streamed
      BY <2>6 DEF Streams
    <3>2. \A r \in streamed : executed[r] = 0
      BY <1>2, <3>1 DEF ExecutedInv
    <3>3. \A k \in DOMAIN effs : effs[k].op # "replace" /\ (Adds(effs[k], "request") => effs[k].msg.ids \subseteq streamed)
      BY <3>1 DEF Light
    <3>4. \A k \in DOMAIN Closing(snap, streamed) :
            Closing(snap, streamed)[k].op # "replace" /\ ~Adds(Closing(snap, streamed)[k], "request")
      <4>1. \A S : \A k \in DOMAIN <<Append_(Response(S, "none"))>> :
              <<Append_(Response(S, "none"))>>[k].op # "replace" /\ ~Adds(<<Append_(Response(S, "none"))>>[k], "request")
        BY RespondedAt
      <4> QED BY <4>1, NoEffects DEF Closing
    <3>5. Closing(snap, streamed) \in Seq(Effect)
      BY <1>2, ClosingTyped
    <3> DEFINE closing == Closing(snap, streamed)
    <3> HIDE DEF closing
    <3>6. \A k \in DOMAIN (effs \o closing) : (k \in DOMAIN effs /\ (effs \o closing)[k] = effs[k])
                \/ \E j \in DOMAIN closing : (effs \o closing)[k] = closing[j]
      <4>1. closing \in Seq(Effect)
        BY <3>5 DEF closing
      <4>2. \A k \in DOMAIN (effs \o closing) : (k \in DOMAIN effs /\ (effs \o closing)[k] = effs[k])
                \/ (k - Len(effs) \in DOMAIN closing /\ (effs \o closing)[k] = closing[k - Len(effs)])
        BY <4>1
      <4> QED BY <4>2
    <3>7. \A k \in DOMAIN effects' :
            effects'[k].op # "replace" /\ (Adds(effects'[k], "request") => effects'[k].msg.ids \subseteq streamed)
      <4>1. effects' = effs \/ effects' = effs \o closing
        BY <3>1 DEF closing
      <4>2. \A k \in DOMAIN closing : closing[k].op # "replace" /\ ~Adds(closing[k], "request")
        BY <3>4 DEF closing
      <4> QED BY <3>3, <3>6, <4>1, <4>2
    <3> QED BY <2>3, <2>6, <3>1, <3>2, <3>7 DEF Streams
  <2>7. CASE Urges
    <3>1. \A k \in DOMAIN effects' : effects'[k].op # "replace" /\ ~Adds(effects'[k], "request")
      BY <2>7, UrgedPrompts DEF Adds
    <3> QED BY <2>3, <2>7, <3>1 DEF Urges
  <2>8. CASE Rewrites
    <3>1. PICK c \in {Compacted(snap), ResetConversation(snap)} : effects' = <<Replace(c)>>
      BY <2>8 DEF Rewrites
    <3>2. \A r \in Requests : executed[r] > used.crashes => SettledIn(c, r)
      BY <1>2, <2>2, <3>1, RewrittenSettled
    <3> DEFINE e == Replace(c)
    <3>3. e.op = "replace" /\ e.conv = c
      BY DEF Replace
    <3>4. effects' = <<e>>
      BY <3>1
    <3> HIDE DEF e
    <3>5. \A k \in DOMAIN effects' : effects'[k].op = "replace" /\ effects'[k].conv = c /\ ~Adds(effects'[k], "request")
      BY <3>3, <3>4 DEF Adds
    <3>6. UNCHANGED <<executed, emitted>>
      BY <2>8 DEF Rewrites
    <3> QED BY <1>1, <2>2, <3>2, <3>5, <3>6 DEF ExecutedInv
  <2> QED BY <2>4, <2>5, <2>6, <2>7, <2>8 DEF Works, Brings
<1> QED BY <1>3, <1>4

LEMMA ExecutedInvStep ==
  ASSUME TypeInv, TypeInv', StepInv, ResponsesInv, ExecutedInv, [Next]_vars
  PROVE  ExecutedInv'
<1>1. /\ conv \in Seq(Message) /\ conv' \in Seq(Message) /\ effects \in Seq(Effect)
      /\ executed \in [Requests -> Nat] /\ used.crashes \in Nat
  BY DEF TypeInv, ControlOK, StoreOK, HistoryOK
<1>2. CASE Onward
  <2>1. CASE UNCHANGED <<executed, running>>
    BY <1>2, <2>1 DEF Onward, Steady, ExecutedInv
  <2>2. CASE DispatchTools /\ pc' = "tools"
    <3>1. pc = "tool_execution" /\ "tools" \notin Operations /\ "tool_execution" \in Operations
      BY <2>2, PipelineOrder DEF DispatchTools, At
    <3>2. pc \in Working /\ running = {} /\ effects = <<>>
      BY <3>1, PipelineOrder, WorkingFacts DEF StepInv
    <3>3. /\ running' = IdsAt(snap, Runnable(snap))
          /\ executed' = [r \in Requests |->
               IF Mode # "chat" /\ \E i \in Runnable(snap) : RequestAt(snap, i) = r /\ Executable(snap, i)
               THEN executed[r] + 1 ELSE executed[r]]
      BY <2>2, <3>1, PipelineOrder DEF DispatchTools, Pass
    <3>4. running' \subseteq Open(snap)
      BY <3>3 DEF IdsAt, Runnable, Open
    <3>5. \A r \in Requests : executed'[r] = executed[r] \/ (executed'[r] = executed[r] + 1 /\ r \in running')
      BY <3>3 DEF IdsAt
    <3>6. /\ Open(snap) \subseteq Requests \cap emitted
          /\ \A r \in Open(snap) : executed[r] <= used.crashes
          /\ \A r \in Requests : executed[r] > used.crashes => SettledIn(conv, r) /\ SettledIn(snap, r)
      BY <3>2, OpenExecuted
    <3>7. UNCHANGED <<conv, emitted>> /\ used'.crashes = used.crashes /\ effects' = <<>>
      BY <1>2, <3>2 DEF Onward, Steady
    <3>8. ASSUME NEW r \in Requests
          PROVE  /\ executed'[r] <= 1 + used.crashes /\ (executed'[r] > 0 => r \in emitted)
                 /\ executed'[r] > used.crashes => r \in running' \/ SettledIn(conv, r)
      <4>1. CASE executed'[r] = executed[r]
        BY <3>6, <4>1 DEF ExecutedInv
      <4>2. CASE executed'[r] = executed[r] + 1 /\ r \in running'
        BY <1>1, <3>4, <3>6, <4>2
      <4> QED BY <3>5, <4>1, <4>2
    <3> QED BY <3>7, <3>8, NoEffects DEF ExecutedInv
  <2> QED BY <1>2, <2>1, <2>2 DEF Onward
<1>3. CASE Ends
  <2>1. UNCHANGED <<conv, executed, emitted>> /\ effects' = <<>> /\ running' = {}
    BY <1>3 DEF Ends
  <2>2. CASE used'.crashes = used.crashes + 1
    <3>1. \A r \in Requests : executed[r] <= used'.crashes
      BY <1>1, <2>2 DEF ExecutedInv
    <3>2. \A r \in Requests : ~(executed[r] > used'.crashes) /\ executed[r] <= 1 + used'.crashes
      BY <1>1, <2>2, <3>1
    <3> QED BY <2>1, <3>2, NoEffects DEF ExecutedInv
  <2>3. CASE effects = <<>> /\ running = {} /\ Steady
    BY <2>1, <2>3, NoEffects DEF ExecutedInv, Steady
  <2> QED BY <1>3, <2>2, <2>3 DEF Ends
<1>4. ASSUME NEW m \in Message, conv' = Append(conv, m), NEW r \in Requests, SettledIn(conv, r),
             m.kind = "request" => r \notin m.ids
      PROVE  SettledIn(conv', r)
  <2>1. Extended(conv', conv) /\ \A i \in Added(conv', conv) : conv'[i] = m
    BY <1>1, <1>4, AppendShape
  <2> QED BY <1>1, <1>4, <2>1, SettledExtended
<1>5. CASE ApplyEffect
  <2>1. PICK e \in Effect :
          /\ e = effects[1] /\ 1 \in DOMAIN effects /\ conv' = Stored(conv, e)
          /\ \A k \in DOMAIN effects' : k + 1 \in DOMAIN effects /\ effects'[k] = effects[k + 1]
          /\ \A k \in DOMAIN effects : k = 1 \/ (k - 1 \in DOMAIN effects' /\ effects[k] = effects'[k - 1])
          /\ \A k \in DOMAIN effects' : effects'[k].op # "replace"
          /\ UNCHANGED <<executed, emitted, used, running>>
    BY <1>5, ApplyEffectShape
  <2>2. running = {}
    BY <1>5 DEF ApplyEffect, StepInv
  <2>3. ASSUME NEW r \in Requests, executed[r] > used.crashes
        PROVE  RespondedIn(effects', r) \/ SettledIn(conv', r)
    <3>1. RespondedIn(effects, r) \/ SettledIn(conv, r)
      BY <2>2, <2>3 DEF ExecutedInv
    <3>2. ~(executed[r] = 0)
      BY <1>1, <2>3
    <3>3. CASE e.op = "replace"
      <4>1. conv' = e.conv
        BY <1>1, <2>1, <3>3, StoredShape
      <4> QED BY <2>1, <2>3, <3>3, <4>1 DEF ExecutedInv
    <3>4. CASE e.op = "append" /\ e.msg.kind = "response" /\ r \in e.msg.ids
      <4>1. conv' = Append(conv, e.msg) /\ e.msg \in Message
        BY <1>1, <2>1, <3>4, StoredShape
      <4>2. Len(conv) + 1 \in DOMAIN conv' /\ conv'[Len(conv) + 1] = e.msg
        BY <1>1, <4>1
      <4>3. r \in AnsweredEver(conv')
        BY <3>4, <4>2, AnsweredAt
      <4> QED BY <4>3 DEF SettledIn
    <3>5. CASE e.op # "replace" /\ ~(e.op = "append" /\ e.msg.kind = "response" /\ r \in e.msg.ids)
      <4>1. RespondedIn(effects, r) => RespondedIn(effects', r)
        BY <2>1, <3>5 DEF RespondedIn
      <4>2. CASE SettledIn(conv, r)
        <5>1. CASE e.op = "append"
          <6>1. conv' = Append(conv, e.msg) /\ e.msg \in Message
            BY <1>1, <2>1, <5>1, StoredShape
          <6>2. e.msg.kind = "request" => r \notin e.msg.ids
            BY <2>1, <3>2, <5>1 DEF ExecutedInv, Adds
          <6> QED BY <1>4, <4>2, <6>1, <6>2
        <5>2. CASE e.op \in {"patch", "hide", "usage"}
          <6>1. Extended(conv', conv) /\ Added(conv', conv) = {}
            BY <1>1, <2>1, <5>2, StoredShape
          <6> QED BY <1>1, <4>2, <6>1, SettledExtended
        <5> QED BY <1>1, <3>5, <5>1, <5>2, StoredShape
      <4> QED BY <3>1, <4>1, <4>2
    <3> QED BY <3>3, <3>4, <3>5
  <2> QED BY <2>1, <2>3 DEF ExecutedInv
<1>6. CASE Speaks
  <2>1. PICK m \in Message : conv' = Append(conv, m) /\ m.kind \in {"prompt", "approval"}
    BY <1>6, SpeaksFacts
  <2>2. UNCHANGED <<effects, running, executed, emitted>> /\ used'.crashes = used.crashes
    BY <1>6, SpeaksFacts
  <2>3. \A r \in Requests : SettledIn(conv, r) => SettledIn(conv', r)
    BY <1>4, <2>1
  <2> QED BY <2>2, <2>3 DEF ExecutedInv
<1>7. CASE Works
  BY <1>7, WorksExecuted
<1> QED BY <1>2, <1>3, <1>5, <1>6, <1>7, StepClass

LEMMA ExecutedInvInit == Init => ExecutedInv
<1> SUFFICES ASSUME Init PROVE ExecutedInv
  OBVIOUS
<1>1. /\ effects = <<>> /\ used.crashes = 0
      /\ \A r \in Requests : executed[r] = 0
  BY DEF Init
<1> QED BY <1>1, NoEffects DEF ExecutedInv

(* A call is executed at most once, plus once for each time a run was cut   *)
(* off: the tool operation and the recipe take calls that are open in the   *)
(* turn, and what closes a call they have executed - the response - is     *)
(* either on its way to the store or in it, where nothing a turn does to    *)
(* the conversation removes it without removing the call.                   *)
THEOREM CallsAreExecutedOnce == Spec => []ExecutedOnce
<1>1. TypeInv /\ StepInv /\ ResponsesInv /\ ExecutedInv /\ [Next]_vars /\ TypeInv' => ExecutedInv'
  BY ExecutedInvStep
<1>2. ExecutedInv => ExecutedOnce
  BY DEF ExecutedInv, ExecutedOnce
<1> QED BY <1>1, <1>2, ExecutedInvInit, ResponsesInvHolds, PTL DEF Spec

-----------------------------------------------------------------------------
(* Cancelled runs *)

LEMMA ClosingAnswers ==
  ASSUME NEW c \in Seq(Message), NEW streamed \in SUBSET Requests, NEW effs \in Seq(Effect),
         NEW r \in IdsOf(c, "request"), r \notin AnsweredEver(c)
  PROVE  RespondedIn(effs \o Closing(c, streamed), r) /\ Closing(c, streamed) # <<>>
<1> DEFINE open == (IdsOf(c, "request") \cup streamed) \ AnsweredEver(c)
           e == Append_(Response(open, "none"))
           closing == Closing(c, streamed)
<1>1. e.op = "append" /\ e.msg.kind = "response" /\ r \in e.msg.ids
  BY DEF Append_, Response, Msg
<1>2. closing = <<e>>
  BY DEF Closing
<1>3. closing \in Seq(Effect)
  BY ClosingTyped
<1> HIDE DEF e, closing
<1>4. 1 \in DOMAIN closing /\ closing[1] = e /\ closing # <<>>
  BY <1>2
<1>5. Len(effs) + 1 \in DOMAIN (effs \o closing) /\ (effs \o closing)[Len(effs) + 1] = e
  BY <1>3, <1>4
<1>6. RespondedIn(effs \o closing, r)
  BY <1>1, <1>5 DEF RespondedIn
<1> QED BY <1>4, <1>6 DEF closing

LEMMA CancelledCloses ==
  ASSUME TypeInv, [Next]_vars, cancelled, pc \in {"llm", "provider"}, pc' # pc,
         used'.crashes = used.crashes, NEW r \in IdsOf(snap, "request"), r \notin AnsweredEver(snap)
  PROVE  RespondedIn(effects', r)
<1>1. {"llm", "provider"} \cap {"load", "apply", "idle", "tools"} = {} /\ snap \in Seq(Message)
  BY DEF TypeInv, ControlOK
<1>2. ~(Load \/ SkipCancelled \/ ApplyEffect \/ EndStep \/ FinishTools \/ Infer)
  BY PipelineOrder DEF Load, SkipCancelled, ApplyEffect, EndStep, FinishTools, Infer, At
<1>3. /\ ~(SlashCommand \/ Steer \/ StopAtMaxTurns \/ Compact \/ Approve \/ Recipe)
      /\ ~(DispatchTools \/ AnswerUnknown \/ Retry \/ StopHook \/ ExitOnError)
  BY DEF SlashCommand, Steer, StopAtMaxTurns, Compact, Approve, Recipe, DispatchTools, AnswerUnknown,
         Retry, StopHook, ExitOnError, At
<1>4. ~Client /\ ~UNCHANGED vars
  BY <1>1 DEF Client, Reply, Resume, Confirm, QueueSteer, Cancel, vars
<1>5. ~Abort /\ ~Crash
  <2>1. used \in [prompts: Nat, steers: Nat, errors: Nat, crashes: Nat]
    BY DEF TypeInv, HistoryOK
  <2>2. ~(used' = [used EXCEPT !.crashes = @ + 1])
    BY <2>1
  <2> QED BY <2>2 DEF Abort, Crash
<1>6. CASE CancelOpen
  <2>1. <<>> \o Closing(snap, {}) = Closing(snap, {}) /\ <<>> \in Seq(Effect)
    <3>1. Closing(snap, {}) \in Seq(Effect)
      BY <1>1, ClosingTyped
    <3> QED BY <3>1
  <2>2. RespondedIn(Closing(snap, {}), r) /\ Closing(snap, {}) # <<>>
    BY <1>1, <2>1, ClosingAnswers
  <2> QED BY <1>6, <2>2 DEF CancelOpen, Applied
<1>7. CASE ProviderReplies \/ ProviderFails
  <2>1. PICK effs, yield : \E streamed \in SUBSET Requests :
          Brought(effs, streamed) /\ StreamEnds(effs, streamed, yield)
    BY <1>7, ProviderStreams
  <2>2. PICK streamed \in SUBSET Requests : effs \in Seq(Effect) /\ effects' = effs \o Closing(snap, streamed)
    BY <2>1 DEF Brought, StreamEnds
  <2> QED BY <1>1, <2>2, ClosingAnswers
<1> QED BY <1>2, <1>3, <1>4, <1>5, <1>6, <1>7 DEF Next, Machine

(* A cancelled run that ends by itself, before an inference or while the    *)
(* provider answers, leaves a response to every call of its turn to be      *)
(* persisted, unless the conversation holds one: no later approval can run  *)
(* the call (InferenceRunner::cancel).                                      *)
THEOREM CancelledRunsClose == Spec => CancelledRunCloses
<1>1. TypeInv /\ [Next]_vars =>
        [cancelled /\ pc \in {"llm", "provider"} /\ pc' # pc /\ used'.crashes = used.crashes
           => \A r \in IdsOf(snap, "request") :
                r \in AnsweredEver(snap) \/ RespondedIn(effects', r)]_vars
  BY CancelledCloses
<1> QED BY <1>1, TurnTypeCorrect, PTL DEF Spec, CancelledRunCloses

-----------------------------------------------------------------------------
(* What the operations before inference have dealt with *)

(* Nobody is asked in chat mode. *)
AskedAt(c) == {i \in DOMAIN c : c[i].kind = "ask"}

ChatInv ==
  Mode = "chat" =>
    /\ AskedAt(conv) = {}
    /\ \A k \in DOMAIN effects :
         /\ ~Adds(effects[k], "ask")
         /\ effects[k].op = "replace" => AskedAt(effects[k].conv) = {}

LEMMA ExtendedAsks ==
  ASSUME NEW c \in Seq(Message), NEW d \in Seq(Message), Extended(d, c)
  PROVE  /\ AskedAt(d) = {} => AskedAt(c) = {}
         /\ AskedAt(c) = {} /\ (\A i \in Added(d, c) : d[i].kind # "ask") => AskedAt(d) = {}
<1>1. DOMAIN c \subseteq DOMAIN d /\ \A i \in DOMAIN c : d[i].kind = c[i].kind
  BY ExtendedTurn DEF Extended, Like
<1>2. \A i \in DOMAIN d : i \in DOMAIN c \/ i \in Added(d, c)
  BY DEF Added
<1> QED BY <1>1, <1>2 DEF AskedAt

LEMMA RewrittenAsks ==
  ASSUME NEW c \in Seq(Message), HasKickoff(c), AskedAt(c) = {}
  PROVE  AskedAt(Compacted(c)) = {} /\ AskedAt(ResetConversation(c)) = {}
<1>1. AskedAt(Compacted(c)) = {}
  <2>1. /\ Compacted(c) \in Seq(Message) /\ Extended(Compacted(c), c)
        /\ \A i \in Added(Compacted(c), c) : Compacted(c)[i].kind # "ask"
    BY CompactedShape
  <2> QED BY <2>1, ExtendedAsks
<1>2. AskedAt(ResetConversation(c)) = {}
  <2> DEFINE k == Kickoff(c)
             d == ResetConversation(c)
  <2>1. /\ DOMAIN d = 1 .. k /\ k \in DOMAIN c /\ \A i \in 1 .. k - 1 : d[i] = c[i]
        /\ d[k].kind = c[k].kind
        /\ DOMAIN c = 1 .. Len(c) /\ Len(c) \in Nat
    BY ResetShape
  <2> HIDE DEF k, d
  <2>2. \A i \in DOMAIN d : i \in DOMAIN c /\ d[i].kind = c[i].kind
    <3>1. \A i \in 1 .. k : i \in DOMAIN c /\ (i = k \/ i \in 1 .. k - 1)
      BY <2>1
    <3> QED BY <2>1, <3>1
  <2>3. AskedAt(d) = {}
    BY <2>2 DEF AskedAt
  <2> QED BY <2>3 DEF d
<1> QED BY <1>1, <1>2

LEMMA ChatInvStep ==
  ASSUME TypeInv, TypeInv', StepInv, ChatInv, [Next]_vars
  PROVE  ChatInv'
<1> SUFFICES ASSUME Mode = "chat"
             PROVE  /\ AskedAt(conv') = {}
                    /\ \A k \in DOMAIN effects' :
                         /\ ~Adds(effects'[k], "ask")
                         /\ effects'[k].op = "replace" => AskedAt(effects'[k].conv) = {}
  BY DEF ChatInv
<1>1. conv \in Seq(Message) /\ conv' \in Seq(Message) /\ effects' \in Seq(Effect)
  BY DEF TypeInv, ControlOK, StoreOK
<1>2. CASE Onward \/ Ends
  <2>1. conv' = conv /\ (effects' = effects \/ effects' = <<>>)
    BY <1>2 DEF Onward, Ends
  <2> QED BY <2>1, NoEffects DEF ChatInv
<1>3. CASE ApplyEffect
  <2>1. PICK e \in Effect :
          /\ e = effects[1] /\ 1 \in DOMAIN effects /\ conv' = Stored(conv, e)
          /\ \A k \in DOMAIN effects' : k + 1 \in DOMAIN effects /\ effects'[k] = effects[k + 1]
    BY <1>3, ApplyEffectShape
  <2>2. AskedAt(conv') = {}
    <3>1. CASE e.op = "append"
      <4>1. conv' = Append(conv, e.msg) /\ e.msg \in Message /\ e.msg.kind # "ask"
        BY <1>1, <2>1, <3>1, StoredShape DEF ChatInv, Adds
      <4>2. Extended(conv', conv) /\ \A i \in Added(conv', conv) : conv'[i].kind # "ask"
        BY <1>1, <4>1, AppendShape
      <4> QED BY <1>1, <4>2, ExtendedAsks DEF ChatInv
    <3>2. CASE e.op \in {"patch", "hide", "usage"}
      <4>1. Extended(conv', conv) /\ Added(conv', conv) = {}
        BY <1>1, <2>1, <3>2, StoredShape
      <4> QED BY <1>1, <4>1, ExtendedAsks DEF ChatInv
    <3>3. CASE e.op = "replace"
      <4>1. conv' = e.conv
        BY <1>1, <2>1, <3>3, StoredShape
      <4> QED BY <2>1, <3>3, <4>1 DEF ChatInv
    <3> QED BY <1>1, <3>1, <3>2, <3>3, StoredShape
  <2> QED BY <2>1, <2>2 DEF ChatInv
<1>4. CASE Speaks
  <2>1. PICK m \in Message : conv' = Append(conv, m) /\ m.kind \in {"prompt", "approval"}
    BY <1>4, SpeaksFacts
  <2>2. effects' = effects
    BY <1>4, SpeaksFacts
  <2>3. Extended(conv', conv) /\ \A i \in Added(conv', conv) : conv'[i].kind # "ask"
    BY <1>1, <2>1, AppendShape
  <2>4. AskedAt(conv') = {}
    BY <1>1, <2>3, ExtendedAsks DEF ChatInv
  <2> QED BY <2>2, <2>4 DEF ChatInv
<1>5. CASE Works
  <2>1. conv' = conv
    BY <1>5 DEF Works
  <2>2. CASE \A k \in DOMAIN effects' : Light(effects'[k])
    BY <2>1, <2>2 DEF ChatInv, Light, LightMsg, Adds
  <2>3. CASE Urges
    BY <2>1, <2>3, UrgedPrompts DEF ChatInv, Adds
  <2>4. CASE Rewrites
    <3>1. PICK c \in {Compacted(snap), ResetConversation(snap)} : effects' = <<Replace(c)>>
      BY <2>4 DEF Rewrites
    <3>2. /\ HasKickoff(snap) /\ snap \in Seq(Message) /\ Continues(conv, snap)
      BY <1>5 DEF Works, Working, TypeInv, ControlOK, StepInv
    <3>3. AskedAt(snap) = {}
      BY <1>1, <3>2, ContinuesShape, ExtendedAsks DEF ChatInv
    <3>4. AskedAt(c) = {}
      BY <3>1, <3>2, <3>3, RewrittenAsks
    <3> DEFINE e == Replace(c)
    <3>5. e.op = "replace" /\ e.conv = c
      BY DEF Replace
    <3>6. effects' = <<e>>
      BY <3>1
    <3> HIDE DEF e
    <3>7. \A k \in DOMAIN effects' : effects'[k] = e
      BY <3>6
    <3> QED BY <2>1, <3>4, <3>5, <3>7 DEF ChatInv, Adds
  <2> QED BY <1>5, <2>2, <2>3, <2>4, WorksLightly
<1> QED BY <1>2, <1>3, <1>4, <1>5, StepClass

LEMMA ChatInvHolds == Spec => [](TypeInv /\ StepInv /\ ChatInv)
<1>1. Init => ChatInv
  <2> SUFFICES ASSUME Init PROVE ChatInv
    OBVIOUS
  <2>1. conv = <<>> /\ effects = <<>>
    BY DEF Init
  <2> QED BY <2>1, NoEffects DEF ChatInv, AskedAt
<1>2. TypeInv /\ StepInv /\ ChatInv /\ [Next]_vars /\ TypeInv' => ChatInv'
  BY ChatInvStep
<1> QED BY <1>1, <1>2, StepInvHolds, PTL DEF Spec

(* The operations that come after the turn check, after the approvals,      *)
(* after the recipe and after the tools.                                    *)
AfterTools    == {"retry", "stop_hook", "exit_on_error", "llm"}
AfterRecipe   == {"tool_execution", "unknown_tool"} \cup AfterTools
AfterApproval == {"recipe"} \cup AfterRecipe
AfterTurns    == {"compaction", "tool_approval"} \cup AfterApproval

(* What each of them leaves of a conversation when it does not apply.       *)
TurnsLeft(c) == ~(AssistantTurnCount(c) >= MaxTurns)

Marked(c) == Mode # "chat" => ToMark(c) = {}

RecipeDone(c) ==
  FinalOutput =>
    \/ FirstFinal(c) = {} /\ (EndsTurn(c) => SuccessfulFinalOutput(c))
    \/ Mode # "chat" /\ \E i \in FirstFinal(c) : HasUnansweredSiblings(c, i)

PassedInv ==
  ~cancelled =>
    /\ pc \in AfterTurns => TurnsLeft(snap)
    /\ pc \in AfterApproval => Marked(snap)
    /\ pc \in AfterRecipe => RecipeDone(snap)
    /\ pc \in AfterTools => Unclaimed(snap) = {}

(* A step on the way to inference. *)
Advances ==
  \/ pc' = pc
  \/ pc' = "compaction" /\ TurnsLeft(snap)
  \/ pc = "compaction" /\ pc' = "tool_approval"
  \/ pc = "tool_approval" /\ pc' = "recipe" /\ Marked(snap)
  \/ pc = "recipe" /\ pc' = "tool_execution" /\ RecipeDone(snap)
  \/ pc = "tool_execution" /\ pc' = "unknown_tool"
  \/ pc = "unknown_tool" /\ pc' = "retry" /\ Unclaimed(snap) = {}
  \/ pc \in AfterTools /\ pc' \in AfterTools

LEMMA Passage ==
  ASSUME TypeInv, [Next]_vars, ~cancelled', pc' \in AfterTurns
  PROVE  ~cancelled /\ snap' = snap /\ Advances
<1>1. pc' \notin {"apply", "idle", "load", "tools", "provider", "slash_command"}
  BY DEF AfterTurns, AfterApproval, AfterRecipe, AfterTools
<1>2. \A effs, yield : ~Applied(effs, yield)
  BY <1>1 DEF Applied
<1>3. ~(Load \/ ApplyEffect \/ EndStep \/ FinishTools \/ CancelOpen)
  <2>1. ~Load /\ ~EndStep
    BY <1>1, PipelineOrder DEF Load, EndStep
  <2>2. ~ApplyEffect
    BY <1>1 DEF ApplyEffect
  <2>3. ~FinishTools
    BY <1>2 DEF FinishTools
  <2>4. ~CancelOpen
    BY <1>1, <1>2 DEF CancelOpen, Stop
  <2> QED BY <2>1, <2>2, <2>3, <2>4
<1>4. ~(Infer \/ ProviderReplies \/ ProviderFails)
  BY <1>1 DEF Infer, Stop, ProviderReplies, ProviderFails, StreamEnds
<1>5. ASSUME NEW op, Pass(op)
      PROVE  pc' = After(op) /\ snap' = snap /\ cancelled' = cancelled
  BY <1>5 DEF Pass, step
<1>6. ASSUME NEW op, pc = op, Pass(op), op \in {"slash_command", "steer"}
      PROVE  FALSE
  BY <1>5, <1>6, PipelineOrder DEF AfterTurns, AfterApproval, AfterRecipe, AfterTools
<1>7. ~(SlashCommand \/ Steer)
  <2>1. ~SlashCommand
    BY <1>2, <1>6 DEF SlashCommand, At
  <2>2. ~Steer
    BY <1>2, <1>6 DEF Steer, At
  <2> QED BY <2>1, <2>2
<1>8. ~SkipCancelled
  BY <1>5 DEF SkipCancelled
<1>9. CASE Approve
  <2>1. pc = "tool_approval" /\ Pass("tool_approval") /\ (Mode = "chat" \/ ToMark(snap) = {})
    BY <1>2, <1>9 DEF Approve, At
  <2> QED BY <1>5, <2>1, PipelineOrder DEF Advances, Marked
<1>10. CASE Recipe
  <2>1. /\ pc = "recipe" /\ Pass("recipe")
        /\ \/ ~FinalOutput
           \/ \E i \in FirstFinal(snap) : Mode # "chat" /\ HasUnansweredSiblings(snap, i)
           \/ FirstFinal(snap) = {} /\ (SuccessfulFinalOutput(snap) \/ ~EndsTurn(snap))
    BY <1>2, <1>10 DEF Recipe, At
  <2>2. RecipeDone(snap)
    BY <2>1 DEF RecipeDone
  <2> QED BY <1>5, <2>1, <2>2, PipelineOrder DEF Advances
<1>11. CASE DispatchTools
  <2>1. pc = "tool_execution" /\ Pass("tool_execution")
    BY <1>1, <1>11 DEF DispatchTools, At
  <2> QED BY <1>5, <2>1, PipelineOrder DEF Advances
<1>12. CASE AnswerUnknown
  <2>1. pc = "unknown_tool" /\ Pass("unknown_tool") /\ Unclaimed(snap) = {}
    BY <1>2, <1>12 DEF AnswerUnknown, At
  <2> QED BY <1>5, <2>1, PipelineOrder DEF Advances
<1>13. CASE Retry
  <2>1. pc = "retry" /\ Pass("retry")
    BY <1>2, <1>13 DEF Retry, Nudge, Check, At
  <2> QED BY <1>5, <2>1, PipelineOrder DEF Advances, AfterTools
<1>14. CASE StopHook
  <2>1. pc = "stop_hook" /\ Pass("stop_hook")
    BY <1>2, <1>14 DEF StopHook, At
  <2> QED BY <1>5, <2>1, PipelineOrder DEF Advances, AfterTools
<1>15. CASE ExitOnError
  <2>1. pc = "exit_on_error" /\ Pass("exit_on_error")
    BY <1>2, <1>15 DEF ExitOnError, At
  <2> QED BY <1>5, <2>1, PipelineOrder DEF Advances, AfterTools
<1>16. CASE Client
  <2>1. ~(\E note \in PromptNotes : Reply(note)) /\ ~Resume /\ ~Cancel
    BY <1>1 DEF Reply, Resume, Cancel
  <2>2. (\E r \in Requests, ans \in GivenAnswers : Confirm(r, ans)) \/ QueueSteer
    BY <1>16, <2>1 DEF Client
  <2>3. pc' = pc /\ snap' = snap /\ cancelled' = cancelled
    BY <2>2 DEF Confirm, QueueSteer, step
  <2> QED BY <2>3 DEF Advances
<1>17. CASE UNCHANGED vars
  BY <1>17 DEF vars, step, Advances
<1>18. ~Abort /\ ~Crash
  BY <1>1 DEF Abort, Crash
<1>19. CASE StopAtMaxTurns
  <2>1. Pass("max_turns") /\ TurnsLeft(snap)
    BY <1>2, <1>19 DEF StopAtMaxTurns, TurnsLeft
  <2> QED BY <1>5, <1>19, <2>1, PipelineOrder DEF Advances, StopAtMaxTurns, At
<1>20. CASE Compact
  <2>1. pc = "compaction" /\ Pass("compaction")
    BY <1>2, <1>20 DEF Compact, At
  <2> QED BY <1>5, <1>20, <2>1, PipelineOrder DEF Advances, Compact, At
<1> QED BY <1>3, <1>4, <1>7, <1>8, <1>9, <1>10, <1>11, <1>12, <1>13, <1>14, <1>15, <1>16, <1>17, <1>18,
        <1>19, <1>20
        DEF Next, Machine

LEMMA PassedInvHolds == Spec => []PassedInv
<1>1. Init => PassedInv
  BY DEF Init, PassedInv, AfterTurns, AfterApproval, AfterRecipe, AfterTools
<1>2. ASSUME TypeInv, PassedInv, [Next]_vars
      PROVE  PassedInv'
  <2>1. AfterTools \subseteq AfterRecipe /\ AfterRecipe \subseteq AfterApproval /\ AfterApproval \subseteq AfterTurns
    BY DEF AfterTurns, AfterApproval, AfterRecipe
  <2>2. CASE cancelled' \/ pc' \notin AfterTurns
    BY <2>1, <2>2 DEF PassedInv
  <2>3. CASE ~cancelled' /\ pc' \in AfterTurns
    <3>1. ~cancelled /\ snap' = snap /\ Advances
      BY <1>2, <2>3, Passage
    <3>2. /\ "recipe" \in AfterApproval /\ {"tool_execution", "unknown_tool"} \subseteq AfterRecipe
          /\ "recipe" \notin AfterRecipe /\ "retry" \in AfterTools
          /\ {"tool_execution", "unknown_tool"} \cap AfterTools = {}
          /\ {"compaction", "tool_approval"} \subseteq AfterTurns
          /\ {"compaction", "tool_approval"} \cap AfterApproval = {}
      BY DEF AfterTurns, AfterApproval, AfterRecipe, AfterTools
    <3>3. /\ pc' \in AfterTurns => TurnsLeft(snap)
          /\ pc' \in AfterApproval => Marked(snap)
          /\ pc' \in AfterRecipe => RecipeDone(snap)
          /\ pc' \in AfterTools => Unclaimed(snap) = {}
      BY <1>2, <2>1, <3>1, <3>2 DEF PassedInv, Advances
    <3> QED BY <3>1, <3>3 DEF PassedInv
  <2> QED BY <2>2, <2>3
<1> QED BY <1>1, <1>2, TurnTypeCorrect, PTL DEF Spec

(* An open call that no operation took waits for the user, unless it is the *)
(* final output of a recipe.                                                *)
LEMMA OthersAwaitUser ==
  ASSUME NEW c, Marked(c), Unclaimed(c) = {}, Mode = "chat" => AskedAt(c) = {},
         NEW i \in Unanswered(c), ~(FinalOutput /\ RequestAt(c, i) \in Final /\ Executable(c, i))
  PROVE  AwaitsUser(c, i)
<1> DEFINE r == RequestAt(c, i)
<1>1. ~Executable(c, i) /\ ~Declined(c, i)
  BY DEF Unclaimed
<1>2. r \in Asked(c) /\ ~HasAnswer(c, r, Denying) /\ c[i].note = "no"
  BY <1>1 DEF Declined, Executable
<1>3. Mode # "chat"
  <2>1. \E j \in DOMAIN c : c[j].kind = "ask"
    BY <1>2 DEF Asked, IdsOf, Turn
  <2> QED BY <2>1 DEF AskedAt
<1>4. ASSUME HasAnswer(c, r, Answers)
      PROVE  FALSE
  <2>1. HasAnswer(c, r, Allowing)
    BY <1>2, <1>4 DEF HasAnswer, Answers, Allowing, Denying
  <2>2. Decision(c, i) = "yes"
    BY <2>1 DEF Decision
  <2>3. i \in ToMark(c)
    BY <1>2, <1>4, <2>2 DEF ToMark, Decided
  <2> QED BY <1>3, <2>3 DEF Marked
<1> QED BY <1>2, <1>4 DEF AwaitsUser

(* One of the executable final-output calls is the first. *)
LEMMA FirstFinalExists ==
  ASSUME NEW c \in Seq(Message), NEW i \in Unanswered(c), RequestAt(c, i) \in Final, Executable(c, i)
  PROVE  FirstFinal(c) # {}
<1> DEFINE P == {j \in Unanswered(c) : RequestAt(c, j) \in Final /\ Executable(c, j)}
<1>1. P \subseteq Nat /\ P # {}
  <2>1. DOMAIN c \subseteq Nat
    OBVIOUS
  <2> QED BY <2>1 DEF Unanswered, Turn
<1> HIDE DEF P
<1>2. PICK n \in P : \A m \in P : ~(<<m, n>> \in OpToRel(<, Nat))
  BY <1>1, WFMin, NatLessThanWellFounded
<1>3. \A m \in P : ~(m < n)
  BY <1>1, <1>2 DEF OpToRel
<1>4. \A m \in P : n <= m
  BY <1>1, <1>3
<1>5. FirstFinal(c) = {k \in P : \A j \in P : k <= j}
  BY DEF FirstFinal, P
<1> QED BY <1>4, <1>5

(* When the machine reaches inference, or the Stop hooks, without being     *)
(* cancelled.                                                               *)
LEMMA PassedFacts ==
  ASSUME TypeInv, StepInv, ChatInv, PassedInv, ~cancelled, pc \in AfterTools
  PROVE  /\ snap \in Seq(Message) /\ RecipeDone(snap)
         /\ \A i \in Unanswered(snap) :
              ~(FinalOutput /\ RequestAt(snap, i) \in Final /\ Executable(snap, i)) => AwaitsUser(snap, i)
<1>1. pc \in AfterApproval /\ pc \in AfterRecipe
  BY DEF AfterApproval, AfterRecipe
<1>2. Marked(snap) /\ RecipeDone(snap) /\ Unclaimed(snap) = {}
  BY <1>1 DEF PassedInv
<1>3. pc \in Working
  BY PipelineOrder, WorkingFacts DEF AfterTools
<1>4. /\ snap \in Seq(Message) /\ conv \in Seq(Message) /\ Continues(conv, snap)
  BY <1>3 DEF TypeInv, ControlOK, StoreOK, StepInv
<1>5. Mode = "chat" => AskedAt(snap) = {}
  BY <1>4, ContinuesShape, ExtendedAsks DEF ChatInv
<1> QED BY <1>2, <1>4, <1>5, OthersAwaitUser

LEMMA SiblingsAwaitUser ==
  ASSUME TypeInv, StepInv, ChatInv, PassedInv, ~cancelled, pc \in AfterTools,
         NEW i, HasUnansweredSiblings(snap, i)
  PROVE  \E j \in Unanswered(snap) : AwaitsUser(snap, j)
<1>1. PICK j \in Unanswered(snap) : RequestAt(snap, j) \notin Final
  BY DEF HasUnansweredSiblings
<1> QED BY <1>1, PassedFacts

(* When a run stops by itself because no operation applies, every open call *)
(* of its turn waits for the user, or is a recipe's final output beside one *)
(* that does: the approvals, the recipe and the tool operations have each   *)
(* taken what is theirs, from the one snapshot they share.                  *)
THEOREM NoCallIsLeftBehind == Spec => NothingLeftBehind
<1>1. ASSUME TypeInv, StepInv, ChatInv, PassedInv, pc = "llm", ~cancelled, NEW i \in Unanswered(snap)
      PROVE  MayWait(snap, i)
  <2>1. pc \in AfterTools
    BY <1>1 DEF AfterTools
  <2>2. CASE ~(FinalOutput /\ RequestAt(snap, i) \in Final /\ Executable(snap, i))
    BY <1>1, <2>1, <2>2, PassedFacts DEF MayWait
  <2>3. CASE FinalOutput /\ RequestAt(snap, i) \in Final /\ Executable(snap, i)
    <3>1. snap \in Seq(Message) /\ RecipeDone(snap)
      BY <1>1, <2>1, PassedFacts
    <3>2. PICK k \in FirstFinal(snap) : HasUnansweredSiblings(snap, k)
      BY <2>3, <3>1, FirstFinalExists DEF RecipeDone
    <3> QED BY <1>1, <2>1, <2>3, <3>2, SiblingsAwaitUser DEF MayWait
  <2> QED BY <2>2, <2>3
<1>2. TypeInv /\ StepInv /\ ChatInv /\ PassedInv =>
        [pc = "llm" /\ pc' = "idle" /\ ~cancelled /\ used'.crashes = used.crashes
           => \A i \in Unanswered(snap) : MayWait(snap, i)]_vars
  BY <1>1
<1> QED BY <1>2, ChatInvHolds, PassedInvHolds, PTL DEF NothingLeftBehind

(* The Stop hooks of a recipe with a response schema see the end of a turn  *)
(* only when its structured output is there, or a call that holds it up     *)
(* waits for the user.                                                      *)
THEOREM RecipesEndWithOutput == Spec => RecipeEndsWithOutput
<1>1. ASSUME [Next]_vars, pc = "stop_hook", pc' = "apply"
      PROVE  ~cancelled
  <2>1. After("stop_hook") = "exit_on_error" /\ "stop_hook" # "apply"
    BY PipelineOrder
  <2>2. ~(Load \/ SkipCancelled \/ ApplyEffect \/ EndStep \/ FinishTools \/ CancelOpen)
    BY <1>1, <2>1 DEF Load, SkipCancelled, ApplyEffect, EndStep, FinishTools, CancelOpen, Pass
  <2>3. ~(ProviderReplies \/ ProviderFails \/ Abort \/ Crash)
    BY <1>1 DEF ProviderReplies, ProviderFails, Abort, Crash
  <2>4. ~Client /\ ~UNCHANGED vars
    BY <1>1, <2>1 DEF Client, Reply, Resume, Confirm, QueueSteer, Cancel, vars
  <2>5. \/ SlashCommand \/ Steer \/ StopAtMaxTurns \/ Compact \/ Approve \/ Recipe
        \/ DispatchTools \/ AnswerUnknown \/ Retry \/ StopHook \/ ExitOnError \/ Infer
    BY <1>1, <2>2, <2>3, <2>4 DEF Next, Machine
  <2> QED BY <2>5 DEF SlashCommand, Steer, StopAtMaxTurns, Compact, Approve, Recipe, DispatchTools,
                      AnswerUnknown, Retry, StopHook, ExitOnError, Infer, At
<1>2. ASSUME TypeInv, StepInv, ChatInv, PassedInv, [Next]_vars, FinalOutput, pc = "stop_hook", pc' = "apply"
      PROVE  EndsWithOutput(snap)
  <2>1. ~cancelled /\ pc \in AfterTools
    BY <1>1, <1>2 DEF AfterTools
  <2>2. RecipeDone(snap)
    BY <1>2, <2>1, PassedFacts
  <2>3. CASE EndsTurn(snap) => SuccessfulFinalOutput(snap)
    BY <2>3 DEF EndsWithOutput
  <2>4. CASE \E i \in FirstFinal(snap) : HasUnansweredSiblings(snap, i)
    BY <1>2, <2>1, <2>4, SiblingsAwaitUser DEF EndsWithOutput
  <2> QED BY <1>2, <2>2, <2>3, <2>4 DEF RecipeDone
<1>3. TypeInv /\ StepInv /\ ChatInv /\ PassedInv /\ [Next]_vars =>
        [FinalOutput /\ pc = "stop_hook" /\ pc' = "apply" => EndsWithOutput(snap)]_vars
  BY <1>2
<1> QED BY <1>3, ChatInvHolds, PassedInvHolds, PTL DEF Spec, RecipeEndsWithOutput

-----------------------------------------------------------------------------
(* The turn budget.  An inference pays with a run of assistant messages,    *)
(* which is over once a message of another role follows: the runs that are  *)
(* over, the one at the end of the conversation, and whether an inference   *)
(* wrote in it or failed in it.                                             *)

Trailing(c) == {i \in DOMAIN c : \A j \in DOMAIN c : i <= j => IsAssistant(c[j])}

Spoken(c) == \E i \in Trailing(c) : c[i].av \/ c[i].kind \in Errors
Faulty(c) == \E i \in Trailing(c) : c[i].kind \in Errors

Past(c) == {i \in Turn(c) : IsAssistant(c[i]) /\ i + 1 \in DOMAIN c /\ ~IsAssistant(c[i + 1])}

One(b) == IF b THEN 1 ELSE 0

Runs(c) == Cardinality(Past(c)) + One(Spoken(c))

LEMMA TrailingShape ==
  ASSUME NEW c \in Seq(Message)
  PROVE  /\ Trailing(c) # {} => Len(c) \in Trailing(c) /\ IsAssistant(Last(c))
         /\ Trailing(c) \subseteq Turn(c)
         /\ Spoken(c) \/ Faulty(c) => Trailing(c) # {}
<1>1. DOMAIN c = 1 .. Len(c) /\ Len(c) \in Nat
  OBVIOUS
<1>2. ASSUME NEW i \in Trailing(c)
      PROVE  Len(c) \in Trailing(c) /\ IsAssistant(Last(c)) /\ i \in Turn(c)
  <2>1. i \in 1 .. Len(c) /\ i <= Len(c) /\ Len(c) \in DOMAIN c
    BY <1>1 DEF Trailing
  <2>2. IsAssistant(Last(c))
    BY <2>1 DEF Trailing, Last
  <2>3. \A j \in DOMAIN c : Len(c) <= j => j = Len(c)
    BY <1>1
  <2>4. Len(c) \in Trailing(c)
    BY <2>1, <2>2, <2>3 DEF Trailing, Last
  <2>5. \A j \in DOMAIN c : IsKickoff(c[j]) => ~IsAssistant(c[j])
    BY DEF IsKickoff, IsAssistant, UserKinds, AssistantKinds
  <2>6. i \in Turn(c)
    BY <1>1, <2>1, <2>5 DEF Trailing, Turn
  <2> QED BY <2>2, <2>4, <2>6
<1> QED BY <1>2 DEF Spoken, Faulty

LEMMA RunsCounted ==
  ASSUME NEW c \in Seq(Message)
  PROVE  /\ IsFiniteSet(Past(c)) /\ Cardinality(Past(c)) \in Nat
         /\ AssistantTurnCount(c) \in Nat
         /\ Runs(c) <= AssistantTurnCount(c)
<1> DEFINE R == {i \in Turn(c) : /\ IsAssistant(c[i])
                                 /\ i = Len(c) \/ ~IsAssistant(c[i + 1])}
<1>1. DOMAIN c = 1 .. Len(c) /\ Len(c) \in Nat /\ IsFiniteSet(DOMAIN c)
  BY FS_Interval
<1>2. R \subseteq DOMAIN c /\ Past(c) \subseteq R
  BY DEF Past, Turn
<1>3. IsFiniteSet(R) /\ IsFiniteSet(Past(c))
  BY <1>1, <1>2, FS_Subset
<1>4. Cardinality(R) \in Nat /\ Cardinality(Past(c)) \in Nat /\ Cardinality(Past(c)) <= Cardinality(R)
  BY <1>2, <1>3, FS_CardinalityType, FS_Subset
<1>5. AssistantTurnCount(c) = Cardinality(R)
  BY DEF AssistantTurnCount
<1>6. CASE Spoken(c)
  <2>1. Len(c) \in Trailing(c) /\ Len(c) \in Turn(c) /\ IsAssistant(c[Len(c)])
    BY <1>6, TrailingShape DEF Last
  <2>2. Len(c) \in R /\ Len(c) \notin Past(c)
    BY <1>1, <2>1 DEF Past
  <2>3. Past(c) \cup {Len(c)} \subseteq R /\ IsFiniteSet(Past(c) \cup {Len(c)})
        /\ Cardinality(Past(c) \cup {Len(c)}) = Cardinality(Past(c)) + 1
    BY <1>2, <1>3, <2>2, FS_AddElement
  <2>4. Cardinality(Past(c)) + 1 <= Cardinality(R)
    BY <1>3, <2>3, FS_Subset
  <2> QED BY <1>3, <1>4, <1>5, <1>6, <2>4 DEF Runs, One
<1>7. CASE ~Spoken(c)
  BY <1>3, <1>4, <1>5, <1>7 DEF Runs, One
<1> QED BY <1>6, <1>7

(* Answers of the user that arrive while a step is under way end a run and  *)
(* add none.                                                                *)
LEMMA LaterRuns ==
  ASSUME NEW c \in Seq(Message), NEW s \in Seq(Message), Continues(c, s)
  PROVE  /\ c = s \/ Trailing(c) = {}
         /\ AssistantTurnCount(c) <= AssistantTurnCount(s)
<1> DEFINE R(d) == {i \in Turn(d) : /\ IsAssistant(d[i])
                                    /\ i = Len(d) \/ ~IsAssistant(d[i + 1])}
<1>1. /\ DOMAIN c = 1 .. Len(c) /\ Len(c) \in Nat /\ DOMAIN s = 1 .. Len(s) /\ Len(s) \in Nat
      /\ Len(s) <= Len(c) /\ \A i \in DOMAIN s : c[i] = s[i]
      /\ \A i \in DOMAIN c \ DOMAIN s : ~IsAssistant(c[i])
  BY DEF Continues, IsAssistant, AssistantKinds
<1>2. ASSUME Len(s) = Len(c)
      PROVE  c = s
  <2>1. DOMAIN c = DOMAIN s /\ \A i \in DOMAIN c : c[i] = s[i]
    BY <1>1, <1>2
  <2>2. c = [i \in DOMAIN c |-> c[i]] /\ s = [i \in DOMAIN s |-> s[i]]
    OBVIOUS
  <2> QED BY <2>1, <2>2
<1>3. ASSUME Len(s) # Len(c)
      PROVE  Trailing(c) = {}
  <2>1. \A l, n \in Nat : l <= n /\ l # n => n \in 1 .. n /\ n \notin 1 .. l
    OBVIOUS
  <2>2. Len(c) \in 1 .. Len(c) /\ Len(c) \notin 1 .. Len(s)
    BY <1>1, <1>3, <2>1
  <2>3. Len(c) \in DOMAIN c \ DOMAIN s
    BY <1>1, <2>2
  <2> QED BY <1>1, <2>3, TrailingShape DEF Last
<1>4. R(c) \subseteq R(s)
  <2>1. Turn(c) \cap DOMAIN s \subseteq Turn(s)
    BY ContinuesShape, ExtendedTurn
  <2>2. ASSUME NEW i \in R(c)
        PROVE  i \in R(s)
    <3>1. i \in DOMAIN c /\ i \in DOMAIN s /\ i \in Turn(s) /\ IsAssistant(s[i])
      BY <1>1, <2>1 DEF Turn
    <3>2. i = Len(s) \/ i + 1 \in DOMAIN s
      BY <1>1, <3>1
    <3> QED BY <1>1, <3>1, <3>2
  <2> QED BY <2>2
<1>5. IsFiniteSet(R(s))
  <2>1. IsFiniteSet(DOMAIN s) /\ R(s) \subseteq DOMAIN s
    BY <1>1, FS_Interval DEF Turn
  <2> QED BY <2>1, FS_Subset
<1>6. Cardinality(R(c)) <= Cardinality(R(s))
  BY <1>4, <1>5, FS_Subset
<1> QED BY <1>2, <1>3, <1>6 DEF AssistantTurnCount

(* What an appended message does to the runs.                               *)
LEMMA AppendRuns ==
  ASSUME NEW c \in Seq(Message), NEW m \in Message
  PROVE  LET d == Append(c, m) IN
         /\ IsAssistant(m) =>
              /\ Past(d) = Past(c)
              /\ Spoken(d) <=> Spoken(c) \/ m.av \/ m.kind \in Errors
              /\ Faulty(d) <=> Faulty(c) \/ m.kind \in Errors
         /\ ~IsAssistant(m) => Trailing(d) = {} /\ (~IsKickoff(m) => Runs(c) <= Cardinality(Past(d)))
<1> DEFINE d == Append(c, m)
           n == Len(c)
<1>1. /\ n \in Nat /\ DOMAIN c = 1 .. n /\ DOMAIN d = 1 .. n + 1 /\ d[n + 1] = m /\ d \in Seq(Message)
      /\ \A i \in 1 .. n : d[i] = c[i]
      /\ Len(d) = n + 1
  OBVIOUS
<1>2. ~IsKickoff(m) => Turn(d) = Turn(c) \cup {n + 1}
  <2>1. Extended(d, c) /\ Added(d, c) = {n + 1} /\ d[n + 1] = m
    BY AppendShape
  <2> HIDE DEF d, n
  <2> QED BY <1>1, <2>1, ExtendedTurn
<1> HIDE DEF d, n
<1>3. CASE IsAssistant(m)
  <2>1. ~IsKickoff(m)
    BY <1>3 DEF IsKickoff, IsAssistant, UserKinds, AssistantKinds
  <2>2. Trailing(d) = Trailing(c) \cup {n + 1}
    <3>1. \A j \in DOMAIN d : IsAssistant(d[j]) <=> j = n + 1 \/ (j \in DOMAIN c /\ IsAssistant(c[j]))
      BY <1>1, <1>3
    <3>2. n + 1 \in Trailing(d)
      BY <1>1, <3>1 DEF Trailing
    <3>3. \A i \in DOMAIN c : i \in Trailing(d) <=> i \in Trailing(c)
      BY <1>1, <3>1 DEF Trailing
    <3>4. \A i \in DOMAIN d : i = n + 1 \/ i \in DOMAIN c
      BY <1>1
    <3> QED BY <3>2, <3>3, <3>4 DEF Trailing
  <2>3. \A i \in Trailing(c) : d[i] = c[i]
    BY <1>1 DEF Trailing
  <2>4. Past(d) = Past(c)
    <3>1. ASSUME NEW i \in Turn(c)
          PROVE  i \in Past(d) <=> i \in Past(c)
      <4>1. i \in 1 .. n
        BY <1>1 DEF Turn
      <4>2. CASE i = n
        BY <1>1, <1>3, <4>2 DEF Past
      <4>3. CASE i # n
        BY <1>1, <1>2, <2>1, <4>1, <4>3 DEF Past
      <4> QED BY <4>2, <4>3
    <3>2. n + 1 \notin Past(d)
      BY <1>1 DEF Past
    <3> QED BY <1>2, <2>1, <3>1, <3>2 DEF Past
  <2> QED BY <1>1, <1>3, <2>2, <2>3, <2>4 DEF Spoken, Faulty, d
<1>4. CASE ~IsAssistant(m)
  <2>1. Trailing(d) = {}
    <3>1. ~IsAssistant(Last(d))
      BY <1>1, <1>4 DEF Last
    <3> QED BY <1>1, <3>1, TrailingShape
  <2>2. ASSUME ~IsKickoff(m)
        PROVE  Runs(c) <= Cardinality(Past(d))
    <3>1. Past(c) \subseteq Past(d)
      BY <1>1, <1>2, <2>2 DEF Past, Turn
    <3>2. IsFiniteSet(Past(d)) /\ Cardinality(Past(d)) \in Nat /\ Cardinality(Past(c)) \in Nat
          /\ IsFiniteSet(Past(c))
      BY <1>1, RunsCounted
    <3>3. CASE ~Spoken(c)
      <4>1. Cardinality(Past(c)) <= Cardinality(Past(d))
        BY <3>1, <3>2, FS_Subset
      <4> QED BY <3>2, <3>3, <4>1 DEF Runs, One
    <3>4. CASE Spoken(c)
      <4>1. n \in Turn(c) /\ IsAssistant(c[n]) /\ n \in DOMAIN c
        BY <1>1, <3>4, TrailingShape DEF Last, Turn, n
      <4>2. n \in Past(d) /\ n \notin Past(c)
        BY <1>1, <1>2, <1>4, <2>2, <4>1 DEF Past
      <4>3. /\ Past(c) \cup {n} \subseteq Past(d)
            /\ Cardinality(Past(c) \cup {n}) = Cardinality(Past(c)) + 1
        BY <3>1, <3>2, <4>2, FS_AddElement
      <4>4. Cardinality(Past(c)) + 1 <= Cardinality(Past(d))
        BY <3>2, <4>3, FS_Subset
      <4> QED BY <3>4, <4>4 DEF Runs, One
    <3> QED BY <3>3, <3>4
  <2> QED BY <1>4, <2>1, <2>2 DEF d
<1> QED BY <1>3, <1>4 DEF d

(* Marks on requests, and a message of the user that is hidden, leave the   *)
(* runs as they are and do not make the provider due.                       *)
LEMMA EditedAv ==
  ASSUME NEW c \in Seq(Message), NEW e \in Effect, e.op \in {"patch", "hide", "usage"}
  PROVE  \A i \in DOMAIN c : (e.op = "hide" => i # e.at) => Stored(c, e)[i].av = c[i].av
<1>1. \A i \in DOMAIN c : c[i] \in Message /\ [c[i] EXCEPT !.note = e.note].av = c[i].av
  BY DEF Message
<1>2. CASE e.op = "patch"
  <2>1. Stored(c, e) = [i \in DOMAIN c |-> IF c[i].kind = "request" /\ e.id \in c[i].ids
                                            THEN [c[i] EXCEPT !.note = e.note] ELSE c[i]]
    BY <1>2 DEF Stored
  <2> QED BY <1>1, <2>1
<1>3. CASE e.op = "hide"
  <2>1. Stored(c, e) = [i \in DOMAIN c |-> IF i = e.at THEN [c[i] EXCEPT !.av = FALSE] ELSE c[i]]
    BY <1>3 DEF Stored
  <2> QED BY <1>3, <2>1
<1>4. CASE e.op = "usage"
  <2>1. Stored(c, e) = c
    BY <1>4 DEF Stored
  <2> QED BY <2>1
<1> QED BY <1>2, <1>3, <1>4

LEMMA EditedRuns ==
  ASSUME NEW c \in Seq(Message), NEW e \in Effect, e.op \in {"patch", "hide", "usage"},
         e.op = "hide" => e.at \in DOMAIN c /\ ~IsAssistant(c[e.at])
  PROVE  LET d == Stored(c, e) IN
         /\ Past(d) = Past(c) /\ (Spoken(d) <=> Spoken(c)) /\ (Faulty(d) <=> Faulty(c))
         /\ EndsWithProviderTurn(d) => EndsWithProviderTurn(c)
         /\ TrailingError(c) # "none" => TrailingError(d) # "none"
<1> DEFINE d == Stored(c, e)
           h == e.at
<1>0. /\ d \in Seq(Message) /\ Extended(d, c) /\ Added(d, c) = {}
      /\ \A i \in DOMAIN c : d[i].av = c[i].av \/ (i = h /\ ~IsAssistant(c[i]))
  BY StoredShape, EditedAv
<1> HIDE DEF d, h
<1>1. /\ DOMAIN d = DOMAIN c /\ Len(d) = Len(c) /\ DOMAIN c = 1 .. Len(c) /\ Len(c) \in Nat
      /\ \A i \in DOMAIN c : d[i].kind = c[i].kind /\ (d[i].av => c[i].av) /\ d[i].ids = c[i].ids
      /\ Turn(d) = Turn(c) /\ AnsweredEver(d) = AnsweredEver(c)
  <2>1. DOMAIN c \subseteq DOMAIN d
    BY <1>0, ExtendedTurn
  <2>2. DOMAIN d = DOMAIN c
    BY <1>0, <2>1 DEF Added
  <2>3. DOMAIN c = 1 .. Len(c) /\ Len(c) \in Nat /\ DOMAIN d = 1 .. Len(d) /\ Len(d) \in Nat
    BY <1>0
  <2>4. Len(d) = Len(c)
    BY <2>2, <2>3
  <2>5. Turn(d) = Turn(c) /\ AnsweredEver(d) = AnsweredEver(c)
    <3>1. \A i \in Added(d, c) : ~IsKickoff(d[i]) /\ d[i].kind # "response"
      BY <1>0
    <3>2. Turn(d) = Turn(c) \cup Added(d, c)
      BY <1>0, <3>1, ExtendedTurn
    <3>3. AnsweredEver(d) = AnsweredEver(c)
      BY <1>0, <3>1, ExtendedTraffic
    <3> QED BY <1>0, <3>2, <3>3
  <2>6. \A i \in DOMAIN c : d[i].kind = c[i].kind /\ (d[i].av => c[i].av) /\ d[i].ids = c[i].ids
    BY <1>0 DEF Extended, Like
  <2> QED BY <2>2, <2>3, <2>4, <2>5, <2>6
<1>2. \A i \in DOMAIN c : IsAssistant(d[i]) <=> IsAssistant(c[i])
  BY <1>1 DEF IsAssistant
<1>3. Trailing(d) = Trailing(c) /\ \A i \in Trailing(c) : i \in DOMAIN c /\ IsAssistant(c[i])
  BY <1>1, <1>2 DEF Trailing
<1>4. \A i \in DOMAIN c : IsAssistant(c[i]) => (d[i].av <=> c[i].av)
  BY <1>0
<1>5. Past(d) = Past(c)
  <2>1. \A i \in DOMAIN c : i \in Past(d) <=> i \in Past(c)
    BY <1>1, <1>2 DEF Past
  <2> QED BY <1>1, <2>1 DEF Past, Turn
<1>6. (Spoken(d) <=> Spoken(c)) /\ (Faulty(d) <=> Faulty(c))
  BY <1>1, <1>3, <1>4 DEF Spoken, Faulty
<1>7. ASSUME EndsWithProviderTurn(d)
      PROVE  EndsWithProviderTurn(c)
  <2>1. PICK p \in ForProvider(d) : (\A j \in ForProvider(d) : j <= p) /\ ~IsAssistant(d[p])
    BY <1>7 DEF EndsWithProviderTurn
  <2>2. /\ ForProvider(d) \subseteq ForProvider(c) /\ ForProvider(c) \subseteq DOMAIN c
        /\ \A j \in ForProvider(c) : j = h \/ j \in ForProvider(d)
    BY <1>0, <1>1 DEF ForProvider
  <2>3. p \in ForProvider(c) /\ ~IsAssistant(c[p])
    BY <1>2, <2>1, <2>2
  <2>4. CASE \A j \in ForProvider(c) : j <= p
    BY <2>3, <2>4 DEF EndsWithProviderTurn
  <2>5. CASE \E j \in ForProvider(c) : ~(j <= p)
    <3>1. PICK j \in ForProvider(c) : ~(j <= p)
      BY <2>5
    <3>2. j = h /\ j \notin ForProvider(d)
      BY <2>1, <2>2, <3>1
    <3>3. ~IsAssistant(c[j])
      BY <1>0, <1>1, <2>2, <3>2 DEF ForProvider
    <3>4. \A k \in ForProvider(c) : k <= j
      BY <1>1, <2>1, <2>2, <3>1, <3>2
    <3> QED BY <3>3, <3>4 DEF EndsWithProviderTurn
  <2> QED BY <2>4, <2>5
<1>8. TrailingError(c) # "none" => TrailingError(d) # "none"
  <2>1. ASSUME c # <<>>
        PROVE  d # <<>> /\ Last(d).kind = Last(c).kind
    <3>1. Len(c) \in DOMAIN c
      BY <1>1, <2>1
    <3> QED BY <1>0, <1>1, <3>1 DEF Last
  <2> QED BY <2>1 DEF TrailingError, Errors
<1> QED BY <1>5, <1>6, <1>7, <1>8 DEF d

(* What an appended message shows the provider.                             *)
LEMMA AppendShown ==
  ASSUME NEW c \in Seq(Message), NEW m \in Message, ~IsKickoff(m), m.kind # "response"
  PROVE  /\ m.av /\ IsAssistant(m) => ~EndsWithProviderTurn(Append(c, m))
         /\ ~m.av => (EndsWithProviderTurn(Append(c, m)) <=> EndsWithProviderTurn(c))
<1> DEFINE d == Append(c, m)
           n == Len(c)
<1>1. /\ n \in Nat /\ DOMAIN c = 1 .. n /\ DOMAIN d = 1 .. n + 1 /\ d[n + 1] = m /\ d \in Seq(Message)
      /\ \A i \in 1 .. n : d[i] = c[i]
  OBVIOUS
<1>2. Extended(d, c) /\ Added(d, c) = {n + 1} /\ d[n + 1] = m
  BY AppendShape
<1> HIDE DEF d, n
<1>3. Turn(d) = Turn(c) \cup {n + 1} /\ AnsweredEver(d) = AnsweredEver(c)
  BY <1>1, <1>2, ExtendedTurn, ExtendedTraffic
<1>4. \A i \in DOMAIN c : i \in ForProvider(d) <=> i \in ForProvider(c)
  BY <1>1, <1>3 DEF ForProvider
<1>5. n + 1 \in ForProvider(d) <=> m.av
  BY <1>1, <1>3 DEF ForProvider
<1>6. \A i \in ForProvider(d) : i \in DOMAIN c \/ i = n + 1
  BY <1>1 DEF ForProvider
<1>7. ASSUME m.av, IsAssistant(m)
      PROVE  ~EndsWithProviderTurn(d)
  <2>1. \A i \in ForProvider(d) : n + 1 <= i => i = n + 1
    BY <1>1, <1>6
  <2> QED BY <1>1, <1>5, <1>7, <2>1 DEF EndsWithProviderTurn
<1>8. ASSUME ~m.av
      PROVE  EndsWithProviderTurn(d) <=> EndsWithProviderTurn(c)
  <2>1. ForProvider(d) = ForProvider(c) /\ ForProvider(c) \subseteq DOMAIN c
    BY <1>4, <1>5, <1>6, <1>8 DEF ForProvider
  <2>2. \A i \in ForProvider(c) : d[i] = c[i]
    BY <1>1, <2>1
  <2> QED BY <2>1, <2>2 DEF EndsWithProviderTurn
<1> QED BY <1>7, <1>8 DEF d

(* The user has been asked about every open call.                           *)
Waiting(c) == Open(c) \subseteq Asked(c)

LEMMA WaitingKept ==
  ASSUME NEW c \in Seq(Message), NEW d \in Seq(Message), Extended(d, c),
         \A i \in Added(d, c) : ~IsKickoff(d[i]) /\ d[i].kind # "request", Waiting(c)
  PROVE  Waiting(d)
<1>1. /\ Turn(d) = Turn(c) \cup Added(d, c) /\ DOMAIN c \subseteq DOMAIN d /\ Turn(c) \subseteq DOMAIN c
      /\ \A i \in DOMAIN c : d[i].kind = c[i].kind /\ d[i].ids = c[i].ids
  BY ExtendedTurn DEF Extended, Like, Turn
<1>2. Answered(c) \subseteq Answered(d) /\ Asked(c) \subseteq Asked(d)
  BY <1>1 DEF Answered, Asked, IdsOf
<1>3. ASSUME NEW i \in Unanswered(d)
      PROVE  i \in Unanswered(c) /\ RequestAt(d, i) = RequestAt(c, i)
  <2>1. i \in Turn(c) /\ c[i].kind = "request" /\ c[i].ids = d[i].ids
    BY <1>1, <1>3 DEF Unanswered
  <2> QED BY <1>2, <1>3, <2>1 DEF Unanswered, RequestAt
<1> QED BY <1>2, <1>3 DEF Waiting, Open, IdsAt

(* The provider was due to answer a run that has failed. *)
Stuck(c) == EndsWithProviderTurn(c) /\ Faulty(c)

(* What an inference or a compaction wrote is the last the provider sees. *)
LEMMA SpokenShown ==
  ASSUME NEW c \in Seq(Message), Spoken(c), EndsWithProviderTurn(c)
  PROVE  Stuck(c)
<1>1. PICK i \in Trailing(c) : c[i].av \/ c[i].kind \in Errors
  BY DEF Spoken
<1>2. i \in Turn(c) /\ i \in DOMAIN c /\ \A j \in DOMAIN c : i <= j => IsAssistant(c[j])
  BY TrailingShape DEF Trailing
<1>3. CASE c[i].av
  <2>1. i \in ForProvider(c)
    BY <1>2, <1>3 DEF ForProvider
  <2>2. PICK p \in ForProvider(c) : (\A j \in ForProvider(c) : j <= p) /\ ~IsAssistant(c[p])
    BY DEF EndsWithProviderTurn
  <2>3. p \in DOMAIN c /\ i <= p
    BY <2>1, <2>2 DEF ForProvider
  <2> QED BY <1>2, <2>2, <2>3
<1>4. CASE c[i].kind \in Errors
  BY <1>4 DEF Stuck, Faulty
<1> QED BY <1>1, <1>3, <1>4

(* A compacted turn has as many runs as the turn had: the run at its end is *)
(* the summary's.                                                           *)
LEMMA CompactedRuns ==
  ASSUME NEW c \in Seq(Message), HasKickoff(c)
  PROVE  AssistantTurnCount(c) <= Runs(Compacted(c)) /\ ~Stuck(Compacted(c))
<1> DEFINE d == Compacted(c)
           n == Len(c)
           R == {i \in Turn(c) : /\ IsAssistant(c[i])
                                 /\ i = Len(c) \/ ~IsAssistant(c[i + 1])}
           S == R \ {n}
<1>1. /\ d \in Seq(Message) /\ Extended(d, c) /\ Len(d) \in {n + 1, n + 2}
      /\ \A i \in DOMAIN c : ~d[i].av
      /\ \A i \in Added(d, c) :
           /\ ~IsKickoff(d[i]) /\ d[i].av
           /\ \/ i = n + 1 /\ d[i].kind = "summary"
              \/ i = n + 2 /\ d[i].kind = "prompt"
  BY CompactedShape
<1> HIDE DEF d
<1>2. /\ n \in Nat /\ DOMAIN c = 1 .. n /\ DOMAIN d = 1 .. Len(d)
      /\ Turn(d) = Turn(c) \cup Added(d, c) /\ DOMAIN c \subseteq DOMAIN d
      /\ \A i \in DOMAIN c : IsAssistant(d[i]) <=> IsAssistant(c[i])
  <2>1. Turn(d) = Turn(c) \cup Added(d, c) /\ DOMAIN c \subseteq DOMAIN d
    BY <1>1, ExtendedTurn
  <2>2. \A i \in DOMAIN c : d[i].kind = c[i].kind
    BY <1>1 DEF Extended, Like
  <2> QED BY <1>1, <2>1, <2>2 DEF IsAssistant
<1> HIDE DEF n
<1>3. /\ n + 1 \in Added(d, c) /\ n + 1 \in Turn(d) /\ d[n + 1].av /\ IsAssistant(d[n + 1])
      /\ n + 1 \in DOMAIN d
  <2>1. n + 1 \in DOMAIN d /\ n + 1 \notin DOMAIN c
    <3>1. \A l : l = n + 1 \/ l = n + 2 => n + 1 \in 1 .. l
      BY <1>2
    <3>2. n + 1 \notin 1 .. n
      BY <1>2
    <3> QED BY <1>1, <1>2, <3>1, <3>2
  <2>2. n + 1 # n + 2
    BY <1>2
  <2>3. n + 1 \in Added(d, c)
    BY <2>1 DEF Added
  <2>4. d[n + 1].kind = "summary" /\ d[n + 1].av
    BY <1>1, <2>2, <2>3
  <2> QED BY <1>2, <2>1, <2>3, <2>4 DEF IsAssistant, AssistantKinds
<1>4. /\ IsFiniteSet(R) /\ IsFiniteSet(S) /\ Cardinality(S) \in Nat /\ AssistantTurnCount(c) = Cardinality(R)
      /\ Cardinality(R) \in Nat /\ Cardinality(R) <= Cardinality(S) + 1
  <2>1. IsFiniteSet(DOMAIN c) /\ R \subseteq DOMAIN c
    BY <1>2, FS_Interval DEF Turn
  <2>2. IsFiniteSet(R) /\ Cardinality(R) \in Nat
    BY <2>1, FS_Subset, FS_CardinalityType
  <2>3. IsFiniteSet(S) /\ Cardinality(S) \in Nat
    BY <2>2, FS_Subset, FS_CardinalityType
  <2>4. AssistantTurnCount(c) = Cardinality(R)
    BY DEF AssistantTurnCount
  <2>5. Cardinality(R) <= Cardinality(S) + 1
    <3> HIDE DEF R
    <3>1. CASE n \in R
      <4>1. Cardinality(S) = Cardinality(R) - 1
        BY <2>2, <3>1, FS_RemoveElement
      <4> QED BY <2>2, <2>3, <4>1
    <3>2. CASE n \notin R
      <4>1. S = R
        BY <3>2
      <4>2. Cardinality(S) = Cardinality(R)
        BY <4>1
      <4> QED BY <2>2, <2>3, <4>2
    <3> QED BY <3>1, <3>2
  <2> QED BY <2>2, <2>3, <2>4, <2>5
<1>5. S \subseteq Past(d)
  <2>1. ASSUME NEW i \in S
        PROVE  i \in Past(d)
    <3>1. i \in Turn(c) /\ i \in 1 .. n /\ i # n /\ IsAssistant(c[i]) /\ ~IsAssistant(c[i + 1])
      BY <1>2 DEF Turn, n
    <3>2. i + 1 \in 1 .. n
      BY <1>2, <3>1
    <3>3. i + 1 \in DOMAIN d /\ ~IsAssistant(d[i + 1]) /\ IsAssistant(d[i])
      BY <1>2, <3>1, <3>2
    <3> QED BY <1>2, <3>1, <3>3 DEF Past
  <2> QED BY <2>1
<1>6. /\ IsFiniteSet(Past(d)) /\ Cardinality(Past(d)) \in Nat
  BY <1>1, RunsCounted
<1> HIDE DEF R, S
<1>7. CASE Len(d) = n + 1
  <2>1. \A j \in DOMAIN d : n + 1 <= j => j = n + 1
    BY <1>2, <1>7
  <2>2. n + 1 \in Trailing(d)
    BY <1>3, <2>1 DEF Trailing
  <2>3. Spoken(d)
    BY <1>3, <2>2 DEF Spoken
  <2>4. Cardinality(S) <= Cardinality(Past(d))
    BY <1>5, <1>6, FS_Subset
  <2>5. \A i \in ForProvider(d) : i = n + 1
    BY <1>1, <1>2, <1>7 DEF ForProvider
  <2>6. ~EndsWithProviderTurn(d)
    BY <1>3, <2>5 DEF EndsWithProviderTurn
  <2> QED BY <1>4, <1>6, <2>3, <2>4, <2>6 DEF Runs, One, Stuck, d
<1>8. CASE Len(d) = n + 2
  <2>1. n + 2 \in DOMAIN d /\ n + 2 \in Added(d, c) /\ n + 2 # n + 1 /\ (n + 1) + 1 = n + 2
    BY <1>1, <1>2, <1>8 DEF Added
  <2>2. ~IsAssistant(d[n + 2])
    BY <1>1, <2>1 DEF IsAssistant, AssistantKinds
  <2>3. Trailing(d) = {}
    BY <1>1, <1>8, <2>2, TrailingShape DEF Last
  <2>4. n + 1 \in Past(d) /\ n + 1 \notin S
    <3>1. n + 1 \in Past(d)
      BY <1>3, <2>1, <2>2 DEF Past
    <3>2. n + 1 \notin DOMAIN c
      BY <1>2
    <3> QED BY <3>1, <3>2 DEF S, R, Turn
  <2>5. /\ S \cup {n + 1} \subseteq Past(d) /\ Cardinality(S \cup {n + 1}) = Cardinality(S) + 1
    BY <1>4, <1>5, <2>4, FS_AddElement
  <2>6. Cardinality(S) + 1 <= Cardinality(Past(d))
    BY <1>6, <2>5, FS_Subset
  <2>7. ~Faulty(d)
    BY <2>3 DEF Faulty
  <2>8. Runs(d) \in Nat /\ Runs(d) >= Cardinality(Past(d))
    BY <1>6 DEF Runs, One
  <2> QED BY <1>4, <1>6, <2>6, <2>7, <2>8 DEF Stuck, d
<1> QED BY <1>1, <1>7, <1>8

LEMMA ResetStuck ==
  ASSUME NEW c \in Seq(Message), HasKickoff(c)
  PROVE  ~Stuck(ResetConversation(c))
<1> DEFINE k == Kickoff(c)
           d == ResetConversation(c)
<1>1. d \in Seq(Message) /\ DOMAIN d = 1 .. k /\ k \in DOMAIN d /\ IsKickoff(c[k]) /\ d[k].kind = c[k].kind
  <2>1. k \in DOMAIN c /\ DOMAIN c = 1 .. Len(c)
    BY ResetShape
  <2> QED BY <2>1, ResetShape
<1> HIDE DEF k, d
<1>2. ~IsAssistant(d[k])
  BY <1>1 DEF IsKickoff, IsAssistant, UserKinds, AssistantKinds
<1>3. k = Len(d)
  <2>1. \A l \in Nat : 1 .. l = 1 .. k /\ k \in 1 .. l => l = k
    OBVIOUS
  <2> QED BY <1>1, <2>1
<1>4. Trailing(d) = {}
  BY <1>1, <1>2, <1>3, TrailingShape DEF Last
<1> QED BY <1>4 DEF Stuck, Faulty, d

-----------------------------------------------------------------------------
(* What may be on its way to the store while a turn is counted *)

(* Effects that record an error, that write what the provider is shown, and *)
(* that write for the user alone.                                           *)
Fault(e) == e.op = "append" /\ e.msg.kind \in Errors
Says(e)  == e.op = "append" /\ IsAssistant(e.msg) /\ e.msg.av /\ e.msg.kind \notin Errors
Dark(e)  == e.op = "append" /\ IsAssistant(e.msg) /\ ~e.msg.av /\ e.msg.kind \notin Errors

Plain(e) == e.op \notin {"hide", "replace"} /\ ~Fault(e) /\ ~Dark(e)

(* A message is hidden only if it is the user's; nothing is written for the *)
(* user alone, and nothing rewritten, such that a failed run would be       *)
(* resumed; an error ends what an inference brought, or comes alone.        *)
Fits(es, c) ==
  \A k \in DOMAIN es :
    /\ es[k].op = "hide" => es[k].at \in DOMAIN c /\ ~IsAssistant(c[es[k].at])
    /\ Dark(es[k]) => ~Stuck(c)
    /\ Fault(es[k]) => /\ EndsWithProviderTurn(c) => Waiting(c)
                       /\ \A j \in DOMAIN es : ~Dark(es[j]) /\ (j < k => Says(es[j]))
    /\ es[k].op = "replace" => ~Stuck(es[k].conv)

(* What replaces the conversation has paid for n inferences. *)
Paid(es, n) == \A k \in DOMAIN es : es[k].op = "replace" => n <= Runs(es[k].conv)

LEMMA PlainFits ==
  ASSUME NEW es, NEW c, NEW n, \A k \in DOMAIN es : Plain(es[k])
  PROVE  Fits(es, c) /\ Paid(es, n)
BY DEF Fits, Paid, Plain

LEMMA PlainEffects ==
  /\ \A S, note : Plain(Append_(Response(S, note)))
  /\ \A note : Plain(Append_(Prompt(note))) /\ Plain(Append_(Text(note)))
  /\ Plain(Append_(HiddenPrompt)) /\ Plain(Append_(Msg("nudge", FALSE, TRUE, {}, "none")))
  /\ Plain(Append_(Msg("denial", FALSE, TRUE, {}, "none")))
  /\ \A r, note : Plain(Patch(r, note))
  /\ \A b : Plain(Usage(b))
  /\ \A r : Plain(Append_(Request(r))) /\ Says(Append_(Request(r)))
  /\ \A note : Says(Append_(Text(note)))
BY DEF Plain, Fault, Dark, Says, Append_, Response, Prompt, Text, HiddenPrompt, Msg, Patch, Usage,
       Request, IsAssistant, AssistantKinds, Errors

LEMMA Singles ==
  /\ \A e : 1 \in DOMAIN <<e>> /\ \A k \in DOMAIN <<e>> : k = 1 /\ <<e>>[k] = e
  /\ \A a, b, c : \A k \in DOMAIN <<a, b, c>> : <<a, b, c>>[k] = a \/ <<a, b, c>>[k] = b \/ <<a, b, c>>[k] = c
OBVIOUS

(* One plain effect, one remark for the user, one error, one rewriting. *)
LEMMA SingleFits ==
  ASSUME NEW c, NEW n
  PROVE  /\ Fits(<<>>, c) /\ Paid(<<>>, n)
         /\ \A e : Plain(e) => Fits(<<e>>, c) /\ Paid(<<e>>, n)
         /\ ~Stuck(c) => Fits(<<Append_(UserOnlyText)>>, c) /\ Paid(<<Append_(UserOnlyText)>>, n)
         /\ \A kind \in Errors :
              Waiting(c) => Fits(<<Append_(ErrorMsg(kind))>>, c) /\ Paid(<<Append_(ErrorMsg(kind))>>, n)
         /\ \A d : ~Stuck(d) /\ n <= Runs(d) => Fits(<<Replace(d)>>, c) /\ Paid(<<Replace(d)>>, n)
<1>1. Fits(<<>>, c) /\ Paid(<<>>, n)
  BY NoEffects, PlainFits
<1>2. ASSUME NEW e, Plain(e)
      PROVE  Fits(<<e>>, c) /\ Paid(<<e>>, n)
  BY <1>2, Singles, PlainFits
<1>3. ASSUME ~Stuck(c)
      PROVE  Fits(<<Append_(UserOnlyText)>>, c) /\ Paid(<<Append_(UserOnlyText)>>, n)
  <2> DEFINE e == Append_(UserOnlyText)
  <2>1. e.op = "append" /\ ~Fault(e)
    BY DEF Append_, UserOnlyText, Msg, Fault, Errors
  <2> HIDE DEF e
  <2>2. Fits(<<e>>, c) /\ Paid(<<e>>, n)
    BY <1>3, <2>1, Singles DEF Fits, Paid
  <2> QED BY <2>2 DEF e
<1>4. ASSUME NEW kind \in Errors, Waiting(c)
      PROVE  Fits(<<Append_(ErrorMsg(kind))>>, c) /\ Paid(<<Append_(ErrorMsg(kind))>>, n)
  <2> DEFINE e == Append_(ErrorMsg(kind))
  <2>1. e.op = "append" /\ ~Dark(e)
    BY DEF Append_, ErrorMsg, Msg, Dark
  <2> HIDE DEF e
  <2>2. Fits(<<e>>, c) /\ Paid(<<e>>, n)
    BY <1>4, <2>1, Singles DEF Fits, Paid
  <2> QED BY <2>2 DEF e
<1>5. ASSUME NEW d, ~Stuck(d), n <= Runs(d)
      PROVE  Fits(<<Replace(d)>>, c) /\ Paid(<<Replace(d)>>, n)
  <2> DEFINE e == Replace(d)
  <2>1. e.op = "replace" /\ e.conv = d
    BY DEF Replace
  <2> HIDE DEF e
  <2>2. Fits(<<e>>, c) /\ Paid(<<e>>, n)
    BY <1>5, <2>1, Singles DEF Fits, Paid, Fault, Dark
  <2> QED BY <2>2 DEF e
<1> QED BY <1>1, <1>2, <1>3, <1>4, <1>5

-----------------------------------------------------------------------------
(* What the provider writes *)

(* An inference leaves something that counts as a run of the turn: a reply, *)
(* or the error it ended in after whatever it had replied.                  *)
Told(es) ==
  /\ es \in Seq(Effect)
  /\ \E k \in DOMAIN es : Says(es[k]) \/ Fault(es[k])
  /\ \A k \in DOMAIN es :
       /\ es[k].op \notin {"hide", "replace"} /\ ~Dark(es[k])
       /\ Fault(es[k]) => \A j \in DOMAIN es : j < k => Says(es[j])

LEMMA Joined ==
  ASSUME NEW a \in Seq(Effect), NEW b \in Seq(Effect)
  PROVE  /\ a \o b \in Seq(Effect)
         /\ \A k \in DOMAIN a : k \in DOMAIN (a \o b) /\ (a \o b)[k] = a[k]
         /\ \A k \in DOMAIN b : Len(a) + k \in DOMAIN (a \o b) /\ (a \o b)[Len(a) + k] = b[k]
         /\ \A k \in DOMAIN (a \o b) : \/ k \in DOMAIN a /\ (a \o b)[k] = a[k]
                                       \/ k - Len(a) \in DOMAIN b /\ (a \o b)[k] = b[k - Len(a)]
         /\ \A k \in DOMAIN (a \o b), j \in DOMAIN a : k - Len(a) \in DOMAIN b => j < k
OBVIOUS

LEMMA ToldPlainly ==
  ASSUME NEW a \in Seq(Effect), NEW b \in Seq(Effect),
         \A k \in DOMAIN a : Plain(a[k]), \A k \in DOMAIN b : Plain(b[k]),
         NEW i \in DOMAIN b, Says(b[i])
  PROVE  Told(a \o b)
<1> DEFINE d == a \o b
<1>1. /\ d \in Seq(Effect) /\ Len(a) + i \in DOMAIN d /\ d[Len(a) + i] = b[i]
      /\ \A k \in DOMAIN d : \/ k \in DOMAIN a /\ d[k] = a[k]
                             \/ k - Len(a) \in DOMAIN b /\ d[k] = b[k - Len(a)]
  BY Joined
<1> HIDE DEF d
<1>2. \A k \in DOMAIN d : Plain(d[k])
  BY <1>1
<1>3. Told(d)
  BY <1>1, <1>2 DEF Told, Plain
<1> QED BY <1>3 DEF d

LEMMA ToldFailing ==
  ASSUME NEW a \in Seq(Effect), \A k \in DOMAIN a : Plain(a[k]) /\ Says(a[k]),
         NEW e \in Effect, Fault(e)
  PROVE  Told(a \o <<e>>)
<1> DEFINE b == <<e>>
           d == a \o b
<1>1. b \in Seq(Effect) /\ 1 \in DOMAIN b /\ \A k \in DOMAIN b : k = 1 /\ b[k] = e
  BY Singles
<1> HIDE DEF b
<1>2. /\ d \in Seq(Effect) /\ Len(a) + 1 \in DOMAIN d /\ d[Len(a) + 1] = e /\ Len(a) \in Nat
      /\ DOMAIN a = 1 .. Len(a)
      /\ \A k \in DOMAIN d : \/ k \in DOMAIN a /\ d[k] = a[k]
                             \/ k = Len(a) + 1 /\ d[k] = e
  <2>1. \A k \in DOMAIN d : \/ k \in DOMAIN a /\ d[k] = a[k]
                            \/ k - Len(a) \in DOMAIN b /\ d[k] = b[k - Len(a)]
    BY <1>1, Joined
  <2>2. d \in Seq(Effect) /\ Len(a) + 1 \in DOMAIN d /\ d[Len(a) + 1] = b[1] /\ Len(a) \in Nat
    BY <1>1, Joined
  <2>3. ASSUME NEW k \in DOMAIN d
        PROVE  \/ k \in DOMAIN a /\ d[k] = a[k]
               \/ k = Len(a) + 1 /\ d[k] = e
    <3>1. k \in Nat
      BY <2>2
    <3>2. CASE k - Len(a) \in DOMAIN b /\ d[k] = b[k - Len(a)]
      <4>1. k - Len(a) = 1 /\ d[k] = e
        BY <1>1, <3>2
      <4> QED BY <2>2, <3>1, <4>1
    <3> QED BY <2>1, <3>2
  <2> QED BY <1>1, <2>2, <2>3
<1> HIDE DEF d
<1>3. ASSUME NEW k \in DOMAIN d, Fault(d[k]), NEW j \in DOMAIN d, j < k
      PROVE  Says(d[j])
  <2>1. k = Len(a) + 1
    BY <1>2, <1>3 DEF Plain
  <2>2. j # Len(a) + 1
    BY <1>2, <1>3, <2>1
  <2> QED BY <1>2, <2>2
<1>4. e.op = "append" /\ ~Dark(e)
  BY DEF Fault, Dark
<1>5. \A k \in DOMAIN d : d[k].op \notin {"hide", "replace"} /\ ~Dark(d[k])
  BY <1>2, <1>4 DEF Plain
<1>6. Told(d)
  BY <1>2, <1>3, <1>5 DEF Told
<1> QED BY <1>6 DEF d, b

LEMMA ToldRequests ==
  ASSUME NEW b \in Seq(Requests)
  PROVE  /\ RequestsOf(b) \in Seq(Effect) /\ IdsIn(b) \in SUBSET Requests
         /\ \A k \in DOMAIN RequestsOf(b) : Plain(RequestsOf(b)[k]) /\ Says(RequestsOf(b)[k])
         /\ b # <<>> => 1 \in DOMAIN RequestsOf(b)
<1>1. RequestsOf(b) \in Seq(Effect) /\ IdsIn(b) \in SUBSET Requests
  BY RequestsOfTyped
<1>2. DOMAIN RequestsOf(b) = 1 .. Len(b) /\ \A k \in 1 .. Len(b) : RequestsOf(b)[k] = Append_(Request(b[k]))
  BY DEF RequestsOf
<1>3. b # <<>> => 1 \in 1 .. Len(b)
  OBVIOUS
<1> QED BY <1>1, <1>2, <1>3, PlainEffects

LEMMA ProviderTells ==
  ASSUME ProviderReplies \/ ProviderFails
  PROVE  \E effs, yield : \E streamed \in SUBSET Requests :
           Told(effs) /\ StreamEnds(effs, streamed, yield)
<1> DEFINE Ended == \E effs, yield : \E streamed \in SUBSET Requests :
                      Told(effs) /\ StreamEnds(effs, streamed, yield)
           t == Append_(Text("none"))
<1>1. t \in Effect /\ Plain(t) /\ Says(t)
  BY PlainEffects, EffectsTyped, MessagesTyped DEF Notes
<1> HIDE DEF t
<1>2. /\ <<t>> \in Seq(Effect) /\ 1 \in DOMAIN <<t>> /\ Says(<<t>>[1])
      /\ \A k \in DOMAIN <<t>> : Plain(<<t>>[k])
  BY <1>1, Singles
<1>3. ASSUME NEW u \in RecordUsage
      PROVE  u \in Seq(Effect) /\ \A k \in DOMAIN u : Plain(u[k])
  <2>1. ASSUME NEW b \in BOOLEAN
        PROVE  <<Usage(b)>> \in Seq(Effect) /\ \A k \in DOMAIN <<Usage(b)>> : Plain(<<Usage(b)>>[k])
    <3>1. Usage(b) \in Effect /\ Plain(Usage(b))
      BY EffectsTyped, PlainEffects
    <3> QED BY <3>1, Singles
  <2> QED BY <2>1, NoEffects DEF RecordUsage
<1>4. ASSUME NEW b \in Batches
      PROVE  b \in Seq(Requests) /\ b # <<>>
  BY SetsAssumption
<1>5. CASE ProviderReplies
  <2>1. PICK u \in RecordUsage :
          \/ StreamEnds(u \o <<t>>, {}, FALSE)
          \/ \E b \in Batches : StreamEnds(u \o RequestsOf(b), IdsIn(b), FALSE)
    BY <1>5 DEF ProviderReplies, t
  <2>2. CASE StreamEnds(u \o <<t>>, {}, FALSE)
    <3>1. Told(u \o <<t>>) /\ {} \in SUBSET Requests
      BY <1>2, <1>3, ToldPlainly
    <3> QED BY <2>2, <3>1
  <2>3. ASSUME NEW b \in Batches, StreamEnds(u \o RequestsOf(b), IdsIn(b), FALSE)
        PROVE  Ended
    <3>1. Told(u \o RequestsOf(b)) /\ IdsIn(b) \in SUBSET Requests
      BY <1>3, <1>4, ToldRequests, ToldPlainly
    <3> QED BY <2>3, <3>1
  <2> QED BY <2>1, <2>2, <2>3
<1>6. CASE ProviderFails
  <2>1. \/ \E kind \in Errors, b \in Batches \cup {<<>>} :
             StreamEnds(RequestsOf(b) \o <<Append_(ErrorMsg(kind))>>, IdsIn(b), FALSE)
        \/ StreamEnds(<<t>>, {}, TRUE)
    BY <1>6 DEF ProviderFails, t
  <2>2. CASE StreamEnds(<<t>>, {}, TRUE)
    <3>1. <<>> \o <<t>> = <<t>> /\ <<>> \in Seq(Effect)
      BY <1>2
    <3>2. Told(<<t>>) /\ {} \in SUBSET Requests
      BY <1>2, <3>1, NoEffects, ToldPlainly
    <3> QED BY <2>2, <3>2
  <2>3. ASSUME NEW kind \in Errors, NEW b \in Batches \cup {<<>>},
               StreamEnds(RequestsOf(b) \o <<Append_(ErrorMsg(kind))>>, IdsIn(b), FALSE)
        PROVE  Ended
    <3>1. b \in Seq(Requests)
      <4>1. <<>> \in Seq(Requests)
        OBVIOUS
      <4> QED BY <1>4, <4>1
    <3>2. Append_(ErrorMsg(kind)) \in Effect /\ Fault(Append_(ErrorMsg(kind)))
      BY EffectsTyped, MessagesTyped DEF Fault, Append_, ErrorMsg, Msg
    <3>3. Told(RequestsOf(b) \o <<Append_(ErrorMsg(kind))>>) /\ IdsIn(b) \in SUBSET Requests
      BY <3>1, <3>2, ToldRequests, ToldFailing
    <3> QED BY <2>3, <3>3
  <2> QED BY <2>1, <2>2, <2>3
<1> QED BY <1>5, <1>6

-----------------------------------------------------------------------------
(* The count of a turn *)

(* An inference is under way, about to be stored, or in the run at the end. *)
Ongoing ==
  \/ Spoken(conv) \/ pc = "provider"
  \/ \E k \in DOMAIN effects : Says(effects[k]) \/ Fault(effects[k])

(* Every inference since the last input or retry has a run of the turn of   *)
(* its own, crashes aside.                                                  *)
BudgetInv ==
  /\ TurnBudget
  /\ calls <= Cardinality(Past(conv)) + used.crashes + One(Ongoing)
  /\ Paid(effects, calls - used.crashes)

(* A failed run is not resumed: the error ends the conversation as long as  *)
(* the provider is due, and nobody is left to be asked about its calls.     *)
ErrorsInv ==
  /\ Stuck(conv) => TrailingError(conv) # "none" /\ Waiting(conv)
  /\ pc = "provider" => Waiting(conv)
  /\ Fits(effects, conv)

(* The snapshot of a step and the store. *)
LEMMA SnapRuns ==
  ASSUME TypeInv, StepInv, pc \in Working
  PROVE  /\ conv \in Seq(Message) /\ snap \in Seq(Message) /\ HasKickoff(snap) /\ effects = <<>>
         /\ Extended(conv, snap) /\ \A i \in DOMAIN snap : i \in DOMAIN conv /\ conv[i] = snap[i]
         /\ conv = snap \/ Trailing(conv) = {}
         /\ AssistantTurnCount(conv) <= AssistantTurnCount(snap)
         /\ Waiting(snap) => Waiting(conv)
         /\ Stuck(conv) => conv = snap /\ IsAssistant(Last(snap))
<1>1. /\ conv \in Seq(Message) /\ snap \in Seq(Message) /\ HasKickoff(snap) /\ Continues(conv, snap)
      /\ effects = <<>>
  BY WorkingFacts DEF TypeInv, ControlOK, StoreOK, StepInv
<1>2. Extended(conv, snap) /\ \A i \in Added(conv, snap) : conv[i].kind = "approval" /\ ~IsKickoff(conv[i])
  BY <1>1, ContinuesShape
<1>3. \A i \in DOMAIN snap : i \in DOMAIN conv /\ conv[i] = snap[i]
  BY <1>1, <1>2, ExtendedTurn DEF Continues
<1>4. (conv = snap \/ Trailing(conv) = {}) /\ AssistantTurnCount(conv) <= AssistantTurnCount(snap)
  BY <1>1, LaterRuns
<1>5. Waiting(snap) => Waiting(conv)
  BY <1>1, <1>2, WaitingKept
<1>6. Stuck(conv) => conv = snap /\ IsAssistant(Last(snap))
  <2>1. Stuck(conv) => Trailing(conv) # {} /\ IsAssistant(Last(conv))
    BY <1>1, TrailingShape DEF Stuck
  <2> QED BY <1>4, <2>1
<1> QED BY <1>1, <1>2, <1>3, <1>4, <1>5, <1>6

(* The stream of an inference, and the response that closes it if the run   *)
(* is cancelled.                                                            *)
LEMMA ToldFits ==
  ASSUME NEW effs, Told(effs), NEW s \in Seq(Message), NEW streamed \in SUBSET Requests,
         NEW es \in {effs, effs \o Closing(s, streamed)}, NEW c, Waiting(c), NEW n
  PROVE  /\ Fits(es, c) /\ Paid(es, n)
         /\ \E k \in DOMAIN es : Says(es[k]) \/ Fault(es[k])
<1> DEFINE closing == Closing(s, streamed)
<1>1. effs \in Seq(Effect) /\ closing \in Seq(Effect)
  BY ClosingTyped DEF Told
<1>2. \A k \in DOMAIN closing : Plain(closing[k])
  <2>1. \A S : \A k \in DOMAIN <<Append_(Response(S, "none"))>> : Plain(<<Append_(Response(S, "none"))>>[k])
    BY Singles, PlainEffects
  <2> QED BY <2>1, NoEffects DEF Closing
<1>3. es = effs \/ es = effs \o closing
  OBVIOUS
<1> HIDE DEF closing
<1>4. ASSUME NEW d, Told(d)
      PROVE  /\ Fits(d, c) /\ Paid(d, n)
             /\ \E k \in DOMAIN d : Says(d[k]) \/ Fault(d[k])
  BY <1>4 DEF Told, Fits, Paid
<1>5. Told(effs \o closing)
  <2> DEFINE d == effs \o closing
  <2>1. /\ d \in Seq(Effect)
        /\ \A k \in DOMAIN effs : k \in DOMAIN d /\ d[k] = effs[k]
        /\ \A k \in DOMAIN d : \/ k \in DOMAIN effs /\ d[k] = effs[k]
                               \/ k - Len(effs) \in DOMAIN closing /\ d[k] = closing[k - Len(effs)]
    BY <1>1, Joined
  <2>2. DOMAIN effs = 1 .. Len(effs) /\ Len(effs) \in Nat /\ DOMAIN d \subseteq Nat \ {0}
    BY <1>1, <2>1
  <2> HIDE DEF d
  <2>3. \A k \in DOMAIN d : (k \in DOMAIN effs /\ d[k] = effs[k]) \/ Plain(d[k])
    BY <1>2, <2>1
  <2>4. \E k \in DOMAIN d : Says(d[k]) \/ Fault(d[k])
    BY <2>1 DEF Told
  <2>5. ASSUME NEW k \in DOMAIN d, Fault(d[k]), NEW j \in DOMAIN d, j < k
        PROVE  Says(d[j])
    <3>1. k \in DOMAIN effs /\ d[k] = effs[k]
      BY <2>3, <2>5 DEF Plain
    <3>2. j \in DOMAIN effs
      BY <2>2, <2>5, <3>1
    <3> QED BY <2>1, <2>5, <3>1, <3>2 DEF Told
  <2>6. \A k \in DOMAIN d : d[k].op \notin {"hide", "replace"} /\ ~Dark(d[k])
    BY <2>3 DEF Told, Plain
  <2>7. Told(d)
    BY <2>1, <2>4, <2>5, <2>6 DEF Told
  <2> QED BY <2>7 DEF d
<1> QED BY <1>3, <1>4, <1>5

LEMMA ProviderFits ==
  ASSUME TypeInv, ErrorsInv, ProviderReplies \/ ProviderFails, NEW n
  PROVE  Fits(effects', conv) /\ Paid(effects', n) /\ Ongoing'
<1>1. PICK effs, yield : \E streamed \in SUBSET Requests :
        Told(effs) /\ StreamEnds(effs, streamed, yield)
  BY ProviderTells
<1>2. PICK streamed \in SUBSET Requests : effects' \in {effs, effs \o Closing(snap, streamed)}
  BY <1>1 DEF StreamEnds
<1>3. snap \in Seq(Message) /\ Waiting(conv)
  BY DEF TypeInv, ControlOK, ErrorsInv, ProviderReplies, ProviderFails
<1>4. /\ Fits(effects', conv) /\ Paid(effects', n)
      /\ \E k \in DOMAIN effects' : Says(effects'[k]) \/ Fault(effects'[k])
  BY <1>1, <1>2, <1>3, ToldFits
<1> QED BY <1>4 DEF Ongoing

(* Only an inference is counted, and only failures cut one off.             *)
LEMMA CallsCounted ==
  ASSUME TypeInv, [Next]_vars
  PROVE  /\ calls' \in {calls, 0} \/ (Infer /\ pc' = "provider" /\ calls' = calls + 1)
         /\ pc' = "provider" /\ pc # "provider" => Infer
         /\ pc = "provider" /\ pc' # "provider" => ProviderReplies \/ ProviderFails \/ Abort \/ Crash
<1> DEFINE Goal == /\ calls' \in {calls, 0} \/ (Infer /\ pc' = "provider" /\ calls' = calls + 1)
                   /\ pc' = "provider" /\ pc # "provider" => Infer
                   /\ pc = "provider" /\ pc' # "provider" => ProviderReplies \/ ProviderFails \/ Abort \/ Crash
<1>0. "provider" \notin Operations /\ "provider" \notin {"load", "apply", "idle", "tools"}
  BY PipelineOrder
<1>1. ASSUME NEW op \in Operations \ {"llm"}, pc = op, calls' = calls,
             \/ Pass(op)
             \/ \E effs, yield : Applied(effs, yield)
      PROVE  Goal
  BY <1>0, <1>1, AfterTyped DEF Pass, Applied
<1>2. ASSUME calls' = calls, pc # "provider", pc' # "provider"
      PROVE  Goal
  BY <1>2
<1>3. CASE Load \/ ApplyEffect \/ EndStep \/ FinishTools \/ CancelOpen
  <2>1. pc # "provider" /\ pc' # "provider"
    BY <1>0, <1>3, PipelineOrder DEF Load, ApplyEffect, EndStep, FinishTools, CancelOpen, Applied, Stop
  <2>2. calls' \in {calls, 0}
    BY <1>3 DEF Load, ApplyEffect, EndStep, FinishTools, CancelOpen, history
  <2> QED BY <2>1, <2>2
<1>4. CASE SkipCancelled
  BY <1>1, <1>4 DEF SkipCancelled, history
<1>5. CASE SlashCommand
  BY <1>1, <1>5, PipelineOrder DEF SlashCommand, At, history
<1>6. CASE Steer
  BY <1>1, <1>6, PipelineOrder DEF Steer, At, history
<1>7. CASE StopAtMaxTurns
  BY <1>1, <1>7, PipelineOrder DEF StopAtMaxTurns, At, history
<1>8. CASE Compact
  BY <1>1, <1>8, PipelineOrder DEF Compact, At, history
<1>9. CASE Approve
  BY <1>1, <1>9, PipelineOrder DEF Approve, At, history
<1>10. CASE Recipe
  BY <1>1, <1>10, PipelineOrder DEF Recipe, At
<1>11. CASE DispatchTools
  <2>1. CASE Pass("tool_execution")
    BY <1>1, <1>11, <2>1, PipelineOrder DEF DispatchTools, At
  <2>2. CASE pc' = "tools"
    BY <1>0, <1>2, <1>11, <2>2, PipelineOrder DEF DispatchTools, At
  <2> QED BY <1>11, <2>1, <2>2 DEF DispatchTools
<1>12. CASE AnswerUnknown
  BY <1>1, <1>12, PipelineOrder DEF AnswerUnknown, At, history
<1>13. CASE Retry
  <2>1. pc = "retry" /\ (Pass("retry") \/ \E effs, yield : Applied(effs, yield))
    BY <1>13 DEF Retry, Nudge, Check, At
  <2>2. calls' \in {calls, 0}
    BY <1>13 DEF Retry, Check
  <2>3. pc # "provider" /\ pc' # "provider"
    BY <1>0, <2>1, PipelineOrder DEF Pass, Applied
  <2> QED BY <2>2, <2>3
<1>14. CASE StopHook
  BY <1>1, <1>14, PipelineOrder DEF StopHook, At, history
<1>15. CASE ExitOnError
  BY <1>1, <1>15, PipelineOrder DEF ExitOnError, At, history
<1>16. CASE Infer
  <2>1. pc # "provider" /\ (calls' = calls \/ (pc' = "provider" /\ calls' = calls + 1))
    BY <1>0, <1>16, PipelineOrder DEF Infer, At
  <2> QED BY <1>16, <2>1
<1>17. CASE ProviderReplies \/ ProviderFails
  BY <1>0, <1>17 DEF ProviderReplies, ProviderFails, StreamEnds
<1>18. CASE Client
  BY <1>0, <1>18 DEF Client, Reply, Resume, Confirm, QueueSteer, Cancel, history
<1>19. CASE Abort \/ Crash \/ UNCHANGED vars
  BY <1>0, <1>19 DEF Abort, Crash, vars, history
<1> QED BY <1>3, <1>4, <1>5, <1>6, <1>7, <1>8, <1>9, <1>10, <1>11, <1>12, <1>13, <1>14, <1>15, <1>16,
           <1>17, <1>18, <1>19 DEF Next, Machine

(* Operations that leave effects to be persisted.                           *)
LEMMA WorksBy ==
  ASSUME FinalOutput = FALSE, TypeInv, [Next]_vars, pc \in Working, pc' = "apply"
  PROVE  /\ \A op \in Operations \ {"llm"} : ~Pass(op)
         /\ \/ SlashCommand \/ Steer \/ StopAtMaxTurns \/ Compact \/ Approve \/ FinishTools
            \/ AnswerUnknown \/ Retry \/ StopHook \/ ExitOnError \/ CancelOpen
            \/ ProviderReplies \/ ProviderFails
<1>1. pc \notin {"apply", "idle", "load"}
  BY WorkingFacts
<1>2. \A op \in Operations \ {"llm"} : ~Pass(op)
  BY AfterTyped, WorkingFacts DEF Pass
<1>3. ~(Load \/ SkipCancelled \/ ApplyEffect \/ EndStep)
  BY <1>1, <1>2 DEF Load, SkipCancelled, ApplyEffect, EndStep
<1>4. ~(Recipe \/ DispatchTools \/ Infer)
  BY <1>2, PipelineOrder DEF Recipe, DispatchTools, Infer, Stop
<1>5. ~Client /\ ~Abort /\ ~Crash /\ ~UNCHANGED vars
  BY <1>1 DEF Client, Reply, Resume, Confirm, QueueSteer, Cancel, Abort, Crash, vars
<1> QED BY <1>2, <1>3, <1>4, <1>5 DEF Next, Machine

(* Operations that answer, speak as the user or end the step.               *)
LEMMA SpeakingFits ==
  ASSUME \A op \in Operations \ {"llm"} : ~Pass(op), pc' = "apply", NEW n,
         Steer \/ StopAtMaxTurns \/ FinishTools \/ AnswerUnknown \/ ExitOnError \/ CancelOpen
  PROVE  Fits(effects', conv) /\ Paid(effects', n)
<1>1. Operations \ {"llm"} = {"slash_command", "steer", "max_turns", "compaction", "tool_approval", "recipe",
                              "tool_execution", "unknown_tool", "retry", "stop_hook", "exit_on_error"}
  BY PipelineOrder
<1>2. CASE Steer
  <2> DEFINE e == Append_(Prompt("steer"))
  <2>1. effects' = [k \in 1 .. queue |-> e]
    BY <1>1, <1>2 DEF Steer, Applied
  <2>2. Plain(e)
    BY PlainEffects
  <2> HIDE DEF e
  <2>3. \A k \in DOMAIN effects' : Plain(effects'[k])
    BY <2>1, <2>2
  <2> QED BY <2>3, PlainFits
<1>3. CASE StopAtMaxTurns
  <2>1. effects' = <<Append_(Text("budget"))>>
    BY <1>1, <1>3 DEF StopAtMaxTurns, Applied
  <2> QED BY <2>1, PlainEffects, SingleFits
<1>4. CASE FinishTools
  <2>1. effects' = <<Append_(Response(running, "none"))>>
    BY <1>4 DEF FinishTools, Applied
  <2> QED BY <2>1, PlainEffects, SingleFits
<1>5. CASE AnswerUnknown
  <2>1. effects' = <<Append_(Response(IdsAt(snap, Unclaimed(snap)), "none"))>>
    BY <1>1, <1>5 DEF AnswerUnknown, Applied
  <2> QED BY <2>1, PlainEffects, SingleFits
<1>6. CASE ExitOnError
  <2>1. effects' = <<>>
    BY <1>1, <1>6 DEF ExitOnError, Applied
  <2> QED BY <2>1, SingleFits
<1>7. CASE CancelOpen
  <2>1. effects' = Closing(snap, {})
    BY <1>7 DEF CancelOpen, Stop, Applied
  <2>2. CASE effects' = <<>>
    BY <2>2, SingleFits
  <2>3. ASSUME NEW S, effects' = <<Append_(Response(S, "none"))>>
        PROVE  Fits(effects', conv) /\ Paid(effects', n)
    BY <2>3, PlainEffects, SingleFits
  <2> QED BY <2>1, <2>2, <2>3 DEF Closing
<1> QED BY <1>2, <1>3, <1>4, <1>5, <1>6, <1>7

(* A slash command hides the message it opened the turn with.               *)
LEMMA SlashCommandFits ==
  ASSUME TypeInv, StepInv, pc \in Working, ~Pass("slash_command"), SlashCommand, NEW n
  PROVE  Fits(effects', conv) /\ Paid(effects', n)
<1> DEFINE a == Hide(Len(snap))
           b == Append_(UserOnlyText)
           e == Append_(HiddenPrompt)
<1>1. effects' = <<a, b, e>> /\ Turn(snap) = {Len(snap)}
  BY DEF SlashCommand, Applied
<1>2. Len(snap) \in DOMAIN conv /\ ~IsAssistant(conv[Len(snap)]) /\ ~Stuck(conv)
  <2>1. /\ snap \in Seq(Message) /\ HasKickoff(snap)
        /\ \A i \in DOMAIN snap : i \in DOMAIN conv /\ conv[i] = snap[i]
        /\ Stuck(conv) => IsAssistant(Last(snap))
    BY SnapRuns
  <2>2. Kickoff(snap) \in Turn(snap) /\ IsKickoff(snap[Kickoff(snap)])
    BY <2>1, KickoffExists DEF Turn
  <2>3. Len(snap) \in DOMAIN snap /\ IsKickoff(snap[Len(snap)])
    BY <1>1, <2>2 DEF Turn
  <2>4. ~IsAssistant(snap[Len(snap)])
    BY <2>3 DEF IsKickoff, IsAssistant, UserKinds, AssistantKinds
  <2> QED BY <2>1, <2>3, <2>4 DEF Last
<1>3. /\ a.op = "hide" /\ a.at = Len(snap)
      /\ b.op = "append" /\ ~Fault(b)
      /\ Plain(e)
  BY PlainEffects DEF Hide, Append_, UserOnlyText, Msg, Fault, Errors
<1> HIDE DEF a, b, e
<1>4. \A k \in DOMAIN effects' : effects'[k] = a \/ effects'[k] = b \/ effects'[k] = e
  BY <1>1, Singles
<1>5. ~Fault(a) /\ ~Dark(a)
  BY <1>3 DEF Fault, Dark
<1> QED BY <1>2, <1>3, <1>4, <1>5 DEF Fits, Paid, Plain

(* The user is only asked about a call nobody asked about.                  *)
LEMMA ApproveFits ==
  ASSUME TypeInv, StepInv, ErrorsInv, pc \in Working, ~Pass("tool_approval"), Approve, NEW n
  PROVE  Fits(effects', conv) /\ Paid(effects', n)
<1>1. PICK lvl : \E q1 \in Orders(ToMark(snap)), q2 \in Orders(WithVerdict(snap, lvl, "denied")),
                    q3 \in Orders(WithVerdict(snap, lvl, "needs_approval")) :
                   effects' = ApprovalEffects(snap, q1, q2, q3)
  BY DEF Approve, Applied
<1>2. snap \in Seq(Message) /\ (Stuck(conv) => conv = snap)
  BY SnapRuns
<1>3. \A k \in DOMAIN effects' :
        effects'[k] \in {Patch(RequestAt(snap, i), note) : i \in DOMAIN snap, note \in {"yes", "no"}}
                          \cup {Append_(Ask(RequestAt(snap, i))) : i \in WithVerdict(snap, lvl, "needs_approval")}
  BY <1>1, <1>2, ApprovalShape
<1>4. WithVerdict(snap, lvl, "needs_approval") # {} => ~Stuck(conv)
  <2>1. ASSUME NEW i \in WithVerdict(snap, lvl, "needs_approval")
        PROVE  ~Waiting(snap)
    <3>1. i \in Unanswered(snap) /\ RequestAt(snap, i) \notin Asked(snap)
      BY DEF WithVerdict, Pending
    <3> QED BY <3>1 DEF Waiting, Open, IdsAt
  <2> QED BY <1>2, <2>1 DEF ErrorsInv
<1>5. ASSUME NEW k \in DOMAIN effects'
      PROVE  effects'[k].op \notin {"hide", "replace"} /\ ~Fault(effects'[k]) /\ (Dark(effects'[k]) => ~Stuck(conv))
  <2>1. ASSUME NEW r, NEW note, effects'[k] = Patch(r, note)
        PROVE  Plain(effects'[k])
    BY <2>1, PlainEffects
  <2>2. ASSUME NEW r, effects'[k] = Append_(Ask(r))
        PROVE  effects'[k].op = "append" /\ ~Fault(effects'[k])
    BY <2>2 DEF Append_, Ask, Msg, Fault, Errors
  <2> QED BY <1>3, <1>4, <2>1, <2>2 DEF Plain
<1> QED BY <1>5 DEF Fits, Paid

(* The end of a turn carries no error.                                      *)
LEMMA EndedStuck ==
  ASSUME TypeInv, StepInv, ErrorsInv, pc \in Working, EndsTurn(snap)
  PROVE  ~Stuck(conv)
<1>1. Stuck(conv) => conv = snap
  BY SnapRuns
<1>2. TrailingError(snap) = "none"
  BY DEF EndsTurn, TrailingError, Errors
<1> QED BY <1>1, <1>2 DEF ErrorsInv

LEMMA StopHookFits ==
  ASSUME TypeInv, StepInv, ErrorsInv, pc \in Working, ~Pass("stop_hook"), StopHook, NEW n
  PROVE  Fits(effects', conv) /\ Paid(effects', n)
<1>1. EndsTurn(snap)
  BY DEF StopHook
<1>2. effects' \in {<<>>, <<Append_(UserOnlyText)>>, <<Append_(Msg("denial", FALSE, TRUE, {}, "none"))>>}
  BY <1>1 DEF StopHook, Applied
<1> QED BY <1>1, <1>2, EndedStuck, PlainEffects, SingleFits

(* Past the tools, the user has been asked about all that is open.          *)
LEMMA AllAsked ==
  ASSUME FinalOutput = FALSE, TypeInv, StepInv, ChatInv, PassedInv, ~cancelled, pc \in AfterTools
  PROVE  Waiting(conv)
<1>1. pc \in Working
  BY PipelineOrder, WorkingFacts DEF AfterTools
<1>2. \A i \in Unanswered(snap) : RequestAt(snap, i) \in Asked(snap)
  BY PassedFacts DEF AwaitsUser
<1>3. Waiting(snap)
  BY <1>2 DEF Waiting, Open, IdsAt
<1> QED BY <1>1, <1>3, SnapRuns

LEMMA RetryFits ==
  ASSUME FinalOutput = FALSE, TypeInv, StepInv, ChatInv, PassedInv, ~Pass("retry"), Retry
  PROVE  Fits(effects', conv) /\ Paid(effects', calls' - used.crashes)
<1>1. pc = "retry" /\ ~cancelled /\ pc \in AfterTools /\ pc \in Working
  BY PipelineOrder, WorkingFacts DEF Retry, At, AfterTools
<1>2. Waiting(conv)
  BY <1>1, AllAsked
<1>3. \/ effects' = <<Append_(Msg("nudge", FALSE, TRUE, {}, "none"))>>
      \/ effects' = <<Append_(HiddenPrompt)>>
      \/ effects' = <<Append_(ErrorMsg("otherError"))>>
      \/ effects' = <<Replace(ResetConversation(snap))>> /\ calls' = 0
  BY DEF Retry, Nudge, Check, Applied
<1>4. "otherError" \in Errors
  BY DEF Errors
<1>5. CASE effects' = <<Replace(ResetConversation(snap))>> /\ calls' = 0
  <2>1. snap \in Seq(Message) /\ HasKickoff(snap)
    BY <1>1, SnapRuns
  <2>2. ResetConversation(snap) \in Seq(Message) /\ ~Stuck(ResetConversation(snap))
    BY <2>1, ResetShape, ResetStuck
  <2>3. 0 <= Runs(ResetConversation(snap)) /\ Runs(ResetConversation(snap)) \in Nat
    BY <2>2, RunsCounted DEF Runs, One
  <2>4. used.crashes \in Nat
    BY DEF TypeInv, HistoryOK
  <2>5. calls' - used.crashes <= Runs(ResetConversation(snap))
    BY <1>5, <2>3, <2>4
  <2> QED BY <1>5, <2>2, <2>5, SingleFits
<1> QED BY <1>2, <1>3, <1>4, <1>5, PlainEffects, SingleFits

(* A compaction counts every run of the turn it rewrites.                   *)
LEMMA CompactFits ==
  ASSUME TypeInv, StepInv, BudgetInv, pc \in Working, ~Pass("compaction"), Compact
  PROVE  Fits(effects', conv) /\ Paid(effects', calls' - used.crashes)
<1>1. pc = "compaction" /\ calls' = calls
  BY DEF Compact, At, history
<1>2. effects' = <<Replace(Compacted(snap))>> \/ effects' = <<>>
  BY DEF Compact, Applied
<1>3. /\ conv \in Seq(Message) /\ snap \in Seq(Message) /\ HasKickoff(snap) /\ effects = <<>>
      /\ AssistantTurnCount(conv) <= AssistantTurnCount(snap)
  BY SnapRuns
<1>4. Ongoing <=> Spoken(conv)
  BY <1>1, <1>3, NoEffects DEF Ongoing
<1>5. calls <= Runs(conv) + used.crashes
  <2>1. /\ calls \in Nat /\ used.crashes \in Nat /\ Cardinality(Past(conv)) \in Nat
        /\ One(Spoken(conv)) \in Nat
    BY <1>3, RunsCounted DEF TypeInv, HistoryOK, One
  <2>2. One(Ongoing) = One(Spoken(conv))
    BY <1>4 DEF One
  <2> QED BY <2>1, <2>2 DEF BudgetInv, Runs
<1>6. /\ AssistantTurnCount(snap) <= Runs(Compacted(snap)) /\ ~Stuck(Compacted(snap))
      /\ Compacted(snap) \in Seq(Message)
  BY <1>3, CompactedRuns, CompactedShape
<1>7. /\ Runs(conv) <= AssistantTurnCount(conv) /\ Runs(conv) \in Nat
      /\ AssistantTurnCount(conv) \in Nat /\ AssistantTurnCount(snap) \in Nat
  BY <1>3, RunsCounted DEF Runs, One
<1>8. Runs(Compacted(snap)) \in Nat
  BY <1>6, RunsCounted DEF Runs, One
<1>9. calls' - used.crashes <= Runs(Compacted(snap))
  <2>1. calls \in Nat /\ used.crashes \in Nat
    BY DEF TypeInv, HistoryOK
  <2> QED BY <1>1, <1>3, <1>5, <1>6, <1>7, <1>8, <2>1
<1> QED BY <1>2, <1>6, <1>9, SingleFits

(* What an operation or an inference leaves to be persisted.                *)
LEMMA WorkFits ==
  ASSUME FinalOutput = FALSE, TypeInv, StepInv, ChatInv, PassedInv, BudgetInv, ErrorsInv,
         [Next]_vars, Works
  PROVE  /\ Fits(effects', conv) /\ Paid(effects', calls' - used.crashes)
         /\ pc = "provider" => Ongoing'
<1>1. pc \in Working /\ pc' = "apply"
  BY DEF Works
<1>2. /\ \A op \in Operations \ {"llm"} : ~Pass(op)
      /\ \/ SlashCommand \/ Steer \/ StopAtMaxTurns \/ Compact \/ Approve \/ FinishTools
         \/ AnswerUnknown \/ Retry \/ StopHook \/ ExitOnError \/ CancelOpen
         \/ ProviderReplies \/ ProviderFails
  BY <1>1, WorksBy
<1>3. {"slash_command", "steer", "max_turns", "compaction", "tool_approval", "unknown_tool", "retry",
       "stop_hook", "exit_on_error"} \subseteq Operations \ {"llm"}
  BY PipelineOrder
<1>4. CASE ProviderReplies \/ ProviderFails
  BY <1>4, ProviderFits
<1>5. ASSUME ~(ProviderReplies \/ ProviderFails)
      PROVE  pc # "provider"
  <2>1. ~(Abort \/ Crash)
    BY <1>1 DEF Abort, Crash
  <2> QED BY <1>1, <1>5, <2>1, CallsCounted
<1>6. CASE SlashCommand
  BY <1>1, <1>2, <1>3, <1>5, <1>4, <1>6, SlashCommandFits
<1>7. CASE Steer \/ StopAtMaxTurns \/ FinishTools \/ AnswerUnknown \/ ExitOnError \/ CancelOpen
  BY <1>1, <1>2, <1>4, <1>5, <1>7, SpeakingFits
<1>8. CASE Approve
  BY <1>1, <1>2, <1>3, <1>4, <1>5, <1>8, ApproveFits
<1>9. CASE StopHook
  BY <1>1, <1>2, <1>3, <1>4, <1>5, <1>9, StopHookFits
<1>10. CASE Retry
  BY <1>1, <1>2, <1>3, <1>4, <1>5, <1>10, RetryFits
<1>11. CASE Compact
  BY <1>1, <1>2, <1>3, <1>4, <1>5, <1>11, CompactFits
<1> QED BY <1>2, <1>4, <1>6, <1>7, <1>8, <1>9, <1>10, <1>11

(* An inference begins only where it has a run of its own to pay with, and  *)
(* within the budget.                                                       *)
LEMMA InferCounted ==
  ASSUME FinalOutput = FALSE, TypeInv, StepInv, ChatInv, PassedInv, BudgetInv, ErrorsInv,
         Infer, pc' = "provider"
  PROVE  /\ Waiting(conv)
         /\ calls <= Cardinality(Past(conv)) + used.crashes
         /\ calls + 1 <= MaxTurns + used.crashes
<1>1. /\ pc = "llm" /\ ~cancelled /\ InferenceApplies(snap)
      /\ pc \in Working /\ pc \in AfterTools /\ pc \in AfterTurns
  BY PipelineOrder, WorkingFacts
     DEF Infer, At, Stop, AfterTurns, AfterApproval, AfterRecipe, AfterTools
<1>2. /\ conv \in Seq(Message) /\ snap \in Seq(Message) /\ effects = <<>>
      /\ conv = snap \/ Trailing(conv) = {}
      /\ AssistantTurnCount(conv) <= AssistantTurnCount(snap)
  BY <1>1, SnapRuns
<1>3. ~Spoken(conv)
  <2>1. Spoken(conv) => conv = snap
    BY <1>2 DEF Spoken
  <2>2. Spoken(conv) => TrailingError(conv) # "none"
    BY <1>1, <1>2, <2>1, SpokenShown DEF InferenceApplies, ErrorsInv
  <2> QED BY <1>1, <2>1, <2>2 DEF InferenceApplies
<1>4. ~Ongoing
  BY <1>1, <1>2, <1>3, NoEffects DEF Ongoing
<1>5. /\ calls \in Nat /\ used.crashes \in Nat /\ MaxTurns \in Nat
      /\ Cardinality(Past(conv)) \in Nat /\ AssistantTurnCount(conv) \in Nat
      /\ AssistantTurnCount(snap) \in Nat
      /\ Runs(conv) <= AssistantTurnCount(conv)
  BY <1>2, RunsCounted, NumbersAssumption DEF TypeInv, HistoryOK
<1>6. calls <= Cardinality(Past(conv)) + used.crashes
  BY <1>4, <1>5 DEF BudgetInv, One
<1>7. Runs(conv) = Cardinality(Past(conv))
  BY <1>3, <1>5 DEF Runs, One
<1>8. ~(AssistantTurnCount(snap) >= MaxTurns)
  BY <1>1 DEF PassedInv, TurnsLeft
<1>9. Waiting(conv)
  BY <1>1, AllAsked
<1> QED BY <1>2, <1>5, <1>6, <1>7, <1>8, <1>9

-----------------------------------------------------------------------------
(* The count survives every step *)

CountInv == BudgetInv /\ ErrorsInv

LEMMA CountKept ==
  ASSUME calls' <= MaxTurns + used'.crashes,
         calls' <= Cardinality(Past(conv')) + used'.crashes + One(Ongoing'),
         Paid(effects', calls' - used'.crashes), Fits(effects', conv'),
         Stuck(conv') => TrailingError(conv') # "none" /\ Waiting(conv'),
         pc' = "provider" => Waiting(conv')
  PROVE  CountInv'
BY DEF CountInv, BudgetInv, ErrorsInv, TurnBudget

LEMMA CountTyped ==
  ASSUME TypeInv
  PROVE  /\ calls \in Nat /\ used.crashes \in Nat /\ MaxTurns \in Nat
         /\ conv \in Seq(Message) /\ snap \in Seq(Message) /\ effects \in Seq(Effect)
BY NumbersAssumption DEF TypeInv, ControlOK, StoreOK, HistoryOK

LEMMA PaidLess ==
  ASSUME NEW es, es \in Seq(Effect), NEW n \in Int, NEW m \in Int, m <= n, Paid(es, n)
  PROVE  Paid(es, m)
<1>1. ASSUME NEW k \in DOMAIN es, es[k].op = "replace"
      PROVE  m <= Runs(es[k].conv)
  <2>1. es[k].conv \in Seq(Message)
    <3>1. es[k] \in Effect
      OBVIOUS
    <3> QED BY <1>1, <3>1, EffectFields
  <2>2. Runs(es[k].conv) \in Nat
    BY <2>1, RunsCounted DEF Runs, One
  <2> QED BY <1>1, <2>2 DEF Paid
<1> QED BY <1>1 DEF Paid

LEMMA OnwardCount ==
  ASSUME FinalOutput = FALSE, TypeInv, TypeInv', StepInv, ChatInv, PassedInv, CountInv, [Next]_vars, Onward
  PROVE  CountInv'
<1>1. /\ conv' = conv /\ effects' = effects /\ used'.crashes = used.crashes
      /\ BudgetInv /\ ErrorsInv
  BY DEF Onward, Steady, CountInv
<1>2. /\ calls \in Nat /\ used.crashes \in Nat /\ MaxTurns \in Nat /\ calls' \in Nat
      /\ effects \in Seq(Effect) /\ Cardinality(Past(conv)) \in Nat
  BY CountTyped, RunsCounted DEF TypeInv, HistoryOK
<1>3. CASE Infer /\ pc' = "provider" /\ calls' = calls + 1
  <2>1. /\ Waiting(conv) /\ calls <= Cardinality(Past(conv)) + used.crashes
        /\ calls + 1 <= MaxTurns + used.crashes
    BY <1>1, <1>3, InferCounted
  <2>2. pc \in Working /\ effects = <<>>
    <3>1. pc \in Working
      BY <1>3, PipelineOrder, WorkingFacts DEF Infer, At
    <3> QED BY <3>1, SnapRuns
  <2>3. Ongoing'
    BY <1>3 DEF Ongoing
  <2>4. Paid(effects', calls' - used'.crashes)
    BY <1>1, <2>2, SingleFits
  <2>5. calls' <= Cardinality(Past(conv')) + used'.crashes + One(Ongoing')
    BY <1>1, <1>2, <1>3, <2>1, <2>3 DEF One
  <2> QED BY <1>1, <1>3, <2>1, <2>4, <2>5, CountKept DEF ErrorsInv
<1>4. CASE calls' \in {calls, 0} /\ ~(Infer /\ pc' = "provider" /\ calls' = calls + 1)
  <2>1. calls' <= calls
    BY <1>2, <1>4
  <2>2. Ongoing => Ongoing'
    <3>1. pc = "provider" => pc' = "provider"
      BY PipelineOrder DEF Onward
    <3> QED BY <1>1, <3>1 DEF Ongoing
  <2>3. pc' = "provider" => Waiting(conv')
    BY <1>1, CallsCounted, InferCounted DEF ErrorsInv
  <2>4. Paid(effects', calls' - used'.crashes)
    BY <1>1, <1>2, <2>1, PaidLess DEF BudgetInv
  <2>5. calls' <= Cardinality(Past(conv')) + used'.crashes + One(Ongoing')
    BY <1>1, <1>2, <2>1, <2>2 DEF BudgetInv, One
  <2>6. calls' <= MaxTurns + used'.crashes
    BY <1>1, <1>2, <2>1 DEF BudgetInv, TurnBudget
  <2> QED BY <1>1, <2>3, <2>4, <2>5, <2>6, CountKept DEF ErrorsInv
<1> QED BY <1>3, <1>4, CallsCounted

LEMMA EndsCount ==
  ASSUME TypeInv, TypeInv', CountInv, [Next]_vars, Ends
  PROVE  CountInv'
<1>1. /\ conv' = conv /\ effects' = <<>> /\ pc' \in {"idle", "load"}
      /\ BudgetInv /\ ErrorsInv
  BY DEF Ends, CountInv
<1>2. /\ calls \in Nat /\ used.crashes \in Nat /\ MaxTurns \in Nat /\ calls' \in Nat /\ used'.crashes \in Nat
      /\ Cardinality(Past(conv)) \in Nat
  BY CountTyped, RunsCounted DEF TypeInv, HistoryOK
<1>3. calls' <= calls
  BY <1>1, <1>2, CallsCounted
<1>4. /\ calls' <= MaxTurns + used'.crashes
      /\ calls' <= Cardinality(Past(conv')) + used'.crashes + One(Ongoing')
  <2>1. CASE used'.crashes = used.crashes + 1
    <3>1. One(Ongoing) \in {0, 1} /\ One(Ongoing') \in {0, 1}
      BY DEF One
    <3>2. calls' <= Cardinality(Past(conv)) + used.crashes + 1
      BY <1>1, <1>2, <1>3, <3>1 DEF BudgetInv
    <3>3. calls' <= Cardinality(Past(conv')) + used'.crashes + One(Ongoing')
      BY <1>1, <1>2, <2>1, <3>1, <3>2
    <3>4. calls' <= MaxTurns + used'.crashes
      BY <1>1, <1>2, <1>3, <2>1 DEF BudgetInv, TurnBudget
    <3> QED BY <3>3, <3>4
  <2>2. CASE effects = <<>> /\ used'.crashes = used.crashes
    <3>1. pc # "provider"
      <4>1. ~(ProviderReplies \/ ProviderFails)
        BY <1>1 DEF ProviderReplies, ProviderFails, StreamEnds
      <4>2. ~(Abort \/ Crash)
        <5>1. used \in [prompts: Nat, steers: Nat, errors: Nat, crashes: Nat]
          BY DEF TypeInv, HistoryOK
        <5> QED BY <1>2, <2>2, <5>1 DEF Abort, Crash
      <4> QED BY <1>1, <4>1, <4>2, CallsCounted
    <3>2. Ongoing => Ongoing'
      BY <1>1, <2>2, <3>1, NoEffects DEF Ongoing
    <3>3. calls' <= Cardinality(Past(conv')) + used'.crashes + One(Ongoing')
      BY <1>1, <1>2, <1>3, <2>2, <3>2 DEF BudgetInv, One
    <3>4. calls' <= MaxTurns + used'.crashes
      BY <1>1, <1>2, <1>3, <2>2 DEF BudgetInv, TurnBudget
    <3> QED BY <3>3, <3>4
  <2> QED BY <2>1, <2>2 DEF Ends, Steady
<1>5. Fits(effects', conv') /\ Paid(effects', calls' - used'.crashes)
  BY <1>1, SingleFits
<1> QED BY <1>1, <1>4, <1>5, CountKept DEF ErrorsInv

LEMMA WorksCount ==
  ASSUME FinalOutput = FALSE, TypeInv, TypeInv', StepInv, ChatInv, PassedInv, CountInv, [Next]_vars, Works
  PROVE  CountInv'
<1>1. /\ conv' = conv /\ effects = <<>> /\ pc' = "apply" /\ used'.crashes = used.crashes
      /\ BudgetInv /\ ErrorsInv
  BY SnapRuns DEF Works, CountInv
<1>2. /\ calls \in Nat /\ used.crashes \in Nat /\ MaxTurns \in Nat /\ calls' \in Nat
      /\ Cardinality(Past(conv)) \in Nat
  BY CountTyped, RunsCounted DEF TypeInv, HistoryOK
<1>3. calls' <= calls
  BY <1>1, <1>2, CallsCounted
<1>4. /\ Fits(effects', conv) /\ Paid(effects', calls' - used.crashes)
      /\ pc = "provider" => Ongoing'
  BY <1>1, WorkFits
<1>5. Ongoing => Ongoing'
  BY <1>1, <1>4, NoEffects DEF Ongoing
<1>6. calls' <= Cardinality(Past(conv')) + used'.crashes + One(Ongoing')
  BY <1>1, <1>2, <1>3, <1>5 DEF BudgetInv, One
<1>7. calls' <= MaxTurns + used'.crashes
  BY <1>1, <1>2, <1>3 DEF BudgetInv, TurnBudget
<1> QED BY <1>1, <1>4, <1>6, <1>7, CountKept DEF ErrorsInv

(* A prompt of the user begins a new count; an answer ends a run.           *)
LEMMA ReplyCount ==
  ASSUME TypeInv, TypeInv', StepInv, CountInv, NEW note \in PromptNotes, Reply(note)
  PROVE  CountInv'
<1>1. /\ conv' = Append(conv, Prompt(note)) /\ effects' = <<>> /\ calls' = 0 /\ pc' = "load"
      /\ ~IsAssistant(Prompt(note)) /\ Prompt(note) \in Message
  <2>1. note \in Notes
    BY SetsAssumption DEF Notes
  <2>2. ~IsAssistant(Prompt(note)) /\ Prompt(note) \in Message
    BY <2>1, MessagesTyped DEF Prompt, Msg, IsAssistant, AssistantKinds
  <2> QED BY <2>2 DEF Reply, StepInv, step
<1>2. /\ conv \in Seq(Message) /\ conv' \in Seq(Message) /\ used'.crashes \in Nat /\ MaxTurns \in Nat
      /\ Cardinality(Past(conv')) \in Nat
  <2>1. conv \in Seq(Message) /\ conv' \in Seq(Message) /\ used'.crashes \in Nat /\ MaxTurns \in Nat
    BY CountTyped DEF TypeInv, StoreOK, HistoryOK
  <2> QED BY <2>1, RunsCounted
<1>3. ~Stuck(conv')
  BY <1>1, <1>2, AppendRuns DEF Stuck, Faulty
<1>4. Fits(effects', conv') /\ Paid(effects', calls' - used'.crashes)
  BY <1>1, SingleFits
<1>5. calls' <= Cardinality(Past(conv')) + used'.crashes + One(Ongoing')
  <2>1. One(Ongoing') \in {0, 1}
    BY DEF One
  <2> QED BY <1>1, <1>2, <2>1
<1>6. calls' <= MaxTurns + used'.crashes
  BY <1>1, <1>2
<1> QED BY <1>1, <1>3, <1>4, <1>5, <1>6, CountKept

LEMMA ConfirmCount ==
  ASSUME TypeInv, TypeInv', CountInv, NEW r \in Requests, NEW ans \in GivenAnswers, Confirm(r, ans)
  PROVE  CountInv'
<1> DEFINE m == Approval(r, ans)
<1>1. /\ conv' = Append(conv, m) /\ UNCHANGED <<effects, calls, used, pc>>
      /\ BudgetInv /\ ErrorsInv
  BY DEF Confirm, step, CountInv
<1>2. /\ m \in Message /\ m.kind = "approval" /\ ~m.av /\ ~IsKickoff(m) /\ ~IsAssistant(m)
  <2>1. ans \in Answers
    BY SetsAssumption
  <2> QED BY <2>1, MessagesTyped DEF Approval, Msg, IsKickoff, IsAssistant, AssistantKinds
<1> HIDE DEF m
<1>3. /\ calls \in Nat /\ used.crashes \in Nat /\ MaxTurns \in Nat
      /\ conv \in Seq(Message) /\ conv' \in Seq(Message)
      /\ Cardinality(Past(conv)) \in Nat /\ Cardinality(Past(conv')) \in Nat
  <2>1. conv \in Seq(Message) /\ conv' \in Seq(Message)
    BY DEF TypeInv, StoreOK
  <2> QED BY <2>1, CountTyped, RunsCounted
<1>4. Trailing(conv') = {} /\ Runs(conv) <= Cardinality(Past(conv'))
  BY <1>1, <1>2, <1>3, AppendRuns
<1>5. ~Stuck(conv')
  BY <1>4 DEF Stuck, Faulty
<1>6. Waiting(conv) => Waiting(conv')
  <2>1. Extended(conv', conv) /\ Added(conv', conv) = {Len(conv) + 1} /\ conv'[Len(conv) + 1] = m
    BY <1>1, <1>2, <1>3, AppendShape
  <2> QED BY <1>2, <1>3, <2>1, WaitingKept
<1>7. EndsWithProviderTurn(conv') <=> EndsWithProviderTurn(conv)
  BY <1>1, <1>2, <1>3, AppendShown
<1>8. Fits(effects', conv')
  <2>1. \A i \in DOMAIN conv : i \in DOMAIN conv' /\ conv'[i] = conv[i]
    BY <1>1, <1>3
  <2> QED BY <1>1, <1>5, <1>6, <1>7, <2>1 DEF ErrorsInv, Fits
<1>9. calls' <= Cardinality(Past(conv')) + used'.crashes + One(Ongoing')
  <2> DEFINE x == pc = "provider" \/ \E k \in DOMAIN effects : Says(effects[k]) \/ Fault(effects[k])
  <2>1. (Ongoing => Spoken(conv) \/ x) /\ (x => Ongoing')
    BY <1>1 DEF Ongoing
  <2> HIDE DEF x
  <2>2. calls <= Cardinality(Past(conv)) + used.crashes + One(Ongoing)
        /\ Cardinality(Past(conv)) + One(Spoken(conv)) <= Cardinality(Past(conv'))
    BY <1>1, <1>4 DEF BudgetInv, Runs
  <2>3. /\ One(Ongoing) \in {0, 1} /\ One(Spoken(conv)) \in {0, 1} /\ One(Ongoing') \in {0, 1}
        /\ One(Ongoing) <= One(Spoken(conv)) + One(Ongoing')
    BY <2>1 DEF One
  <2>4. calls <= Cardinality(Past(conv')) + used.crashes + One(Ongoing')
    BY <1>3, <2>2, <2>3
  <2> QED BY <1>1, <2>4
<1> QED BY <1>1, <1>5, <1>6, <1>8, <1>9, CountKept DEF BudgetInv, TurnBudget, ErrorsInv

(* Persisting an effect.                                                    *)
LEMMA ApplyCount ==
  ASSUME TypeInv, TypeInv', StepInv, RetriesInv, CountInv, ApplyEffect
  PROVE  CountInv'
<1>1. PICK e \in Effect :
        /\ e = effects[1] /\ 1 \in DOMAIN effects /\ conv' = Stored(conv, e)
        /\ \A k \in DOMAIN effects' : k + 1 \in DOMAIN effects /\ effects'[k] = effects[k + 1]
        /\ \A k \in DOMAIN effects : k = 1 \/ (k - 1 \in DOMAIN effects' /\ effects[k] = effects'[k - 1])
        /\ \A k \in DOMAIN effects' : effects'[k].op # "replace"
        /\ e.op = "replace" => effects' = <<>>
        /\ used' = used /\ pc' = pc
  BY ApplyEffectShape
<1>2. /\ pc = "apply" /\ BudgetInv /\ ErrorsInv
      /\ calls' = IF e.op = "append" /\ e.msg.note = "steer" THEN 0 ELSE calls
  BY <1>1 DEF ApplyEffect, CountInv, TypeInv, ControlOK
<1>3. /\ calls \in Nat /\ used.crashes \in Nat /\ MaxTurns \in Nat /\ calls' \in Nat /\ calls' <= calls
      /\ conv \in Seq(Message) /\ conv' \in Seq(Message) /\ DOMAIN effects' \subseteq Nat \ {0}
      /\ Cardinality(Past(conv)) \in Nat /\ Cardinality(Past(conv')) \in Nat
  <2>1. conv \in Seq(Message) /\ conv' \in Seq(Message) /\ effects' \in Seq(Effect)
    BY DEF TypeInv, ControlOK, StoreOK
  <2>2. DOMAIN effects' \subseteq Nat \ {0}
    BY <2>1
  <2>3. calls' \in Nat /\ calls' <= calls
    BY <1>2, CountTyped
  <2> QED BY <2>1, <2>2, <2>3, CountTyped, RunsCounted
<1> DEFINE Left == \E k \in DOMAIN effects' : Says(effects'[k]) \/ Fault(effects'[k])
<1>4. /\ Ongoing => Spoken(conv) \/ Says(e) \/ Fault(e) \/ Left
      /\ Ongoing' <=> Spoken(conv') \/ Left
  BY <1>1, <1>2 DEF Ongoing
<1> HIDE DEF Left
<1>5. ASSUME Fits(effects', conv'), Stuck(conv') => TrailingError(conv') # "none" /\ Waiting(conv'),
             calls' <= Cardinality(Past(conv')) + used.crashes + One(Ongoing')
      PROVE  CountInv'
  <2>1. Paid(effects', calls' - used'.crashes)
    BY <1>1 DEF Paid
  <2>2. calls' <= MaxTurns + used'.crashes
    BY <1>1, <1>2, <1>3 DEF BudgetInv, TurnBudget
  <2> QED BY <1>1, <1>2, <1>5, <2>1, <2>2, CountKept
<1>6. ASSUME \A i \in DOMAIN conv : i \in DOMAIN conv' /\ (IsAssistant(conv'[i]) <=> IsAssistant(conv[i])),
             ~Fault(e) /\ ~Stuck(conv) => ~Stuck(conv'),
             Says(e) => ~EndsWithProviderTurn(conv')
      PROVE  Fits(effects', conv')
  <2>1. ASSUME NEW k \in DOMAIN effects', effects'[k].op = "hide"
        PROVE  effects'[k].at \in DOMAIN conv' /\ ~IsAssistant(conv'[effects'[k].at])
    BY <1>1, <1>2, <1>6, <2>1 DEF ErrorsInv, Fits
  <2>2. ASSUME NEW k \in DOMAIN effects', Dark(effects'[k])
        PROVE  ~Stuck(conv')
    <3>1. ~Stuck(conv) /\ ~Fault(e)
      BY <1>1, <1>2, <2>2 DEF ErrorsInv, Fits
    <3> QED BY <1>6, <3>1
  <2>3. ASSUME NEW k \in DOMAIN effects', Fault(effects'[k])
        PROVE  /\ EndsWithProviderTurn(conv') => Waiting(conv')
               /\ \A j \in DOMAIN effects' : ~Dark(effects'[j]) /\ (j < k => Says(effects'[j]))
    <3>1. k + 1 \in DOMAIN effects /\ effects[k + 1] = effects'[k] /\ 1 < k + 1
      BY <1>1, <1>3
    <3>2. Says(e)
      BY <1>1, <1>2, <2>3, <3>1 DEF ErrorsInv, Fits
    <3>3. ASSUME NEW j \in DOMAIN effects'
          PROVE  ~Dark(effects'[j]) /\ (j < k => Says(effects'[j]))
      <4>1. j + 1 \in DOMAIN effects /\ effects[j + 1] = effects'[j] /\ (j < k => j + 1 < k + 1)
        BY <1>1, <1>3
      <4> QED BY <1>2, <2>3, <3>1, <4>1 DEF ErrorsInv, Fits
    <3> QED BY <1>6, <3>2, <3>3
  <2> QED BY <1>1, <2>1, <2>2, <2>3 DEF Fits
<1>7. CASE e.op = "append"
  <2> DEFINE m == e.msg
  <2>1. conv' = Append(conv, m) /\ m \in Message
    BY <1>1, <1>3, <1>7, StoredShape
  <2>2. \A i \in DOMAIN conv : i \in DOMAIN conv' /\ conv'[i] = conv[i]
    BY <1>3, <2>1
  <2>3. CASE IsAssistant(m)
    <3>1. ~IsKickoff(m) /\ m.kind # "response"
      BY <2>3 DEF IsKickoff, IsAssistant, UserKinds, AssistantKinds
    <3>2. /\ Past(conv') = Past(conv)
          /\ Spoken(conv') <=> Spoken(conv) \/ m.av \/ m.kind \in Errors
          /\ Faulty(conv') <=> Faulty(conv) \/ m.kind \in Errors
      BY <1>3, <2>1, <2>3, AppendRuns
    <3>3. /\ m.av => ~EndsWithProviderTurn(conv')
          /\ ~m.av => (EndsWithProviderTurn(conv') <=> EndsWithProviderTurn(conv))
      BY <1>3, <2>1, <2>3, <3>1, AppendShown
    <3>4. /\ Says(e) => m.av
          /\ Fault(e) <=> m.kind \in Errors
          /\ ~m.av /\ ~Fault(e) => Dark(e)
      BY <1>7, <2>3 DEF Says, Fault, Dark
    <3>5. Fits(effects', conv')
      BY <1>6, <2>2, <3>2, <3>3, <3>4 DEF Stuck
    <3>6. Stuck(conv') => TrailingError(conv') # "none" /\ Waiting(conv')
      <4>1. ASSUME Stuck(conv')
            PROVE  TrailingError(conv') # "none" /\ Waiting(conv')
        <5>1. ~m.av /\ EndsWithProviderTurn(conv)
          BY <3>3, <4>1 DEF Stuck
        <5>2. m.kind \in Errors
          BY <1>1, <1>2, <3>2, <3>3, <3>4, <4>1, <5>1 DEF Stuck, ErrorsInv, Fits
        <5>3. Waiting(conv)
          BY <1>1, <1>2, <3>4, <5>1, <5>2 DEF ErrorsInv, Fits
        <5>4. /\ Extended(conv', conv) /\ Added(conv', conv) = {Len(conv) + 1} /\ conv'[Len(conv) + 1] = m
              /\ Len(conv') = Len(conv) + 1
          BY <1>3, <2>1, AppendShape
        <5>5. m.kind # "request" /\ m.kind # "none"
          BY <5>2 DEF Errors
        <5>6. Waiting(conv')
          BY <1>3, <3>1, <5>3, <5>4, <5>5, WaitingKept
        <5>7. conv' # <<>> /\ Last(conv') = m
          BY <1>3, <5>4 DEF Last
        <5> QED BY <5>2, <5>5, <5>6, <5>7 DEF TrailingError
      <4> QED BY <4>1
    <3>7. Ongoing => Ongoing'
      BY <1>4, <3>2, <3>4
    <3>8. calls' <= Cardinality(Past(conv')) + used.crashes + One(Ongoing')
      <4>1. Cardinality(Past(conv')) = Cardinality(Past(conv))
        BY <3>2
      <4>2. One(Ongoing) \in {0, 1} /\ One(Ongoing') \in {0, 1} /\ One(Ongoing) <= One(Ongoing')
        BY <3>7 DEF One
      <4>3. calls <= Cardinality(Past(conv)) + used.crashes + One(Ongoing)
        BY <1>2 DEF BudgetInv
      <4> QED BY <1>3, <4>1, <4>2, <4>3
    <3> QED BY <1>5, <3>5, <3>6, <3>8
  <2>4. CASE ~IsAssistant(m)
    <3>1. ~Says(e) /\ ~Fault(e)
      BY <2>4 DEF Says, Fault, IsAssistant, Errors, AssistantKinds
    <3>2. Trailing(conv') = {} /\ (~IsKickoff(m) => Runs(conv) <= Cardinality(Past(conv')))
      BY <1>3, <2>1, <2>4, AppendRuns
    <3>3. ~Stuck(conv')
      BY <3>2 DEF Stuck, Faulty
    <3>4. Fits(effects', conv')
      BY <1>6, <2>2, <3>1, <3>3
    <3>5. One(Ongoing) \in {0, 1} /\ One(Spoken(conv)) \in {0, 1} /\ One(Ongoing') \in {0, 1}
      BY DEF One
    <3>6. CASE IsKickoff(m)
      <4>1. m.note = "steer"
        BY <1>1, <1>7, <3>6 DEF RetriesInv
      <4>2. calls' = 0
        BY <1>2, <1>7, <4>1
      <4>3. calls' <= Cardinality(Past(conv')) + used.crashes + One(Ongoing')
        BY <1>3, <3>5, <4>2
      <4> QED BY <1>5, <3>3, <3>4, <4>3
    <3>7. CASE ~IsKickoff(m)
      <4>1. One(Ongoing) <= One(Spoken(conv)) + One(Ongoing')
        BY <1>4, <3>1 DEF One
      <4>2. /\ calls <= Cardinality(Past(conv)) + used.crashes + One(Ongoing)
            /\ Cardinality(Past(conv)) + One(Spoken(conv)) <= Cardinality(Past(conv'))
        BY <1>2, <3>2, <3>7 DEF BudgetInv, Runs
      <4>3. calls' <= Cardinality(Past(conv')) + used.crashes + One(Ongoing')
        BY <1>3, <3>5, <4>1, <4>2
      <4> QED BY <1>5, <3>3, <3>4, <4>3
    <3> QED BY <3>6, <3>7
  <2> QED BY <2>3, <2>4
<1>8. CASE e.op \in {"patch", "hide", "usage"}
  <2>1. ~Says(e) /\ ~Fault(e) /\ (e.op = "hide" => e.at \in DOMAIN conv /\ ~IsAssistant(conv[e.at]))
    BY <1>1, <1>2, <1>8 DEF Says, Fault, ErrorsInv, Fits
  <2>2. /\ Past(conv') = Past(conv) /\ (Spoken(conv') <=> Spoken(conv)) /\ (Faulty(conv') <=> Faulty(conv))
        /\ EndsWithProviderTurn(conv') => EndsWithProviderTurn(conv)
        /\ TrailingError(conv) # "none" => TrailingError(conv') # "none"
    BY <1>1, <1>3, <1>8, <2>1, EditedRuns
  <2>3. Extended(conv', conv) /\ Added(conv', conv) = {}
    BY <1>1, <1>3, <1>8, StoredShape
  <2>4. \A i \in DOMAIN conv : i \in DOMAIN conv' /\ (IsAssistant(conv'[i]) <=> IsAssistant(conv[i]))
    <3>1. DOMAIN conv \subseteq DOMAIN conv'
      BY <1>3, <2>3, ExtendedTurn
    <3> QED BY <2>3, <3>1 DEF Extended, Like, IsAssistant
  <2>5. Waiting(conv) => Waiting(conv')
    BY <1>3, <2>3, WaitingKept
  <2>6. Stuck(conv') => Stuck(conv)
    BY <2>2 DEF Stuck
  <2>7. Fits(effects', conv')
    BY <1>6, <2>1, <2>4, <2>6
  <2>8. calls' <= Cardinality(Past(conv')) + used.crashes + One(Ongoing')
    <3>1. Cardinality(Past(conv')) = Cardinality(Past(conv))
      BY <2>2
    <3>2. Ongoing => Ongoing'
      BY <1>4, <2>1, <2>2
    <3>3. One(Ongoing) \in {0, 1} /\ One(Ongoing') \in {0, 1} /\ One(Ongoing) <= One(Ongoing')
      BY <3>2 DEF One
    <3>4. calls <= Cardinality(Past(conv)) + used.crashes + One(Ongoing)
      BY <1>2 DEF BudgetInv
    <3> QED BY <1>3, <3>1, <3>3, <3>4
  <2> QED BY <1>2, <1>5, <2>2, <2>5, <2>6, <2>7, <2>8 DEF ErrorsInv
<1>9. CASE e.op = "replace"
  <2>1. conv' = e.conv /\ effects' = <<>> /\ calls' = calls
    BY <1>1, <1>2, <1>3, <1>9, StoredShape
  <2>2. ~Stuck(conv') /\ calls - used.crashes <= Runs(conv')
    BY <1>1, <1>2, <1>9, <2>1 DEF ErrorsInv, Fits, BudgetInv, Paid
  <2>3. One(Spoken(conv')) \in {0, 1} /\ One(Ongoing') \in {0, 1} /\ One(Spoken(conv')) <= One(Ongoing')
    BY <1>4 DEF One
  <2>4. calls' <= Cardinality(Past(conv')) + used.crashes + One(Ongoing')
    BY <1>3, <2>1, <2>2, <2>3 DEF Runs
  <2>5. Fits(effects', conv')
    BY <2>1, SingleFits
  <2> QED BY <1>5, <2>2, <2>4, <2>5
<1> QED BY <1>3, <1>7, <1>8, <1>9, StoredShape

LEMMA CountInvStep ==
  ASSUME FinalOutput = FALSE, TypeInv, TypeInv', StepInv, ChatInv, PassedInv, RetriesInv, CountInv, [Next]_vars
  PROVE  CountInv'
<1>1. CASE Speaks
  BY <1>1, ReplyCount, ConfirmCount DEF Speaks
<1> QED BY <1>1, StepClass, OnwardCount, EndsCount, WorksCount, ApplyCount

LEMMA CountInvInit == TypeInv /\ Init => CountInv
<1> SUFFICES ASSUME TypeInv, Init PROVE CountInv
  OBVIOUS
<1>1. /\ conv = <<>> /\ effects = <<>> /\ calls = 0 /\ used.crashes = 0 /\ pc = "idle"
      /\ conv \in Seq(Message) /\ MaxTurns \in Nat /\ Cardinality(Past(conv)) \in Nat
  <2>1. conv = <<>> /\ effects = <<>> /\ calls = 0 /\ used.crashes = 0 /\ pc = "idle"
    BY DEF Init
  <2>2. conv \in Seq(Message) /\ MaxTurns \in Nat
    BY CountTyped
  <2> QED BY <2>1, <2>2, RunsCounted
<1>2. ~Stuck(conv)
  <2>1. ~Faulty(conv)
    BY <1>1, NoEffects DEF Faulty, Trailing
  <2> QED BY <2>1 DEF Stuck
<1>3. One(Ongoing) \in {0, 1}
  BY DEF One
<1>4. Fits(effects, conv) /\ Paid(effects, calls - used.crashes)
  BY <1>1, SingleFits
<1> QED BY <1>1, <1>2, <1>3, <1>4 DEF CountInv, BudgetInv, ErrorsInv, TurnBudget

(* Between two inputs of the user, or two retries, the provider is called   *)
(* at most MaxTurns times, plus once per interrupted run (ops_maxturns):    *)
(* the operation counts the assistant runs of the turn in the store, and    *)
(* each inference leaves one of its own there, whichever operation appends, *)
(* hides or compacts what it wrote, since a failed inference whose run is   *)
(* still open is never repeated.  A recipe with a response schema is left   *)
(* out: the continuation message ops_recipe writes opens a new turn.        *)
THEOREM TurnsAreBudgeted ==
  ASSUME FinalOutput = FALSE
  PROVE  Spec => []TurnBudget
<1>1. /\ TypeInv /\ TypeInv' /\ StepInv /\ ChatInv /\ PassedInv /\ RetriesInv /\ CountInv /\ [Next]_vars
           => CountInv'
      /\ TypeInv /\ TypeInv' /\ StepInv /\ RetriesInv /\ [Next]_vars => RetriesInv'
  BY CountInvStep, RetriesInvStep
<1>2. CountInv => TurnBudget
  BY DEF CountInv, BudgetInv
<1> QED BY <1>1, <1>2, CountInvInit, RetriesInvInit, ChatInvHolds, PassedInvHolds, PTL DEF Spec

=============================================================================
