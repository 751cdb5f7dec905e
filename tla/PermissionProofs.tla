-------------------------- MODULE PermissionProofs --------------------------
(***************************************************************************)
(* No tool call is executed without permission, for all values of the      *)
(* constants of TurnMachine.                                               *)
(*                                                                         *)
(* The dispatch reads a snapshot, while the user's answers keep coming in: *)
(* the invariant says what the marks in the store have to do with the      *)
(* answers given so far, and keeps that across effects that are still to   *)
(* be persisted, replacements of the whole conversation included.          *)
(***************************************************************************)
EXTENDS TurnProofs

(* Requests, questions and answers in c stem from d, marks included. *)
Weighty == {"request", "ask", "approval"}

Carried(c, d) ==
  \A i \in DOMAIN c : c[i].kind \in Weighty =>
    \E j \in DOMAIN d : d[j].kind = c[i].kind /\ d[j].ids = c[i].ids /\ d[j].note = c[i].note

Allowed(A, r) == \E ans \in Allowing : <<r, ans>> \in A
Denied(A, r)  == \E ans \in Denying : <<r, ans>> \in A
Halted(c, r)  == \A i \in DOMAIN c : c[i].kind = "request" /\ r \in c[i].ids => c[i].note = "no"
AskedIn(c, r) == \E i \in DOMAIN c : c[i].kind = "ask" /\ r \in c[i].ids

(* A conversation c fits the answers A given so far and the requests E       *)
(* emitted so far: the user does not answer both ways, and stored answers    *)
(* are the user's;                                                           *)
AnswersFit(c, A) ==
  /\ \A r \in Requests : ~(Allowed(A, r) /\ Denied(A, r))
  /\ \A i \in DOMAIN c : c[i].kind = "approval" => \A r \in c[i].ids : <<r, c[i].note>> \in A

(* a request the user was asked about is not executable unless allowed, and  *)
(* never once it was denied;                                                 *)
MarksFit(c, A) ==
  \A r \in Requests : /\ AskedIn(c, r) => Allowed(A, r) \/ Halted(c, r)
                      /\ Denied(A, r) => Halted(c, r)

(* what is asked or answered was emitted.                                    *)
EmittedFit(c, A, E) ==
  /\ \A i \in DOMAIN c : c[i].kind \in {"request", "ask"} => c[i].ids \subseteq E
  /\ \A r \in Requests : Allowed(A, r) \/ Denied(A, r) => r \in E

StoreFits(c, A, E) == AnswersFit(c, A) /\ MarksFit(c, A) /\ EmittedFit(c, A, E)

Appends(effs, k, kind) == effs[k].op = "append" /\ effs[k].msg.kind = kind

(* Effects that can be persisted one by one after c, with a crash between    *)
(* any two: requests are new, questions come after the mark, only allowed    *)
(* requests become executable, a replacement comes alone.                    *)
EffectsFit(effs, c, A, E) ==
  \A k \in DOMAIN effs :
    /\ ~Appends(effs, k, "approval")
    /\ Appends(effs, k, "request") \/ Appends(effs, k, "ask") => effs[k].msg.ids \subseteq E
    /\ Appends(effs, k, "request") => \A r \in effs[k].msg.ids :
         /\ ~AskedIn(c, r) /\ ~Allowed(A, r) /\ ~Denied(A, r)
         /\ \A j \in DOMAIN effs : Appends(effs, j, "ask") => r \notin effs[j].msg.ids
    /\ Appends(effs, k, "ask") => \A r \in effs[k].msg.ids :
         Allowed(A, r) \/ Halted(c, r) \/ \E j \in 1 .. k - 1 : effs[j] = Patch(r, "no")
    /\ effs[k].op = "patch" /\ effs[k].note = "yes" => Allowed(A, effs[k].id)
    /\ effs[k].op = "replace" => Len(effs) = 1 /\ Carried(effs[k].conv, c)

StoreInv   == StoreFits(conv, answers, emitted)
EffectsInv == EffectsFit(effects, conv, answers, emitted)

(* What a step works on is still in the store. *)
SnapInv == pc \in Operations \cup {"tools", "provider"} => Carried(snap, conv)

(* What nobody was asked about was approved by the inspectors, as of this    *)
(* step's pass through the approval operation.                               *)
Screened(c, lvl) == \A i \in Pending(c) : Verdict(RequestAt(c, i), lvl) = "approved"

ScreenInv == pc \in {"recipe", "tool_execution"} /\ ~cancelled /\ Mode # "chat" => Screened(snap, level)

PermissionInv == StoreInv /\ EffectsInv /\ SnapInv /\ ScreenInv

-----------------------------------------------------------------------------
(* Carrying messages over *)

LEMMA EditsKeep ==
  ASSUME NEW m \in Message
  PROVE  /\ LET n == [m EXCEPT !.av = FALSE] IN n.kind = m.kind /\ n.ids = m.ids /\ n.note = m.note
         /\ LET n == [m EXCEPT !.attempts = @ + 1] IN n.kind = m.kind /\ n.ids = m.ids /\ n.note = m.note
         /\ \A note \in Notes : LET n == [m EXCEPT !.note = note]
                                IN  n.kind = m.kind /\ n.ids = m.ids /\ n.note = note
BY DEF Message

LEMMA CarriedTransitive ==
  ASSUME NEW c, NEW d, NEW e, Carried(c, d), Carried(d, e)
  PROVE  Carried(c, e)
BY DEF Carried

LEMMA CarriedReflexive == \A c : Carried(c, c)
BY DEF Carried

LEMMA AppendFacts ==
  ASSUME NEW c \in Seq(Message), NEW m \in Message
  PROVE  /\ Append(c, m) \in Seq(Message)
         /\ \A i \in DOMAIN c : i \in DOMAIN Append(c, m) /\ Append(c, m)[i] = c[i]
         /\ \A i \in DOMAIN Append(c, m) : i \in DOMAIN c \/ Append(c, m)[i] = m
         /\ \E i \in DOMAIN Append(c, m) : Append(c, m)[i] = m
<1>1. Len(c) \in Nat /\ DOMAIN c = 1 .. Len(c)
  OBVIOUS
<1>2. /\ DOMAIN Append(c, m) = 1 .. Len(c) + 1 /\ Append(c, m)[Len(c) + 1] = m
      /\ Append(c, m) \in Seq(Message) /\ \A i \in 1 .. Len(c) : Append(c, m)[i] = c[i]
  BY <1>1
<1> QED BY <1>1, <1>2

LEMMA CarriedAppend ==
  ASSUME NEW b, NEW c \in Seq(Message), NEW m \in Message, Carried(b, c)
  PROVE  Carried(b, Append(c, m))
<1>1. Carried(c, Append(c, m))
  BY AppendFacts DEF Carried
<1> QED BY <1>1, CarriedTransitive

LEMMA CarriedMeaning ==
  ASSUME NEW c, NEW d, Carried(c, d), NEW r
  PROVE  /\ AskedIn(c, r) => AskedIn(d, r)
         /\ Halted(d, r) => Halted(c, r)
BY DEF Carried, AskedIn, Halted, Weighty

LEMMA CompactedCarried ==
  ASSUME NEW c \in Seq(Message)
  PROVE  Carried(Compacted(c), c)
<1> DEFINE hidden == [i \in DOMAIN c |-> [c[i] EXCEPT !.av = FALSE]]
           sm     == Msg("summary", FALSE, TRUE, {}, "none")
           hp     == HiddenPrompt
           latest == IF \E i \in DOMAIN c : c[i].av /\ c[i].kind \in {"prompt", "nudge", "denial"}
                     THEN <<hp>> ELSE <<>>
<1>1. DOMAIN c = 1 .. Len(c) /\ Len(c) \in Nat
  OBVIOUS
<1>2. ASSUME NEW i \in DOMAIN c
      PROVE  /\ hidden[i] = [c[i] EXCEPT !.av = FALSE] /\ hidden[i] \in Message
             /\ hidden[i].kind = c[i].kind /\ hidden[i].ids = c[i].ids /\ hidden[i].note = c[i].note
  <2>1. c[i] \in Message
    OBVIOUS
  <2> QED BY <2>1, EditsKeep, EditsTyped
<1>3. hidden \in Seq(Message) /\ Len(hidden) = Len(c)
  BY <1>1, <1>2
<1>4. /\ sm \in Message /\ hp \in Message
      /\ sm.kind \notin Weighty /\ hp.kind \notin Weighty
  BY MessagesTyped DEF Msg, HiddenPrompt, Weighty
<1>5. Compacted(c) = hidden \o <<sm>> \o latest
  BY DEF Compacted
<1>6. latest = <<hp>> \/ latest = <<>>
  OBVIOUS
<1> HIDE DEF hidden, sm, hp, latest
<1>7. \A i \in DOMAIN (hidden \o <<sm>> \o latest) :
        \/ i \in DOMAIN c /\ (hidden \o <<sm>> \o latest)[i] = hidden[i]
        \/ (hidden \o <<sm>> \o latest)[i] \in {sm, hp}
  <2>1. CASE latest = <<hp>>
    BY <2>1, <1>1, <1>3, <1>4
  <2>2. CASE latest = <<>>
    BY <2>2, <1>1, <1>3, <1>4
  <2> QED BY <1>6, <2>1, <2>2
<1> QED BY <1>2, <1>4, <1>5, <1>7 DEF Carried

LEMMA ResetCarried ==
  ASSUME NEW c \in Seq(Message), HasKickoff(c)
  PROVE  Carried(ResetConversation(c), c)
<1> DEFINE k == Kickoff(c)
           d == [i \in 1 .. k |-> IF i = k THEN [c[i] EXCEPT !.attempts = @ + 1] ELSE c[i]]
<1>1. k \in 1 .. Len(c) /\ DOMAIN c = 1 .. Len(c) /\ Len(c) \in Nat
  BY KickoffExists
<1>2. ASSUME NEW i \in 1 .. k
      PROVE  i \in DOMAIN c /\ d[i].kind = c[i].kind /\ d[i].ids = c[i].ids /\ d[i].note = c[i].note
  <2>1. c[i] \in Message /\ i \in DOMAIN c
    BY <1>1
  <2> QED BY <2>1, EditsKeep
<1>3. ResetConversation(c) = d /\ DOMAIN d = 1 .. k
  BY DEF ResetConversation
<1> HIDE DEF d
<1> QED BY <1>2, <1>3 DEF Carried

-----------------------------------------------------------------------------
(* Effects of the operations *)

(* Effects that neither ask, nor answer for the user, nor mark anything, and *)
(* bring no requests but those in S.                                         *)
Plain(effs, S) ==
  \A k \in DOMAIN effs :
    /\ effs[k].op \in {"append", "hide", "usage"}
    /\ effs[k].op = "append" =>
         effs[k].msg.kind \notin {"ask", "approval"}
           /\ (effs[k].msg.kind = "request" => effs[k].msg.ids \subseteq S)

LEMMA PlainJoined ==
  ASSUME NEW T, NEW a \in Seq(T), NEW b \in Seq(T), NEW S, Plain(a, S), Plain(b, S)
  PROVE  Plain(a \o b, S)
<1>1. \A k \in DOMAIN (a \o b) : \/ k \in DOMAIN a /\ (a \o b)[k] = a[k]
                                 \/ k - Len(a) \in DOMAIN b /\ (a \o b)[k] = b[k - Len(a)]
  OBVIOUS
<1> QED BY <1>1 DEF Plain

LEMMA PlainAppend ==
  ASSUME NEW m, m.kind \notin Weighty, NEW S
  PROVE  Plain(<<Append_(m)>>, S)
<1>1. Append_(m).op = "append" /\ Append_(m).msg = m
  BY DEF Append_
<1> QED BY <1>1 DEF Plain, Weighty

LEMMA PlainNothing == \A S : Plain(<<>>, S)
BY DEF Plain

(* They can be persisted after any conversation that knows nothing of S. *)
LEMMA PlainOK ==
  ASSUME NEW effs, NEW c, NEW A, NEW E, NEW S \in SUBSET E, Plain(effs, S),
         \A r \in S : ~AskedIn(c, r) /\ ~Allowed(A, r) /\ ~Denied(A, r)
  PROVE  EffectsFit(effs, c, A, E)
<1> SUFFICES ASSUME NEW k \in DOMAIN effs
             PROVE  /\ ~Appends(effs, k, "approval") /\ ~Appends(effs, k, "ask")
                    /\ effs[k].op # "patch" /\ effs[k].op # "replace"
                    /\ Appends(effs, k, "request") => effs[k].msg.ids \subseteq S
  BY DEF EffectsFit
<1> QED BY DEF Plain, Appends

LEMMA AnswerGiven ==
  ASSUME AnswersFit(conv, answers), Carried(snap, conv), NEW r, NEW S, HasAnswer(snap, r, S)
  PROVE  \E ans \in S : <<r, ans>> \in answers
<1>1. PICK i \in DOMAIN snap : snap[i].kind = "approval" /\ r \in snap[i].ids /\ snap[i].note \in S
  BY DEF HasAnswer, Turn
<1>2. PICK j \in DOMAIN conv : conv[j].kind = "approval" /\ r \in conv[j].ids /\ conv[j].note = snap[i].note
  BY <1>1 DEF Carried, Weighty
<1> QED BY <1>1, <1>2 DEF AnswersFit

(* Where an element of three joined sequences comes from, and its predecessor. *)
Pieces(d, a, b, c) ==
  \A k \in DOMAIN d :
    \/ k \in DOMAIN a /\ d[k] = a[k]
    \/ \E n \in DOMAIN b : d[k] = b[n]
    \/ \E n \in DOMAIN c : d[k] = c[n] /\ (n > 1 => k - 1 \in 1 .. k - 1 /\ d[k - 1] = c[n - 1])

LEMMA ThreePieces ==
  ASSUME NEW T, NEW a \in Seq(T), NEW b \in Seq(T), NEW c \in Seq(T), NEW d, d = a \o b \o c
  PROVE  Pieces(d, a, b, c)
<1> SUFFICES ASSUME NEW k \in DOMAIN d
             PROVE  \/ k \in DOMAIN a /\ d[k] = a[k]
                    \/ \E n \in DOMAIN b : d[k] = b[n]
                    \/ \E n \in DOMAIN c : /\ d[k] = c[n]
                                           /\ n > 1 => k - 1 \in 1 .. k - 1 /\ d[k - 1] = c[n - 1]
  BY DEF Pieces
<1>1. Len(a) \in Nat /\ Len(b) \in Nat /\ Len(c) \in Nat
  OBVIOUS
<1>2. DOMAIN d = 1 .. Len(a) + Len(b) + Len(c)
  OBVIOUS
<1>3. CASE k <= Len(a)
  BY <1>1, <1>2, <1>3
<1>4. CASE k > Len(a) /\ k <= Len(a) + Len(b)
  <2>1. k - Len(a) \in DOMAIN b /\ d[k] = b[k - Len(a)]
    BY <1>1, <1>2, <1>4
  <2> QED BY <2>1
<1>5. CASE k > Len(a) + Len(b)
  <2> DEFINE n == k - Len(a) - Len(b)
  <2>1. n \in DOMAIN c /\ d[k] = c[n]
    BY <1>1, <1>2, <1>5
  <2>2. n > 1 => k - 1 \in 1 .. k - 1 /\ d[k - 1] = c[n - 1]
    BY <1>1, <1>2, <1>5
  <2> HIDE DEF n
  <2> QED BY <2>1, <2>2
<1> QED BY <1>1, <1>2, <1>3, <1>4, <1>5

LEMMA Halves ==
  ASSUME NEW m \in Nat, NEW k \in 1 .. 2 * m, k % 2 # 1
  PROVE  /\ k \div 2 \in 1 .. m /\ k > 1 /\ (k - 1) % 2 = 1
         /\ (k - 1 + 1) \div 2 = k \div 2 /\ k - 1 \in 1 .. 2 * m
<1>1. k % 2 = 0 /\ k = 2 * (k \div 2)
  OBVIOUS
<1> QED BY <1>1

LEMMA ApprovalEffectsFit ==
  ASSUME TypeInv, StoreInv, Carried(snap, conv), NEW lvl, NEW q1 \in Orders(ToMark(snap)),
         NEW q2 \in Orders(WithVerdict(snap, lvl, "denied")),
         NEW q3 \in Orders(WithVerdict(snap, lvl, "needs_approval"))
  PROVE  EffectsFit(ApprovalEffects(snap, q1, q2, q3), conv, answers, emitted)
<1> DEFINE marks == [k \in 1 .. Len(q1) |-> Patch(RequestAt(snap, q1[k]), Decision(snap, q1[k]))]
           denials == [k \in 1 .. Len(q2) |-> Patch(RequestAt(snap, q2[k]), "no")]
           questions == [k \in 1 .. 2 * Len(q3) |->
                          IF k % 2 = 1 THEN Patch(RequestAt(snap, q3[(k + 1) \div 2]), "no")
                                       ELSE Append_(Ask(RequestAt(snap, q3[k \div 2])))]
           effs == ApprovalEffects(snap, q1, q2, q3)
           AllowedPatch(e) == e.op = "patch" /\ (e.note = "yes" => Allowed(answers, e.id))
           Question(e) == /\ e.op = "append" /\ e.msg.kind = "ask"
                          /\ \E r \in emitted : e.msg.ids = {r}
<1>1. snap \in Seq(Message)
  BY DEF TypeInv, ControlOK
<1>2. /\ ToMark(snap) \subseteq DOMAIN snap /\ WithVerdict(snap, lvl, "denied") \subseteq DOMAIN snap
      /\ WithVerdict(snap, lvl, "needs_approval") \subseteq DOMAIN snap
      /\ \A i \in WithVerdict(snap, lvl, "needs_approval") : snap[i].kind = "request"
  BY DEF ToMark, WithVerdict, Decided, Pending, Unanswered, Turn
<1>3. /\ q1 \in Seq(ToMark(snap)) /\ \A k \in 1 .. Len(q1) : q1[k] \in ToMark(snap)
      /\ q2 \in Seq(WithVerdict(snap, lvl, "denied"))
      /\ q3 \in Seq(WithVerdict(snap, lvl, "needs_approval"))
      /\ \A k \in 1 .. Len(q3) : q3[k] \in WithVerdict(snap, lvl, "needs_approval")
  BY <1>1, <1>2, OrdersTyped
<1>4. \A k \in 1 .. Len(q1) : AllowedPatch(marks[k])
  <2>1. ASSUME NEW i \in ToMark(snap), Decision(snap, i) = "yes"
        PROVE  Allowed(answers, RequestAt(snap, i))
    <3>1. HasAnswer(snap, RequestAt(snap, i), Allowing)
      BY <2>1 DEF Decision
    <3> QED BY <3>1, AnswerGiven DEF StoreInv, StoreFits, Allowed
  <2> QED BY <1>3, <2>1 DEF Patch
<1>5. \A k \in 1 .. Len(q2) : AllowedPatch(denials[k])
  BY DEF Patch
<1>6. ASSUME NEW k \in 1 .. 2 * Len(q3)
      PROVE  \/ AllowedPatch(questions[k])
             \/ Question(questions[k]) /\ k > 1 /\ \A r \in questions[k].msg.ids : questions[k - 1] = Patch(r, "no")
  <2>1. CASE k % 2 = 1
    BY <2>1 DEF Patch
  <2>2. CASE k % 2 # 1
    <3> DEFINE n == k \div 2
    <3>1. n \in 1 .. Len(q3) /\ k > 1 /\ (k - 1) % 2 = 1 /\ (k - 1 + 1) \div 2 = n /\ k - 1 \in 1 .. 2 * Len(q3)
      <4>1. Len(q3) \in Nat
        BY <1>3
      <4> QED BY <4>1, <2>2, Halves
    <3>2. q3[n] \in DOMAIN snap /\ snap[q3[n]].kind = "request"
      BY <1>2, <1>3, <3>1
    <3> DEFINE r == RequestAt(snap, q3[n])
    <3>3. snap[q3[n]].ids = {r}
      BY <1>1, <3>2, RequestAtTyped
    <3>4. r \in emitted
      <4>1. PICK j \in DOMAIN conv : conv[j].kind = "request" /\ conv[j].ids = snap[q3[n]].ids
        BY <3>2 DEF Carried, Weighty
      <4> QED BY <3>3, <4>1 DEF StoreInv, StoreFits, EmittedFit
    <3>5. questions[k] = Append_(Ask(r))
      BY <2>2
    <3>6. questions[k - 1] = Patch(r, "no")
      BY <3>1
    <3> HIDE DEF r, n, questions
    <3>7. questions[k].op = "append" /\ questions[k].msg.kind = "ask" /\ questions[k].msg.ids = {r}
      BY <3>5 DEF Append_, Ask, Msg
    <3> QED BY <3>1, <3>4, <3>6, <3>7
  <2> QED BY <2>1, <2>2
<1>7. effs = marks \o denials \o questions
  BY DEF ApprovalEffects
<1> DEFINE T == {marks[k] : k \in 1 .. Len(q1)} \cup {denials[k] : k \in 1 .. Len(q2)}
                  \cup {questions[k] : k \in 1 .. 2 * Len(q3)}
<1>8. /\ marks \in Seq(T) /\ DOMAIN marks = 1 .. Len(q1)
      /\ denials \in Seq(T) /\ DOMAIN denials = 1 .. Len(q2)
      /\ questions \in Seq(T) /\ DOMAIN questions = 1 .. 2 * Len(q3)
  <2>1. Len(q1) \in Nat /\ Len(q2) \in Nat /\ 2 * Len(q3) \in Nat
    BY <1>3
  <2>2. marks = [k \in 1 .. Len(q1) |-> marks[k]]
    OBVIOUS
  <2>3. denials = [k \in 1 .. Len(q2) |-> denials[k]]
    OBVIOUS
  <2>4. questions = [k \in 1 .. 2 * Len(q3) |-> questions[k]]
    OBVIOUS
  <2> HIDE DEF marks, denials, questions
  <2> QED BY <2>1, <2>2, <2>3, <2>4
<1> HIDE DEF marks, denials, questions, effs, AllowedPatch, Question, T
<1>9. ASSUME NEW k \in DOMAIN effs
      PROVE  \/ AllowedPatch(effs[k])
             \/ Question(effs[k]) /\ k - 1 \in 1 .. k - 1 /\ \A r \in effs[k].msg.ids : effs[k - 1] = Patch(r, "no")
  <2>1. Pieces(effs, marks, denials, questions)
    BY <1>7, <1>8, ThreePieces, Zenon
  <2>2. \/ k \in DOMAIN marks /\ effs[k] = marks[k]
        \/ \E n \in DOMAIN denials : effs[k] = denials[n]
        \/ \E n \in DOMAIN questions : /\ effs[k] = questions[n]
                                       /\ n > 1 => k - 1 \in 1 .. k - 1 /\ effs[k - 1] = questions[n - 1]
    BY <2>1 DEF Pieces
  <2> QED BY <1>4, <1>5, <1>6, <1>8, <2>2
<1> QED
  <2> SUFFICES ASSUME NEW k \in DOMAIN effs
               PROVE  /\ ~Appends(effs, k, "approval") /\ ~Appends(effs, k, "request")
                      /\ Appends(effs, k, "ask") => effs[k].msg.ids \subseteq emitted
                      /\ Appends(effs, k, "ask") => \A r \in effs[k].msg.ids :
                            \E j \in 1 .. k - 1 : effs[j] = Patch(r, "no")
                      /\ effs[k].op = "patch" /\ effs[k].note = "yes" => Allowed(answers, effs[k].id)
                      /\ effs[k].op # "replace"
    BY DEF EffectsFit, effs
  <2> QED BY <1>9 DEF Appends, AllowedPatch, Question

-----------------------------------------------------------------------------
(* Persisting one effect *)

Adds(e, kind, r) == e.op = "append" /\ e.msg.kind = kind /\ r \in e.msg.ids

(* What d says of requests, questions and answers is in c, or effect e brings *)
(* it; only the marks of requests may differ.                                 *)
Stems(d, c, e) ==
  \A i \in DOMAIN d : d[i].kind \in Weighty =>
    \/ e.op = "append" /\ d[i] = e.msg
    \/ \E j \in DOMAIN c : /\ c[j].kind = d[i].kind /\ c[j].ids = d[i].ids
                           /\ d[i].kind # "request" => c[j].note = d[i].note

LEMMA StoredMeaning ==
  ASSUME NEW c \in Seq(Message), NEW e \in Effect, NEW d, d = Stored(c, e),
         e.op = "replace" => Carried(e.conv, c)
  PROVE  /\ Stems(d, c, e)
         /\ \A r : Halted(c, r) /\ ~Adds(e, "request", r) /\ ~(e.op = "patch" /\ e.note = "yes" /\ e.id = r)
                    => Halted(d, r)
         /\ \A r : e = Patch(r, "no") => Halted(d, r)
<1>1. DOMAIN c = 1 .. Len(c) /\ \A i \in DOMAIN c : c[i] \in Message
  OBVIOUS
<1>2. CASE e.op = "append"
  <2>1. e.msg \in Message /\ d = Append(c, e.msg)
    BY <1>2, EffectFields DEF Stored
  <2>2. \A i \in DOMAIN d : (i \in DOMAIN c /\ d[i] = c[i]) \/ d[i] = e.msg
    BY <2>1, AppendFacts
  <2>3. \A r : e # Patch(r, "no")
    BY <1>2 DEF Patch
  <2> QED BY <1>2, <2>2, <2>3 DEF Halted, Adds, Stems
<1>3. CASE e.op = "patch"
  <2>1. /\ e.note \in {"yes", "no"} /\ e.note \in Notes
        /\ d = [i \in DOMAIN c |-> IF c[i].kind = "request" /\ e.id \in c[i].ids
                                     THEN [c[i] EXCEPT !.note = e.note] ELSE c[i]]
    BY <1>3, EffectFields DEF Stored, Notes
  <2>2. DOMAIN d = DOMAIN c
    BY <2>1
  <2>3. ASSUME NEW i \in DOMAIN c
        PROVE  /\ d[i].kind = c[i].kind /\ d[i].ids = c[i].ids
               /\ d[i].note = IF c[i].kind = "request" /\ e.id \in c[i].ids THEN e.note ELSE c[i].note
    <3>1. c[i] \in Message /\ d[i] = IF c[i].kind = "request" /\ e.id \in c[i].ids
                                      THEN [c[i] EXCEPT !.note = e.note] ELSE c[i]
      BY <1>1, <2>1
    <3> QED BY <2>1, <3>1, EditsKeep
  <2>4. \A i \in DOMAIN c : c[i].kind = "request" => \E r \in Requests : c[i].ids = {r}
    BY <1>1 DEF Message
  <2>5. ASSUME NEW r, Halted(c, r), ~(e.note = "yes" /\ e.id = r)
        PROVE  Halted(d, r)
    <3> SUFFICES ASSUME NEW i \in DOMAIN d, d[i].kind = "request", r \in d[i].ids
                 PROVE  d[i].note = "no"
      BY DEF Halted
    <3>1. c[i].kind = "request" /\ r \in c[i].ids /\ c[i].note = "no" /\ i \in DOMAIN c
      BY <2>2, <2>3, <2>5 DEF Halted
    <3>2. CASE e.id \in c[i].ids
      <4>1. e.id = r
        BY <2>4, <3>1, <3>2
      <4> QED BY <2>1, <2>3, <2>5, <3>1, <3>2, <4>1
    <3>3. CASE e.id \notin c[i].ids
      BY <2>3, <3>1, <3>3
    <3> QED BY <3>2, <3>3
  <2>6. ASSUME NEW r, e = Patch(r, "no")
        PROVE  Halted(d, r)
    BY <2>2, <2>3, <2>6 DEF Halted, Patch
  <2> QED BY <1>3, <2>2, <2>3, <2>5, <2>6 DEF Weighty, Stems
<1>4. CASE e.op \in {"hide", "usage"}
  <2>1. \/ d = c
        \/ d = [i \in DOMAIN c |-> IF i = e.at THEN [c[i] EXCEPT !.av = FALSE] ELSE c[i]]
    BY <1>4 DEF Stored
  <2>2. DOMAIN d = DOMAIN c /\ \A i \in DOMAIN c : d[i].kind = c[i].kind /\ d[i].ids = c[i].ids /\ d[i].note = c[i].note
    <3>1. CASE d = c
      BY <3>1
    <3>2. CASE d = [i \in DOMAIN c |-> IF i = e.at THEN [c[i] EXCEPT !.av = FALSE] ELSE c[i]]
      <4>1. ASSUME NEW i \in DOMAIN c
            PROVE  d[i].kind = c[i].kind /\ d[i].ids = c[i].ids /\ d[i].note = c[i].note
        <5>1. c[i] \in Message /\ d[i] \in {c[i], [c[i] EXCEPT !.av = FALSE]}
          BY <1>1, <3>2
        <5> QED BY <5>1, EditsKeep
      <4> QED BY <3>2, <4>1
    <3> QED BY <2>1, <3>1, <3>2
  <2>3. \A r : e # Patch(r, "no")
    BY <1>4 DEF Patch
  <2> QED BY <2>2, <2>3 DEF Halted, Stems
<1>5. CASE e.op = "replace"
  <2>1. d = e.conv /\ Carried(d, c)
    BY <1>5 DEF Stored
  <2>2. \A r : e # Patch(r, "no")
    BY <1>5 DEF Patch
  <2>3. \A r : Halted(c, r) => Halted(d, r)
    BY <2>1, CarriedMeaning
  <2> QED BY <2>1, <2>2, <2>3 DEF Carried, Stems
<1> QED BY <1>2, <1>3, <1>4, <1>5, EffectFields

LEMMA PersistedFits ==
  ASSUME NEW effs \in Seq(Effect), effs # <<>>, NEW c \in Seq(Message), NEW A, NEW E,
         StoreFits(c, A, E), EffectsFit(effs, c, A, E),
         NEW d, d = Stored(c, Head(effs)), NEW t, t = Tail(effs)
  PROVE  StoreFits(d, A, E) /\ EffectsFit(t, d, A, E)
<1> DEFINE e == Head(effs)
<1>1. /\ e \in Effect /\ d = Stored(c, e) /\ e = effs[1] /\ 1 \in DOMAIN effs
      /\ \A k \in DOMAIN t : /\ k + 1 \in DOMAIN effs /\ t[k] = effs[k + 1]
                             /\ k \in Nat /\ k >= 1 /\ Len(effs) # 1
      /\ \A k \in DOMAIN t : \A j \in 1 .. k + 1 - 1 : j = 1 \/ (j - 1 \in 1 .. k - 1 /\ t[j - 1] = effs[j])
  OBVIOUS
<1> HIDE DEF e
<1>2. /\ ~(e.op = "append" /\ e.msg.kind = "approval")
      /\ e.op = "append" /\ e.msg.kind \in {"request", "ask"} => e.msg.ids \subseteq E
      /\ \A r : Adds(e, "request", r) => ~AskedIn(c, r) /\ ~Allowed(A, r) /\ ~Denied(A, r)
      /\ \A r : Adds(e, "ask", r) => Allowed(A, r) \/ Halted(c, r)
      /\ e.op = "patch" /\ e.note = "yes" => Allowed(A, e.id)
      /\ e.op = "replace" => Carried(e.conv, c)
  BY <1>1 DEF EffectsFit, Appends, Adds
<1>3. \A i \in DOMAIN d : d[i].kind \in Weighty =>
        \/ e.op = "append" /\ d[i] = e.msg
        \/ \E j \in DOMAIN c : /\ c[j].kind = d[i].kind /\ c[j].ids = d[i].ids
                               /\ d[i].kind # "request" => c[j].note = d[i].note
  <2>1. Stems(d, c, e)
    BY <1>1, <1>2, StoredMeaning
  <2> QED BY <2>1 DEF Stems
<1>4. \A r : Halted(c, r) /\ ~Adds(e, "request", r) /\ ~Allowed(A, r) => Halted(d, r)
  BY <1>1, <1>2, StoredMeaning
<1>5. \A r : e = Patch(r, "no") => Halted(d, r)
  BY <1>1, <1>2, StoredMeaning
<1>6. \A r : AskedIn(d, r) => AskedIn(c, r) \/ Adds(e, "ask", r)
  BY <1>3 DEF AskedIn, Adds, Weighty
<1>7. AnswersFit(d, A)
  <2>1. ASSUME NEW i \in DOMAIN d, d[i].kind = "approval", NEW r \in d[i].ids
        PROVE  <<r, d[i].note>> \in A
    <3>1. PICK j \in DOMAIN c : c[j].kind = "approval" /\ r \in c[j].ids /\ c[j].note = d[i].note
      BY <1>2, <1>3, <2>1 DEF Weighty
    <3> QED BY <3>1 DEF StoreFits, AnswersFit
  <2> QED BY <2>1 DEF StoreFits, AnswersFit
<1>8. MarksFit(d, A)
  <2>1. \A r \in Requests : ~(Allowed(A, r) /\ Denied(A, r))
    BY DEF StoreFits, AnswersFit
  <2>2. ASSUME NEW r \in Requests, AskedIn(d, r), ~Allowed(A, r)
        PROVE  Halted(d, r)
    <3>1. Halted(c, r)
      BY <1>2, <1>6, <2>2 DEF StoreFits, MarksFit
    <3>2. ~Adds(e, "request", r)
      BY <1>2, <1>6, <2>2 DEF Adds
    <3> QED BY <1>4, <2>2, <3>1, <3>2
  <2>3. ASSUME NEW r \in Requests, Denied(A, r)
        PROVE  Halted(d, r)
    BY <1>2, <1>4, <2>1, <2>3 DEF StoreFits, MarksFit
  <2> QED BY <2>2, <2>3 DEF MarksFit
<1>9. EmittedFit(d, A, E)
  <2>1. ASSUME NEW i \in DOMAIN d, d[i].kind \in {"request", "ask"}
        PROVE  d[i].ids \subseteq E
    BY <1>2, <1>3, <2>1 DEF StoreFits, EmittedFit, Weighty
  <2> QED BY <2>1 DEF StoreFits, EmittedFit
<1>10. EffectsFit(t, d, A, E)
  <2> SUFFICES ASSUME NEW k \in DOMAIN t
               PROVE
      /\ ~Appends(t, k, "approval")
      /\ Appends(t, k, "request") \/ Appends(t, k, "ask") => t[k].msg.ids \subseteq E
      /\ Appends(t, k, "request") => \A r \in t[k].msg.ids :
           /\ ~AskedIn(d, r) /\ ~Allowed(A, r) /\ ~Denied(A, r)
           /\ \A j \in DOMAIN t : Appends(t, j, "ask") => r \notin t[j].msg.ids
      /\ Appends(t, k, "ask") => \A r \in t[k].msg.ids :
           Allowed(A, r) \/ Halted(d, r) \/ \E j \in 1 .. k - 1 : t[j] = Patch(r, "no")
      /\ t[k].op = "patch" /\ t[k].note = "yes" => Allowed(A, t[k].id)
      /\ t[k].op # "replace"
    BY DEF EffectsFit
  <2>1. k + 1 \in DOMAIN effs /\ t[k] = effs[k + 1] /\ k \in Nat /\ k >= 1 /\ Len(effs) # 1
    BY <1>1
  <2>2. \A kind : Appends(t, k, kind) = Appends(effs, k + 1, kind)
    BY <2>1 DEF Appends
  <2>3. ASSUME Appends(t, k, "request"), NEW r \in t[k].msg.ids
        PROVE  /\ ~AskedIn(d, r) /\ ~Allowed(A, r) /\ ~Denied(A, r)
               /\ \A j \in DOMAIN t : Appends(t, j, "ask") => r \notin t[j].msg.ids
    <3>1. /\ ~AskedIn(c, r) /\ ~Allowed(A, r) /\ ~Denied(A, r)
          /\ \A j \in DOMAIN effs : Appends(effs, j, "ask") => r \notin effs[j].msg.ids
      BY <2>1, <2>2, <2>3 DEF EffectsFit
    <3>2. ~Adds(e, "ask", r)
      BY <1>1, <3>1 DEF Adds, Appends
    <3>3. \A j \in DOMAIN t : Appends(t, j, "ask") => r \notin t[j].msg.ids
      BY <1>1, <3>1 DEF Appends
    <3> QED BY <1>6, <3>1, <3>2, <3>3
  <2>4. ASSUME Appends(t, k, "ask"), NEW r \in t[k].msg.ids
        PROVE  Allowed(A, r) \/ Halted(d, r) \/ \E j \in 1 .. k - 1 : t[j] = Patch(r, "no")
    <3>1. Allowed(A, r) \/ Halted(c, r) \/ \E j \in 1 .. k + 1 - 1 : effs[j] = Patch(r, "no")
      BY <2>1, <2>2, <2>4 DEF EffectsFit
    <3>2. ~Adds(e, "request", r)
      BY <1>1, <2>1, <2>2, <2>4 DEF EffectsFit, Adds, Appends
    <3>3. CASE Halted(c, r)
      BY <1>4, <3>2, <3>3
    <3>4. ASSUME NEW j \in 1 .. k + 1 - 1, effs[j] = Patch(r, "no")
          PROVE  Halted(d, r) \/ \E i \in 1 .. k - 1 : t[i] = Patch(r, "no")
      <4>1. j = 1 \/ (j - 1 \in 1 .. k - 1 /\ t[j - 1] = effs[j])
        BY <1>1
      <4>2. CASE j = 1
        BY <1>1, <1>5, <3>4, <4>2
      <4>3. CASE j - 1 \in 1 .. k - 1 /\ t[j - 1] = effs[j]
        BY <3>4, <4>3
      <4> QED BY <4>1, <4>2, <4>3
    <3> QED BY <3>1, <3>3, <3>4
  <2>5. /\ ~Appends(t, k, "approval")
        /\ Appends(t, k, "request") \/ Appends(t, k, "ask") => t[k].msg.ids \subseteq E
        /\ t[k].op = "patch" /\ t[k].note = "yes" => Allowed(A, t[k].id)
        /\ t[k].op # "replace"
    BY <2>1, <2>2 DEF EffectsFit
  <2> QED BY <2>3, <2>4, <2>5
<1> QED BY <1>7, <1>8, <1>9, <1>10 DEF StoreFits

LEMMA ApplyEffectPermitted ==
  ASSUME TypeInv, PermissionInv, ApplyEffect
  PROVE  PermissionInv'
<1>1. /\ effects \in Seq(Effect) /\ effects # <<>> /\ conv \in Seq(Message)
      /\ conv' = Stored(conv, Head(effects)) /\ effects' = Tail(effects)
      /\ answers' = answers /\ emitted' = emitted
  BY DEF TypeInv, ControlOK, StoreOK, ApplyEffect
<1>2. pc' = "apply" /\ "apply" \notin Operations
  BY PipelineOrder DEF ApplyEffect
<1>3. StoreFits(conv', answers, emitted) /\ EffectsFit(effects', conv', answers, emitted)
  BY <1>1, PersistedFits DEF PermissionInv, StoreInv, EffectsInv
<1>4. StoreInv' /\ EffectsInv'
  BY <1>1, <1>3 DEF StoreInv, EffectsInv
<1>5. SnapInv' /\ ScreenInv'
  BY <1>2 DEF SnapInv, ScreenInv
<1> QED BY <1>4, <1>5 DEF PermissionInv

-----------------------------------------------------------------------------
(* The ways an operation leaves the step *)

(* Neither the store nor the history of answers and emissions changes. *)
Unchanged == UNCHANGED <<conv, answers, emitted>>

LEMMA AppliedPermitted ==
  ASSUME PermissionInv, Unchanged, NEW effs, NEW yield, Applied(effs, yield),
         EffectsFit(effs, conv, answers, emitted)
  PROVE  PermissionInv'
<1>1. pc' = "apply" /\ effects' = effs /\ "apply" \notin Operations
  BY PipelineOrder DEF Applied
<1>2. StoreInv' /\ EffectsInv'
  BY <1>1 DEF Unchanged, PermissionInv, StoreInv, EffectsInv
<1> QED BY <1>1, <1>2 DEF PermissionInv, SnapInv, ScreenInv

LEMMA PlainPermitted ==
  ASSUME PermissionInv, Unchanged, NEW effs, NEW yield, Applied(effs, yield), Plain(effs, {})
  PROVE  PermissionInv'
<1>1. EffectsFit(effs, conv, answers, emitted)
  BY PlainOK
<1> QED BY <1>1, AppliedPermitted

LEMMA ReplacePermitted ==
  ASSUME PermissionInv, Unchanged, NEW c, NEW yield, Applied(<<Replace(c)>>, yield), Carried(c, conv)
  PROVE  PermissionInv'
<1> DEFINE e == Replace(c)
<1>1. e.op = "replace" /\ e.conv = c
  BY DEF Replace
<1> HIDE DEF e
<1>2. EffectsFit(<<e>>, conv, answers, emitted)
  BY <1>1 DEF EffectsFit, Appends
<1> QED BY <1>2, AppliedPermitted DEF e

(* A step that goes on with its snapshot. *)
LEMMA OnwardPermitted ==
  ASSUME PermissionInv, Unchanged, snap' = snap, effects' = effects,
         \/ pc \in Operations \cup {"tools", "provider"}
         \/ pc' \notin Operations \cup {"tools", "provider"},
         ScreenInv'
  PROVE  PermissionInv'
<1>1. StoreInv' /\ EffectsInv'
  BY DEF Unchanged, PermissionInv, StoreInv, EffectsInv
<1>2. SnapInv'
  BY DEF Unchanged, PermissionInv, SnapInv
<1> QED BY <1>1, <1>2 DEF PermissionInv

LEMMA PassPermitted ==
  ASSUME PermissionInv, Unchanged, NEW op \in Operations \ {"llm", "tool_approval"}, pc = op,
         Pass(op), level' = level
  PROVE  PermissionInv'
<1>1. /\ snap' = snap /\ effects' = effects /\ cancelled' = cancelled /\ pc' = After(op)
      /\ pc \in Operations
  BY DEF Pass, step
<1>2. pc' # "recipe" /\ (pc' = "tool_execution" => pc = "recipe")
  BY <1>1, PipelineOrder
<1>3. ScreenInv'
  BY <1>1, <1>2 DEF PermissionInv, ScreenInv
<1> QED BY <1>1, <1>3, OnwardPermitted

(* The run stops, or the step is over. *)
LEMMA ClearedPermitted ==
  ASSUME PermissionInv, Unchanged, Clear, pc' \in {"idle", "load"}
  PROVE  PermissionInv'
<1>1. effects' = <<>> /\ pc' \notin Operations \cup {"tools", "provider"}
  BY PipelineOrder DEF Clear
<1>2. EffectsFit(<<>>, conv, answers, emitted)
  BY DEF EffectsFit
<1>3. StoreInv' /\ EffectsInv'
  BY <1>1, <1>2 DEF Unchanged, PermissionInv, StoreInv, EffectsInv
<1>4. pc' \notin {"recipe", "tool_execution"}
  BY <1>1
<1> QED BY <1>1, <1>3, <1>4 DEF PermissionInv, SnapInv, ScreenInv

-----------------------------------------------------------------------------
(* The steps of the machine *)

LEMMA KernelPermitted ==
  ASSUME TypeInv, PermissionInv, Load \/ SkipCancelled \/ EndStep
  PROVE  PermissionInv'
<1>1. Unchanged
  BY DEF Load, SkipCancelled, EndStep, persisted, history, Unchanged
<1>2. CASE Load
  <2>1. /\ snap' = conv /\ effects' = effects /\ pc' = "slash_command" /\ conv' = conv
        /\ pc' \notin {"recipe", "tool_execution"}
    BY <1>2, PipelineOrder DEF Load, persisted
  <2>2. StoreInv' /\ EffectsInv'
    BY <1>1, <2>1 DEF Unchanged, PermissionInv, StoreInv, EffectsInv
  <2>3. Carried(snap', conv')
    BY <2>1, CarriedReflexive
  <2> QED BY <2>1, <2>2, <2>3 DEF PermissionInv, SnapInv, ScreenInv
<1>3. CASE SkipCancelled
  <2>1. /\ snap' = snap /\ effects' = effects /\ cancelled /\ cancelled' = cancelled
        /\ pc \in Operations
    BY <1>3 DEF SkipCancelled, Pass, step
  <2>2. ScreenInv'
    BY <2>1 DEF ScreenInv
  <2> QED BY <1>1, <2>1, <2>2, OnwardPermitted
<1>4. CASE EndStep
  BY <1>1, <1>4, ClearedPermitted DEF EndStep
<1> QED BY <1>2, <1>3, <1>4

(* Operations that append messages of no weight, or nothing. *)
LEMMA PlainEffects ==
  /\ Plain(<<Append_(Text("budget"))>>, {}) /\ Plain(<<Append_(Text("none"))>>, {})
  /\ Plain(<<Append_(Prompt("continuation"))>>, {}) /\ Plain(<<Append_(HiddenPrompt)>>, {})
  /\ Plain(<<Append_(UserOnlyText)>>, {})
  /\ Plain(<<Append_(Msg("nudge", FALSE, TRUE, {}, "none"))>>, {})
  /\ Plain(<<Append_(Msg("denial", FALSE, TRUE, {}, "none"))>>, {})
  /\ \A kind \in Errors : Plain(<<Append_(ErrorMsg(kind))>>, {})
  /\ \A S, note : Plain(<<Append_(Response(S, note))>>, {})
<1>1. /\ \A note : Text(note).kind \notin Weighty /\ Prompt(note).kind \notin Weighty
      /\ HiddenPrompt.kind \notin Weighty /\ UserOnlyText.kind \notin Weighty
      /\ Msg("nudge", FALSE, TRUE, {}, "none").kind \notin Weighty
      /\ Msg("denial", FALSE, TRUE, {}, "none").kind \notin Weighty
      /\ \A kind \in Errors : ErrorMsg(kind).kind \notin Weighty
      /\ \A S, note : Response(S, note).kind \notin Weighty
  BY DEF Text, Prompt, HiddenPrompt, UserOnlyText, Msg, ErrorMsg, Response, Weighty, Errors
<1> QED BY <1>1, PlainAppend, Zenon

LEMMA ClosingPlain == \A c, streamed : Plain(Closing(c, streamed), {})
BY PlainEffects, PlainNothing DEF Closing

LEMMA SlashCommandPermitted ==
  ASSUME PermissionInv, SlashCommand
  PROVE  PermissionInv'
<1> DEFINE effs == <<Hide(Len(snap)), Append_(UserOnlyText), Append_(HiddenPrompt)>>
<1>1. Unchanged /\ level' = level /\ pc = "slash_command" /\ "slash_command" \in Operations \ {"llm", "tool_approval"}
  BY PipelineOrder DEF SlashCommand, At, persisted, history, Unchanged
<1>2. Plain(effs, {})
  <2> DEFINE h == Hide(Len(snap))
             a == Append_(UserOnlyText)
             b == Append_(HiddenPrompt)
  <2>1. /\ h.op = "hide" /\ a.op = "append" /\ b.op = "append"
        /\ a.msg.kind = "text" /\ b.msg.kind = "prompt"
    BY DEF Hide, Append_, UserOnlyText, HiddenPrompt, Msg
  <2> HIDE DEF h, a, b
  <2>2. Plain(<<h, a, b>>, {})
    BY <2>1 DEF Plain
  <2> QED BY <2>2 DEF h, a, b
<1> HIDE DEF effs
<1>3. Pass("slash_command") \/ Applied(effs, FALSE)
  BY DEF SlashCommand, effs
<1> QED BY <1>1, <1>2, <1>3, PassPermitted, PlainPermitted

LEMMA SteerPermitted ==
  ASSUME PermissionInv, Steer
  PROVE  PermissionInv'
<1> DEFINE effs == [k \in 1 .. queue |-> Append_(Prompt("steer"))]
<1>1. Unchanged /\ level' = level /\ pc = "steer" /\ "steer" \in Operations \ {"llm", "tool_approval"}
  BY PipelineOrder DEF Steer, At, persisted, history, Unchanged
<1>2. Plain(effs, {})
  <2>1. Append_(Prompt("steer")).op = "append" /\ Append_(Prompt("steer")).msg.kind = "prompt"
    BY DEF Append_, Prompt, Msg
  <2> QED BY <2>1 DEF Plain
<1> HIDE DEF effs
<1>3. Pass("steer") \/ Applied(effs, FALSE)
  BY DEF Steer, effs
<1> QED BY <1>1, <1>2, <1>3, PassPermitted, PlainPermitted

LEMMA QuietOperationsPermitted ==
  ASSUME TypeInv, PermissionInv,
         StopAtMaxTurns \/ Compact \/ FinishTools \/ AnswerUnknown \/ StopHook \/ ExitOnError \/ CancelOpen
  PROVE  PermissionInv'
<1>1. Unchanged /\ level' = level
  BY DEF StopAtMaxTurns, Compact, FinishTools, AnswerUnknown, StopHook, ExitOnError, CancelOpen,
         persisted, history, Unchanged
<1>2. ASSUME NEW op \in Operations \ {"llm", "tool_approval"}, pc = op,
             NEW effs, Plain(effs, {}), NEW yield, Pass(op) \/ Applied(effs, yield)
      PROVE  PermissionInv'
  BY <1>1, <1>2, PassPermitted, PlainPermitted
<1>3. CASE StopAtMaxTurns
  <2>1. pc = "max_turns" /\ "max_turns" \in Operations \ {"llm", "tool_approval"}
        /\ (Pass("max_turns") \/ Applied(<<Append_(Text("budget"))>>, TRUE))
    BY <1>3, PipelineOrder DEF StopAtMaxTurns, At
  <2> QED BY <1>2, <2>1, PlainEffects
<1>4. CASE Compact
  <2>1. pc = "compaction" /\ "compaction" \in Operations \ {"llm", "tool_approval"}
    BY <1>4, PipelineOrder DEF Compact, At
  <2>2. Pass("compaction") \/ Applied(<<Replace(Compacted(snap))>>, FALSE) \/ Applied(<<>>, TRUE)
    BY <1>4 DEF Compact
  <2>3. Carried(Compacted(snap), conv)
    <3>1. Carried(Compacted(snap), snap)
      BY CompactedCarried DEF TypeInv, ControlOK
    <3>2. Carried(snap, conv)
      BY <2>1 DEF PermissionInv, SnapInv
    <3> QED BY <3>1, <3>2, CarriedTransitive
  <2>4. CASE Applied(<<Replace(Compacted(snap))>>, FALSE)
    BY <1>1, <2>3, <2>4, ReplacePermitted
  <2>5. CASE Pass("compaction") \/ Applied(<<>>, TRUE)
    BY <1>2, <2>1, <2>5, PlainNothing
  <2> QED BY <2>2, <2>4, <2>5
<1>5. CASE FinishTools
  <2>1. Applied(<<Append_(Response(running, "none"))>>, FALSE)
    BY <1>5 DEF FinishTools
  <2> QED BY <1>1, <2>1, PlainEffects, PlainPermitted
<1>6. CASE AnswerUnknown
  <2> DEFINE S == IdsAt(snap, Unclaimed(snap))
  <2>1. /\ pc = "unknown_tool" /\ "unknown_tool" \in Operations \ {"llm", "tool_approval"}
        /\ Pass("unknown_tool") \/ Applied(<<Append_(Response(S, "none"))>>, FALSE)
    BY <1>6, PipelineOrder DEF AnswerUnknown, At
  <2> HIDE DEF S
  <2> QED BY <1>2, <2>1, PlainEffects
<1>7. CASE StopHook
  <2> DEFINE denial == Msg("denial", FALSE, TRUE, {}, "none")
  <2>1. /\ pc = "stop_hook" /\ "stop_hook" \in Operations \ {"llm", "tool_approval"}
        /\ \/ Pass("stop_hook") \/ Applied(<<>>, TRUE) \/ Applied(<<Append_(UserOnlyText)>>, TRUE)
           \/ Applied(<<Append_(denial)>>, FALSE)
    BY <1>7, PipelineOrder DEF StopHook, At
  <2>2. Plain(<<Append_(denial)>>, {})
    BY PlainEffects
  <2> HIDE DEF denial
  <2> QED BY <1>2, <2>1, <2>2, PlainEffects, PlainNothing
<1>8. CASE ExitOnError
  <2>1. /\ pc = "exit_on_error" /\ "exit_on_error" \in Operations \ {"llm", "tool_approval"}
        /\ Pass("exit_on_error") \/ Applied(<<>>, TRUE)
    BY <1>8, PipelineOrder DEF ExitOnError, At
  <2> QED BY <1>2, <2>1, PlainNothing
<1>9. CASE CancelOpen
  <2>1. Stop \/ Applied(Closing(snap, {}), TRUE)
    BY <1>9 DEF CancelOpen
  <2> QED BY <1>1, <2>1, ClosingPlain, PlainPermitted, ClearedPermitted DEF Stop
<1> QED BY <1>3, <1>4, <1>5, <1>6, <1>7, <1>8, <1>9

(* The approval operation: what passes is approved, what does not is marked   *)
(* before the user is asked.                                                  *)
LEMMA ApprovePermitted ==
  ASSUME TypeInv, PermissionInv, Approve
  PROVE  PermissionInv'
<1> DEFINE lvl    == IF Mode = "chat" THEN level ELSE UpdatedLevel(snap)
           denied == WithVerdict(snap, lvl, "denied")
           ask    == WithVerdict(snap, lvl, "needs_approval")
<1>1. /\ Unchanged /\ level' = lvl /\ pc = "tool_approval" /\ "tool_approval" \in Operations
      /\ After("tool_approval") = "recipe" /\ Carried(snap, conv)
  <2>1. Unchanged /\ level' = lvl /\ pc = "tool_approval"
    BY DEF Approve, At, history, Unchanged
  <2> QED BY <2>1, PipelineOrder DEF PermissionInv, SnapInv
<1>2. \/ Pass("tool_approval") /\ ~(Mode # "chat" /\ ToMark(snap) \cup denied \cup ask # {})
      \/ \E q1 \in Orders(ToMark(snap)), q2 \in Orders(denied), q3 \in Orders(ask) :
           Applied(ApprovalEffects(snap, q1, q2, q3), FALSE)
  BY DEF Approve
<1> HIDE DEF lvl
<1>3. CASE Pass("tool_approval") /\ ~(Mode # "chat" /\ ToMark(snap) \cup denied \cup ask # {})
  <2>1. snap' = snap /\ effects' = effects
    BY <1>3 DEF Pass, step
  <2>2. Mode # "chat" => Screened(snap, lvl)
    <3> SUFFICES ASSUME Mode # "chat", NEW i \in Pending(snap)
                 PROVE  Verdict(RequestAt(snap, i), lvl) = "approved"
      BY DEF Screened
    <3>1. Verdict(RequestAt(snap, i), lvl) \notin {"denied", "needs_approval"}
      BY <1>3 DEF WithVerdict
    <3>2. RequestAt(snap, i) \in Requests
      <4>1. i \in DOMAIN snap /\ snap[i].kind = "request"
        BY DEF Pending, Unanswered, Turn
      <4> QED BY <4>1, RequestAtTyped DEF TypeInv, ControlOK
    <3>3. Screen[RequestAt(snap, i)] \in Verdicts
      BY <3>2, SetsAssumption
    <3> QED BY <3>1, <3>3 DEF Verdict, Verdicts
  <2>3. ScreenInv'
    BY <1>1, <2>1, <2>2 DEF ScreenInv
  <2> QED BY <1>1, <2>1, <2>3, OnwardPermitted
<1>4. ASSUME NEW q1 \in Orders(ToMark(snap)), NEW q2 \in Orders(denied), NEW q3 \in Orders(ask),
             Applied(ApprovalEffects(snap, q1, q2, q3), FALSE)
      PROVE  PermissionInv'
  <2>1. EffectsFit(ApprovalEffects(snap, q1, q2, q3), conv, answers, emitted)
    BY <1>1, ApprovalEffectsFit DEF PermissionInv
  <2> QED BY <1>1, <1>4, <2>1, AppliedPermitted
<1> QED BY <1>2, <1>3, <1>4

LEMMA RecipePermitted ==
  ASSUME PermissionInv, Recipe
  PROVE  PermissionInv'
<1>1. Unchanged /\ level' = level /\ pc = "recipe" /\ "recipe" \in Operations \ {"llm", "tool_approval"}
  BY PipelineOrder DEF Recipe, At, persisted, Unchanged
<1>2. \/ Pass("recipe")
      \/ \E S, note : Applied(<<Append_(Response(S, note))>>, FALSE)
      \/ Applied(<<Append_(Text("none"))>>, FALSE)
      \/ Applied(<<Append_(Prompt("continuation"))>>, FALSE)
  BY DEF Recipe
<1> QED BY <1>1, <1>2, PlainEffects, PassPermitted, PlainPermitted

LEMMA DispatchToolsPermitted ==
  ASSUME PermissionInv, DispatchTools
  PROVE  PermissionInv'
<1>1. /\ Unchanged /\ level' = level /\ pc = "tool_execution"
      /\ "tool_execution" \in Operations \ {"llm", "tool_approval"}
  BY PipelineOrder DEF DispatchTools, At, persisted, Unchanged
<1>2. CASE Runnable(snap) = {}
  BY <1>1, <1>2, PassPermitted DEF DispatchTools
<1>3. CASE Runnable(snap) # {}
  <2>1. snap' = snap /\ effects' = effects /\ pc' = "tools"
    BY <1>3 DEF DispatchTools
  <2>2. ScreenInv'
    BY <2>1 DEF ScreenInv
  <2> QED BY <1>1, <2>1, <2>2, OnwardPermitted
<1> QED BY <1>2, <1>3

LEMMA RetryPermitted ==
  ASSUME TypeInv, PermissionInv, Retry
  PROVE  PermissionInv'
<1> DEFINE nudge == Msg("nudge", FALSE, TRUE, {}, "none")
<1>1. Unchanged /\ level' = level /\ pc = "retry" /\ "retry" \in Operations \ {"llm", "tool_approval"}
  BY PipelineOrder DEF Retry, At, persisted, Unchanged
<1>2. \/ Pass("retry") \/ Applied(<<Append_(nudge)>>, FALSE) \/ Applied(<<Append_(HiddenPrompt)>>, FALSE)
      \/ Applied(<<Append_(ErrorMsg("otherError"))>>, FALSE)
      \/ Applied(<<Replace(ResetConversation(snap))>>, FALSE)
  BY DEF Retry, Nudge, Check
<1>3. Plain(<<Append_(nudge)>>, {}) /\ Plain(<<Append_(ErrorMsg("otherError"))>>, {})
  BY PlainEffects DEF Errors
<1> HIDE DEF nudge
<1>4. Carried(ResetConversation(snap), conv)
  <2>1. Carried(ResetConversation(snap), snap)
    BY <1>1, ResetCarried DEF TypeInv, ControlOK
  <2>2. Carried(snap, conv)
    BY <1>1 DEF PermissionInv, SnapInv
  <2> QED BY <2>1, <2>2, CarriedTransitive
<1> QED BY <1>1, <1>2, <1>3, <1>4, PlainEffects, PassPermitted, PlainPermitted, ReplacePermitted

LEMMA InferPermitted ==
  ASSUME PermissionInv, Infer
  PROVE  PermissionInv'
<1>1. Unchanged /\ pc = "llm" /\ "llm" \in Operations
  BY PipelineOrder DEF Infer, At, persisted, Unchanged
<1>2. CASE Stop
  BY <1>1, <1>2, ClearedPermitted DEF Stop
<1>3. CASE pc' = "provider" /\ UNCHANGED <<step, cancelled>>
  <2>1. ScreenInv'
    BY <1>3 DEF ScreenInv
  <2> QED BY <1>1, <1>3, <2>1, OnwardPermitted DEF step
<1> QED BY <1>2, <1>3 DEF Infer

(* The requests of a stream are new: nobody was asked about them. *)
LEMMA StreamPermitted ==
  ASSUME TypeInv, PermissionInv, NEW effs \in Seq(Effect), NEW streamed \in SUBSET Requests, NEW yield,
         Plain(effs, streamed), StreamEnds(effs, streamed, yield)
  PROVE  PermissionInv'
<1> DEFINE closing == Closing(snap, streamed)
<1>1. /\ conv' = conv /\ answers' = answers /\ emitted' = emitted \cup streamed /\ pc' = "apply"
      /\ effects' \in {effs, effs \o closing} /\ streamed \cap emitted = {}
  BY DEF StreamEnds, persisted
<1>2. Plain(effs \o closing, streamed)
  <2>1. closing \in Seq(Effect) /\ Plain(closing, {})
    BY ClosingTyped, ClosingPlain DEF TypeInv, ControlOK
  <2>2. Plain(closing, streamed)
    BY <2>1 DEF Plain
  <2> QED BY <2>1, <2>2, PlainJoined
<1> HIDE DEF closing
<1>3. Plain(effects', streamed)
  BY <1>1, <1>2
<1>4. \A r \in streamed : ~AskedIn(conv, r) /\ ~Allowed(answers, r) /\ ~Denied(answers, r)
  <2>1. EmittedFit(conv, answers, emitted)
    BY DEF PermissionInv, StoreInv, StoreFits
  <2> QED BY <1>1, <2>1 DEF EmittedFit, AskedIn
<1>5. EffectsFit(effects', conv, answers, emitted \cup streamed)
  BY <1>3, <1>4, PlainOK
<1>6. StoreFits(conv, answers, emitted \cup streamed)
  BY DEF PermissionInv, StoreInv, StoreFits, EmittedFit
<1>7. StoreInv' /\ EffectsInv'
  BY <1>1, <1>5, <1>6 DEF StoreInv, EffectsInv
<1>8. pc' \notin Operations
  BY <1>1, PipelineOrder
<1> QED BY <1>1, <1>7, <1>8 DEF PermissionInv, SnapInv, ScreenInv

LEMMA RequestsPlain ==
  ASSUME NEW b \in Seq(Requests)
  PROVE  Plain(RequestsOf(b), IdsIn(b))
<1>1. ASSUME NEW k \in DOMAIN b
      PROVE  LET e == Append_(Request(b[k]))
             IN  e.op = "append" /\ e.msg.kind = "request" /\ e.msg.ids = {b[k]}
  BY DEF Append_, Request, Msg
<1>2. \A k \in DOMAIN RequestsOf(b) : k \in DOMAIN b /\ RequestsOf(b)[k] = Append_(Request(b[k]))
  BY DEF RequestsOf
<1> QED BY <1>1, <1>2 DEF Plain, IdsIn

LEMMA ProviderPermitted ==
  ASSUME TypeInv, PermissionInv, ProviderReplies \/ ProviderFails
  PROVE  PermissionInv'
<1> DEFINE Good(s, S) == s \in Seq(Effect) /\ Plain(s, S)
<1>1. \A s, u, S : Good(s, S) /\ Good(u, S) => Good(s \o u, S)
  BY PlainJoined
<1>2. \A S : \A m \in Message : m.kind \notin Weighty => Good(<<Append_(m)>>, S)
  BY AppendTyped, PlainAppend
<1>3. \A S : /\ Good(<<Append_(Text("none"))>>, S)
             /\ \A kind \in Errors : Good(<<Append_(ErrorMsg(kind))>>, S)
  <2>1. /\ Text("none") \in Message /\ \A kind \in Errors : ErrorMsg(kind) \in Message
        /\ Text("none").kind \notin Weighty /\ \A kind \in Errors : ErrorMsg(kind).kind \notin Weighty
    BY MessagesTyped DEF Notes, Text, ErrorMsg, Msg, Errors, Weighty
  <2> QED BY <1>2, <2>1
<1>4. \A S : \A u \in RecordUsage : Good(u, S)
  <2>1. ASSUME NEW b \in BOOLEAN, NEW S
        PROVE  Good(<<Usage(b)>>, S)
    <3> DEFINE e == Usage(b)
    <3>1. e \in Effect /\ e.op = "usage"
      BY EffectsTyped DEF Usage
    <3> HIDE DEF e
    <3>2. <<e>> \in Seq(Effect) /\ Plain(<<e>>, S)
      BY <3>1 DEF Plain
    <3> QED BY <3>2 DEF e
  <2>2. \A S : Good(<<>>, S)
    BY NoEffects, PlainNothing
  <2> HIDE DEF Good
  <2> QED BY <2>1, <2>2 DEF RecordUsage
<1>5. \A b \in Batches \cup {<<>>} : IdsIn(b) \subseteq Requests /\ Good(RequestsOf(b), IdsIn(b))
  <2>1. \A b \in Batches \cup {<<>>} : b \in Seq(Requests)
    <3>1. Batches \subseteq Seq(Requests) /\ <<>> \in Seq(Requests)
      BY SetsAssumption
    <3> QED BY <3>1
  <2> QED BY <2>1, RequestsOfTyped, RequestsPlain
<1>6. ASSUME NEW effs, NEW streamed \in SUBSET Requests, NEW yield,
             Good(effs, streamed), StreamEnds(effs, streamed, yield)
      PROVE  PermissionInv'
  BY <1>6, StreamPermitted
<1> HIDE DEF Good
<1>7. CASE ProviderReplies
  <2>1. PICK u \in RecordUsage :
          \/ StreamEnds(u \o <<Append_(Text("none"))>>, {}, FALSE)
          \/ \E b \in Batches : StreamEnds(u \o RequestsOf(b), IdsIn(b), FALSE)
    BY <1>7 DEF ProviderReplies
  <2>2. ASSUME NEW b \in Batches, StreamEnds(u \o RequestsOf(b), IdsIn(b), FALSE)
        PROVE  PermissionInv'
    <3>1. Good(u \o RequestsOf(b), IdsIn(b)) /\ IdsIn(b) \in SUBSET Requests
      BY <1>1, <1>4, <1>5
    <3> QED BY <1>6, <2>2, <3>1
  <2>3. CASE StreamEnds(u \o <<Append_(Text("none"))>>, {}, FALSE)
    <3>1. Good(u \o <<Append_(Text("none"))>>, {})
      BY <1>1, <1>3, <1>4
    <3> QED BY <1>6, <2>3, <3>1
  <2> QED BY <2>1, <2>2, <2>3
<1>8. CASE ProviderFails
  <2>1. ASSUME NEW kind \in Errors, NEW b \in Batches \cup {<<>>},
               StreamEnds(RequestsOf(b) \o <<Append_(ErrorMsg(kind))>>, IdsIn(b), FALSE)
        PROVE  PermissionInv'
    <3>1. Good(RequestsOf(b) \o <<Append_(ErrorMsg(kind))>>, IdsIn(b)) /\ IdsIn(b) \in SUBSET Requests
      BY <1>1, <1>3, <1>5
    <3> QED BY <1>6, <2>1, <3>1
  <2>2. CASE StreamEnds(<<Append_(Text("none"))>>, {}, TRUE)
    BY <1>3, <1>6, <2>2
  <2> QED BY <1>8, <2>1, <2>2 DEF ProviderFails
<1> QED BY <1>7, <1>8

-----------------------------------------------------------------------------
(* Clients and failures *)

(* A client's message joins the store while effects are still to be persisted: *)
(* it may answer requests the user was asked about.                            *)
LEMMA JoinedEffectsFit ==
  ASSUME NEW effs, NEW c \in Seq(Message), NEW m \in Message, m.kind \notin {"request", "ask"},
         NEW A, NEW B, NEW E, A \subseteq B, EffectsFit(effs, c, A, E),
         \A r : Allowed(B, r) \/ Denied(B, r) => Allowed(A, r) \/ Denied(A, r) \/ AskedIn(c, r)
  PROVE  EffectsFit(effs, Append(c, m), B, E)
<1> DEFINE d == Append(c, m)
<1>1. \A i \in DOMAIN d : (i \in DOMAIN c /\ d[i] = c[i]) \/ d[i] = m
  BY AppendFacts
<1>2. \A b : Carried(b, c) => Carried(b, d)
  BY CarriedAppend
<1> HIDE DEF d
<1>3. \A r : /\ AskedIn(d, r) => AskedIn(c, r)
             /\ Halted(c, r) => Halted(d, r)
             /\ Allowed(A, r) => Allowed(B, r)
  BY <1>1 DEF AskedIn, Halted, Allowed
<1> SUFFICES ASSUME NEW k \in DOMAIN effs
             PROVE
      /\ ~Appends(effs, k, "approval")
      /\ Appends(effs, k, "request") \/ Appends(effs, k, "ask") => effs[k].msg.ids \subseteq E
      /\ Appends(effs, k, "request") => \A r \in effs[k].msg.ids :
           /\ ~AskedIn(d, r) /\ ~Allowed(B, r) /\ ~Denied(B, r)
           /\ \A j \in DOMAIN effs : Appends(effs, j, "ask") => r \notin effs[j].msg.ids
      /\ Appends(effs, k, "ask") => \A r \in effs[k].msg.ids :
           Allowed(B, r) \/ Halted(d, r) \/ \E j \in 1 .. k - 1 : effs[j] = Patch(r, "no")
      /\ effs[k].op = "patch" /\ effs[k].note = "yes" => Allowed(B, effs[k].id)
      /\ effs[k].op = "replace" => Len(effs) = 1 /\ Carried(effs[k].conv, d)
  BY DEF EffectsFit, d
<1>4. ASSUME Appends(effs, k, "request"), NEW r \in effs[k].msg.ids
      PROVE  /\ ~AskedIn(d, r) /\ ~Allowed(B, r) /\ ~Denied(B, r)
             /\ \A j \in DOMAIN effs : Appends(effs, j, "ask") => r \notin effs[j].msg.ids
  <2>1. /\ ~AskedIn(c, r) /\ ~Allowed(A, r) /\ ~Denied(A, r)
        /\ \A j \in DOMAIN effs : Appends(effs, j, "ask") => r \notin effs[j].msg.ids
    BY <1>4 DEF EffectsFit
  <2> QED BY <1>3, <2>1
<1>5. ASSUME Appends(effs, k, "ask"), NEW r \in effs[k].msg.ids
      PROVE  Allowed(B, r) \/ Halted(d, r) \/ \E j \in 1 .. k - 1 : effs[j] = Patch(r, "no")
  <2>1. Allowed(A, r) \/ Halted(c, r) \/ \E j \in 1 .. k - 1 : effs[j] = Patch(r, "no")
    BY <1>5 DEF EffectsFit
  <2> QED BY <1>3, <2>1
<1>6. /\ ~Appends(effs, k, "approval")
      /\ Appends(effs, k, "request") \/ Appends(effs, k, "ask") => effs[k].msg.ids \subseteq E
      /\ effs[k].op = "patch" /\ effs[k].note = "yes" => Allowed(A, effs[k].id)
      /\ effs[k].op = "replace" => Len(effs) = 1 /\ Carried(effs[k].conv, c)
  BY DEF EffectsFit
<1> QED BY <1>2, <1>3, <1>4, <1>5, <1>6

LEMMA ReplyPermitted ==
  ASSUME TypeInv, PermissionInv, NEW note \in PromptNotes, Reply(note)
  PROVE  PermissionInv'
<1> DEFINE m == Prompt(note)
<1>1. /\ conv' = Append(conv, m) /\ answers' = answers /\ emitted' = emitted /\ effects' = effects
      /\ pc' = "load" /\ conv \in Seq(Message)
  BY DEF Reply, step, TypeInv, StoreOK
<1>2. m \in Message /\ m.kind = "prompt"
  <2>1. note \in Notes
    BY SetsAssumption DEF Notes
  <2> QED BY <2>1, MessagesTyped DEF Prompt, Msg
<1> HIDE DEF m
<1>3. EffectsFit(effects, Append(conv, m), answers, emitted)
  BY <1>1, <1>2, JoinedEffectsFit DEF PermissionInv, EffectsInv
<1>4. StoreFits(Append(conv, m), answers, emitted)
  <2> DEFINE d == Append(conv, m)
  <2>1. \A i \in DOMAIN d : (i \in DOMAIN conv /\ d[i] = conv[i]) \/ d[i] = m
    BY <1>1, <1>2, AppendFacts
  <2> HIDE DEF d
  <2>2. AnswersFit(d, answers) /\ EmittedFit(d, answers, emitted)
    BY <1>2, <2>1 DEF PermissionInv, StoreInv, StoreFits, AnswersFit, EmittedFit
  <2>3. \A r : (AskedIn(d, r) => AskedIn(conv, r)) /\ (Halted(conv, r) => Halted(d, r))
    BY <1>2, <2>1 DEF AskedIn, Halted
  <2>4. MarksFit(d, answers)
    BY <2>3 DEF PermissionInv, StoreInv, StoreFits, MarksFit
  <2> QED BY <2>2, <2>4 DEF StoreFits, d
<1>5. StoreInv' /\ EffectsInv'
  BY <1>1, <1>3, <1>4 DEF StoreInv, EffectsInv
<1>6. pc' \notin Operations
  BY <1>1, PipelineOrder
<1> QED BY <1>1, <1>5, <1>6 DEF PermissionInv, SnapInv, ScreenInv

LEMMA ConfirmPermitted ==
  ASSUME TypeInv, PermissionInv, NEW r \in Requests, NEW ans \in GivenAnswers, Confirm(r, ans)
  PROVE  PermissionInv'
<1> DEFINE m == Approval(r, ans)
           B == answers \cup {<<r, ans>>}
<1>1. /\ conv' = Append(conv, m) /\ answers' = B /\ emitted' = emitted /\ effects' = effects
      /\ pc' = pc /\ snap' = snap /\ level' = level /\ cancelled' = cancelled /\ conv \in Seq(Message)
      /\ AskedIn(conv, r) /\ \A given \in Answers : <<r, given>> \notin answers
  BY DEF Confirm, step, TypeInv, StoreOK, AskedIn
<1>2. ans \in Answers /\ m \in Message /\ m.kind = "approval" /\ m.ids = {r} /\ m.note = ans
  <2>1. ans \in Answers
    BY SetsAssumption
  <2> QED BY <2>1, MessagesTyped DEF Approval, Msg
<1> HIDE DEF m
<1>3. /\ \A s : s # r => (Allowed(B, s) <=> Allowed(answers, s)) /\ (Denied(B, s) <=> Denied(answers, s))
      /\ \A s : Allowed(answers, s) => Allowed(B, s)
      /\ ~Allowed(answers, r) /\ ~Denied(answers, r) /\ ~(Allowed(B, r) /\ Denied(B, r))
  <2>1. Allowing \subseteq Answers /\ Denying \subseteq Answers /\ Allowing \cap Denying = {}
    BY DEF Allowing, Denying, Answers
  <2>2. \A s, a : <<s, a>> \in B <=> <<s, a>> \in answers \/ (s = r /\ a = ans)
    OBVIOUS
  <2> HIDE DEF B
  <2>3. \A s : s # r => (Allowed(B, s) <=> Allowed(answers, s)) /\ (Denied(B, s) <=> Denied(answers, s))
    BY <2>2, Zenon DEF Allowed, Denied
  <2>4. \A s : Allowed(answers, s) => Allowed(B, s)
    BY <2>2, Zenon DEF Allowed
  <2>5. ~Allowed(answers, r) /\ ~Denied(answers, r)
    BY <1>1, <2>1 DEF Allowed, Denied
  <2>6. ~(Allowed(B, r) /\ Denied(B, r))
    <3>1. \A a \in Answers : <<r, a>> \in B => a = ans
      BY <1>1, <2>2, Zenon
    <3> QED BY <2>1, <3>1 DEF Allowed, Denied
  <2> QED BY <2>3, <2>4, <2>5, <2>6
<1>4. answers \subseteq B /\ <<r, ans>> \in B
  OBVIOUS
<1> HIDE DEF B
<1>5. EffectsFit(effects, Append(conv, m), B, emitted)
  <2>1. m.kind \notin {"request", "ask"}
    BY <1>2
  <2>2. \A s : Allowed(B, s) \/ Denied(B, s) => Allowed(answers, s) \/ Denied(answers, s) \/ AskedIn(conv, s)
    BY <1>1, <1>3
  <2> QED BY <1>1, <1>2, <1>4, <2>1, <2>2, JoinedEffectsFit DEF PermissionInv, EffectsInv
<1>6. StoreFits(Append(conv, m), B, emitted)
  <2> DEFINE d == Append(conv, m)
  <2>1. \A i \in DOMAIN d : (i \in DOMAIN conv /\ d[i] = conv[i]) \/ d[i] = m
    BY <1>1, <1>2, AppendFacts
  <2> HIDE DEF d
  <2>2. \A s : (AskedIn(d, s) => AskedIn(conv, s)) /\ (Halted(conv, s) => Halted(d, s))
    BY <1>2, <2>1 DEF AskedIn, Halted
  <2>3. AnswersFit(d, B)
    BY <1>2, <1>3, <1>4, <2>1 DEF PermissionInv, StoreInv, StoreFits, AnswersFit
  <2>4. MarksFit(d, B)
    <3>1. Halted(conv, r)
      BY <1>1, <1>3 DEF PermissionInv, StoreInv, StoreFits, MarksFit
    <3> QED BY <1>3, <2>2, <3>1 DEF PermissionInv, StoreInv, StoreFits, MarksFit
  <2>5. EmittedFit(d, B, emitted)
    <3>1. r \in emitted
      BY <1>1 DEF PermissionInv, StoreInv, StoreFits, EmittedFit, AskedIn
    <3> QED BY <1>2, <1>3, <2>1, <3>1 DEF PermissionInv, StoreInv, StoreFits, EmittedFit
  <2> QED BY <2>3, <2>4, <2>5 DEF StoreFits, d
<1>7. StoreInv' /\ EffectsInv'
  BY <1>1, <1>5, <1>6 DEF StoreInv, EffectsInv
<1>8. SnapInv'
  BY <1>1, <1>2, CarriedAppend DEF PermissionInv, SnapInv
<1>9. ScreenInv'
  BY <1>1 DEF PermissionInv, ScreenInv
<1> QED BY <1>7, <1>8, <1>9 DEF PermissionInv

LEMMA OtherStepsPermitted ==
  ASSUME PermissionInv, Resume \/ QueueSteer \/ Cancel \/ Abort \/ Crash \/ UNCHANGED vars
  PROVE  PermissionInv'
<1>1. Unchanged
  BY DEF Resume, QueueSteer, Cancel, Abort, Crash, vars, persisted, history, Unchanged
<1>2. CASE Abort \/ Crash
  BY <1>1, <1>2, ClearedPermitted DEF Abort, Crash
<1>3. CASE Resume
  <2>1. /\ snap' = snap /\ effects' = effects /\ pc' \notin Operations \cup {"tools", "provider"}
        /\ pc' \notin {"recipe", "tool_execution"}
    BY <1>3, PipelineOrder DEF Resume, step
  <2> QED BY <1>1, <2>1, OnwardPermitted DEF ScreenInv
<1>4. CASE QueueSteer \/ Cancel \/ UNCHANGED vars
  <2>1. /\ snap' = snap /\ effects' = effects /\ pc' = pc /\ level' = level
        /\ cancelled' = cancelled \/ cancelled'
    BY <1>4 DEF QueueSteer, Cancel, vars, step, persisted
  <2>2. ScreenInv'
    BY <2>1 DEF PermissionInv, ScreenInv
  <2> QED BY <1>1, <2>1, <2>2, OnwardPermitted
<1> QED BY <1>2, <1>3, <1>4

-----------------------------------------------------------------------------

LEMMA PermissionInit == Init => PermissionInv
<1> SUFFICES ASSUME Init PROVE PermissionInv
  OBVIOUS
<1>1. /\ conv = <<>> /\ effects = <<>> /\ answers = {} /\ pc = "idle" /\ "idle" \notin Operations
      /\ DOMAIN conv = {} /\ DOMAIN effects = {}
  BY PipelineOrder DEF Init
<1>2. StoreInv
  BY <1>1 DEF StoreInv, StoreFits, AnswersFit, MarksFit, EmittedFit, Allowed, Denied, AskedIn
<1>3. EffectsInv
  BY <1>1 DEF EffectsInv, EffectsFit
<1> QED BY <1>1, <1>2, <1>3 DEF PermissionInv, SnapInv, ScreenInv

LEMMA PermissionStep == TypeInv /\ PermissionInv /\ [Next]_vars => PermissionInv'
<1> SUFFICES ASSUME TypeInv, PermissionInv, [Next]_vars PROVE PermissionInv'
  OBVIOUS
<1>1. CASE Machine
  BY <1>1, KernelPermitted, ApplyEffectPermitted, SlashCommandPermitted, SteerPermitted,
     QuietOperationsPermitted, ApprovePermitted, RecipePermitted, DispatchToolsPermitted,
     RetryPermitted, InferPermitted, ProviderPermitted DEF Machine
<1>2. CASE Client
  BY <1>2, ReplyPermitted, ConfirmPermitted, OtherStepsPermitted DEF Client
<1>3. CASE Abort \/ Crash \/ UNCHANGED vars
  BY <1>3, OtherStepsPermitted
<1> QED BY <1>1, <1>2, <1>3 DEF Next

(* A request that is found executable after the approval operation is         *)
(* permitted, whatever the client has answered since the snapshot was taken.  *)
LEMMA ExecutablePermitted ==
  ASSUME TypeInv, PermissionInv, pc \in {"recipe", "tool_execution"}, ~cancelled, Mode # "chat",
         NEW i \in Unanswered(snap), Executable(snap, i), RequestAt(snap, i) \notin Malformed
  PROVE  RequestAt(snap, i) \in Requests /\ Permitted(RequestAt(snap, i))
<1> DEFINE r == RequestAt(snap, i)
<1>1. /\ i \in DOMAIN snap /\ snap[i].kind = "request" /\ r \in Requests /\ snap[i].ids = {r}
      /\ snap[i].note # "no"
  <2>1. i \in DOMAIN snap /\ snap[i].kind = "request" /\ snap[i].note # "no"
    BY DEF Unanswered, Turn, Executable
  <2> QED BY <2>1, RequestAtTyped DEF TypeInv, ControlOK
<1>2. Carried(snap, conv) /\ Screened(snap, level) /\ AnswersFit(conv, answers) /\ MarksFit(conv, answers)
  BY PipelineOrder DEF PermissionInv, SnapInv, ScreenInv, StoreInv, StoreFits
<1>3. ~Halted(conv, r)
  <2>1. ~Halted(snap, r)
    BY <1>1 DEF Halted
  <2> QED BY <1>2, <2>1, CarriedMeaning
<1>4. ~Denied(answers, r)
  BY <1>1, <1>2, <1>3 DEF MarksFit
<1>5. Allowed(answers, r) \/ Verdict(r, level) = "approved"
  <2>1. CASE HasAnswer(snap, r, Answers)
    <3>1. PICK ans \in Answers : <<r, ans>> \in answers
      BY <1>2, <2>1, AnswerGiven
    <3>2. Answers = Allowing \cup Denying
      BY DEF Answers, Allowing, Denying
    <3> QED BY <1>4, <3>1, <3>2 DEF Allowed, Denied
  <2>2. CASE r \in Asked(snap)
    <3>1. AskedIn(snap, r)
      BY <2>2 DEF Asked, IdsOf, Turn, AskedIn
    <3>2. AskedIn(conv, r)
      BY <1>2, <3>1, CarriedMeaning
    <3> QED BY <1>1, <1>2, <1>3, <3>2 DEF MarksFit
  <2>3. CASE ~HasAnswer(snap, r, Answers) /\ r \notin Asked(snap)
    <3>1. i \in Pending(snap)
      BY <2>3 DEF Pending, Decided
    <3> QED BY <1>2, <3>1 DEF Screened
  <2> QED BY <2>1, <2>2, <2>3
<1> QED BY <1>1, <1>4, <1>5 DEF Permitted, Allowed, Denied

LEMMA ExecutionStep ==
  ASSUME TypeInv, PermissionInv, [Next]_vars, NEW r \in Requests, executed'[r] > executed[r]
  PROVE  Permitted(r)
<1>1. executed[r] \in Nat /\ executed' # executed
  BY DEF TypeInv, HistoryOK
<1>2. Recipe \/ DispatchTools
  BY <1>1 DEF Next, Machine, Client, Load, SkipCancelled, ApplyEffect, EndStep, SlashCommand, Steer,
     StopAtMaxTurns, Compact, Approve, FinishTools, AnswerUnknown, Retry, StopHook, ExitOnError, Infer,
     CancelOpen, ProviderReplies, ProviderFails, StreamEnds, Reply, Resume, Confirm, QueueSteer, Cancel,
     Abort, Crash, vars, history
<1>3. CASE Recipe
  <2>1. PICK i \in FirstFinal(snap) : /\ Mode # "chat" /\ pc = "recipe" /\ ~cancelled
                                     /\ executed' = [executed EXCEPT ![RequestAt(snap, i)] = @ + 1]
    BY <1>1, <1>3 DEF Recipe, At
  <2>2. /\ i \in Unanswered(snap) /\ Executable(snap, i) /\ RequestAt(snap, i) \notin Malformed
    BY SetsAssumption DEF FirstFinal
  <2>3. Permitted(RequestAt(snap, i))
    BY <2>1, <2>2, ExecutablePermitted
  <2>4. r = RequestAt(snap, i)
    BY <1>1, <2>1 DEF TypeInv, HistoryOK
  <2> QED BY <2>3, <2>4
<1>4. CASE DispatchTools
  <2>1. PICK i \in Runnable(snap) : /\ Mode # "chat" /\ pc = "tool_execution" /\ ~cancelled
                                    /\ RequestAt(snap, i) = r /\ Executable(snap, i)
    BY <1>1, <1>4 DEF DispatchTools, At
  <2>2. i \in Unanswered(snap) /\ RequestAt(snap, i) \notin Malformed
    BY SetsAssumption DEF Runnable
  <2> QED BY <2>1, <2>2, ExecutablePermitted
<1> QED BY <1>2, <1>3, <1>4

(* The store, the effects under way and the snapshot of the step agree with   *)
(* the answers the user has given (ops_tool_approval, apply_effects): a       *)
(* request is marked before the user is asked about it, and becomes           *)
(* executable only when allowed.                                              *)
THEOREM PermissionCorrect == Spec => []PermissionInv
<1>1. TypeInv /\ PermissionInv /\ [Next]_vars => PermissionInv'
  BY PermissionStep
<1> QED BY <1>1, PermissionInit, TurnTypeCorrect, PTL DEF Spec

(* No tool runs without permission, the action property the runs check.       *)
THEOREM ExecutionPermitted == Spec => ExecutionIsPermitted
<1>1. TypeInv /\ PermissionInv /\ [Next]_vars
        => [\A r \in Requests : executed'[r] > executed[r] => Permitted(r)]_vars
  BY ExecutionStep
<1> QED BY <1>1, TurnTypeCorrect, PermissionCorrect, PTL DEF Spec, ExecutionIsPermitted

=============================================================================
