---------------------------- MODULE Conversation ----------------------------
(***************************************************************************)
(* The persisted conversation, as far as the turn state machine reads it.  *)
(*                                                                         *)
(* A message is reduced to what the operations of the machine tell apart:  *)
(* what it carries (kind), who can see it (uv: user-visible, av: agent-    *)
(* visible), the tool request ids it carries (ids) and the note an         *)
(* operation or a client left on it (note).  Texts, timestamps, usage and  *)
(* turn-context events are left out.                                       *)
(***************************************************************************)
EXTENDS Integers, Sequences, FiniteSets

CONSTANT Requests        \* ids of the tool requests a provider can emit

(***************************************************************************)
(* What a message carries.  User-role kinds first:                         *)
(*   prompt    text of the user, or of an operation speaking as the user   *)
(*   nudge     goal reminder of ops_retry (NUDGED note)                    *)
(*   denial    Stop-hook denial (DENIED note)                              *)
(*   response  results of the tool requests in ids                         *)
(*   approval  the user's answer to an approval request (note: the answer) *)
(* Assistant-role kinds:                                                   *)
(*   text, request (one tool request), ask (ActionRequired confirmation),  *)
(*   contextError and otherError (error content), summary (compaction).    *)
(***************************************************************************)
UserKinds      == {"prompt", "nudge", "denial", "response", "approval"}
AssistantKinds == {"text", "request", "ask", "contextError", "otherError", "summary"}
Errors         == {"contextError", "otherError"}

(***************************************************************************)
(* The note of a message: the goose.executable flag of a request ("yes" or *)
(* "no"), the answer of an approval ("allow", "deny", "alwaysAllow",       *)
(* "alwaysDeny"), "success" on the response to a successful final-output   *)
(* call, "budget" on the max-turns message; on a prompt, the slash command *)
(* it holds ("goal", "grind"), "steer" when it came through the steer      *)
(* queue, "continuation" when ops_recipe wrote it.                         *)
(***************************************************************************)
Answers == {"allow", "deny", "alwaysAllow", "alwaysDeny"}
Commands == {"goal", "grind"}
Notes   == {"none", "yes", "no", "success", "budget", "steer", "continuation"}
             \cup Commands \cup Answers

(* A request message carries one request: replies with several tool calls   *)
(* are cut into one message per call.                                       *)
Message ==
  {m \in [kind: UserKinds \cup AssistantKinds, uv: BOOLEAN, av: BOOLEAN,
          ids: SUBSET Requests, note: Notes, attempts: Nat] :
     m.kind = "request" => \E r \in Requests : m.ids = {r}}

Msg(kind, uv, av, ids, note) ==
  [kind |-> kind, uv |-> uv, av |-> av, ids |-> ids, note |-> note, attempts |-> 0]

Prompt(note)     == Msg("prompt", TRUE, TRUE, {}, note)
HiddenPrompt     == Msg("prompt", FALSE, TRUE, {}, "none")
Text(note)       == Msg("text", TRUE, TRUE, {}, note)
UserOnlyText     == Msg("text", TRUE, FALSE, {}, "none")
Request(r)       == Msg("request", TRUE, TRUE, {r}, "none")
Response(S, note) == Msg("response", TRUE, TRUE, S, note)
Ask(r)           == Msg("ask", TRUE, FALSE, {r}, "none")
Approval(r, ans) == Msg("approval", FALSE, FALSE, {r}, ans)
ErrorMsg(kind)   == Msg(kind, TRUE, FALSE, {}, "none")

-----------------------------------------------------------------------------
(* Roles *)

IsAssistant(m)   == m.kind \in AssistantKinds
EffectiveRole(m) == IF m.kind = "response" THEN "tool"
                    ELSE IF IsAssistant(m) THEN "assistant" ELSE "user"

-----------------------------------------------------------------------------
(* The current turn: everything from the last kickoff message on *)

IsKickoff(m) == m.kind \in UserKinds \ {"response"} /\ m.uv

HasKickoff(c) == \E i \in DOMAIN c : IsKickoff(c[i])

Turn(c) == {i \in DOMAIN c : \A j \in DOMAIN c : IsKickoff(c[j]) => j <= i}

Kickoff(c) == CHOOSE i \in Turn(c) : IsKickoff(c[i])

Last(c) == c[Len(c)]

TrailingError(c) == IF c # <<>> /\ Last(c).kind \in Errors THEN Last(c).kind ELSE "none"

(* Maximal runs of consecutive assistant messages in the current turn. *)
AssistantTurnCount(c) ==
  Cardinality({i \in Turn(c) : /\ IsAssistant(c[i])
                               /\ i = Len(c) \/ ~IsAssistant(c[i + 1])})

EndsTurn(c) == Last(c).kind \in {"text", "summary"}

-----------------------------------------------------------------------------
(* Tool requests and their approvals in the current turn *)

IdsOf(c, kind) == UNION {c[i].ids : i \in {j \in Turn(c) : c[j].kind = kind}}

Answered(c) == IdsOf(c, "response")
Asked(c)    == IdsOf(c, "ask")

(* An approval the turn holds for r with one of the given answers. *)
HasAnswer(c, r, answers) ==
  \E i \in Turn(c) : c[i].kind = "approval" /\ r \in c[i].ids /\ c[i].note \in answers

(* Positions of the turn's requests that have no response yet. *)
Unanswered(c) ==
  {i \in Turn(c) : c[i].kind = "request" /\ c[i].ids \cap Answered(c) = {}}

RequestAt(c, i) == CHOOSE r \in Requests : c[i].ids = {r}

Allowing == {"allow", "alwaysAllow"}
Denying  == {"deny", "alwaysDeny"}

(* ToolDisposition of pending_tool_requests: a request is executable unless  *)
(* it was marked otherwise; a non-executable one is declined unless an       *)
(* approval was asked for and not denied.                                    *)
Executable(c, i) == c[i].note # "no"

(* Mutant: only the user can decline. *)
DeniedByUser(c, i) == ~Executable(c, i) /\ HasAnswer(c, RequestAt(c, i), Denying)

Declined(c, i) ==
  LET r == RequestAt(c, i)
  IN  ~Executable(c, i) /\ ~(r \in Asked(c) /\ ~HasAnswer(c, r, Denying))

-----------------------------------------------------------------------------
(* What the provider is shown: agent-visible messages, without the requests  *)
(* an earlier turn left unanswered.                                          *)

AnsweredEver(c) == UNION {c[i].ids : i \in {j \in DOMAIN c : c[j].kind = "response"}}

(* Mutant: a request counts as answered only if the current turn answers it. *)
ForProviderThisTurn(c) ==
  {i \in DOMAIN c : /\ c[i].av
                    /\ c[i].kind = "request" /\ i \notin Turn(c) => c[i].ids \subseteq Answered(c)}

ForProvider(c) ==
  {i \in DOMAIN c : /\ c[i].av
                    /\ c[i].kind = "request" /\ i \notin Turn(c) => c[i].ids \subseteq AnsweredEver(c)}

EndsWithProviderTurn(c) ==
  \E i \in ForProvider(c) : /\ \A j \in ForProvider(c) : j <= i
                            /\ ~IsAssistant(c[i])

(* Whether an inference would reach the provider. *)
InferenceApplies(c) == TrailingError(c) = "none" /\ EndsWithProviderTurn(c)

=============================================================================
