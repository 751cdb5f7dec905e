----------------------------- MODULE TurnMachine -----------------------------
(***************************************************************************)
(* One agent turn as goose's re-entrant state machine runs it:             *)
(* crates/goose-agent (the kernel: load, step, apply) with the operations  *)
(* of crates/goose/src/agents/state_machine.                               *)
(*                                                                         *)
(* A step loads a snapshot of the persisted conversation and offers it to  *)
(* the operations in order; the first one that applies yields a list of    *)
(* effects, which are then persisted one by one.  Clients confirm tool     *)
(* calls, steer and cancel at any moment, and the process may crash        *)
(* between any two of these steps: only conv and level survive.            *)
(***************************************************************************)
EXTENDS Conversation

CONSTANTS
  Batches,          \* sequences of requests the provider may emit in one inference
  Known,            \* requests for a tool an extension offers
  Final,            \* requests for the recipe's final-output tool
  Malformed,        \* requests whose arguments do not parse
  Tools,            \* tool names
  ToolOf,           \* the tool each request names
  Screen,           \* inspectors' verdict on a request, user permissions aside
  Flagged,          \* requests the security inspector wants confirmed in any case
  GivenAnswers,     \* answers users give to approval requests
  Mode,             \* goose_mode
  FinalOutput,      \* the session's recipe has a response schema
  Compaction,       \* the provider leaves context management to goose
  CompactionSheds,  \* a compaction always brings usage below the threshold
  HooksDeny,        \* a Stop hook may deny the end of a turn
  CanCancel,        \* clients may cancel a run
  MaxTurns, MaxRetries, BlockCap, MaxContextErrorCompactions,
  MaxMessages, MaxPrompts, MaxSteers, MaxErrors, MaxCrashes,   \* bounds of the model
  PromptNotes       \* kinds of prompt clients send: "none" or a slash command

Verdicts == {"approved", "needs_approval", "denied"}

ASSUME SetsAssumption ==
  /\ Batches \subseteq Seq(Requests) /\ <<>> \notin Batches
  /\ Known \subseteq Requests /\ Final \subseteq Requests /\ Malformed \subseteq Requests
  /\ Known \cap Final = {} /\ Malformed \cap (Known \cup Final) = {}
  /\ ToolOf \in [Requests -> Tools]
  /\ Screen \in [Requests -> Verdicts]
  /\ Flagged \subseteq Requests
  /\ GivenAnswers \subseteq Answers
  /\ PromptNotes \subseteq {"none"} \cup Commands

ASSUME NumbersAssumption ==
  /\ Mode \in {"auto", "approve", "chat"}
  /\ {FinalOutput, Compaction, CompactionSheds, HooksDeny, CanCancel} \subseteq BOOLEAN
  /\ {MaxTurns, MaxRetries, BlockCap, MaxContextErrorCompactions} \subseteq Nat
  /\ {MaxMessages, MaxPrompts, MaxSteers, MaxErrors, MaxCrashes} \subseteq Nat

VARIABLES
  conv,       \* the session's conversation in the store
  level,      \* user permission per tool, persisted by the permission manager
  over,       \* recorded token usage exceeds the compaction threshold
  queue,      \* steer queue of the session (number of messages)
  goal, grind,  \* the agent's goal and grind goal are set
  pc,         \* where the run of the machine is: an operation of Pipeline, or
              \* "idle", "load", "tools", "provider", "apply"
  snap,       \* the conversation the step works on
  effects,    \* effects of the step still to be persisted
  yielding,   \* the step yields to the client once its effects are persisted
  cancelled,  \* the run's cancellation token
  running,    \* requests of the batch the tool operation is working on
  executed,   \* history: how often each request was executed
  emitted,    \* history: requests the provider has emitted
  answers,    \* history: answers given to approval requests, as <<request, answer>>
  calls,      \* history: inferences since user input or a retry
  resets,     \* history: retries since user input
  used        \* history: prompts, steers, errors, crashes so far

persisted == <<conv, level, over>>
memory    == <<queue, goal, grind>>
step      == <<snap, effects, yielding, running>>
history   == <<executed, emitted, answers, calls, resets, used>>
vars == <<persisted, memory, pc, step, cancelled, history>>

(* Mutant: Stop hooks are asked before the recipe looks at the reply. *)
StopHookFirst == <<"slash_command", "steer", "max_turns", "compaction", "tool_approval",
                   "stop_hook", "recipe", "tool_execution", "unknown_tool", "retry",
                   "exit_on_error", "llm">>

(* Order of the operations; inference comes last. *)
Pipeline == <<"slash_command", "steer", "max_turns", "compaction", "tool_approval", "recipe",
              "tool_execution", "unknown_tool", "retry", "stop_hook", "exit_on_error", "llm">>

Operations == {Pipeline[k] : k \in DOMAIN Pipeline}
Place(op)  == CHOOSE k \in DOMAIN Pipeline : Pipeline[k] = op
After(op)  == Pipeline[Place(op) + 1]

-----------------------------------------------------------------------------
(* Effects *)

Append_(m)      == [op |-> "append", msg |-> m]
Patch(r, note)  == [op |-> "patch", id |-> r, note |-> note]
Hide(i)         == [op |-> "hide", at |-> i]
Replace(c)      == [op |-> "replace", conv |-> c]
Usage(b)        == [op |-> "usage", over |-> b]

Effect == [op: {"append"}, msg: Message] \cup [op: {"patch"}, id: Requests, note: {"yes", "no"}]
            \cup [op: {"hide"}, at: Nat] \cup [op: {"replace"}, conv: Seq(Message)]
            \cup [op: {"usage"}, over: BOOLEAN]

(* The increasing enumerations of a set of positions: there is exactly one. *)
Orders(P) == {q \in [1 .. Cardinality(P) -> P] : \A i, j \in DOMAIN q : i < j => q[i] < q[j]}

-----------------------------------------------------------------------------
(* The kernel: StateMachine::run, step and apply *)

Init ==
  /\ conv = <<>> /\ level = [t \in Tools |-> "default"] /\ over = FALSE
  /\ queue = 0 /\ goal = FALSE /\ grind = FALSE
  /\ pc = "idle" /\ snap = <<>> /\ effects = <<>> /\ yielding = FALSE /\ cancelled = FALSE
  /\ running = {}
  /\ executed = [r \in Requests |-> 0] /\ emitted = {} /\ answers = {}
  /\ calls = 0 /\ resets = 0
  /\ used = [prompts |-> 0, steers |-> 0, errors |-> 0, crashes |-> 0]

Clear == snap' = <<>> /\ effects' = <<>> /\ yielding' = FALSE /\ running' = {}

Load ==
  /\ pc = "load"
  /\ snap' = conv
  /\ pc' = Pipeline[1]
  /\ UNCHANGED <<persisted, memory, effects, yielding, running, cancelled, history>>

(* Operation op does not apply, or the run is cancelled: on to the next one. *)
Pass(op) ==
  /\ pc' = After(op)
  /\ UNCHANGED <<step, cancelled>>

(* Operation op applies.  A cancellation that arrives while it works makes *)
(* the step yield.                                                         *)
Applied(effs, yield) ==
  \E c \in {cancelled, cancelled \/ CanCancel} :
    /\ cancelled' = c
    /\ yielding' = (yield \/ c)
    /\ effects' = effs
    /\ running' = {}
    /\ pc' = "apply"
    /\ UNCHANGED snap

SkipCancelled ==
  /\ pc \in Operations \ {"llm"}
  /\ cancelled
  /\ Pass(pc)
  /\ UNCHANGED <<persisted, memory, history>>

At(op) == pc = op /\ ~cancelled

(* What persisting effect e makes of the stored conversation c. *)
Stored(c, e) ==
  CASE e.op = "append"  -> Append(c, e.msg)
    [] e.op = "patch"   -> [i \in DOMAIN c |-> IF c[i].kind = "request" /\ e.id \in c[i].ids
                                                THEN [c[i] EXCEPT !.note = e.note] ELSE c[i]]
    [] e.op = "hide"    -> [i \in DOMAIN c |-> IF i = e.at THEN [c[i] EXCEPT !.av = FALSE]
                                                ELSE c[i]]
    [] e.op = "replace" -> e.conv
    [] e.op = "usage"   -> c

(* SessionManager::apply_effects persists one effect. *)
ApplyEffect ==
  /\ pc = "apply" /\ effects # <<>>
  /\ LET e       == Head(effects)
         steered == e.op = "append" /\ e.msg.note = "steer"
     IN  /\ conv' = Stored(conv, e)
         /\ over' \in CASE e.op = "usage"   -> {e.over}
                        [] e.op = "replace" -> {over /\ ~CompactionSheds, FALSE}
                        [] OTHER            -> {over}
         /\ calls'  = IF steered THEN 0 ELSE calls
         /\ resets' = IF steered THEN 0 ELSE resets
  /\ effects' = Tail(effects)
  /\ UNCHANGED <<level, memory, pc, snap, yielding, running, cancelled,
                 executed, emitted, answers, used>>

EndStep ==
  /\ pc = "apply" /\ effects = <<>>
  /\ pc' = IF yielding THEN "idle" ELSE "load"
  /\ Clear
  /\ UNCHANGED <<persisted, memory, cancelled, history>>

-----------------------------------------------------------------------------
(* Operations that talk for the user or count turns *)

(* /goal and /grind with a description (RetryOperation::run_command). *)
SlashCommand ==
  /\ At("slash_command")
  /\ IF Turn(snap) = {Len(snap)} /\ Last(snap).note \in Commands
     THEN /\ goal'  = (goal \/ Last(snap).note = "goal")
          /\ grind' = (grind \/ Last(snap).note = "grind")
          /\ Applied(<<Hide(Len(snap)), Append_(UserOnlyText), Append_(HiddenPrompt)>>, FALSE)
     ELSE Pass("slash_command") /\ UNCHANGED <<goal, grind>>
  /\ UNCHANGED <<persisted, queue, history>>

(* Mutant: one message of the drained queue reaches the conversation. *)
SteerOne ==
  /\ At("steer")
  /\ IF queue > 0 /\ (EndsTurn(snap) \/ EffectiveRole(Last(snap)) = "tool")
     THEN Applied(<<Append_(Prompt("steer"))>>, FALSE) /\ queue' = 0
     ELSE Pass("steer") /\ UNCHANGED queue
  /\ UNCHANGED <<persisted, goal, grind, history>>

Steer ==
  /\ At("steer")
  /\ IF queue > 0 /\ (EndsTurn(snap) \/ EffectiveRole(Last(snap)) = "tool")
     THEN /\ Applied([k \in 1 .. queue |-> Append_(Prompt("steer"))], FALSE)
          /\ queue' = 0
     ELSE Pass("steer") /\ UNCHANGED queue
  /\ UNCHANGED <<persisted, goal, grind, history>>

StopAtMaxTurns ==
  /\ At("max_turns")
  /\ IF AssistantTurnCount(snap) >= MaxTurns
     THEN Applied(<<Append_(Text("budget"))>>, TRUE)
     ELSE Pass("max_turns")
  /\ UNCHANGED <<persisted, memory, history>>

-----------------------------------------------------------------------------
(* Compaction: reactive after a context-length error, proactive when the   *)
(* recorded usage is over the threshold.                                   *)

(* Mutant: only the error at the end is counted. *)
TrailingContextErrors(c) == {i \in Turn(c) : i = Len(c) /\ c[i].kind = "contextError"}

ContextErrors(c) == {i \in Turn(c) : c[i].kind = "contextError" /\ ~c[i].av}

NeedsCompaction(c) ==
  IF TrailingError(c) = "contextError"
  THEN Cardinality(ContextErrors(c)) <= MaxContextErrorCompactions
  ELSE EffectiveRole(Last(c)) = "user" /\ over

(* Mutants: the preserved user text is visible to the user; the notes on   *)
(* the hidden messages are lost; the hidden messages are dropped.          *)
CompactedVisibly(c) ==
  [i \in DOMAIN c |-> [c[i] EXCEPT !.av = FALSE]]
    \o <<Msg("summary", FALSE, TRUE, {}, "none"), Prompt("none")>>

CompactedUnmarked(c) ==
  [i \in DOMAIN c |-> [c[i] EXCEPT !.av = FALSE, !.note = "none"]]
    \o <<Msg("summary", FALSE, TRUE, {}, "none"), HiddenPrompt>>

CompactedAway(c) == <<Prompt("none"), Msg("summary", FALSE, TRUE, {}, "none"), HiddenPrompt>>

(* Everything becomes invisible to the agent; a summary and the latest     *)
(* text the agent saw from the user follow.                                *)
Compacted(c) ==
  [i \in DOMAIN c |-> [c[i] EXCEPT !.av = FALSE]]
    \o <<Msg("summary", FALSE, TRUE, {}, "none")>>
    \o (IF \E i \in DOMAIN c : c[i].av /\ c[i].kind \in {"prompt", "nudge", "denial"}
        THEN <<HiddenPrompt>> ELSE <<>>)

Compact ==
  /\ At("compaction")
  /\ IF Compaction /\ NeedsCompaction(snap)
     THEN Applied(<<Replace(Compacted(snap))>>, FALSE) \/ Applied(<<>>, TRUE)
     ELSE Pass("compaction")
  /\ UNCHANGED <<persisted, memory, history>>

-----------------------------------------------------------------------------
(* Approval of pending tool requests *)

(* PermissionInspector and the other inspectors on request r. *)
Verdict(r, lvl) ==
  LET own == IF Mode = "auto" THEN "approved"
             ELSE CASE lvl[ToolOf[r]] = "allow" -> "approved"
                    [] lvl[ToolOf[r]] = "deny"  -> "denied"
                    [] OTHER                    -> Screen[r]
  IN  IF own = "approved" /\ r \in Flagged THEN "needs_approval" ELSE own

(* ApprovalState::responses: unanswered requests the user has decided on. *)
Decided(c) == {i \in Unanswered(c) : HasAnswer(c, RequestAt(c, i), Answers)}

(* Mutant: the answer itself is stored as the executable flag. *)
RawDecision(c, i) == IF HasAnswer(c, RequestAt(c, i), Allowing) THEN "allow" ELSE "deny"

Decision(c, i) == IF HasAnswer(c, RequestAt(c, i), Allowing) THEN "yes" ELSE "no"

(* ApprovalState::pending_requests: requests nobody was asked about yet. *)
Pending(c) ==
  {i \in Unanswered(c) \ Decided(c) : /\ RequestAt(c, i) \notin Asked(c) \cup Malformed
                                      /\ Executable(c, i)}

(* Positions whose answer changes the standing permission of tool t. *)
Standing(c, t) ==
  {i \in Decided(c) : /\ ToolOf[RequestAt(c, i)] = t /\ RequestAt(c, i) \notin Malformed
                      /\ \/ HasAnswer(c, RequestAt(c, i), {"alwaysDeny"})
                         \/ HasAnswer(c, RequestAt(c, i), {"alwaysAllow"}) /\ c[i].note # "yes"}

UpdatedLevel(c) ==
  [t \in Tools |->
     IF Standing(c, t) = {} THEN level[t]
     ELSE LET i == CHOOSE i \in Standing(c, t) : \A j \in Standing(c, t) : j <= i
          IN  IF Decision(c, i) = "yes" THEN "allow" ELSE "deny"]

(* Mutant: the question is stored before the request is marked. *)
AskBeforeMarking(c, decided, denied, ask) ==
  [k \in 1 .. Len(decided) |-> Patch(RequestAt(c, decided[k]), Decision(c, decided[k]))]
    \o [k \in 1 .. Len(denied) |-> Patch(RequestAt(c, denied[k]), "no")]
    \o [k \in 1 .. 2 * Len(ask) |->
          IF k % 2 = 0 THEN Patch(RequestAt(c, ask[k \div 2]), "no")
                       ELSE Append_(Ask(RequestAt(c, ask[(k + 1) \div 2])))]

ApprovalEffects(c, decided, denied, ask) ==
  [k \in 1 .. Len(decided) |-> Patch(RequestAt(c, decided[k]), Decision(c, decided[k]))]
    \o [k \in 1 .. Len(denied) |-> Patch(RequestAt(c, denied[k]), "no")]
    \o [k \in 1 .. 2 * Len(ask) |->
          IF k % 2 = 1 THEN Patch(RequestAt(c, ask[(k + 1) \div 2]), "no")
                       ELSE Append_(Ask(RequestAt(c, ask[k \div 2])))]

ToMark(c)          == {i \in Decided(c) : c[i].note # Decision(c, i)}
WithVerdict(c, lvl, v) == {i \in Pending(c) : Verdict(RequestAt(c, i), lvl) = v}

Approve ==
  /\ At("tool_approval")
  /\ LET lvl    == IF Mode = "chat" THEN level ELSE UpdatedLevel(snap)
         denied == WithVerdict(snap, lvl, "denied")
         ask    == WithVerdict(snap, lvl, "needs_approval")
     IN  /\ level' = lvl
         /\ IF Mode # "chat" /\ ToMark(snap) \cup denied \cup ask # {}
            THEN \E q1 \in Orders(ToMark(snap)), q2 \in Orders(denied), q3 \in Orders(ask) :
                   Applied(ApprovalEffects(snap, q1, q2, q3), FALSE)
            ELSE Pass("tool_approval")
  /\ UNCHANGED <<conv, over, memory, history>>

-----------------------------------------------------------------------------
(* Tool requests: the recipe's final output, extension tools, the rest *)

IdsAt(c, P) == {RequestAt(c, i) : i \in P}

(* Mutant: a final-output call does not wait for its approval. *)
FirstFinalUnapproved(c) ==
  LET P == {i \in Unanswered(c) : RequestAt(c, i) \in Final}
  IN  {i \in P : \A j \in P : i <= j}

FirstFinal(c) ==
  LET P == {i \in Unanswered(c) : RequestAt(c, i) \in Final /\ Executable(c, i)}
  IN  {i \in P : \A j \in P : i <= j}

(* The run of assistant messages of the turn around position i. *)
Block(c, i) == {j \in Turn(c) : \A k \in DOMAIN c : (i <= k /\ k <= j) \/ (j <= k /\ k <= i)
                                                       => IsAssistant(c[k])}

(* Mutant: two final-output calls wait for each other. *)
HasAnyUnansweredSibling(c, i) == \E j \in Block(c, i) \cap Unanswered(c) : j # i

HasUnansweredSiblings(c, i) ==
  \E j \in Block(c, i) \cap Unanswered(c) : j # i /\ RequestAt(c, j) \notin Final

Succeeded(c) ==
  UNION {c[i].ids : i \in {j \in Turn(c) : c[j].kind = "response" /\ c[j].note = "success"}}

(* The latest successful final-output call, once its siblings are answered. *)
SuccessfulFinalOutput(c) ==
  \E i \in Turn(c) :
    /\ c[i].kind = "request" /\ c[i].ids \subseteq Final \cap Succeeded(c)
    /\ \A j \in Turn(c) : j > i => ~(c[j].kind = "request" /\ c[j].ids \subseteq Final \cap Succeeded(c))
    /\ Block(c, i) \cap Unanswered(c) = {}

Recipe ==
  /\ At("recipe")
  /\ IF ~FinalOutput THEN Pass("recipe") /\ UNCHANGED executed
     ELSE \/ \E i \in FirstFinal(snap) :
               LET r == RequestAt(snap, i) IN
               \/ /\ Mode = "chat"
                  /\ Applied(<<Append_(Response({r}, "none"))>>, FALSE)
                  /\ UNCHANGED executed
               \/ /\ Mode # "chat" /\ HasUnansweredSiblings(snap, i)
                  /\ Pass("recipe") /\ UNCHANGED executed
               \/ /\ Mode # "chat" /\ ~HasUnansweredSiblings(snap, i)
                  /\ \E outcome \in {"none", "success"} :
                       Applied(<<Append_(Response({r}, outcome))>>, FALSE)
                  /\ executed' = [executed EXCEPT ![r] = @ + 1]
          \/ /\ FirstFinal(snap) = {}
             /\ IF SuccessfulFinalOutput(snap)
                THEN IF EffectiveRole(Last(snap)) = "tool"
                     THEN Applied(<<Append_(Text("none"))>>, FALSE)
                     ELSE Pass("recipe")
                ELSE IF EndsTurn(snap)
                     THEN Applied(<<Append_(Prompt("continuation"))>>, FALSE)
                     ELSE Pass("recipe")
             /\ UNCHANGED executed
  /\ UNCHANGED <<persisted, memory, emitted, answers, calls, resets, used>>

(* Unanswered requests ToolExecutionOperation takes: known, and not waiting *)
(* for the user.                                                            *)
Runnable(c) ==
  {i \in Unanswered(c) : RequestAt(c, i) \in Known /\ (Executable(c, i) \/ Declined(c, i))}

(* The executable ones are dispatched together. *)
DispatchTools ==
  /\ At("tool_execution")
  /\ IF Runnable(snap) = {}
     THEN Pass("tool_execution") /\ UNCHANGED executed
     ELSE /\ executed' = [r \in Requests |->
               IF Mode # "chat" /\ \E i \in Runnable(snap) : RequestAt(snap, i) = r /\ Executable(snap, i)
               THEN executed[r] + 1 ELSE executed[r]]
          /\ running' = IdsAt(snap, Runnable(snap))
          /\ pc' = "tools"
          /\ UNCHANGED <<snap, effects, yielding, cancelled>>
  /\ UNCHANGED <<persisted, memory, emitted, answers, calls, resets, used>>

(* Mutant: an interrupted batch gets no response. *)
FinishUninterrupted ==
  /\ pc = "tools"
  /\ Applied(IF cancelled THEN <<>> ELSE <<Append_(Response(running, "none"))>>, FALSE)
  /\ UNCHANGED <<persisted, memory, history>>

(* All results are in, or a cancellation interrupts the outstanding calls:  *)
(* one response message answers the whole batch.                            *)
FinishTools ==
  /\ pc = "tools"
  /\ Applied(<<Append_(Response(running, "none"))>>, FALSE)
  /\ UNCHANGED <<persisted, memory, history>>

(* UnknownToolOperation answers every other request that does not wait for  *)
(* the user, except a final-output call the recipe will execute.            *)
Unclaimed(c) ==
  {i \in Unanswered(c) :
     /\ RequestAt(c, i) \in Malformed \/ Executable(c, i) \/ Declined(c, i)
     /\ ~(FinalOutput /\ RequestAt(c, i) \in Final /\ Executable(c, i))}

AnswerUnknown ==
  /\ At("unknown_tool")
  /\ IF Unclaimed(snap) = {} THEN Pass("unknown_tool")
     ELSE Applied(<<Append_(Response(IdsAt(snap, Unclaimed(snap)), "none"))>>, FALSE)
  /\ UNCHANGED <<persisted, memory, history>>

-----------------------------------------------------------------------------
(* The end of a turn: goals, retries, Stop hooks, errors *)

(* Mutant: the count of attempts does not survive the reset. *)
ResetUncounted(c) == SubSeq(c, 1, Kickoff(c))

(* Back to the kickoff, which counts the attempts. *)
ResetConversation(c) ==
  [i \in 1 .. Kickoff(c) |->
     IF i = Kickoff(c) THEN [c[i] EXCEPT !.attempts = @ + 1] ELSE c[i]]

(* Mutant: the user sees the grind reminder. *)
NudgeVisibly ==
  \/ /\ goal /\ ~\E i \in Turn(snap) : snap[i].kind = "nudge"
     /\ Applied(<<Append_(Msg("nudge", FALSE, TRUE, {}, "none"))>>, FALSE)
  \/ /\ ~goal \/ \E i \in Turn(snap) : snap[i].kind = "nudge"
     /\ grind
     /\ Applied(<<Append_(Prompt("none"))>>, FALSE)

Nudge ==
  \/ /\ goal /\ ~\E i \in Turn(snap) : snap[i].kind = "nudge"
     /\ Applied(<<Append_(Msg("nudge", FALSE, TRUE, {}, "none"))>>, FALSE)
  \/ /\ ~goal \/ \E i \in Turn(snap) : snap[i].kind = "nudge"
     /\ grind
     /\ Applied(<<Append_(HiddenPrompt)>>, FALSE)

(* The success checks of a recipe with a retry configuration: they pass, or *)
(* the turn ends with an error (no attempts are left, or a command of the   *)
(* recipe timed out), or the turn is restarted.                             *)
Check ==
  \/ /\ \/ Pass("retry")
        \/ MaxRetries > 0 /\ Applied(<<Append_(ErrorMsg("otherError"))>>, FALSE)
     /\ UNCHANGED <<calls, resets>>
  \/ /\ MaxRetries > 0 /\ snap[Kickoff(snap)].attempts < MaxRetries
     /\ Applied(<<Replace(ResetConversation(snap))>>, FALSE)
     /\ calls' = 0
     /\ resets' = resets + 1

Retry ==
  /\ At("retry")
  /\ \/ /\ ~EndsTurn(snap)
        /\ Pass("retry")
        /\ UNCHANGED <<goal, grind, calls, resets>>
     \/ EndsTurn(snap) /\ Nudge /\ UNCHANGED <<goal, grind, calls, resets>>
     \/ /\ EndsTurn(snap) /\ ~grind
        /\ ~goal \/ \E i \in Turn(snap) : snap[i].kind = "nudge"
        /\ goal' = FALSE /\ grind' = FALSE
        /\ Check
  /\ UNCHANGED <<persisted, queue, executed, emitted, answers, used>>

Denials(c) == {i \in Turn(c) : c[i].kind = "denial"}

(* Mutant: off by one. *)
StopHookOneMore ==
  /\ At("stop_hook")
  /\ IF ~EndsTurn(snap) THEN Pass("stop_hook")
     ELSE \/ Applied(<<>>, TRUE)
          \/ /\ HooksDeny
             /\ IF Cardinality(Denials(snap)) > BlockCap
                THEN Applied(<<Append_(UserOnlyText)>>, TRUE)
                ELSE Applied(<<Append_(Msg("denial", FALSE, TRUE, {}, "none"))>>, FALSE)
  /\ UNCHANGED <<persisted, memory, history>>

StopHook ==
  /\ At("stop_hook")
  /\ IF ~EndsTurn(snap) THEN Pass("stop_hook")
     ELSE \/ Applied(<<>>, TRUE)
          \/ /\ HooksDeny
             /\ IF Cardinality(Denials(snap)) + 1 > BlockCap
                THEN Applied(<<Append_(UserOnlyText)>>, TRUE)
                ELSE Applied(<<Append_(Msg("denial", FALSE, TRUE, {}, "none"))>>, FALSE)
  /\ UNCHANGED <<persisted, memory, history>>

(* Mutant: the step does not yield. *)
StepOnError ==
  /\ At("exit_on_error")
  /\ IF TrailingError(snap) # "none" THEN Applied(<<>>, FALSE) ELSE Pass("exit_on_error")
  /\ UNCHANGED <<persisted, memory, history>>

ExitOnError ==
  /\ At("exit_on_error")
  /\ IF TrailingError(snap) # "none" THEN Applied(<<>>, TRUE) ELSE Pass("exit_on_error")
  /\ UNCHANGED <<persisted, memory, history>>

-----------------------------------------------------------------------------
(* Inference *)

(* Mutants: what was answered is not looked at; only the requests of the    *)
(* stream are closed.                                                       *)
CloseAll(c, streamed) ==
  LET open == IdsOf(c, "request") \cup streamed
  IN  IF open = {} THEN <<>> ELSE <<Append_(Response(open, "none"))>>

CloseStreamed(c, streamed) ==
  IF streamed = {} THEN <<>> ELSE <<Append_(Response(streamed, "none"))>>

(* InferenceRunner::cancel answers every open request of the turn and of the *)
(* stream that has just ended.                                               *)
Closing(c, streamed) ==
  LET open == (IdsOf(c, "request") \cup streamed) \ AnsweredEver(c)
  IN  IF open = {} THEN <<>> ELSE <<Append_(Response(open, "none"))>>

(* The machine stops: no operation applied. *)
Stop ==
  /\ pc' = "idle"
  /\ Clear
  /\ UNCHANGED cancelled

Infer ==
  /\ At("llm")
  /\ IF InferenceApplies(snap)
     THEN /\ Len(snap) < MaxMessages
          /\ pc' = "provider"
          /\ calls' = calls + 1
          /\ UNCHANGED <<step, cancelled>>
     ELSE Stop /\ UNCHANGED calls
  /\ UNCHANGED <<persisted, memory, executed, emitted, answers, resets, used>>

(* A cancelled run reaches inference without an operation having applied. *)
CancelOpen ==
  /\ pc = "llm" /\ cancelled
  /\ IF Closing(snap, {}) = <<>> THEN Stop ELSE Applied(Closing(snap, {}), TRUE)
  /\ UNCHANGED <<persisted, memory, history>>

(* The stream ends, or the run is cancelled while it is open: what arrived  *)
(* is kept, and a cancelled run also answers the requests among it.         *)
StreamEnds(effs, streamed, yield) ==
  /\ streamed \cap emitted = {}
  /\ emitted' = emitted \cup streamed
  /\ effects' = IF cancelled THEN effs \o Closing(snap, streamed) ELSE effs
  /\ yielding' = (yield \/ cancelled)
  /\ pc' = "apply"
  /\ UNCHANGED <<persisted, memory, snap, running, cancelled, executed, answers, calls, resets>>

RecordUsage == IF Compaction THEN {<<Usage(b)>> : b \in BOOLEAN} ELSE {<<>>}

RequestsOf(b) == [k \in 1 .. Len(b) |-> Append_(Request(b[k]))]
IdsIn(b)      == {b[k] : k \in DOMAIN b}

(* Text or a batch of tool calls. *)
ProviderReplies ==
  /\ pc = "provider"
  /\ \E u \in RecordUsage :
       \/ StreamEnds(u \o <<Append_(Text("none"))>>, {}, FALSE)
       \/ \E b \in Batches : StreamEnds(u \o RequestsOf(b), IdsIn(b), FALSE)
  /\ UNCHANGED used

(* The request fails, possibly in mid-stream; or the reply is empty. *)
ProviderFails ==
  /\ pc = "provider"
  /\ used.errors < MaxErrors
  /\ used' = [used EXCEPT !.errors = @ + 1]
  /\ \/ \E kind \in Errors, b \in Batches \cup {<<>>} :
          StreamEnds(RequestsOf(b) \o <<Append_(ErrorMsg(kind))>>, IdsIn(b), FALSE)
     \/ StreamEnds(<<Append_(Text("none"))>>, {}, TRUE)

-----------------------------------------------------------------------------
(* Clients and failures *)

(* Agent::reply_with_state_machine: the prompt is persisted, then the       *)
(* machine runs.  A session has one run at a time.                          *)
Reply(note) ==
  /\ pc = "idle"
  /\ used.prompts < MaxPrompts
  /\ conv' = Append(conv, Prompt(note))
  /\ pc' = "load"
  /\ cancelled' = FALSE
  /\ calls' = 0 /\ resets' = 0
  /\ used' = [used EXCEPT !.prompts = @ + 1]
  /\ UNCHANGED <<level, over, memory, step, executed, emitted, answers>>

(* The machine is run again on the persisted conversation.  Resuming a turn *)
(* that has ended would only end it once more and is left out.              *)
Resume ==
  /\ pc = "idle"
  /\ HasKickoff(conv) /\ Last(conv).kind # "text"
  /\ pc' = "load"
  /\ cancelled' = FALSE
  /\ UNCHANGED <<persisted, memory, step, history>>

(* The user answers an approval request, once; the answer is a message. *)
Confirm(r, ans) ==
  /\ \E i \in DOMAIN conv : conv[i].kind = "ask" /\ r \in conv[i].ids
  /\ \A given \in Answers : <<r, given>> \notin answers
  /\ conv' = Append(conv, Approval(r, ans))
  /\ answers' = answers \cup {<<r, ans>>}
  /\ UNCHANGED <<level, over, memory, pc, step, cancelled, executed, emitted, calls, resets, used>>

QueueSteer ==
  /\ pc # "idle"
  /\ used.steers < MaxSteers
  /\ queue' = queue + 1
  /\ used' = [used EXCEPT !.steers = @ + 1]
  /\ UNCHANGED <<persisted, goal, grind, pc, step, cancelled, executed, emitted, answers, calls, resets>>

Cancel ==
  /\ CanCancel /\ pc # "idle" /\ ~cancelled
  /\ cancelled' = TRUE
  /\ UNCHANGED <<persisted, memory, pc, step, history>>

(* The consumer drops the reply stream: the run ends where it stands.  A    *)
(* store failure inside a step has the same outcome.                        *)
Abort ==
  /\ pc # "idle" /\ used.crashes < MaxCrashes
  /\ used' = [used EXCEPT !.crashes = @ + 1]
  /\ pc' = "idle"
  /\ Clear
  /\ UNCHANGED <<persisted, memory, cancelled, executed, emitted, answers, calls, resets>>

(* The process dies: what is not persisted is gone. *)
Crash ==
  /\ pc # "idle" /\ used.crashes < MaxCrashes
  /\ used' = [used EXCEPT !.crashes = @ + 1]
  /\ pc' = "idle" /\ cancelled' = FALSE
  /\ queue' = 0 /\ goal' = FALSE /\ grind' = FALSE
  /\ Clear
  /\ UNCHANGED <<persisted, executed, emitted, answers, calls, resets>>

-----------------------------------------------------------------------------

Machine ==
  \/ Load \/ SkipCancelled \/ ApplyEffect \/ EndStep
  \/ SlashCommand \/ Steer \/ StopAtMaxTurns \/ Compact \/ Approve \/ Recipe
  \/ DispatchTools \/ FinishTools \/ AnswerUnknown \/ Retry \/ StopHook \/ ExitOnError
  \/ Infer \/ CancelOpen \/ ProviderReplies \/ ProviderFails

Client ==
  \/ \E note \in PromptNotes : Reply(note)
  \/ Resume
  \/ \E r \in Requests, ans \in GivenAnswers : Confirm(r, ans)
  \/ QueueSteer \/ Cancel

Next == Machine \/ Client \/ Abort \/ Crash

Spec == Init /\ [][Next]_vars

(* The runtime polls a run that has been started until it ends, tools and   *)
(* providers answer or time out; nothing is assumed of clients.             *)
FairSpec == Spec /\ WF_vars(Machine)

=============================================================================
