# Vasilisa (goose) in TLA+

TLA+ models of the control core of this repository, a fork of the *goose* agent:
the re-entrant state machine that runs an agent's turn and the requests it sends
to the provider, the ACP handlers that start, steer, cancel and close such runs, the
questions a tool puts to the user, the cache of agents, and the scheduler. The modules are
translated from the Rust source; TLC checks them on small instances and TLAPS
proves invariants, and one refinement, for all values of the constants. `G/` below is `src/crates/goose/src/`.

## The system

| component | state it keeps | operations | what makes it correct |
|---|---|---|---|
| Agent kernel (`src/crates/goose-agent`) | none between steps: a step loads the conversation, offers it to a list of operations, persists the effects of the first that applies | `run`, `step`, effects | a step may be cut off anywhere and the next run must still do the right thing |
| Turn operations (`G/agents/state_machine`) | notes on stored messages (`goose.executable`, NUDGED, DENIED, attempts), steer queue, goal, grind goal | slash command, steer, max turns, compaction, approval, recipe, tool execution, unknown tool, retry, Stop hook, exit on error, inference | tools run only with permission and once; every request gets one response; a turn ends within its budgets |
| Permission inspection (`G/permission`, `G/tool_inspection.rs`) | standing permission per tool | verdict on a request, update by "always" answers | a standing permission never overrides the user's denial of a request |
| ACP prompt runs (`G/acp/server.rs`) | `active_prompt_runs`, `closed_session_ids`, `sessions`, cancellation tokens | prompt, steer, cancel, close, load | one run per session; a close reaches the run; a closed session is released; steers stay with their run |
| Agent manager (`G/execution/manager.rs`, `G/agents/platform_extensions/orchestrator.rs`) | agents by session (LRU), creation locks, cancel tokens | get or create, send message, interrupt, remove | one caller builds a session's agent; one reply at a time; locks go with the sessions they are for; an interrupted session is free again |
| Elicitation, action-required (`G/elicitation.rs`, `G/action_required_manager.rs`, part of `G/agents/extension_manager.rs`) | streams of calls, pending requests, claims | register and unregister, request and wait, claim, persist, submit, time out | one answer at most is recorded for a question and it is the one the tool is told; entries and streams are removed |
| Tool confirmation router (`G/agents/tool_confirmation_router.rs`) | pending confirmations | register, deliver | an answer reaches the call it is for |
| Scheduler (`G/scheduler.rs`) | jobs, cron tasks, tokens of executions, the jobs file | add, remove, run now, tick, pause, unpause, update, kill, sync from storage, restart | a job that is said to run does; an execution can be killed; cron task and file follow the table |
| Session store (`G/session/session_manager.rs`) | the SQLite database | add, replace, patch messages | effects are atomic |
| Context management, conversation repair (`G/context_mgmt`, `goose-provider-types/src/conversation.rs`) | none | compaction, `fix_conversation` | every request has its calls and responses paired and extends the one before |
| Legacy agent loop (`G/agents/agent.rs`) | like the state machine, in memory | `reply` | as the turn machine |
| Providers, extensions and MCP, hooks, gateway, configuration, recipes, CLI, SDKs, desktop | connections, files | I/O and conversion | - |

How they interact: a client's `session/prompt` registers a run in
`active_prompt_runs`, gets the session's agent from the agent manager and consumes
the agent's reply stream. With the state machine enabled the stream is the kernel
stepping through the operations; each step reads the conversation from the session
store and writes effects back. Approval answers, steers, cancellations and closes
come in through other handlers, at any time, and meet the run only in the store, in
the agent's steer queue, in the cancellation token and in the ACP server's tables.
An inference projects and repairs the conversation into a request. A tool call may
ask the user through the action-required tables. The orchestrator's messages and the
scheduler start replies of their own on agents of the agent manager.

Hard behaviours: a step works on a snapshot which other handlers outdate; what a
step decides, stores and acts on are different moments, and a crash, an aborted
stream or a cancellation may fall between them; several operations compete to answer a
request or to keep a turn going; every lock of the ACP handlers, the agent manager, the
elicitation tables and the scheduler is released before the next one is taken; writes
fail half-way; a future that waits may be dropped, tool calls whenever their run is cancelled
(`ops_toolcalling.rs:960`); cleanup is code at the end of a function, which a drop skips, or a
guard whose work is spawned. `PROJECT.json` lists each hazard at its line with the
properties that would catch it.

## The modules

### Conversation, TurnMachine, TurnProperties, MCTurn

`Conversation` is the persisted conversation as far as the operations read it. A
message is a record of what it carries (`kind`), its visibility to the user (`uv`)
and to the agent (`av`), the ids of its tool requests, the note an operation left on
it and, on a kickoff message, the number of retry attempts. The operators are the
helpers of `goose-agent/src/operation.rs` and `G/agents/state_machine/session.rs`:
the current turn (everything from the last user-visible message of the user on),
its unanswered requests, the disposition of a request, the trailing error, whether
inference applies.

`TurnMachine` is the kernel and the operations.

| variable | code |
|---|---|
| `conv`, `level`, `over` | the session's messages in the store, permission file, recorded usage against the compaction threshold: what survives a crash |
| `queue`, `goal`, `grind` | the agent's steer queue and goals: lost in a crash |
| `pc` | the operation a step has come to, or `load`, `tools` (calls outstanding), `provider` (stream open), `apply` (persisting effects), `idle` (no run) |
| `snap`, `effects`, `yielding`, `running` | locals of the step: snapshot, effects still to be persisted, whether the step ends the run, dispatched batch |
| `cancelled` | the run's cancellation token |
| `executed`, `emitted`, `answers`, `calls`, `resets`, `used` | history, read by the properties and the model's bounds only |

One step of the code is several actions: `Load`, one action per operation it passes
(`Pass`) until one applies, `ApplyEffect` for every effect, `EndStep`. Tool
execution and inference, which wait, are cut in two (`DispatchTools` / `FinishTools`,
`Infer` / `ProviderReplies`, `ProviderFails`). Clients act between any two of them:
`Reply`, `Resume`, `Confirm`, `QueueSteer`, `Cancel`; so do `Abort` (the consumer
drops the stream, or the store fails) and `Crash`. A cancelled run passes all
operations except inference, which answers what is open (`CancelOpen`, `Closing`).

`TurnProperties` states the properties, `MCTurn` the constants of the runs.
Names ending a definition with "Mutant:" in their comment are broken variants
kept to see that the properties notice them; no specification uses them.

Modelling decisions a reader should know:
- Request ids are unique, as providers make them: `StreamEnds` never emits one twice.
- A reply with several calls is modelled as one message per call. How many messages the store
  has for it depends on the provider's chunks and on what `Conversation::push` merges; the
  operations read the calls of a turn, whatever message they lie in, and count runs of
  assistant messages, so the properties cannot tell the two apart.
- The mode (`Mode`) is a constant of a run. In the code it is a lock that `on_set_mode` may
  write between the approval (`ops_tool_approval.rs:54`) and the dispatch
  (`ops_toolcalling.rs:828`), which each read it for themselves; a mode that changes in
  between is not modelled.
- A client confirms a request once. In state-machine mode the answer is a stored
  message; no production code path in `src/` writes it yet, the tests' `confirm` and
  `resume` do, and the model's `Confirm` and `Resume` follow them.
- Inspectors other than the user's permissions are the constants `Screen` and
  `Flagged`; hook answers, success checks and tool results are choices.
- `MaxRetries = 0` stands for a recipe without a retry configuration.
- A turn that has ended is not resumed (it would only end again).
- A provider without support for built-in tools, whose recipes end with an error
  (`ops_recipe.rs:291-299`), is left out.
- Entry hooks, bang shell, doctor, project, skill and tool-pair operations, texts,
  usage numbers and notifications are left out.

### PromptRuns, MCPromptRuns

The handlers `on_prompt`, `on_steer_session`, `on_cancel`, `on_close_session` and
`handle_load_session` of one session. `at[x]` is the program counter of request `x`;
every access to a shared table is a step, since every lock is released in between.
`registered` is the session's entry in `sessions`, `cached` the agent manager's;
agents are numbered, so two handlers may hold different ones. The reply itself is the
stage `running`: it takes steers from its agent's queue and ends when it likes. The
server object, and with it all tables, belongs to one connection; a lost connection
ends the model, and with it the two exits of `on_prompt` that return without
`clear_active_run` because a notification cannot be sent (`server.rs:2075`, `2080-2085`).
An agent that cannot be built fails its prompt or steer (`CreateFails`). A load may take the
agent out of the manager first (`PrepareLoad`), hands it out, registers it and only at its
end reopens the session; it may fail between any two of these (`LoadFails`,
`load_session.rs:287-326`). Deleting and archiving a session are not modelled.

### ProviderRequest, RequestHistory, MCRequests

`ProviderRequest` translates the way from the stored conversation to what a provider is
sent: `messages_for_provider` and `agent_visible_messages` (`Shown`), the passes of
`fix_conversation` that drop or move messages and tool calls (`FixToolCalling`,
`MergeConsecutive`, `FixLeadTrail`, `PopulateIfEmpty`) and the merging across visibilities
in `stream_response_from_provider` (`RequestFor`). A message of a request is a role, a
visibility and a sequence of blocks (text, call, response). Passes over texts and
thinking blocks, empty tool results and turn-context events are left out.
`RequestHistory` runs the turn machine with two history variables: `sent`, the last
request, and `withheld`, the calls a request was sent without because they were
open. So the repairs are checked on the conversations the operations, crashes and
compactions really produce, rather than on arbitrary sequences of messages.

### Elicitation, AnswerPromise, MCElicitation

One tool call. Its dispatches (`dispatch[d]`) look for a stream, register one, hand
questions on and are dropped, after which a spawned task unregisters whatever is
registered. A question (`ask[r]`) finds the stream, enters the table, is sent, waits,
and is ended by an answer, by its deadline or by being dropped. An answer
(`answer[a]`) claims the question under its mutex (`holder`), is written to the
conversation (`recorded`), which may fail, and is submitted; it may come from another
session (`strangers`). `AnswerPromise` says what a tool is promised, without tables or
locks: at most one answer is recorded, the tool is told that one, and is told that
there is none only if none is recorded. `Elicitation!Promise` instantiates it: the record
is read off `recorded` and `naming`, and a question is open from the moment it has
found a stream until its waiter has an answer or an error. `KeepsThePromise` is that specification as a property.

### AgentManager, MCAgentManager

`lru` and `agent` are the cache, `lockOf` the table of creation locks; `clone` and
`guard` are the two handles on a lock that a caller drops by hand. A caller
(`get_or_create_agent`) goes through the fast path, the entry, the lock, the second
look, the build, the insertion, the eviction and the pruning; a message of the
orchestrator then registers a token, replies, and unregisters; a remover takes the
token, then the agent, then prunes. A caller is a tool call of the orchestrator, or waits like
one, and may be dropped at any wait before it has its agent (`DropCall`): guard and clone go, a
prune that was still to come does not happen.

`remove_session_if_loaded` is called by the ACP server (`server.rs:1050`, `1796`, `2424`,
`manage_sessions.rs:109` and `266`, `new_session.rs:110`), on the manager the server has made for itself
(`server.rs:821`); the orchestrator's messages use `AgentManager::instance()`. The model has one manager
with both, which the type allows: a removal during a reply (`torn`) takes a process that uses
one manager for both. Not modelled is a call dropped between the disarming of the
guard and the removal of the token (`orchestrator.rs:541`), which leaves the token.
History: `left`, sessions whose creation lock was left in place, by a prune that found it in use or by a
dropped call, until a prune sweeps it, and `torn`, sessions whose token a removal took while a
reply ran. In both cases the code leaves something behind, or lets two replies run, and
the properties exempt them by name.

### Scheduler, MCScheduler

One job: its `entry` and `task` in the table, the `file`, the registered `tasks`, the
`token`, and the calls that meet there, each with a program counter; every lock section
is a step, and a write of the file may fail or be cut off. `Restart` is a crash in any state
followed by `load_jobs_from_storage`. Several jobs share nothing but the file, which
every write replaces as a whole (`PersistOther`); other processes may write it too
(`WriteForeign`). Of recipe and cron expression only whether they parse is kept;
`last_run`, session ids and the reply of an execution are left out. History variables
name what the code does not promise: `met` (executions that another call got in the way
of: a tick takes entry and token over, a kill between status and token cancels nothing),
`stale` (a first write that failed, a `run_now` that was dropped, or a status that came from the
file), `crossed` (edits that overlap, or were refused or dropped half-way), `unsaved`, `foreign`.
Executions by `run_now`, kills and edits are made by the scheduling tool of an agent, among others, and
are dropped with it at any wait (`DropCall`); nothing puts right what they have half
done. Ticks run in tasks of their own. A cron task that cannot be taken out ends
a removal or an update early (`UnregisterTask`, `DropOldTask`).

### The proof modules

`TurnProofs`, `PermissionProofs`, `TurnBoundsProofs`, `ToolCallProofs` (the turn
machine), `PromptRunsProofs`, `ElicitationProofs`, `AgentManagerProofs`,
`SchedulerProofs`: the theorems, see below. `PermissionProofs` and `TurnBoundsProofs`
extend `TurnProofs`; `ToolCallProofs` extends `TurnBoundsProofs`, whose classes of steps
and lemmas on conversations it uses.

## Runs

| run | checks | instance | shows |
|---|---|---|---|
| `turn_approval` | `TypeOK`, `ExecutedOnce`, `AnsweredOnce`, `ExecutionIsPermitted`, `NothingLeftBehind`, `CancelledRunCloses` | three calls in two replies, one denied by policy, two under approval; allow, deny and always-allow; one crash; cancellation | permission, one execution and one response per call, in every interleaving of answers, cancellation and crash |
| `turn_recipe` | `ExecutionIsPermitted`, `NothingLeftBehind`, `RecipeEndsWithOutput` | two final-output calls beside a call under approval, an unknown and a malformed one | no deadlock among siblings; the run ends with its output |
| `turn_endings` | `TurnBudget`, `RetriesBounded`, `DenialsBounded`, `SteersKept`, `RunEnds` | goals, one retry, a hook that may deny for ever, two steers, an error, a crash | the turn ends, within its budgets |
| `turn_compaction` (`MCRequests`) | `ReactiveCompactionsBounded`, `TurnBudget`, `SteersKept`, `ExecutionIsPermitted`, `RequestIsAccepted`, `RequestsExtend`, `RunEnds` | two calls under approval, two errors, a steer | compactions keep the marks, counts and steers of the turn they rewrite; every request has its calls answered in the next message and extends the request before |
| `prompt_runs` | `RunsExclude`, `CloseCancels`, `ClosedIsReleased` | two prompts, a steer, a close, a load that may fail | the tables agree, at every lock |
| `prompt_liveness` | `CancelledRunGivesWay` | two prompts, a close, a load | a cancelled run leaves the table |
| `elicitation` | `RecordedIsAccepted`, `NothingLeftPending`, `NoStaleStream`, `EveryQuestionEnds`, `KeepsThePromise` | two questions, two answers, one perhaps from another session, two dispatches, a stream of one | what is recorded is what the tool is told, at every deadline and failure; nothing is left behind; the tables implement `AnswerPromise` |
| `agent_manager` | `OneBuilder`, `LocksFollowSessions`, `OneReply`, `InterruptFrees`, `CallsReturn` | two sessions, a cache of one, two messages and a call, each of which may be dropped, a removal | creation, eviction, pruning, drops and removal interleave at every lock; every call returns |
| `scheduler` | `RunningIsReal`, `RunsAreReachable`, `TaskFollowsTable`, `FileFollowsTable` | two executions, a kill, an edit, drops, a crash | status, token, cron task and file agree, but for the cases that are named |
| `recipe_budget` | `TurnBudget` (violated) | a recipe whose model answers in text | see the first divergence |
| `budget_counts` | `BudgetCountsInferences` (violated) | a slash command | see the second |
| `steer_leak` | `SteersStayWithTheirRun` (violated) | two prompts, a steer | see the third |

Bounds. A property of the turn needs at most the calls of one turn: one that was
allowed, one denied, one pending is what the operations tell apart, and a second
reply brings the turn back to approval with an older batch answered. One crash cuts
a step at every point; what it leaves is the persisted state, and the next run
starts from that alone, so a second crash adds no new kind of start.
`MaxMessages` limits `Infer`; where a run ends by itself it is never reached (in the
runs that check `RunEnds` reaching it would leave the run stuck and violate the
property), and in `turn_approval` and `turn_recipe` it cuts conversations after the
second reply was dealt with. Two prompts are what it takes for one run to outlive the
other's cleanup. `CHECK_DEADLOCK FALSE` because a session may stay idle for ever.
In `elicitation` the second question finds the stream of one full, and the two answers race for
one question or each takes its own; two dispatches overlap between the look for a stream and
the registration, and the stream one leaves is unregistered while the other runs. One of the answers
may come from another session (`Foreign`); what it finds is refused, and leaves the question as it was.
In `agent_manager` the call for the second session evicts the first one's agent while messages
find, build or prune, which is every way a lock changes hands between two holders. In
`scheduler` the edit is any of the six, so that it meets executions, the kill and the
restart in every order, and the executions are interchangeable (symmetry; the run
has no liveness property); any number of edits is the subject of the proofs.

`CompactionSheds` is an assumption on the environment: a compaction brings usage
below the threshold. The code has no bound of its own on proactive compactions, and
`RunEnds` fails without it.

Fairness. `TurnMachine!FairSpec` is weak fairness of `Machine`: the runtime polls a
run that was started until it ends, providers and tools answer or time out, and
nothing is assumed of clients, crashes or aborts. `PromptRuns!FairSpec` is weak fairness
of every handler that has been polled once; that no request need ever arrive is in
`Arrived`, that a reply need not end by itself is in `StreamEnds`, which has no
fairness; that a reply yields events, so that its consumer looks at the token,
is the fairness of `SeeCancel`. `RequestFairSpec` is as `TurnMachine!FairSpec`.
`Elicitation!FairSpec`: a waiter's future is polled and its timer fires, an answer's
handler returns from its write; nobody has to ask, show, answer or end a call, and
no property needs the spawned task that unregisters a stream to run. `AgentManager!FairSpec`: handlers
that have begun return or are dropped, building an agent ends, and a reply ends once its token is
cancelled, since its stream selects on it; no other reply need end. The scheduler's
run assumes no fairness.

## Divergences from what the repository says

1. `recipe_budget`: the continuation `ops_recipe` writes is a user-visible message
   of the user, hence a new kickoff, and the max-turns count starts again.
   `cli.rs` describes the limit as "without user input". A model that keeps answering in
   text is called without bound.
2. `budget_counts`: `assistant_turn_count` counts blocks of assistant messages,
   also the notice of a slash command, so the limit may come before `max_turns`
   inferences.
3. `steer_leak`: a steer is queued after the last look at the table and
   `clear_active_run` frees the table before it discards steers: a steer for one
   run can reach the next, which the comment in `agent.rs` rules out.

A fourth has no run of its own, because it shows as soon as the exemption of `withheld`
is dropped from `RequestsExtend` or `RequestIsAccepted`: the user allows one of two calls,
it is executed, and inference goes on although the other still waits
(`messages_for_provider` keeps the open call, the repair drops it); when the other is
answered, its response stands behind the text of that inference. The next request then has a
call that the following message does not answer, and is no extension of the request before,
which `tests/prefix_invariance.rs:1` says must never happen across the requests of a
session.

Cases the properties exempt because the code makes no provision for them are listed with
their line under "hazards" in `PROJECT.json`:
- a second reply beside one whose token a removal took;
- a creation lock that a prune found in use, or that a call left when it was dropped while it waited for
  the lock or built the agent (`manager.rs:140-148`): nobody prunes it before the session's next
  failed build, eviction or removal, and `remove_session_if_loaded` prunes only
  sessions it finds in the cache;
- an execution that a tick or an early kill has put out of reach;
- a job stuck in "running" after a failed write, or after its `run_now` was dropped with the tool call
  that awaited it (`schedule_tool.rs:251`): lines 829-844 of `scheduler.rs` are no guard, so the
  status and the token stay, and the job cannot be run, paused or updated until somebody kills it, a tick
  runs it, or the process starts again;
- a job without a cron task, or with one too many, after an update that was refused or an edit that
  was dropped half-way; edits that cross each other;
- the agent of a closed session that a steer put back after the run was gone, or that a load put back before it
  failed (`load_session.rs:298-326`): it stays until the next close or the end of a run.

## Proofs

All proofs are checked by TLAPS from the named assumptions of the modules
(`SetsAssumption`, `NumbersAssumption`; `RequestsAssumption`, `KindsAssumption`;
`NoneAssumption`, `SizesAssumption`; `CallsAssumption`, `CapacityAssumption`;
`CrashesAssumption`), which TLC also evaluates on every instance.

- `TurnProofs!TurnTypeOK`: `TypeOK` of the turn machine. It is not inductive: a retry
  and a hook read the kickoff of the snapshot, which is only there because `Load`
  read a conversation that has one, and because compactions, retries and all other
  effects leave one. `TypeInv` adds that to the types: a step under way has a
  snapshot with a kickoff, a stored conversation has one whenever a run is on,
  and every conversation about to replace the stored one has one. There is one lemma per
  action, and below them one per way an action leaves a step (`PassTyped`,
  `AppliedTyped`, `StopTyped`) and one per helper that builds messages or effects.
- `PermissionProofs!ExecutionPermitted`: `ExecutionIsPermitted`. The dispatch decides
  on a snapshot while answers keep arriving, and what is in the store was put there
  one effect at a time, so the invariant `PermissionInv` relates four things:
  the store and the answers given (`StoreInv`: stored answers are the user's, a
  request the user was asked about is marked non-executable unless allowed, and
  stays so once denied); the effects still to be persisted (`EffectsInv`: in any prefix
  that a crash leaves behind, questions come after marks and new requests are
  unknown to everybody); the snapshot (`SnapInv`: what it says of requests,
  questions and answers is in the store, across compactions and retries); and the pass
  through the approval operation (`ScreenInv`: what nobody was asked about was
  approved). `PersistedFits` is the heart of it: one effect more in the store
  keeps store and remaining effects in agreement. The premise on batches is
  the model's: a provider does not emit a request id twice.
- `TurnBoundsProofs` first puts every step into one of a few classes by what it does to
  the store and to the effects still to be persisted (`StepClass`): it passes on
  (`Onward`), ends the step or the run (`Ends`), persists one effect (`ApplyEffect`), stores
  a client's message (`Speaks`), or leaves effects behind (`Works`), which are remarks,
  responses, what a stream brought, prompts, or a rewritten conversation. `StepInv`, the
  invariant all of these proofs share, says that the store continues the snapshot of a step with
  nothing but answers of the user, and that a replacement is the only effect of its
  step. The lemmas `AppendShape`, `StoredShape`, `CompactedShape`, `ResetShape` and
  `ExtendedTurn` say what each way to change a conversation does to its turn, and each bound
  is then shown to survive the classes.
  - `StopHooksAreCapped`: `DenialsBounded`. A denial among the effects comes alone and fits the cap
    (`DenialsInv`): it was counted on the snapshot, and nothing that reached the
    store since is a denial.
  - `CompactionsAreCapped`: `ReactiveCompactionsBounded`. A compaction is reactive when its
    summary follows a context-length error, and each such error is invisible to the
    provider (`Unseen`), so that `NeedsCompaction` counts all of them; the errors before
    summaries, with the one at the end, are an injection into those counted.
  - `GuidanceIsKept`: `SteersKept`, an equation between the queue, the effects, the
    store and the number of steers. It needs that guidance is always a kickoff message
    (`SteersOpen`): a reset goes back to the last kickoff and cannot lose one.
  - `RetriesAreCapped`: `RetriesBounded` for sessions whose recipe has no response schema
    (`FinalOutput = FALSE`). The retries so far are at most the attempts noted on the kickoff
    message, plus one while the reset is among the effects, plus the crashes (`RetriesInv`).
    The hypothesis is needed: the continuation that `ops_recipe` writes is a kickoff of its own,
    whose attempts count from zero, so that a recipe with two final-output calls in separate replies and
    one retry can restart twice (the cause is that of the first divergence, and TLC finds it).
- `ToolCallProofs`:
  - `CallsAreAnsweredOnce`: `AnsweredOnce`. `ResponsesInv` says of the store and of everything about to be
    stored that responses come after the calls they answer and overlap with no other
    response (`Traffic`), and of the effects that they carry no call that was ever
    answered (`Outgoing`). Open calls of the turn are then unanswered in the whole
    conversation (`OpenUnanswered`), which is what every operation that answers looks at.
  - `CallsAreExecutedOnce`: `ExecutedOnce`. A call executed more often than runs were cut off is in the
    batch that runs, or its response is among the effects, or the turn does not hold it
    open (`ExecutedInv`); a crash raises the allowance, which is when the response may be lost.
  - `CancelledRunsClose`: `CancelledRunCloses`, from the types alone: `Closing` answers whatever the
    conversation does not.
  - `NoCallIsLeftBehind`, `RecipesEndWithOutput`: `NothingLeftBehind`, `RecipeEndsWithOutput`. `PassedInv` records what
    each operation leaves of the snapshot when it passes it on: after the approvals no decided call is
    without its mark, after the recipe its first final-output call waits for a sibling
    or there is none, after the tool operations every call is claimed. `ChatInv` says
    that in chat mode nobody is asked. Both properties follow at the end of the pipeline.
  - `TurnsAreBudgeted`: `TurnBudget` for sessions whose recipe has no response schema. The code counts
    runs of assistant messages, the property inferences, so `BudgetInv` gives each inference a run: those
    that are over (`Past`), and one more for the inference that is open, among the effects or in the
    run at the end (`Ongoing`), crashes aside. An inference then needs a run of its own, that is,
    it is never offered to a conversation whose last run it already paid for. What the
    provider wrote is the last it sees, so only a failed run could be offered again; `ErrorsInv` says
    that as long as the provider is due after a failed run the error is the last message, where
    `InferenceApplies` sees it, and that nobody is left to be asked about its calls (`Waiting`), as a
    question after the error would hide it. The effects carry both facts (`Fits`, `Paid`), one lemma per operation
    shows that it leaves such effects, and `CompactedRuns` that a compaction keeps the count. The
    hypothesis is needed (the first divergence), and so is that no reply is an empty batch
    (`SetsAssumption`): an empty reply becomes a text that yields (`ProviderFails`).
- `PromptRunsProofs!TypeCorrect`: agent numbers stay within the number of requests.
  The strengthening `Counted` says that every agent created has a request that
  created it (`Holders`), a bound by cardinality.
- `PromptRunsProofs!OneRunAtATime`: `RunsExclude`, for any number of requests. As
  an equivalence it is inductive by itself.
- `PromptRunsProofs!CloseReachesRuns`: `CloseCancels`. The strengthening says when a run
  that has passed its own look at the closed set is cancelled already or still to be
  found by a close under way.
- `PromptRunsProofs!ClosedSessionIsReleased`: `ClosedIsReleased`. The strengthening names, for an agent
  that is registered or cached in a closed session, the request that still has to drop
  it on its way out, or that excuses it: a steer that was handed it, or a load that was and
  has failed. An excuse lasts (`ExcusedStays`): a load that has failed does nothing more.
- `ElicitationProofs`: `Answering` relates the mutex, the one-shot channel and the answer's
  program counter: whoever holds a question has claimed it and not yet let go, what is
  in the channel is recorded, and a recorded answer has been sent, is about to be,
  or its waiter was dropped. With it `PromiseTheorem` shows the refinement: the initial states
  map to `Promise!Init`, and there is one lemma per kind of step that says which
  step of `AnswerPromise`, or which stutter, it is. `AcceptedTheorem` follows from the same
  invariant; `PendingTheorem` is inductive with the types. `StreamTheorem` needs `Owned`: the stream
  that is registered belongs to a dispatch that runs or whose unregistering is still to come.
- `AgentManagerProofs`: the invariant says who holds what at which stage (`Holding`), that
  callers of one session who hold clones hold the same lock, the one in the table
  (`SameLock`), that whoever is past the lock has its guard (`Guarded`), that a caller
  about to prune for an eviction has a victim (`Pushed`), that every lock in the table is
  cached, tended by somebody or on the list of those left (`LocksTended`), and that a reply runs
  under its own token unless a removal took it (`TokenOfReply`). `OneBuilder` is part of it, `LocksFollowSessions` and `OneReply`
  follow. A dropped caller gives up what it held in the step that puts its session on that list (`DropCallInv`).
- `SchedulerProofs`: `RunningIsReal` and `RunsAreReachable` need that executions which
  overlap have met (`OverlapsMet`) and that one that met nobody is shown as running
  (`UnmetShown`); `TaskFollowsTable` needs what the only edit under way has done so far
  (`OneEdit`, `Tasks`); `FileFollowsTable` that a table the file does not match has somebody on
  the way to write it (`FileWritten`). A dropped call takes no other's place: what it leaves undone is
  in the history that each of them is conditioned on (`DropCallInv`).

Only model-checked: liveness (`RunEnds`, `CancelledRunGivesWay`, `EveryQuestionEnds`,
`InterruptFrees`, `CallsReturn`); the requests (`RequestIsAccepted`, `RequestsExtend`):
they are computed by folds over a conversation, about which nothing can be proved
without induction over data. `RetriesBounded` and `TurnBudget` are proved for sessions without
a response schema, the case the passing runs that check them have too.

## Plan

Built in this order, most important first.
1. `Conversation`, `TurnMachine`, `TurnProperties`, `MCTurn`: the turn.
2. `PromptRuns`: the handlers around it.
3. `PromptRunsProofs`, `TurnProofs`, `PermissionProofs`: type correctness, exclusion,
   close, permission.
4. `Elicitation`, `AnswerPromise` and the refinement, with proofs.
5. `AgentManager`: creation locks, eviction, tokens, with proofs.
6. `Scheduler`: cron, run now, pause, kill, synchronisation, restart, with proofs.
7. `ProviderRequest`, `RequestHistory`: the repairs, on the requests of the turn machine.
8. `TurnBoundsProofs`, `ToolCallProofs`: the bounds of a turn, its budget, and what becomes of its
   calls.

Left:
9. The rest of `fix_conversation` (texts, thinking) and `Conversation::push`; the session
   store's copies and replacements; gateway pairing; the confirmation router.

## Not modelled

Providers and their formats, extensions and MCP transport, hooks' commands,
configuration, recipes' parsing, skills, telemetry, dictation, download and local
inference, front ends and SDKs: I/O and conversion without control state the core
depends on. The legacy loop, which the state machine replaces, is represented only
by what both share. The session store is represented by its operations, as atomic
actions of the models that call them; its transactions, copies and migrations are
not modelled, and the confirmation router, which only the legacy loop uses, is a smaller
`Elicitation`. `PROJECT.json` gives the reason for every component that is
`not_modelled` and what is left out of those that are `partly` modelled.
