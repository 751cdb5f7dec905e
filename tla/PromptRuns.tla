----------------------------- MODULE PromptRuns -----------------------------
(***************************************************************************)
(* The prompt runs of one ACP session (goose/src/acp/server.rs): prompt,   *)
(* steer, cancel, close and load requests are handled concurrently and     *)
(* share the table of active runs, the set of closed sessions, the         *)
(* session's registered agent, the agent manager's cache and the steer     *)
(* queue of each agent.  Every lock is released between two accesses, so   *)
(* each access is a step of its own.                                       *)
(***************************************************************************)
EXTENDS Naturals, FiniteSets

CONSTANTS
  Prompts,      \* session/prompt requests; each is a run
  Steers,       \* session/steer requests
  Closers,      \* session/close requests
  Loaders,      \* session/load requests
  None

Requests == Prompts \cup Steers \cup Closers \cup Loaders

ASSUME RequestsAssumption == IsFiniteSet(Requests) /\ None \notin Prompts

(* A request is of one kind. *)
ASSUME KindsAssumption ==
  /\ Prompts \cap (Steers \cup Closers \cup Loaders) = {}
  /\ Steers \cap (Closers \cup Loaders) = {}
  /\ Closers \cap Loaders = {}

VARIABLES
  active,       \* active_prompt_runs[session]: a run or None
  closed,       \* the session is in closed_session_ids
  registered,   \* sessions[session]: the agent handlers find, or NoAgent
  cached,       \* the agent manager's agent for the session, or NoAgent
  created,      \* number of agents created so far
  cancelled,    \* runs whose cancellation token is set
  queue,        \* steer queue of each agent
  at,           \* where each request is
  agent,        \* the agent each request has got hold of
  target,       \* the run each steer names (expected_run_id)
  drained       \* history: the run that took each steer into its conversation

vars == <<active, closed, registered, cached, created, cancelled, queue, at, agent, target, drained>>

(* Agents are numbered as they are created; a request creates one at most. *)
Agents  == 1 .. Cardinality(Requests)
NoAgent == 0

PromptStages == {"new", "insert", "open", "lookup", "create", "register", "begin", "running",
                 "remove", "discard", "check", "dropSession", "dropAgent", "done", "refused"}
SteerStages  == {"new", "open", "lookup", "create", "register", "recheck", "push", "done", "refused"}
CloseStages  == {"new", "cancel", "dropSession", "dropAgent", "done"}
LoadStages   == {"new", "activate", "register", "reopen", "done", "refused"}

Init ==
  /\ active = None /\ closed = FALSE /\ registered = NoAgent /\ cached = NoAgent
  /\ created = 0 /\ cancelled = {}
  /\ queue = [a \in Agents |-> {}]
  /\ at = [x \in Requests |-> "new"]
  /\ agent = [x \in Requests |-> NoAgent]
  /\ target = [s \in Steers |-> None]
  /\ drained = [s \in Steers |-> None]

Go(x, from, to) == at[x] = from /\ at' = [at EXCEPT ![x] = to]

-----------------------------------------------------------------------------
(* get_session_agent: the session must not be closed; its agent is looked  *)
(* up, or taken from the manager (created if need be) and registered.      *)

Lookup(x, next) ==
  \/ /\ registered # NoAgent
     /\ agent' = [agent EXCEPT ![x] = registered]
     /\ Go(x, "lookup", next)
     /\ UNCHANGED <<cached, created, registered>>
  \/ /\ registered = NoAgent
     /\ Go(x, "lookup", "create")
     /\ UNCHANGED <<agent, cached, created, registered>>

(* AgentManager::get_or_create_agent_with_runtime_context. *)
GetOrCreate(x) ==
  LET a == IF cached # NoAgent THEN cached ELSE created + 1 IN
    /\ agent' = [agent EXCEPT ![x] = a]
    /\ cached' = a
    /\ created' = IF cached # NoAgent THEN created ELSE a

Create(x) ==
  /\ Go(x, "create", "register")
  /\ GetOrCreate(x)
  /\ UNCHANGED registered

(* The session cannot be read, or its agent cannot be built. *)
CreateFails(x, to) ==
  /\ Go(x, "create", to)
  /\ UNCHANGED <<active, closed, registered, cached, created, cancelled, queue, agent, target, drained>>

Register(x, next) ==
  /\ Go(x, "register", next)
  /\ registered' = agent[x]
  /\ UNCHANGED <<agent, cached, created>>

SessionAgent(x, next) ==
  /\ Lookup(x, next) \/ Create(x) \/ Register(x, next)
  /\ UNCHANGED <<active, closed, cancelled, queue, target, drained>>

-----------------------------------------------------------------------------
(* on_prompt *)

(* start_active_run: the closed set is read, then the table is updated. *)
CheckNotClosed(p) ==
  /\ Go(p, "new", IF closed THEN "refused" ELSE "insert")
  /\ UNCHANGED <<active, closed, registered, cached, created, cancelled, queue, agent, target, drained>>

(* Mutant: the table is not looked at. *)
InsertBlindly(p) ==
  /\ Go(p, "insert", "open")
  /\ active' = p
  /\ UNCHANGED <<closed, registered, cached, created, cancelled, queue, agent, target, drained>>

InsertRun(p) ==
  /\ Go(p, "insert", IF active = None THEN "open" ELSE "refused")
  /\ active' = IF active = None THEN p ELSE active
  /\ UNCHANGED <<closed, registered, cached, created, cancelled, queue, agent, target, drained>>

(* Mutant: only start_active_run looks at the closed set. *)
OpenUnchecked(p) ==
  /\ Go(p, "open", "lookup")
  /\ UNCHANGED <<active, closed, registered, cached, created, cancelled, queue, agent, target, drained>>

CheckOpen(p) ==
  /\ Go(p, "open", IF closed THEN "remove" ELSE "lookup")
  /\ UNCHANGED <<active, closed, registered, cached, created, cancelled, queue, agent, target, drained>>

(* A run cancelled meanwhile is given up; otherwise the agent's reply begins. *)
Begin(p) ==
  /\ Go(p, "begin", IF p \in cancelled THEN "remove" ELSE "running")
  /\ UNCHANGED <<active, closed, registered, cached, created, cancelled, queue, agent, target, drained>>

(* The agent's loop takes what is queued into the conversation. *)
Drain(p) ==
  /\ at[p] = "running" /\ p \notin cancelled
  /\ queue[agent[p]] # {}
  /\ drained' = [s \in Steers |-> IF s \in queue[agent[p]] THEN p ELSE drained[s]]
  /\ queue' = [queue EXCEPT ![agent[p]] = {}]
  /\ UNCHANGED <<active, closed, registered, cached, created, cancelled, at, agent, target>>

(* The reply stream ends, or fails. *)
StreamEnds(p) ==
  /\ Go(p, "running", "remove")
  /\ UNCHANGED <<active, closed, registered, cached, created, cancelled, queue, agent, target, drained>>

(* Mutant: the handler returns without clearing its run. *)
LeaveEarly(p) ==
  /\ p \in cancelled
  /\ Go(p, "running", "done")
  /\ UNCHANGED <<active, closed, registered, cached, created, cancelled, queue, agent, target, drained>>

(* The event loop finds the token set at the next event. *)
SeeCancel(p) ==
  /\ p \in cancelled
  /\ Go(p, "running", "remove")
  /\ UNCHANGED <<active, closed, registered, cached, created, cancelled, queue, agent, target, drained>>

(* clear_active_run, one step per lock. *)
RemoveRun(p) ==
  /\ Go(p, "remove", IF active = p THEN "discard" ELSE "done")
  /\ active' = IF active = p THEN None ELSE active
  /\ UNCHANGED <<closed, registered, cached, created, cancelled, queue, agent, target, drained>>

DiscardSteers(p) ==
  /\ Go(p, "discard", "check")
  /\ queue' = [a \in Agents |-> IF a = registered THEN {} ELSE queue[a]]
  /\ UNCHANGED <<active, closed, registered, cached, created, cancelled, agent, target, drained>>

(* Mutant: clear_active_run leaves the memory of a closed session alone. *)
LeaveInMemory(p) ==
  /\ Go(p, "check", "done")
  /\ UNCHANGED <<active, closed, registered, cached, created, cancelled, queue, agent, target, drained>>

CheckClosed(p) ==
  /\ Go(p, "check", IF closed THEN "dropSession" ELSE "done")
  /\ UNCHANGED <<active, closed, registered, cached, created, cancelled, queue, agent, target, drained>>

DropSession(x) ==
  /\ Go(x, "dropSession", "dropAgent")
  /\ registered' = NoAgent
  /\ UNCHANGED <<active, closed, cached, created, cancelled, queue, agent, target, drained>>

DropAgent(x) ==
  /\ Go(x, "dropAgent", "done")
  /\ cached' = NoAgent
  /\ UNCHANGED <<active, closed, registered, created, cancelled, queue, agent, target, drained>>

Prompt(p) ==
  \/ CheckNotClosed(p) \/ InsertRun(p) \/ CheckOpen(p)
  \/ SessionAgent(p, "begin") \/ CreateFails(p, "remove") \/ Begin(p) \/ Drain(p) \/ SeeCancel(p)
  \/ RemoveRun(p) \/ DiscardSteers(p) \/ CheckClosed(p) \/ DropSession(p) \/ DropAgent(p)

-----------------------------------------------------------------------------
(* on_steer_session: the run is required twice, before and after the       *)
(* session's agent is found; the message is queued after that.             *)

SteerRequest(s) ==
  \E p \in Prompts :
    /\ at[p] \notin {"new", "refused"}      \* the client knows the run's id
    /\ target' = [target EXCEPT ![s] = p]
    /\ Go(s, "new", IF active = p THEN "open" ELSE "refused")
    /\ UNCHANGED <<active, closed, registered, cached, created, cancelled, queue, agent, drained>>

SteerCheckOpen(s) ==
  /\ Go(s, "open", IF closed THEN "refused" ELSE "lookup")
  /\ UNCHANGED <<active, closed, registered, cached, created, cancelled, queue, agent, target, drained>>

RequireAgain(s) ==
  /\ Go(s, "recheck", IF active = target[s] THEN "push" ELSE "refused")
  /\ UNCHANGED <<active, closed, registered, cached, created, cancelled, queue, agent, target, drained>>

Push(s) ==
  /\ Go(s, "push", "done")
  /\ queue' = [queue EXCEPT ![agent[s]] = @ \cup {s}]
  /\ UNCHANGED <<active, closed, registered, cached, created, cancelled, agent, target, drained>>

Steer(s) ==
  \/ SteerRequest(s) \/ SteerCheckOpen(s)
  \/ SessionAgent(s, "recheck") \/ CreateFails(s, "refused") \/ RequireAgain(s) \/ Push(s)

-----------------------------------------------------------------------------
(* on_cancel, on_close_session, handle_load_session *)

Cancel ==
  /\ active # None /\ active \notin cancelled
  /\ cancelled' = cancelled \cup {active}
  /\ UNCHANGED <<active, closed, registered, cached, created, queue, at, agent, target, drained>>

CloseSession(x) ==
  /\ Go(x, "new", "cancel")
  /\ closed' = TRUE
  /\ UNCHANGED <<active, registered, cached, created, cancelled, queue, agent, target, drained>>

CancelClosed(x) ==
  /\ Go(x, "cancel", "dropSession")
  /\ cancelled' = cancelled \cup ({active} \ {None})
  /\ UNCHANGED <<active, closed, registered, cached, created, queue, agent, target, drained>>

Close(x) == CloseSession(x) \/ CancelClosed(x) \/ DropSession(x) \/ DropAgent(x)

(* prepare_session_for_activation: a load that changes the session's        *)
(* directory, provider or extensions takes the agent out of the manager.    *)
PrepareLoad(x) ==
  /\ Go(x, "new", "activate")
  /\ cached' \in {cached, NoAgent}
  /\ UNCHANGED <<active, closed, registered, created, cancelled, queue, agent, target, drained>>

LoadAgent(x) ==
  /\ Go(x, "activate", "register")
  /\ GetOrCreate(x)
  /\ UNCHANGED <<active, closed, registered, cancelled, queue, target, drained>>

LoadRegister(x) ==
  /\ Register(x, "reopen")
  /\ UNCHANGED <<active, closed, cancelled, queue, target, drained>>

Reopen(x) ==
  /\ Go(x, "reopen", "done")
  /\ closed' = FALSE
  /\ UNCHANGED <<active, registered, cached, created, cancelled, queue, agent, target, drained>>

(* What fails on the way, the recipe, the provider or the session's setup,  *)
(* leaves the agent where it is and the session closed if it was.           *)
LoadFails(x) ==
  /\ \E from \in {"activate", "register", "reopen"} : Go(x, from, "refused")
  /\ UNCHANGED <<active, closed, registered, cached, created, cancelled, queue, agent, target, drained>>

Load(x) == PrepareLoad(x) \/ LoadAgent(x) \/ LoadRegister(x) \/ Reopen(x) \/ LoadFails(x)

-----------------------------------------------------------------------------

Next ==
  \/ \E p \in Prompts : Prompt(p) \/ StreamEnds(p)
  \/ \E s \in Steers : Steer(s)
  \/ \E x \in Closers : Close(x)
  \/ \E x \in Loaders : Load(x)
  \/ Cancel

Spec == Init /\ [][Next]_vars

(* A handler that has been polled once is polled until it returns.  A reply *)
(* stream need not end by itself, but it yields events, so its consumer     *)
(* gets to look at the token; no request need arrive.                       *)
Arrived(x) == at[x] # "new"

FairSpec ==
  /\ Spec
  /\ \A p \in Prompts : WF_vars(Arrived(p) /\ Prompt(p))
  /\ \A s \in Steers  : WF_vars(Arrived(s) /\ Steer(s))
  /\ \A x \in Closers : WF_vars(Arrived(x) /\ Close(x))
  /\ \A x \in Loaders : WF_vars(Arrived(x) /\ Load(x))

-----------------------------------------------------------------------------
(* Properties *)

TypeOK ==
  /\ active \in Prompts \cup {None} /\ closed \in BOOLEAN
  /\ registered \in Agents \cup {NoAgent} /\ cached \in Agents \cup {NoAgent}
  /\ created \in Nat /\ cancelled \subseteq Prompts
  /\ queue \in [Agents -> SUBSET Steers]
  /\ at \in [Requests -> PromptStages \cup SteerStages \cup CloseStages \cup LoadStages]
  /\ agent \in [Requests -> Agents \cup {NoAgent}]
  /\ target \in [Steers -> Prompts \cup {None}] /\ drained \in [Steers -> Prompts \cup {None}]

(* A run that has been let in and has not been removed yet. *)
InProgress(p) == at[p] \in {"open", "lookup", "create", "register", "begin", "running", "remove"}

(* One run at a time: whoever has been let in is the active run, so two     *)
(* prompts never drive the session's conversation at the same time          *)
(* (start_active_run, clear_active_run).                                    *)
RunsExclude == \A p \in Prompts : InProgress(p) <=> active = p

(* When a close request is through and the session is still closed, a run   *)
(* that is under way has been cancelled, however the close fell between the *)
(* steps of the prompt (on_close_session marks the session before it looks  *)
(* for a run; the prompt inserts its run before it looks at the mark).      *)
CloseCancels ==
  closed /\ (\E x \in Closers : at[x] = "done") /\ (\A x \in Closers : at[x] \in {"new", "done"})
    => \A p \in Prompts : at[p] \in {"begin", "running"} => p \in cancelled

(* Once all requests are through, a closed session keeps no agent in memory *)
(* except one that a steer request got hold of, which may have put it back  *)
(* after the run was gone, or one that a load handed out before it failed:  *)
(* what a prompt put back while the session was being closed is dropped by  *)
(* clear_active_run, what a load put back is dropped by the next close.     *)
Quiet == \A x \in Requests : at[x] \in {"new", "done", "refused"}

Revived(a) ==
  \/ \E s \in Steers : agent[s] = a
  \/ \E x \in Loaders : at[x] = "refused" /\ agent[x] = a

ClosedIsReleased ==
  closed /\ Quiet => \A a \in {registered, cached} : a = NoAgent \/ Revived(a)

(* A steer is taken into the conversation of the run it was sent to or of   *)
(* none (agent.rs: "discarding must drop steers orphaned by a cancelled run *)
(* so they cannot leak into a later prompt").                               *)
SteersStayWithTheirRun == \A s \in Steers : drained[s] \in {None, target[s]}

(* A cancelled run gives way: it ends, and the session takes prompts again. *)
CancelledRunGivesWay ==
  \A p \in Prompts : p \in cancelled ~> at[p] = "done" /\ active # p

=============================================================================
