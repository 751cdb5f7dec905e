------------------------------ MODULE Scheduler ------------------------------
(***************************************************************************)
(* One scheduled job (scheduler.rs): its entry in the table of jobs, the   *)
(* storage file, the cron tasks registered for it, the table of running    *)
(* tokens, and the calls that meet there: executions started by run_now or *)
(* by a cron tick, kills, and edits (add, remove, update, pause, unpause,  *)
(* synchronisation with the file).  Every lock section is a step.  Other   *)
(* jobs share only the file, which each writes whole.                      *)
(***************************************************************************)
EXTENDS Naturals, FiniteSets

CONSTANTS
  Runs,         \* executions, by run_now or by a cron tick
  Kills,        \* calls of kill_running_job
  Edits,        \* calls that add, remove, update, pause, unpause or list
  MaxCrashes,   \* bound on the crashes of a behaviour
  Startup,      \* names the cron task registered when the scheduler starts
  Broken,       \* the content of a file whose write was cut off
  None

Calls == Runs \cup Kills \cup Edits
(* Of recipe and cron expression only whether a task can be made of them.   *)
Entries == [running : BOOLEAN, paused : BOOLEAN, parses : BOOLEAN]

ASSUME CallsAssumption ==
  /\ Runs \cap Kills = {} /\ Runs \cap Edits = {} /\ Kills \cap Edits = {}
  /\ {None, Startup} \cap Calls = {} /\ None # Startup
  /\ {None, Broken} \cap Entries = {} /\ None # Broken

ASSUME CrashesAssumption == MaxCrashes \in Nat

VARIABLES
  entry,        \* jobs: the job as the table has it, or None
  task,         \* jobs: the cron task of the entry
  file,         \* storage_path: the job as the file has it, None or Broken
  tasks,        \* tokio_scheduler: the cron tasks registered for the job
  token,        \* running_tasks: whose token the job has, or None
  cancelled,    \* executions whose token has been cancelled
  at,           \* where each call is
  old,          \* the cron task an edit is to take out
  read,         \* what an edit has read from the file
  ticks,        \* executions started by a cron tick
  crashes,
  unsaved,      \* history: the last write failed, or the table moved on without one
  stale,        \* history: the entry says running for a run that is not ours, gave up or was dropped
  met,          \* history: executions that another call got in the way of
  crossed,      \* history: two edits have overlapped, or one was refused or dropped half-way
  foreign       \* history: another process has written the file

table   == <<entry, task>>
disk    == <<file, unsaved>>
running == <<token, cancelled>>
editing == <<old, read>>
history == <<stale, met, crossed, foreign>>
vars == <<table, disk, tasks, running, at, editing, ticks, crashes, history>>

Live    == {"mark", "stored", "run", "ended"}      \* stages of an execution that has not unregistered
Writing == {"mark", "cleared", "kill3", "edited"}  \* at persist_jobs
Midway  == {"add", "task", "popped", "cron", "untasked", "newtask", "edited",
            "compare", "adopt", "adopted", "drop", "dropped"}
Stages  == Live \cup Writing \cup Midway
           \cup {"new", "fired", "due", "unregistered", "kill1", "kill2", "done", "lost"}

Fresh == [running |-> FALSE, paused |-> FALSE, parses |-> TRUE]

Init ==
  /\ entry \in {None, Fresh}
  /\ task = IF entry = None THEN None ELSE Startup
  /\ file = entry
  /\ tasks = IF entry = None THEN {} ELSE {Startup}
  /\ token = None /\ cancelled = {} /\ at = [x \in Calls |-> "new"]
  /\ old = [e \in Edits |-> None] /\ read = [e \in Edits |-> None]
  /\ ticks = {} /\ crashes = 0
  /\ unsaved = FALSE /\ stale = FALSE /\ met = {} /\ crossed = FALSE /\ foreign = FALSE

Go(x, from, to) == at[x] = from /\ at' = [at EXCEPT ![x] = to]

Busy == {x \in Runs : at[x] \in Live}

(* Executions whose status or token others may now take for theirs.         *)
Meet(xs) == met' = met \cup xs

(* persist_jobs writes the whole table while it holds the table's lock; a   *)
(* write that fails may leave the file cut off.                             *)
Persist(x, from, to, failed) ==
  \/ Go(x, from, to) /\ file' = entry /\ unsaved' = FALSE
  \/ Go(x, from, failed) /\ file' \in {file, Broken} /\ unsaved' = TRUE

-----------------------------------------------------------------------------
(* Executions *)

(* Mutant: the status is not looked at. *)
StartAlways(x) ==
  /\ entry # None
  /\ Go(x, "new", "mark")
  /\ entry' = [entry EXCEPT !.running = TRUE]
  /\ UNCHANGED <<task, disk, tasks, running, editing, ticks, crashes, history>>

(* run_now *)
Start(x) ==
  /\ entry # None /\ ~entry.running
  /\ Go(x, "new", "mark")
  /\ entry' = [entry EXCEPT !.running = TRUE]
  /\ Meet(IF Busy \cap met = {} THEN {} ELSE {x})
  /\ UNCHANGED <<task, disk, tasks, running, editing, ticks, crashes, stale, crossed, foreign>>

StartRefused(x) ==
  /\ entry # None => entry.running
  /\ Go(x, "new", "done")
  /\ UNCHANGED <<table, disk, tasks, running, editing, ticks, crashes, history>>

(* A registered cron task fires; the job is looked up, then marked, whether *)
(* or not it is running.                                                    *)
Fire(x) ==
  /\ tasks # {}
  /\ Go(x, "new", "fired")
  /\ ticks' = ticks \cup {x}
  /\ UNCHANGED <<table, disk, tasks, running, editing, crashes, history>>

CheckPaused(x) ==
  /\ Go(x, "fired", IF entry # None /\ ~entry.paused THEN "due" ELSE "done")
  /\ UNCHANGED <<table, disk, tasks, running, editing, ticks, crashes, history>>

MarkDue(x) ==
  /\ Go(x, "due", "mark")
  /\ entry' = IF entry = None THEN None ELSE [entry EXCEPT !.running = TRUE]
  /\ Meet(IF Busy = {} THEN {} ELSE Busy \cup {x})
  /\ UNCHANGED <<task, disk, tasks, running, editing, ticks, crashes, stale, crossed, foreign>>

(* A tick goes on when the write fails, run_now returns at once.            *)
PersistStart(x) ==
  /\ Persist(x, "mark", "stored", IF x \in ticks THEN "stored" ELSE "done")
  /\ stale' = (stale \/ (at'[x] = "done" /\ entry # None /\ entry.running))
  /\ UNCHANGED <<table, tasks, running, editing, ticks, crashes, met, crossed, foreign>>

RegisterToken(x) ==
  /\ Go(x, "stored", "run")
  /\ token' = x
  /\ UNCHANGED <<table, disk, tasks, cancelled, editing, ticks, crashes, history>>

(* execute_job returns: the reply ends, fails or sees its token.            *)
ExecutionEnds(x) ==
  /\ Go(x, "run", "ended")
  /\ UNCHANGED <<table, disk, tasks, running, editing, ticks, crashes, history>>

UnregisterToken(x) ==
  /\ Go(x, "ended", "unregistered")
  /\ token' = None
  /\ UNCHANGED <<table, disk, tasks, cancelled, editing, ticks, crashes, history>>

NotRunning == IF entry = None THEN None ELSE [entry EXCEPT !.running = FALSE]

ClearRunning(x) ==
  /\ Go(x, "unregistered", "cleared")
  /\ entry' = NotRunning /\ stale' = FALSE
  /\ Meet(Busy)
  /\ UNCHANGED <<task, disk, tasks, running, editing, ticks, crashes, crossed, foreign>>

PersistEnd(x) ==
  /\ Persist(x, "cleared", "done", "done")
  /\ UNCHANGED <<table, tasks, running, editing, ticks, crashes, history>>

Finish(x) == UnregisterToken(x) \/ ClearRunning(x) \/ PersistEnd(x)

Execute(x) ==
  \/ Start(x) \/ StartRefused(x) \/ Fire(x) \/ CheckPaused(x) \/ MarkDue(x)
  \/ PersistStart(x) \/ RegisterToken(x) \/ ExecutionEnds(x) \/ Finish(x)

-----------------------------------------------------------------------------
(* kill_running_job *)

CheckRunning(k) ==
  /\ Go(k, "new", IF entry # None /\ entry.running THEN "kill1" ELSE "done")
  /\ UNCHANGED <<table, disk, tasks, running, editing, ticks, crashes, history>>

TakeToken(k) ==
  /\ Go(k, "kill1", "kill2")
  /\ cancelled' = IF token = None THEN cancelled ELSE cancelled \cup {token}
  /\ token' = None
  /\ UNCHANGED <<table, disk, tasks, editing, ticks, crashes, history>>

(* An execution that has not registered its token yet goes on, although     *)
(* the entry no longer says that it runs.                                   *)
ClearKilled(k) ==
  /\ Go(k, "kill2", IF entry = None THEN "done" ELSE "kill3")
  /\ entry' = NotRunning /\ stale' = FALSE
  /\ Meet(Busy)
  /\ UNCHANGED <<task, disk, tasks, running, editing, ticks, crashes, crossed, foreign>>

PersistKill(k) ==
  /\ Persist(k, "kill3", "done", "done")
  /\ UNCHANGED <<table, tasks, running, editing, ticks, crashes, history>>

Kill(k) == CheckRunning(k) \/ TakeToken(k) \/ ClearKilled(k) \/ PersistKill(k)

-----------------------------------------------------------------------------
(* Edits *)

Cross(e) == crossed' = (crossed \/ (at'[e] \in Midway /\ \E d \in Edits \ {e} : at[d] \in Midway))

(* add_scheduled_job_inner: looked up, registered, entered, written.        *)
Add(e) ==
  /\ entry = None
  /\ Go(e, "new", "add")
  /\ Cross(e)
  /\ UNCHANGED <<table, disk, tasks, running, editing, ticks, crashes, stale, met, foreign>>

RegisterTask(e) ==
  /\ Go(e, "add", "task")
  /\ tasks' = tasks \cup {e}
  /\ UNCHANGED <<table, disk, running, editing, ticks, crashes, history>>

InsertJob(e) ==
  /\ Go(e, "task", "edited")
  /\ entry' = Fresh /\ task' = e
  /\ Meet(Busy)
  /\ UNCHANGED <<disk, tasks, running, editing, ticks, crashes, stale, crossed, foreign>>

(* remove_scheduled_job *)
Remove(e) ==
  /\ entry # None
  /\ Go(e, "new", "popped")
  /\ entry' = None /\ task' = None /\ stale' = FALSE
  /\ old' = [old EXCEPT ![e] = task]
  /\ Cross(e) /\ Meet(Busy)
  /\ UNCHANGED <<disk, tasks, running, read, ticks, crashes, foreign>>

(* The call gives up before it writes if the task cannot be taken out, or   *)
(* the recipe not be deleted.                                               *)
UnregisterTask(e) ==
  LET gone == tasks' = tasks \ {old[e]}
      kept == tasks' = tasks IN
    /\ \/ Go(e, "popped", "edited") /\ gone /\ UNCHANGED <<unsaved, crossed>>
       \/ Go(e, "popped", "done") /\ gone /\ unsaved' = TRUE /\ UNCHANGED crossed
       \/ Go(e, "popped", "done") /\ kept /\ unsaved' = TRUE /\ crossed' = TRUE
    /\ UNCHANGED <<table, file, running, editing, ticks, crashes, stale, met, foreign>>

(* update_schedule: the entry has the new expression before it is parsed.   *)
Update(e) ==
  /\ entry # None /\ ~entry.running
  /\ Go(e, "new", "cron")
  /\ \E p \in BOOLEAN : entry' = [entry EXCEPT !.parses = p]
  /\ old' = [old EXCEPT ![e] = task]
  /\ read' = [read EXCEPT ![e] = entry']
  /\ Cross(e)
  /\ UNCHANGED <<task, disk, tasks, running, ticks, crashes, stale, met, foreign>>

(* Mutant: the task of the old expression stays. *)
KeepOldTask(e) ==
  /\ Go(e, "cron", "untasked")
  /\ UNCHANGED <<table, disk, tasks, running, editing, ticks, crashes, history>>

(* A task that cannot be taken out leaves the job with the new expression.  *)
DropOldTask(e) ==
  /\ \/ Go(e, "cron", "untasked") /\ tasks' = tasks \ {old[e]} /\ UNCHANGED unsaved
     \/ Go(e, "cron", "done") /\ unsaved' = TRUE /\ UNCHANGED tasks
  /\ UNCHANGED <<table, file, running, editing, ticks, crashes, history>>

(* An expression that cannot be parsed leaves the job without a task.       *)
NewTask(e) ==
  LET valid == read[e].parses IN
    /\ Go(e, "untasked", IF valid THEN "newtask" ELSE "done")
    /\ tasks' = IF valid THEN tasks \cup {e} ELSE tasks
    /\ crossed' = (crossed \/ ~valid)
    /\ unsaved' = (unsaved \/ ~valid)
    /\ UNCHANGED <<table, file, running, editing, ticks, crashes, stale, met, foreign>>

SetTask(e) ==
  /\ Go(e, "newtask", "edited")
  /\ task' = IF entry = None THEN None ELSE e
  /\ UNCHANGED <<entry, disk, tasks, running, editing, ticks, crashes, history>>

(* pause_schedule, unpause_schedule *)
Pause(e) ==
  /\ entry # None
  /\ Go(e, "new", "edited")
  /\ \/ ~entry.running /\ entry' = [entry EXCEPT !.paused = TRUE]
     \/ entry' = [entry EXCEPT !.paused = FALSE]
  /\ Cross(e)
  /\ UNCHANGED <<task, disk, tasks, running, editing, ticks, crashes, stale, met, foreign>>

(* Mutant: an edit returns as soon as the table has it. *)
LeaveUnsaved(e) ==
  /\ Go(e, "edited", "done")
  /\ UNCHANGED <<table, disk, tasks, running, editing, ticks, crashes, history>>

PersistEdit(e) ==
  /\ Persist(e, "edited", "done", "done")
  /\ old' = [old EXCEPT ![e] = None] /\ read' = [read EXCEPT ![e] = None]
  /\ UNCHANGED <<table, tasks, running, ticks, crashes, history>>

(* Refused, or an update with the expression the job has.                   *)
EditRefused(e) ==
  /\ Go(e, "new", "done")
  /\ UNCHANGED <<table, disk, tasks, running, editing, ticks, crashes, history>>

(* sync_from_storage: the file is read, compared with the table, and a job  *)
(* that is only in one of them is entered or, unless it runs, taken out.    *)
ReadFile(e) ==
  /\ file # Broken
  /\ Go(e, "new", "compare")
  /\ read' = [read EXCEPT ![e] = file]
  /\ Cross(e)
  /\ UNCHANGED <<table, disk, tasks, running, old, ticks, crashes, stale, met, foreign>>

Compare(e) ==
  /\ Go(e, "compare", IF read[e] # None /\ entry = None /\ read[e].parses THEN "adopt"
                      ELSE IF read[e] = None /\ entry # None /\ ~entry.running THEN "drop"
                      ELSE "done")
  /\ old' = [old EXCEPT ![e] = task]
  /\ UNCHANGED <<table, disk, tasks, running, read, ticks, crashes, history>>

AdoptTask(e) ==
  /\ Go(e, "adopt", "adopted")
  /\ tasks' = tasks \cup {e}
  /\ UNCHANGED <<table, disk, running, editing, ticks, crashes, history>>

Adopt(e) ==
  /\ Go(e, "adopted", "done")
  /\ entry' = read[e] /\ task' = e
  /\ stale' = (stale \/ read[e].running) /\ unsaved' = (unsaved \/ file # read[e])
  /\ Meet(Busy)
  /\ UNCHANGED <<file, tasks, running, editing, ticks, crashes, crossed, foreign>>

DropTask(e) ==
  /\ Go(e, "drop", "dropped")
  /\ tasks' = tasks \ {old[e]}
  /\ UNCHANGED <<table, disk, running, editing, ticks, crashes, history>>

Drop(e) ==
  /\ Go(e, "dropped", "done")
  /\ entry' = None /\ task' = None
  /\ stale' = FALSE /\ unsaved' = (unsaved \/ file # read[e])
  /\ Meet(Busy)
  /\ UNCHANGED <<file, tasks, running, editing, ticks, crashes, crossed, foreign>>

Synchronise(e) == ReadFile(e) \/ Compare(e) \/ AdoptTask(e) \/ Adopt(e) \/ DropTask(e) \/ Drop(e)

Edit(e) ==
  \/ Add(e) \/ RegisterTask(e) \/ InsertJob(e) \/ Remove(e) \/ UnregisterTask(e)
  \/ Update(e) \/ DropOldTask(e) \/ NewTask(e) \/ SetTask(e)
  \/ Pause(e) \/ PersistEdit(e) \/ EditRefused(e) \/ Synchronise(e)

-----------------------------------------------------------------------------
(* The process and its surroundings *)

(* A call made by a tool of an agent goes with the tool's future when the   *)
(* agent's run is cancelled; no guard puts right what it has half done.  A  *)
(* cron tick runs in a task of its own.                                     *)
DropCall(x) ==
  /\ x \notin ticks
  /\ at[x] \notin {"new", "done", "lost"} /\ at' = [at EXCEPT ![x] = "done"]
  /\ stale' = (stale \/ (at[x] \in Live \cup {"unregistered"} /\ entry # None /\ entry.running))
  /\ unsaved' = (unsaved \/ at[x] \in Writing \cup {"popped", "cron", "untasked", "newtask"})
  /\ crossed' = (crossed \/ at[x] \in {"task", "popped", "untasked", "newtask", "adopted", "dropped"})
  /\ old' = [e \in Edits |-> IF e = x THEN None ELSE old[e]]
  /\ read' = [e \in Edits |-> IF e = x THEN None ELSE read[e]]
  /\ UNCHANGED <<table, file, tasks, running, ticks, crashes, met, foreign>>

(* Another process writes the file: it adds the job or takes it out.        *)
WriteForeign ==
  /\ ~foreign /\ file # Broken
  /\ file' = IF file = None THEN Fresh ELSE None
  /\ foreign' = TRUE
  /\ UNCHANGED <<table, unsaved, tasks, running, at, editing, ticks, crashes, stale, met, crossed>>

(* A call for another job writes the file, this job with it.                *)
PersistOther ==
  /\ file' = entry /\ unsaved' = FALSE
  /\ UNCHANGED <<table, tasks, running, at, editing, ticks, crashes, history>>

(* Mutant: what the file says of the run is believed. *)
LoadAsStored(job) == job

(* load_jobs_from_storage: no job of the file is running yet.               *)
Cleared(job) == [job EXCEPT !.running = FALSE]

(* The process goes down, in the middle of a write perhaps, and starts      *)
(* again: calls are lost, a job whose expression can be parsed is loaded,   *)
(* and the file is put right if it said that the job was running.           *)
Restart ==
  /\ crashes < MaxCrashes /\ crashes' = crashes + 1
  /\ at' = [x \in Calls |-> IF at[x] = "new" THEN "new" ELSE "lost"]
  /\ \E found \in {file} \cup (IF \E x \in Calls : at[x] \in Writing THEN {Broken} ELSE {}) :
       LET job == IF found \in {None, Broken} THEN None ELSE Cleared(found)
           loaded == IF job # None /\ job.parses THEN job ELSE None IN
         /\ entry' = loaded
         /\ task' = IF loaded = None THEN None ELSE Startup
         /\ tasks' = IF loaded = None THEN {} ELSE {Startup}
         /\ \/ file' = (IF job = None THEN found ELSE job) /\ unsaved' = (loaded # file')
            \/ found # job /\ file' \in {found, Broken} /\ unsaved' = TRUE
  /\ token' = None /\ cancelled' = {} /\ ticks' = {}
  /\ old' = [e \in Edits |-> None] /\ read' = [e \in Edits |-> None]
  /\ stale' = FALSE /\ met' = {} /\ crossed' = FALSE /\ foreign' = FALSE

-----------------------------------------------------------------------------

Next ==
  \/ \E x \in Runs : Execute(x)
  \/ \E k \in Kills : Kill(k)
  \/ \E e \in Edits : Edit(e)
  \/ \E x \in Calls : DropCall(x)
  \/ WriteForeign \/ PersistOther \/ Restart

Spec == Init /\ [][Next]_vars

-----------------------------------------------------------------------------
(* Properties *)

TypeOK ==
  /\ entry \in Entries \cup {None} /\ task \in Edits \cup {Startup, None}
  /\ file \in Entries \cup {None, Broken} /\ tasks \subseteq Edits \cup {Startup}
  /\ token \in Runs \cup {None} /\ cancelled \subseteq Runs
  /\ at \in [Calls -> Stages]
  /\ old \in [Edits -> Edits \cup {Startup, None}] /\ read \in [Edits -> Entries \cup {None}]
  /\ ticks \subseteq Runs /\ crashes \in 0..MaxCrashes
  /\ met \subseteq Runs /\ {unsaved, stale, crossed, foreign} \subseteq BOOLEAN

(* A job that is said to run does: its status survives neither a crash nor  *)
(* a kill nor its last execution, unless run_now gave up because it could   *)
(* not write the status (it returns with the status set) or was dropped     *)
(* with the tool call that made it, or the status was read from the file.   *)
(* A job that seems to run cannot be run, paused or updated; every kill,    *)
(* end of an execution and removal makes the status true again.             *)
RunningIsReal ==
  entry # None /\ entry.running /\ ~stale => \E x \in Runs : at[x] \in Live \cup {"unregistered"}

(* An execution under way can be killed: its token is in the table.  The    *)
(* code does not promise it for an execution that a cron tick overlapped,   *)
(* whose entry was replaced, or that was killed before its token was there  *)
(* (met); two calls of run_now alone never get into each other's way.       *)
RunsAreReachable ==
  \A x \in Runs : at[x] = "run" /\ x \notin cancelled /\ x \notin met => token = x

(* Once the edits are through, exactly the table's cron task is registered, *)
(* so that a job fires once per tick and a job taken out never; two edits   *)
(* that overlap, and one that is refused or dropped half-way, may leave a   *)
(* task too many or none.                                                   *)
TaskFollowsTable ==
  (\A e \in Edits : at[e] \notin Midway) /\ ~crossed =>
    tasks = IF entry = None THEN {} ELSE {task}

(* Once all calls are through the file has what the table has, whatever the *)
(* order of the writes, unless the last write failed or was not reached,    *)
(* edits overlapped, or another process has written the file.               *)
FileFollowsTable ==
  (\A x \in Calls : at[x] \notin Writing \cup Midway) /\ ~unsaved /\ ~crossed /\ ~foreign => file = entry

=============================================================================
