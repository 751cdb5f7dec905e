--------------------------- MODULE SchedulerProofs ---------------------------
(***************************************************************************)
(* Proofs about one scheduled job, for any number of executions, kills,    *)
(* edits and crashes: its status is real, its executions can be reached,   *)
(* its cron task and its file follow the table.                            *)
(***************************************************************************)
EXTENDS Scheduler, TLAPS

-----------------------------------------------------------------------------
(* The inductive invariant. *)

(* What an edit has read is an entry where it is used as one.               *)
ReadEntry == \A e \in Edits :
  /\ at[e] \in {"cron", "untasked", "newtask", "adopt", "adopted"} => read[e] \in Entries
  /\ at[e] \in {"drop", "dropped"} => read[e] = None

(* Executions that overlap have met.                                        *)
OverlapsMet == \A x, y \in Busy : x # y => x \in met

(* The entry says of an execution that has met nobody that it runs.         *)
UnmetShown == \A x \in Busy : x \in met \/ entry = None \/ entry.running

(* Edits that do not overlap come one after the other.                      *)
OneEdit == ~crossed => \A d, e \in Edits : at[d] \in Midway /\ at[e] \in Midway => d = e

(* The tasks at every stage of the only edit that is under way.             *)
TableTask == IF entry = None THEN {} ELSE {task}
Tasks ==
  ~crossed =>
    /\ (\A e \in Edits : at[e] \notin Midway) => tasks = TableTask
    /\ \A e \in Edits :
         /\ at[e] \in {"add", "adopt"} => entry = None /\ tasks = {}
         /\ at[e] \in {"task", "adopted"} => entry = None /\ tasks = {e}
         /\ at[e] \in {"edited", "compare"} => tasks = TableTask
         /\ at[e] = "popped" => entry = None /\ tasks = {old[e]}
         /\ at[e] \in {"cron", "drop"} => entry # None /\ old[e] = task /\ tasks = {task}
         /\ at[e] \in {"untasked", "dropped"} => entry # None /\ tasks = {}
         /\ at[e] = "newtask" => entry # None /\ tasks = {e}

(* No call is at a write, and no edit that has changed the entry is on its  *)
(* way to one.                                                              *)
Unwritten == {"popped", "cron", "untasked", "newtask"}
Written == \A x \in Calls : at[x] \notin Writing \cup Unwritten
FileWritten == Written /\ ~unsaved /\ ~crossed /\ ~foreign => file = entry

IInv == /\ TypeOK /\ ReadEntry /\ RunningIsReal /\ OverlapsMet /\ UnmetShown /\ RunsAreReachable
        /\ OneEdit /\ Tasks /\ FileWritten

-----------------------------------------------------------------------------

LEMMA InitInv == Init => IInv
<1> SUFFICES ASSUME Init PROVE IInv
  OBVIOUS
<1> USE CallsAssumption, CrashesAssumption
<1>1. TypeOK
  <2>1. entry \in Entries \cup {None} /\ file \in Entries \cup {None, Broken}
    <3>1. Fresh \in Entries
      BY DEF Fresh, Entries
    <3> QED
      BY <3>1 DEF Init
  <2>2. task \in {Startup, None} /\ tasks \subseteq {Startup}
    BY DEF Init
  <2>3. at \in [Calls -> Stages]
    BY DEF Init, Stages
  <2>4. crashes \in 0..MaxCrashes
    BY DEF Init
  <2> QED
    BY <2>1, <2>2, <2>3, <2>4 DEF Init, TypeOK
<1>2. ReadEntry /\ OverlapsMet /\ UnmetShown /\ RunsAreReachable /\ OneEdit
  BY DEF Init, ReadEntry, OverlapsMet, UnmetShown, RunsAreReachable, OneEdit, Busy, Live, Calls, Midway
<1>3. RunningIsReal /\ Tasks /\ FileWritten
  BY DEF Init, RunningIsReal, Tasks, TableTask, FileWritten, Calls, Fresh
<1> QED
  BY <1>1, <1>2, <1>3 DEF IInv

(* Every step keeps the invariant. *)

LEMMA StartInv ==
  ASSUME IInv, NEW x \in Runs, Start(x)
  PROVE  IInv'
<1> USE CallsAssumption
<1>1. TypeOK'
  BY DEF IInv, TypeOK, ReadEntry, Entries, Calls, Stages, Live, Writing, Midway, Start, Meet, Go, table,
         disk, running, editing, history
<1>2. ReadEntry'
  BY DEF IInv, ReadEntry, TypeOK, Entries, Calls, Start, Meet, Go, table, disk, running, editing, history
<1>3. RunningIsReal'
  BY DEF IInv, RunningIsReal, ReadEntry, TypeOK, Entries, Calls, Live, Start, Meet, Go, table, disk,
         running, editing, history
<1>4. OverlapsMet'
  BY DEF IInv, OverlapsMet, UnmetShown, Busy, TypeOK, Calls, Live, Start, Meet, Go, table, disk, running,
         editing, history
<1>5. UnmetShown'
  BY DEF IInv, UnmetShown, OverlapsMet, Busy, TypeOK, Entries, Calls, Live, Start, Meet, Go, table, disk,
         running, editing, history
<1>6. RunsAreReachable'
  BY DEF IInv, RunsAreReachable, OverlapsMet, Busy, TypeOK, Calls, Live, Start, Meet, Go, table, disk,
         running, editing, history
<1>7. OneEdit'
  BY DEF IInv, OneEdit, TypeOK, Calls, Midway, Start, Meet, Go, table, disk, running, editing, history
<1>8. Tasks'
  BY DEF IInv, Tasks, TableTask, OneEdit, ReadEntry, TypeOK, Entries, Calls, Midway, Start, Meet, Go,
         table, disk, running, editing, history
<1>9. FileWritten'
  BY DEF IInv, FileWritten, Written, Unwritten, Writing, OneEdit, ReadEntry, TypeOK, Calls, Midway, Start,
         Meet, Go, table, disk, running, editing, history
<1> QED
  BY <1>1, <1>2, <1>3, <1>4, <1>5, <1>6, <1>7, <1>8, <1>9 DEF IInv

LEMMA StartRefusedInv ==
  ASSUME IInv, NEW x \in Runs, StartRefused(x)
  PROVE  IInv'
<1> USE CallsAssumption
<1>1. TypeOK'
  BY DEF IInv, TypeOK, ReadEntry, Entries, Calls, Stages, Live, Writing, Midway, StartRefused, Go, table,
         disk, running, editing, history
<1>2. ReadEntry'
  BY DEF IInv, ReadEntry, TypeOK, Entries, Calls, StartRefused, Go, table, disk, running, editing, history
<1>3. RunningIsReal'
  BY DEF IInv, RunningIsReal, ReadEntry, TypeOK, Entries, Calls, Live, StartRefused, Go, table, disk,
         running, editing, history
<1>4. OverlapsMet'
  BY DEF IInv, OverlapsMet, UnmetShown, Busy, TypeOK, Calls, Live, StartRefused, Go, table, disk, running,
         editing, history
<1>5. UnmetShown'
  BY DEF IInv, UnmetShown, OverlapsMet, Busy, TypeOK, Entries, Calls, Live, StartRefused, Go, table, disk,
         running, editing, history
<1>6. RunsAreReachable'
  BY DEF IInv, RunsAreReachable, OverlapsMet, Busy, TypeOK, Calls, Live, StartRefused, Go, table, disk,
         running, editing, history
<1>7. OneEdit'
  BY DEF IInv, OneEdit, TypeOK, Calls, Midway, StartRefused, Go, table, disk, running, editing, history
<1>8. Tasks'
  BY DEF IInv, Tasks, TableTask, OneEdit, ReadEntry, TypeOK, Entries, Calls, Midway, StartRefused, Go,
         table, disk, running, editing, history
<1>9. FileWritten'
  BY DEF IInv, FileWritten, Written, Unwritten, Writing, OneEdit, ReadEntry, TypeOK, Calls, Midway,
         StartRefused, Go, table, disk, running, editing, history
<1> QED
  BY <1>1, <1>2, <1>3, <1>4, <1>5, <1>6, <1>7, <1>8, <1>9 DEF IInv

LEMMA FireInv ==
  ASSUME IInv, NEW x \in Runs, Fire(x)
  PROVE  IInv'
<1> USE CallsAssumption
<1>1. TypeOK'
  BY DEF IInv, TypeOK, ReadEntry, Entries, Calls, Stages, Live, Writing, Midway, Fire, Go, table, disk,
         running, editing, history
<1>2. ReadEntry'
  BY DEF IInv, ReadEntry, TypeOK, Entries, Calls, Fire, Go, table, disk, running, editing, history
<1>3. RunningIsReal'
  BY DEF IInv, RunningIsReal, ReadEntry, TypeOK, Entries, Calls, Live, Fire, Go, table, disk, running,
         editing, history
<1>4. OverlapsMet'
  BY DEF IInv, OverlapsMet, UnmetShown, Busy, TypeOK, Calls, Live, Fire, Go, table, disk, running,
         editing, history
<1>5. UnmetShown'
  BY DEF IInv, UnmetShown, OverlapsMet, Busy, TypeOK, Entries, Calls, Live, Fire, Go, table, disk,
         running, editing, history
<1>6. RunsAreReachable'
  BY DEF IInv, RunsAreReachable, OverlapsMet, Busy, TypeOK, Calls, Live, Fire, Go, table, disk, running,
         editing, history
<1>7. OneEdit'
  BY DEF IInv, OneEdit, TypeOK, Calls, Midway, Fire, Go, table, disk, running, editing, history
<1>8. Tasks'
  BY DEF IInv, Tasks, TableTask, OneEdit, ReadEntry, TypeOK, Entries, Calls, Midway, Fire, Go, table,
         disk, running, editing, history
<1>9. FileWritten'
  BY DEF IInv, FileWritten, Written, Unwritten, Writing, OneEdit, ReadEntry, TypeOK, Calls, Midway, Fire,
         Go, table, disk, running, editing, history
<1> QED
  BY <1>1, <1>2, <1>3, <1>4, <1>5, <1>6, <1>7, <1>8, <1>9 DEF IInv

LEMMA CheckPausedInv ==
  ASSUME IInv, NEW x \in Runs, CheckPaused(x)
  PROVE  IInv'
<1> USE CallsAssumption
<1>1. TypeOK'
  BY DEF IInv, TypeOK, ReadEntry, Entries, Calls, Stages, Live, Writing, Midway, CheckPaused, Go, table,
         disk, running, editing, history
<1>2. ReadEntry'
  BY DEF IInv, ReadEntry, TypeOK, Entries, Calls, CheckPaused, Go, table, disk, running, editing, history
<1>3. RunningIsReal'
  BY DEF IInv, RunningIsReal, ReadEntry, TypeOK, Entries, Calls, Live, CheckPaused, Go, table, disk,
         running, editing, history
<1>4. OverlapsMet'
  BY DEF IInv, OverlapsMet, UnmetShown, Busy, TypeOK, Calls, Live, CheckPaused, Go, table, disk, running,
         editing, history
<1>5. UnmetShown'
  BY DEF IInv, UnmetShown, OverlapsMet, Busy, TypeOK, Entries, Calls, Live, CheckPaused, Go, table, disk,
         running, editing, history
<1>6. RunsAreReachable'
  BY DEF IInv, RunsAreReachable, OverlapsMet, Busy, TypeOK, Calls, Live, CheckPaused, Go, table, disk,
         running, editing, history
<1>7. OneEdit'
  BY DEF IInv, OneEdit, TypeOK, Calls, Midway, CheckPaused, Go, table, disk, running, editing, history
<1>8. Tasks'
  BY DEF IInv, Tasks, TableTask, OneEdit, ReadEntry, TypeOK, Entries, Calls, Midway, CheckPaused, Go,
         table, disk, running, editing, history
<1>9. FileWritten'
  BY DEF IInv, FileWritten, Written, Unwritten, Writing, OneEdit, ReadEntry, TypeOK, Calls, Midway,
         CheckPaused, Go, table, disk, running, editing, history
<1> QED
  BY <1>1, <1>2, <1>3, <1>4, <1>5, <1>6, <1>7, <1>8, <1>9 DEF IInv

LEMMA MarkDueInv ==
  ASSUME IInv, NEW x \in Runs, MarkDue(x)
  PROVE  IInv'
<1> USE CallsAssumption
<1>1. TypeOK'
  <2>1. entry' \in Entries \cup {None}
    BY DEF IInv, TypeOK, ReadEntry, Entries, MarkDue, Meet, Go, table, disk, running, editing, history
  <2>2. at' \in [Calls -> Stages]
    BY DEF IInv, TypeOK, Calls, Stages, Live, Writing, Midway, MarkDue, Meet, Go, table, disk, running,
           editing, history
  <2> QED
    BY <2>1, <2>2 DEF IInv, TypeOK, Calls, Busy, MarkDue, Meet, Go, table, disk, running, editing, history
<1>2. ReadEntry'
  BY DEF IInv, ReadEntry, TypeOK, Entries, Calls, MarkDue, Meet, Go, table, disk, running, editing, history
<1>3. RunningIsReal'
  BY DEF IInv, RunningIsReal, ReadEntry, TypeOK, Entries, Calls, Live, MarkDue, Meet, Go, table, disk,
         running, editing, history
<1>4. OverlapsMet'
  BY DEF IInv, OverlapsMet, UnmetShown, Busy, TypeOK, Calls, Live, MarkDue, Meet, Go, table, disk,
         running, editing, history
<1>5. UnmetShown'
  BY DEF IInv, UnmetShown, OverlapsMet, Busy, TypeOK, Entries, Calls, Live, MarkDue, Meet, Go, table,
         disk, running, editing, history
<1>6. RunsAreReachable'
  BY DEF IInv, RunsAreReachable, OverlapsMet, Busy, TypeOK, Calls, Live, MarkDue, Meet, Go, table, disk,
         running, editing, history
<1>7. OneEdit'
  BY DEF IInv, OneEdit, TypeOK, Calls, Midway, MarkDue, Meet, Go, table, disk, running, editing, history
<1>8. Tasks'
  <2>1. None \notin Entries
    OBVIOUS
  <2>2. \A f \in Entries, b \in BOOLEAN :
          [f EXCEPT !.running = b] \in Entries /\ [f EXCEPT !.paused = b] \in Entries /\ [f EXCEPT
                 !.parses = b] \in Entries
    BY DEF Entries
  <2>3. Fresh \in Entries
    BY DEF Fresh, Entries
  <2>4. (entry' = None) = (entry = None)
    BY <2>1, <2>2, <2>3 DEF IInv, TypeOK, MarkDue, Meet, Go, table, disk, running, editing, history
  <2> QED
    BY <2>4 DEF IInv, Tasks, TableTask, OneEdit, TypeOK, Calls, Midway, MarkDue, Meet, Go, table, disk,
           running, editing, history
<1>9. FileWritten'
  BY DEF IInv, FileWritten, Written, Unwritten, Writing, OneEdit, ReadEntry, TypeOK, Calls, Midway,
         MarkDue, Meet, Go, table, disk, running, editing, history
<1> QED
  BY <1>1, <1>2, <1>3, <1>4, <1>5, <1>6, <1>7, <1>8, <1>9 DEF IInv

LEMMA PersistStartInv ==
  ASSUME IInv, NEW x \in Runs, PersistStart(x)
  PROVE  IInv'
<1> USE CallsAssumption
<1>1. TypeOK'
  <2>1. at' \in [Calls -> Stages]
    BY DEF IInv, TypeOK, Calls, Stages, Live, Writing, Midway, PersistStart, Persist, Go
  <2>2. file' \in Entries \cup {None, Broken} /\ unsaved' \in BOOLEAN
    BY DEF IInv, TypeOK, PersistStart, Persist
  <2>3. stale' \in BOOLEAN
    BY DEF IInv, TypeOK, PersistStart
  <2> QED
    BY <2>1, <2>2, <2>3 DEF IInv, TypeOK, PersistStart, table, running, editing
<1>2. ReadEntry'
  BY DEF IInv, ReadEntry, TypeOK, Entries, Calls, PersistStart, Persist, Go, table, disk, running,
         editing, history
<1>3. RunningIsReal'
  BY DEF IInv, RunningIsReal, ReadEntry, TypeOK, Entries, Calls, Live, PersistStart, Persist, Go, table,
         disk, running, editing, history
<1>4. OverlapsMet'
  BY DEF IInv, OverlapsMet, UnmetShown, Busy, TypeOK, Calls, Live, PersistStart, Persist, Go, table, disk,
         running, editing, history
<1>5. UnmetShown'
  BY DEF IInv, UnmetShown, OverlapsMet, Busy, TypeOK, Entries, Calls, Live, PersistStart, Persist, Go,
         table, disk, running, editing, history
<1>6. RunsAreReachable'
  BY DEF IInv, RunsAreReachable, OverlapsMet, Busy, TypeOK, Calls, Live, PersistStart, Persist, Go, table,
         disk, running, editing, history
<1>7. OneEdit'
  BY DEF IInv, OneEdit, TypeOK, Calls, Midway, PersistStart, Persist, Go, table, disk, running, editing,
         history
<1>8. Tasks'
  BY DEF IInv, Tasks, TableTask, OneEdit, ReadEntry, TypeOK, Entries, Calls, Midway, PersistStart,
         Persist, Go, table, disk, running, editing, history
<1>9. FileWritten'
  BY DEF IInv, FileWritten, Written, Unwritten, Writing, OneEdit, ReadEntry, TypeOK, Calls, Midway,
         PersistStart, Persist, Go, table, disk, running, editing, history
<1> QED
  BY <1>1, <1>2, <1>3, <1>4, <1>5, <1>6, <1>7, <1>8, <1>9 DEF IInv

LEMMA RegisterTokenInv ==
  ASSUME IInv, NEW x \in Runs, RegisterToken(x)
  PROVE  IInv'
<1> USE CallsAssumption
<1>1. TypeOK'
  BY DEF IInv, TypeOK, ReadEntry, Entries, Calls, Stages, Live, Writing, Midway, RegisterToken, Go, table,
         disk, running, editing, history
<1>2. ReadEntry'
  BY DEF IInv, ReadEntry, TypeOK, Entries, Calls, RegisterToken, Go, table, disk, running, editing, history
<1>3. RunningIsReal'
  BY DEF IInv, RunningIsReal, ReadEntry, TypeOK, Entries, Calls, Live, RegisterToken, Go, table, disk,
         running, editing, history
<1>4. OverlapsMet'
  BY DEF IInv, OverlapsMet, UnmetShown, Busy, TypeOK, Calls, Live, RegisterToken, Go, table, disk,
         running, editing, history
<1>5. UnmetShown'
  BY DEF IInv, UnmetShown, OverlapsMet, Busy, TypeOK, Entries, Calls, Live, RegisterToken, Go, table,
         disk, running, editing, history
<1>6. RunsAreReachable'
  BY DEF IInv, RunsAreReachable, OverlapsMet, Busy, TypeOK, Calls, Live, RegisterToken, Go, table, disk,
         running, editing, history
<1>7. OneEdit'
  BY DEF IInv, OneEdit, TypeOK, Calls, Midway, RegisterToken, Go, table, disk, running, editing, history
<1>8. Tasks'
  BY DEF IInv, Tasks, TableTask, OneEdit, ReadEntry, TypeOK, Entries, Calls, Midway, RegisterToken, Go,
         table, disk, running, editing, history
<1>9. FileWritten'
  BY DEF IInv, FileWritten, Written, Unwritten, Writing, OneEdit, ReadEntry, TypeOK, Calls, Midway,
         RegisterToken, Go, table, disk, running, editing, history
<1> QED
  BY <1>1, <1>2, <1>3, <1>4, <1>5, <1>6, <1>7, <1>8, <1>9 DEF IInv

LEMMA ExecutionEndsInv ==
  ASSUME IInv, NEW x \in Runs, ExecutionEnds(x)
  PROVE  IInv'
<1> USE CallsAssumption
<1>1. TypeOK'
  BY DEF IInv, TypeOK, ReadEntry, Entries, Calls, Stages, Live, Writing, Midway, ExecutionEnds, Go, table,
         disk, running, editing, history
<1>2. ReadEntry'
  BY DEF IInv, ReadEntry, TypeOK, Entries, Calls, ExecutionEnds, Go, table, disk, running, editing, history
<1>3. RunningIsReal'
  BY DEF IInv, RunningIsReal, ReadEntry, TypeOK, Entries, Calls, Live, ExecutionEnds, Go, table, disk,
         running, editing, history
<1>4. OverlapsMet'
  BY DEF IInv, OverlapsMet, UnmetShown, Busy, TypeOK, Calls, Live, ExecutionEnds, Go, table, disk,
         running, editing, history
<1>5. UnmetShown'
  BY DEF IInv, UnmetShown, OverlapsMet, Busy, TypeOK, Entries, Calls, Live, ExecutionEnds, Go, table,
         disk, running, editing, history
<1>6. RunsAreReachable'
  BY DEF IInv, RunsAreReachable, OverlapsMet, Busy, TypeOK, Calls, Live, ExecutionEnds, Go, table, disk,
         running, editing, history
<1>7. OneEdit'
  BY DEF IInv, OneEdit, TypeOK, Calls, Midway, ExecutionEnds, Go, table, disk, running, editing, history
<1>8. Tasks'
  BY DEF IInv, Tasks, TableTask, OneEdit, ReadEntry, TypeOK, Entries, Calls, Midway, ExecutionEnds, Go,
         table, disk, running, editing, history
<1>9. FileWritten'
  BY DEF IInv, FileWritten, Written, Unwritten, Writing, OneEdit, ReadEntry, TypeOK, Calls, Midway,
         ExecutionEnds, Go, table, disk, running, editing, history
<1> QED
  BY <1>1, <1>2, <1>3, <1>4, <1>5, <1>6, <1>7, <1>8, <1>9 DEF IInv

LEMMA UnregisterTokenInv ==
  ASSUME IInv, NEW x \in Runs, UnregisterToken(x)
  PROVE  IInv'
<1> USE CallsAssumption
<1>1. TypeOK'
  BY DEF IInv, TypeOK, ReadEntry, Entries, Calls, Stages, Live, Writing, Midway, UnregisterToken, Go,
         table, disk, running, editing, history
<1>2. ReadEntry'
  BY DEF IInv, ReadEntry, TypeOK, Entries, Calls, UnregisterToken, Go, table, disk, running, editing, history
<1>3. RunningIsReal'
  BY DEF IInv, RunningIsReal, ReadEntry, TypeOK, Entries, Calls, Live, UnregisterToken, Go, table, disk,
         running, editing, history
<1>4. OverlapsMet'
  BY DEF IInv, OverlapsMet, UnmetShown, Busy, TypeOK, Calls, Live, UnregisterToken, Go, table, disk,
         running, editing, history
<1>5. UnmetShown'
  BY DEF IInv, UnmetShown, OverlapsMet, Busy, TypeOK, Entries, Calls, Live, UnregisterToken, Go, table,
         disk, running, editing, history
<1>6. RunsAreReachable'
  BY DEF IInv, RunsAreReachable, OverlapsMet, Busy, TypeOK, Calls, Live, UnregisterToken, Go, table, disk,
         running, editing, history
<1>7. OneEdit'
  BY DEF IInv, OneEdit, TypeOK, Calls, Midway, UnregisterToken, Go, table, disk, running, editing, history
<1>8. Tasks'
  BY DEF IInv, Tasks, TableTask, OneEdit, ReadEntry, TypeOK, Entries, Calls, Midway, UnregisterToken, Go,
         table, disk, running, editing, history
<1>9. FileWritten'
  BY DEF IInv, FileWritten, Written, Unwritten, Writing, OneEdit, ReadEntry, TypeOK, Calls, Midway,
         UnregisterToken, Go, table, disk, running, editing, history
<1> QED
  BY <1>1, <1>2, <1>3, <1>4, <1>5, <1>6, <1>7, <1>8, <1>9 DEF IInv

LEMMA ClearRunningInv ==
  ASSUME IInv, NEW x \in Runs, ClearRunning(x)
  PROVE  IInv'
<1> USE CallsAssumption
<1>1. TypeOK'
  <2>1. entry' \in Entries \cup {None}
    BY DEF IInv, TypeOK, ReadEntry, Entries, ClearRunning, Meet, NotRunning, Go, table, disk, running,
           editing, history
  <2>2. at' \in [Calls -> Stages]
    BY DEF IInv, TypeOK, Calls, Stages, Live, Writing, Midway, ClearRunning, Meet, NotRunning, Go, table,
           disk, running, editing, history
  <2> QED
    BY <2>1, <2>2 DEF IInv, TypeOK, Calls, Busy, ClearRunning, Meet, NotRunning, Go, table, disk, running,
           editing, history
<1>2. ReadEntry'
  BY DEF IInv, ReadEntry, TypeOK, Entries, Calls, ClearRunning, Meet, NotRunning, Go, table, disk,
         running, editing, history
<1>3. RunningIsReal'
  BY DEF IInv, RunningIsReal, ReadEntry, TypeOK, Entries, Calls, Live, ClearRunning, Meet, NotRunning, Go,
         table, disk, running, editing, history
<1>4. OverlapsMet'
  BY DEF IInv, OverlapsMet, UnmetShown, Busy, TypeOK, Calls, Live, ClearRunning, Meet, NotRunning, Go,
         table, disk, running, editing, history
<1>5. UnmetShown'
  BY DEF IInv, UnmetShown, OverlapsMet, Busy, TypeOK, Entries, Calls, Live, ClearRunning, Meet,
         NotRunning, Go, table, disk, running, editing, history
<1>6. RunsAreReachable'
  BY DEF IInv, RunsAreReachable, OverlapsMet, Busy, TypeOK, Calls, Live, ClearRunning, Meet, NotRunning,
         Go, table, disk, running, editing, history
<1>7. OneEdit'
  BY DEF IInv, OneEdit, TypeOK, Calls, Midway, ClearRunning, Meet, NotRunning, Go, table, disk, running,
         editing, history
<1>8. Tasks'
  <2>1. None \notin Entries
    OBVIOUS
  <2>2. \A f \in Entries, b \in BOOLEAN :
          [f EXCEPT !.running = b] \in Entries /\ [f EXCEPT !.paused = b] \in Entries /\ [f EXCEPT
                 !.parses = b] \in Entries
    BY DEF Entries
  <2>3. Fresh \in Entries
    BY DEF Fresh, Entries
  <2>4. (entry' = None) = (entry = None)
    BY <2>1, <2>2, <2>3 DEF IInv, TypeOK, ClearRunning, Meet, NotRunning, Go, table, disk, running,
           editing, history
  <2> QED
    BY <2>4 DEF IInv, Tasks, TableTask, OneEdit, TypeOK, Calls, Midway, ClearRunning, Meet, NotRunning,
           Go, table, disk, running, editing, history
<1>9. FileWritten'
  BY DEF IInv, FileWritten, Written, Unwritten, Writing, OneEdit, ReadEntry, TypeOK, Calls, Midway,
         ClearRunning, Meet, NotRunning, Go, table, disk, running, editing, history
<1> QED
  BY <1>1, <1>2, <1>3, <1>4, <1>5, <1>6, <1>7, <1>8, <1>9 DEF IInv

LEMMA PersistEndInv ==
  ASSUME IInv, NEW x \in Runs, PersistEnd(x)
  PROVE  IInv'
<1> USE CallsAssumption
<1>1. TypeOK'
  BY DEF IInv, TypeOK, ReadEntry, Entries, Calls, Stages, Live, Writing, Midway, PersistEnd, Persist, Go,
         table, disk, running, editing, history
<1>2. ReadEntry'
  BY DEF IInv, ReadEntry, TypeOK, Entries, Calls, PersistEnd, Persist, Go, table, disk, running, editing,
         history
<1>3. RunningIsReal'
  BY DEF IInv, RunningIsReal, ReadEntry, TypeOK, Entries, Calls, Live, PersistEnd, Persist, Go, table,
         disk, running, editing, history
<1>4. OverlapsMet'
  BY DEF IInv, OverlapsMet, UnmetShown, Busy, TypeOK, Calls, Live, PersistEnd, Persist, Go, table, disk,
         running, editing, history
<1>5. UnmetShown'
  BY DEF IInv, UnmetShown, OverlapsMet, Busy, TypeOK, Entries, Calls, Live, PersistEnd, Persist, Go,
         table, disk, running, editing, history
<1>6. RunsAreReachable'
  BY DEF IInv, RunsAreReachable, OverlapsMet, Busy, TypeOK, Calls, Live, PersistEnd, Persist, Go, table,
         disk, running, editing, history
<1>7. OneEdit'
  BY DEF IInv, OneEdit, TypeOK, Calls, Midway, PersistEnd, Persist, Go, table, disk, running, editing, history
<1>8. Tasks'
  BY DEF IInv, Tasks, TableTask, OneEdit, ReadEntry, TypeOK, Entries, Calls, Midway, PersistEnd, Persist,
         Go, table, disk, running, editing, history
<1>9. FileWritten'
  BY DEF IInv, FileWritten, Written, Unwritten, Writing, OneEdit, ReadEntry, TypeOK, Calls, Midway,
         PersistEnd, Persist, Go, table, disk, running, editing, history
<1> QED
  BY <1>1, <1>2, <1>3, <1>4, <1>5, <1>6, <1>7, <1>8, <1>9 DEF IInv

LEMMA CheckRunningInv ==
  ASSUME IInv, NEW k \in Kills, CheckRunning(k)
  PROVE  IInv'
<1> USE CallsAssumption
<1>1. TypeOK'
  BY DEF IInv, TypeOK, ReadEntry, Entries, Calls, Stages, Live, Writing, Midway, CheckRunning, Go, table,
         disk, running, editing, history
<1>2. ReadEntry'
  BY DEF IInv, ReadEntry, TypeOK, Entries, Calls, CheckRunning, Go, table, disk, running, editing, history
<1>3. RunningIsReal'
  BY DEF IInv, RunningIsReal, ReadEntry, TypeOK, Entries, Calls, Live, CheckRunning, Go, table, disk,
         running, editing, history
<1>4. OverlapsMet'
  BY DEF IInv, OverlapsMet, UnmetShown, Busy, TypeOK, Calls, Live, CheckRunning, Go, table, disk, running,
         editing, history
<1>5. UnmetShown'
  BY DEF IInv, UnmetShown, OverlapsMet, Busy, TypeOK, Entries, Calls, Live, CheckRunning, Go, table, disk,
         running, editing, history
<1>6. RunsAreReachable'
  BY DEF IInv, RunsAreReachable, OverlapsMet, Busy, TypeOK, Calls, Live, CheckRunning, Go, table, disk,
         running, editing, history
<1>7. OneEdit'
  BY DEF IInv, OneEdit, TypeOK, Calls, Midway, CheckRunning, Go, table, disk, running, editing, history
<1>8. Tasks'
  BY DEF IInv, Tasks, TableTask, OneEdit, ReadEntry, TypeOK, Entries, Calls, Midway, CheckRunning, Go,
         table, disk, running, editing, history
<1>9. FileWritten'
  BY DEF IInv, FileWritten, Written, Unwritten, Writing, OneEdit, ReadEntry, TypeOK, Calls, Midway,
         CheckRunning, Go, table, disk, running, editing, history
<1> QED
  BY <1>1, <1>2, <1>3, <1>4, <1>5, <1>6, <1>7, <1>8, <1>9 DEF IInv

LEMMA TakeTokenInv ==
  ASSUME IInv, NEW k \in Kills, TakeToken(k)
  PROVE  IInv'
<1> USE CallsAssumption
<1>1. TypeOK'
  BY DEF IInv, TypeOK, ReadEntry, Entries, Calls, Stages, Live, Writing, Midway, TakeToken, Go, table,
         disk, running, editing, history
<1>2. ReadEntry'
  BY DEF IInv, ReadEntry, TypeOK, Entries, Calls, TakeToken, Go, table, disk, running, editing, history
<1>3. RunningIsReal'
  BY DEF IInv, RunningIsReal, ReadEntry, TypeOK, Entries, Calls, Live, TakeToken, Go, table, disk,
         running, editing, history
<1>4. OverlapsMet'
  BY DEF IInv, OverlapsMet, UnmetShown, Busy, TypeOK, Calls, Live, TakeToken, Go, table, disk, running,
         editing, history
<1>5. UnmetShown'
  BY DEF IInv, UnmetShown, OverlapsMet, Busy, TypeOK, Entries, Calls, Live, TakeToken, Go, table, disk,
         running, editing, history
<1>6. RunsAreReachable'
  BY DEF IInv, RunsAreReachable, OverlapsMet, Busy, TypeOK, Calls, Live, TakeToken, Go, table, disk,
         running, editing, history
<1>7. OneEdit'
  BY DEF IInv, OneEdit, TypeOK, Calls, Midway, TakeToken, Go, table, disk, running, editing, history
<1>8. Tasks'
  BY DEF IInv, Tasks, TableTask, OneEdit, ReadEntry, TypeOK, Entries, Calls, Midway, TakeToken, Go, table,
         disk, running, editing, history
<1>9. FileWritten'
  BY DEF IInv, FileWritten, Written, Unwritten, Writing, OneEdit, ReadEntry, TypeOK, Calls, Midway,
         TakeToken, Go, table, disk, running, editing, history
<1> QED
  BY <1>1, <1>2, <1>3, <1>4, <1>5, <1>6, <1>7, <1>8, <1>9 DEF IInv

LEMMA ClearKilledInv ==
  ASSUME IInv, NEW k \in Kills, ClearKilled(k)
  PROVE  IInv'
<1> USE CallsAssumption
<1>1. TypeOK'
  <2>1. entry' \in Entries \cup {None}
    BY DEF IInv, TypeOK, ReadEntry, Entries, ClearKilled, Meet, NotRunning, Go, table, disk, running,
           editing, history
  <2>2. at' \in [Calls -> Stages]
    BY DEF IInv, TypeOK, Calls, Stages, Live, Writing, Midway, ClearKilled, Meet, NotRunning, Go, table,
           disk, running, editing, history
  <2> QED
    BY <2>1, <2>2 DEF IInv, TypeOK, Calls, Busy, ClearKilled, Meet, NotRunning, Go, table, disk, running,
           editing, history
<1>2. ReadEntry'
  BY DEF IInv, ReadEntry, TypeOK, Entries, Calls, ClearKilled, Meet, NotRunning, Go, table, disk, running,
         editing, history
<1>3. RunningIsReal'
  BY DEF IInv, RunningIsReal, ReadEntry, TypeOK, Entries, Calls, Live, ClearKilled, Meet, NotRunning, Go,
         table, disk, running, editing, history
<1>4. OverlapsMet'
  BY DEF IInv, OverlapsMet, UnmetShown, Busy, TypeOK, Calls, Live, ClearKilled, Meet, NotRunning, Go,
         table, disk, running, editing, history
<1>5. UnmetShown'
  BY DEF IInv, UnmetShown, OverlapsMet, Busy, TypeOK, Entries, Calls, Live, ClearKilled, Meet, NotRunning,
         Go, table, disk, running, editing, history
<1>6. RunsAreReachable'
  BY DEF IInv, RunsAreReachable, OverlapsMet, Busy, TypeOK, Calls, Live, ClearKilled, Meet, NotRunning,
         Go, table, disk, running, editing, history
<1>7. OneEdit'
  BY DEF IInv, OneEdit, TypeOK, Calls, Midway, ClearKilled, Meet, NotRunning, Go, table, disk, running,
         editing, history
<1>8. Tasks'
  <2>1. None \notin Entries
    OBVIOUS
  <2>2. \A f \in Entries, b \in BOOLEAN :
          [f EXCEPT !.running = b] \in Entries /\ [f EXCEPT !.paused = b] \in Entries /\ [f EXCEPT
                 !.parses = b] \in Entries
    BY DEF Entries
  <2>3. Fresh \in Entries
    BY DEF Fresh, Entries
  <2>4. (entry' = None) = (entry = None)
    BY <2>1, <2>2, <2>3 DEF IInv, TypeOK, ClearKilled, Meet, NotRunning, Go, table, disk, running,
           editing, history
  <2> QED
    BY <2>4 DEF IInv, Tasks, TableTask, OneEdit, TypeOK, Calls, Midway, ClearKilled, Meet, NotRunning, Go,
           table, disk, running, editing, history
<1>9. FileWritten'
  BY DEF IInv, FileWritten, Written, Unwritten, Writing, OneEdit, ReadEntry, TypeOK, Calls, Midway,
         ClearKilled, Meet, NotRunning, Go, table, disk, running, editing, history
<1> QED
  BY <1>1, <1>2, <1>3, <1>4, <1>5, <1>6, <1>7, <1>8, <1>9 DEF IInv

LEMMA PersistKillInv ==
  ASSUME IInv, NEW k \in Kills, PersistKill(k)
  PROVE  IInv'
<1> USE CallsAssumption
<1>1. TypeOK'
  <2>1. entry' \in Entries \cup {None}
    BY DEF IInv, TypeOK, ReadEntry, Entries, PersistKill, Persist, Go, table, disk, running, editing, history
  <2>2. at' \in [Calls -> Stages]
    BY DEF IInv, TypeOK, Calls, Stages, Live, Writing, Midway, PersistKill, Persist, Go, table, disk,
           running, editing, history
  <2>3. file' \in Entries \cup {None, Broken} /\ unsaved' \in BOOLEAN
    BY DEF IInv, TypeOK, PersistKill, Persist, Go, table, disk, running, editing, history
  <2> QED
    BY <2>1, <2>2, <2>3 DEF IInv, TypeOK, Calls, Busy, PersistKill, Persist, Go, table, disk, running,
           editing, history
<1>2. ReadEntry'
  BY DEF IInv, ReadEntry, TypeOK, Entries, Calls, PersistKill, Persist, Go, table, disk, running, editing,
         history
<1>3. RunningIsReal'
  BY DEF IInv, RunningIsReal, ReadEntry, TypeOK, Entries, Calls, Live, PersistKill, Persist, Go, table,
         disk, running, editing, history
<1>4. OverlapsMet'
  BY DEF IInv, OverlapsMet, UnmetShown, Busy, TypeOK, Calls, Live, PersistKill, Persist, Go, table, disk,
         running, editing, history
<1>5. UnmetShown'
  BY DEF IInv, UnmetShown, OverlapsMet, Busy, TypeOK, Entries, Calls, Live, PersistKill, Persist, Go,
         table, disk, running, editing, history
<1>6. RunsAreReachable'
  BY DEF IInv, RunsAreReachable, OverlapsMet, Busy, TypeOK, Calls, Live, PersistKill, Persist, Go, table,
         disk, running, editing, history
<1>7. OneEdit'
  BY DEF IInv, OneEdit, TypeOK, Calls, Midway, PersistKill, Persist, Go, table, disk, running, editing,
         history
<1>8. Tasks'
  BY DEF IInv, Tasks, TableTask, OneEdit, ReadEntry, TypeOK, Entries, Calls, Midway, PersistKill, Persist,
         Go, table, disk, running, editing, history
<1>9. FileWritten'
  BY DEF IInv, FileWritten, Written, Unwritten, Writing, OneEdit, ReadEntry, TypeOK, Calls, Midway,
         PersistKill, Persist, Go, table, disk, running, editing, history
<1> QED
  BY <1>1, <1>2, <1>3, <1>4, <1>5, <1>6, <1>7, <1>8, <1>9 DEF IInv

LEMMA AddInv ==
  ASSUME IInv, NEW e \in Edits, Add(e)
  PROVE  IInv'
<1> USE CallsAssumption
<1>1. TypeOK'
  BY DEF IInv, TypeOK, ReadEntry, Entries, Calls, Stages, Live, Writing, Midway, Add, Cross, Go, table,
         disk, running, editing, history
<1>2. ReadEntry'
  BY DEF IInv, ReadEntry, TypeOK, Entries, Calls, Add, Cross, Go, table, disk, running, editing, history
<1>3. RunningIsReal'
  BY DEF IInv, RunningIsReal, ReadEntry, TypeOK, Entries, Calls, Live, Add, Cross, Go, table, disk,
         running, editing, history
<1>4. OverlapsMet'
  BY DEF IInv, OverlapsMet, UnmetShown, Busy, TypeOK, Calls, Live, Add, Cross, Go, table, disk, running,
         editing, history
<1>5. UnmetShown'
  BY DEF IInv, UnmetShown, OverlapsMet, Busy, TypeOK, Entries, Calls, Live, Add, Cross, Go, table, disk,
         running, editing, history
<1>6. RunsAreReachable'
  BY DEF IInv, RunsAreReachable, OverlapsMet, Busy, TypeOK, Calls, Live, Add, Cross, Go, table, disk,
         running, editing, history
<1>7. OneEdit'
  BY DEF IInv, OneEdit, TypeOK, Calls, Midway, Add, Cross, Go, table, disk, running, editing, history
<1>8. Tasks'
  BY DEF IInv, Tasks, TableTask, OneEdit, ReadEntry, TypeOK, Entries, Calls, Midway, Add, Cross, Go,
         table, disk, running, editing, history
<1>9. FileWritten'
  BY DEF IInv, FileWritten, Written, Unwritten, Writing, OneEdit, ReadEntry, TypeOK, Calls, Midway, Add,
         Cross, Go, table, disk, running, editing, history
<1> QED
  BY <1>1, <1>2, <1>3, <1>4, <1>5, <1>6, <1>7, <1>8, <1>9 DEF IInv

LEMMA RegisterTaskInv ==
  ASSUME IInv, NEW e \in Edits, RegisterTask(e)
  PROVE  IInv'
<1> USE CallsAssumption
<1>1. TypeOK'
  BY DEF IInv, TypeOK, ReadEntry, Entries, Calls, Stages, Live, Writing, Midway, RegisterTask, Go, table,
         disk, running, editing, history
<1>2. ReadEntry'
  BY DEF IInv, ReadEntry, TypeOK, Entries, Calls, RegisterTask, Go, table, disk, running, editing, history
<1>3. RunningIsReal'
  BY DEF IInv, RunningIsReal, ReadEntry, TypeOK, Entries, Calls, Live, RegisterTask, Go, table, disk,
         running, editing, history
<1>4. OverlapsMet'
  BY DEF IInv, OverlapsMet, UnmetShown, Busy, TypeOK, Calls, Live, RegisterTask, Go, table, disk, running,
         editing, history
<1>5. UnmetShown'
  BY DEF IInv, UnmetShown, OverlapsMet, Busy, TypeOK, Entries, Calls, Live, RegisterTask, Go, table, disk,
         running, editing, history
<1>6. RunsAreReachable'
  BY DEF IInv, RunsAreReachable, OverlapsMet, Busy, TypeOK, Calls, Live, RegisterTask, Go, table, disk,
         running, editing, history
<1>7. OneEdit'
  BY DEF IInv, OneEdit, TypeOK, Calls, Midway, RegisterTask, Go, table, disk, running, editing, history
<1>8. Tasks'
  BY DEF IInv, Tasks, TableTask, OneEdit, ReadEntry, TypeOK, Entries, Calls, Midway, RegisterTask, Go,
         table, disk, running, editing, history
<1>9. FileWritten'
  BY DEF IInv, FileWritten, Written, Unwritten, Writing, OneEdit, ReadEntry, TypeOK, Calls, Midway,
         RegisterTask, Go, table, disk, running, editing, history
<1> QED
  BY <1>1, <1>2, <1>3, <1>4, <1>5, <1>6, <1>7, <1>8, <1>9 DEF IInv

LEMMA InsertJobInv ==
  ASSUME IInv, NEW e \in Edits, InsertJob(e)
  PROVE  IInv'
<1> USE CallsAssumption
<1>1. TypeOK'
  <2>1. entry' \in Entries \cup {None}
    BY DEF IInv, TypeOK, ReadEntry, Entries, InsertJob, Meet, Fresh, Go, table, disk, running, editing,
           history
  <2>2. at' \in [Calls -> Stages]
    BY DEF IInv, TypeOK, Calls, Stages, Live, Writing, Midway, InsertJob, Meet, Fresh, Go, table, disk,
           running, editing, history
  <2> QED
    BY <2>1, <2>2 DEF IInv, TypeOK, Calls, Busy, InsertJob, Meet, Fresh, Go, table, disk, running,
           editing, history
<1>2. ReadEntry'
  BY DEF IInv, ReadEntry, TypeOK, Entries, Calls, InsertJob, Meet, Fresh, Go, table, disk, running,
         editing, history
<1>3. RunningIsReal'
  BY DEF IInv, RunningIsReal, ReadEntry, TypeOK, Entries, Calls, Live, InsertJob, Meet, Fresh, Go, table,
         disk, running, editing, history
<1>4. OverlapsMet'
  BY DEF IInv, OverlapsMet, UnmetShown, Busy, TypeOK, Calls, Live, InsertJob, Meet, Fresh, Go, table,
         disk, running, editing, history
<1>5. UnmetShown'
  BY DEF IInv, UnmetShown, OverlapsMet, Busy, TypeOK, Entries, Calls, Live, InsertJob, Meet, Fresh, Go,
         table, disk, running, editing, history
<1>6. RunsAreReachable'
  BY DEF IInv, RunsAreReachable, OverlapsMet, Busy, TypeOK, Calls, Live, InsertJob, Meet, Fresh, Go,
         table, disk, running, editing, history
<1>7. OneEdit'
  BY DEF IInv, OneEdit, TypeOK, Calls, Midway, InsertJob, Meet, Fresh, Go, table, disk, running, editing,
         history
<1>8. Tasks'
  <2>1. None \notin Entries
    OBVIOUS
  <2>2. \A f \in Entries, b \in BOOLEAN :
          [f EXCEPT !.running = b] \in Entries /\ [f EXCEPT !.paused = b] \in Entries /\ [f EXCEPT
                 !.parses = b] \in Entries
    BY DEF Entries
  <2>3. Fresh \in Entries
    BY DEF Fresh, Entries
  <2>4. entry' # None
    BY <2>1, <2>2, <2>3 DEF IInv, TypeOK, InsertJob, Meet, Fresh, Go, table, disk, running, editing, history
  <2> QED
    BY <2>4 DEF IInv, Tasks, TableTask, OneEdit, TypeOK, Calls, Midway, InsertJob, Meet, Fresh, Go, table,
           disk, running, editing, history
<1>9. FileWritten'
  BY DEF IInv, FileWritten, Written, Unwritten, Writing, OneEdit, ReadEntry, TypeOK, Calls, Midway,
         InsertJob, Meet, Fresh, Go, table, disk, running, editing, history
<1> QED
  BY <1>1, <1>2, <1>3, <1>4, <1>5, <1>6, <1>7, <1>8, <1>9 DEF IInv

LEMMA RemoveInv ==
  ASSUME IInv, NEW e \in Edits, Remove(e)
  PROVE  IInv'
<1> USE CallsAssumption
<1>1. TypeOK'
  <2>1. entry' \in Entries \cup {None}
    BY DEF IInv, TypeOK, ReadEntry, Entries, Remove, Cross, Meet, Go, table, disk, running, editing, history
  <2>2. at' \in [Calls -> Stages]
    BY DEF IInv, TypeOK, Calls, Stages, Live, Writing, Midway, Remove, Cross, Meet, Go, table, disk,
           running, editing, history
  <2> QED
    BY <2>1, <2>2 DEF IInv, TypeOK, Calls, Busy, Remove, Cross, Meet, Go, table, disk, running, editing,
           history
<1>2. ReadEntry'
  BY DEF IInv, ReadEntry, TypeOK, Entries, Calls, Remove, Cross, Meet, Go, table, disk, running, editing,
         history
<1>3. RunningIsReal'
  BY DEF IInv, RunningIsReal, ReadEntry, TypeOK, Entries, Calls, Live, Remove, Cross, Meet, Go, table,
         disk, running, editing, history
<1>4. OverlapsMet'
  BY DEF IInv, OverlapsMet, UnmetShown, Busy, TypeOK, Calls, Live, Remove, Cross, Meet, Go, table, disk,
         running, editing, history
<1>5. UnmetShown'
  BY DEF IInv, UnmetShown, OverlapsMet, Busy, TypeOK, Entries, Calls, Live, Remove, Cross, Meet, Go,
         table, disk, running, editing, history
<1>6. RunsAreReachable'
  BY DEF IInv, RunsAreReachable, OverlapsMet, Busy, TypeOK, Calls, Live, Remove, Cross, Meet, Go, table,
         disk, running, editing, history
<1>7. OneEdit'
  BY DEF IInv, OneEdit, TypeOK, Calls, Midway, Remove, Cross, Meet, Go, table, disk, running, editing, history
<1>8. Tasks'
  BY DEF IInv, Tasks, TableTask, OneEdit, ReadEntry, TypeOK, Entries, Calls, Midway, Remove, Cross, Meet,
         Go, table, disk, running, editing, history
<1>9. FileWritten'
  BY DEF IInv, FileWritten, Written, Unwritten, Writing, OneEdit, ReadEntry, TypeOK, Calls, Midway,
         Remove, Cross, Meet, Go, table, disk, running, editing, history
<1> QED
  BY <1>1, <1>2, <1>3, <1>4, <1>5, <1>6, <1>7, <1>8, <1>9 DEF IInv

LEMMA UnregisterTaskInv ==
  ASSUME IInv, NEW e \in Edits, UnregisterTask(e)
  PROVE  IInv'
<1> USE CallsAssumption
<1>1. TypeOK'
  <2>1. at' \in [Calls -> Stages] /\ unsaved' \in BOOLEAN
    BY DEF IInv, TypeOK, Calls, Stages, Live, Writing, Midway, UnregisterTask, Go, table, disk, running,
           editing, history
  <2>2. tasks' \subseteq Edits \cup {Startup} /\ crashes' \in 0..MaxCrashes
    BY DEF IInv, TypeOK, UnregisterTask, Go, table, disk, running, editing, history
  <2> QED
    BY <2>1, <2>2 DEF IInv, TypeOK, UnregisterTask, Go, table, disk, running, editing, history
<1>2. ReadEntry'
  BY DEF IInv, ReadEntry, TypeOK, Entries, Calls, UnregisterTask, Go, table, disk, running, editing, history
<1>3. RunningIsReal'
  BY DEF IInv, RunningIsReal, ReadEntry, TypeOK, Entries, Calls, Live, UnregisterTask, Go, table, disk,
         running, editing, history
<1>4. OverlapsMet'
  BY DEF IInv, OverlapsMet, UnmetShown, Busy, TypeOK, Calls, Live, UnregisterTask, Go, table, disk,
         running, editing, history
<1>5. UnmetShown'
  BY DEF IInv, UnmetShown, OverlapsMet, Busy, TypeOK, Entries, Calls, Live, UnregisterTask, Go, table,
         disk, running, editing, history
<1>6. RunsAreReachable'
  BY DEF IInv, RunsAreReachable, OverlapsMet, Busy, TypeOK, Calls, Live, UnregisterTask, Go, table, disk,
         running, editing, history
<1>7. OneEdit'
  BY DEF IInv, OneEdit, TypeOK, Calls, Midway, UnregisterTask, Go, table, disk, running, editing, history
<1>8. Tasks'
  BY DEF IInv, Tasks, TableTask, OneEdit, ReadEntry, TypeOK, Entries, Calls, Midway, UnregisterTask, Go,
         table, disk, running, editing, history
<1>9. FileWritten'
  BY DEF IInv, FileWritten, Written, Unwritten, Writing, OneEdit, ReadEntry, TypeOK, Calls, Midway,
         UnregisterTask, Go, table, disk, running, editing, history
<1> QED
  BY <1>1, <1>2, <1>3, <1>4, <1>5, <1>6, <1>7, <1>8, <1>9 DEF IInv

LEMMA UpdateInv ==
  ASSUME IInv, NEW e \in Edits, Update(e)
  PROVE  IInv'
<1> USE CallsAssumption
<1>1. TypeOK'
  BY DEF IInv, TypeOK, ReadEntry, Entries, Calls, Stages, Live, Writing, Midway, Update, Cross, Go, table,
         disk, running, editing, history
<1>2. ReadEntry'
  BY DEF IInv, ReadEntry, TypeOK, Entries, Calls, Update, Cross, Go, table, disk, running, editing, history
<1>3. RunningIsReal'
  BY DEF IInv, RunningIsReal, ReadEntry, TypeOK, Entries, Calls, Live, Update, Cross, Go, table, disk,
         running, editing, history
<1>4. OverlapsMet'
  BY DEF IInv, OverlapsMet, UnmetShown, Busy, TypeOK, Calls, Live, Update, Cross, Go, table, disk,
         running, editing, history
<1>5. UnmetShown'
  BY DEF IInv, UnmetShown, OverlapsMet, Busy, TypeOK, Entries, Calls, Live, Update, Cross, Go, table,
         disk, running, editing, history
<1>6. RunsAreReachable'
  BY DEF IInv, RunsAreReachable, OverlapsMet, Busy, TypeOK, Calls, Live, Update, Cross, Go, table, disk,
         running, editing, history
<1>7. OneEdit'
  BY DEF IInv, OneEdit, TypeOK, Calls, Midway, Update, Cross, Go, table, disk, running, editing, history
<1>8. Tasks'
  <2>1. None \notin Entries
    OBVIOUS
  <2>2. \A f \in Entries, b \in BOOLEAN :
          [f EXCEPT !.running = b] \in Entries /\ [f EXCEPT !.paused = b] \in Entries /\ [f EXCEPT
                 !.parses = b] \in Entries
    BY DEF Entries
  <2>3. Fresh \in Entries
    BY DEF Fresh, Entries
  <2>4. entry' # None
    BY <2>1, <2>2, <2>3 DEF IInv, TypeOK, Update, Cross, Go, table, disk, running, editing, history
  <2>5. /\ at'[e] = "cron" /\ at[e] = "new" /\ (\A d \in Edits \ {e} : at'[d] = at[d])
        /\ entry # None /\ old'[e] = task /\ tasks' = tasks /\ task' = task
    BY DEF IInv, TypeOK, Calls, Update, Cross, Go, table, disk, running, editing, history
  <2>6. crossed' \/ (~crossed /\ \A d \in Edits \ {e} : at[d] \notin Midway)
    BY <2>5 DEF Cross, Update, Midway
  <2>7. ~crossed' => tasks = {task}
    BY <2>5, <2>6 DEF IInv, Tasks, TableTask, Midway
  <2> QED
    BY <2>4, <2>5, <2>6, <2>7 DEF Tasks, TableTask, Midway
<1>9. FileWritten'
  BY DEF IInv, FileWritten, Written, Unwritten, Writing, OneEdit, ReadEntry, TypeOK, Calls, Midway,
         Update, Cross, Go, table, disk, running, editing, history
<1> QED
  BY <1>1, <1>2, <1>3, <1>4, <1>5, <1>6, <1>7, <1>8, <1>9 DEF IInv

LEMMA DropOldTaskInv ==
  ASSUME IInv, NEW e \in Edits, DropOldTask(e)
  PROVE  IInv'
<1> USE CallsAssumption
<1>1. TypeOK'
  <2>1. at' \in [Calls -> Stages]
    BY DEF IInv, TypeOK, Calls, Stages, Live, Writing, Midway, DropOldTask, Go
  <2>2. unsaved' \in BOOLEAN /\ tasks' \subseteq Edits \cup {Startup}
    BY DEF IInv, TypeOK, DropOldTask
  <2> QED
    BY <2>1, <2>2 DEF IInv, TypeOK, DropOldTask, table, running, editing, history
<1>2. ReadEntry'
  BY DEF IInv, ReadEntry, TypeOK, Entries, Calls, DropOldTask, Go, table, disk, running, editing, history
<1>3. RunningIsReal'
  BY DEF IInv, RunningIsReal, ReadEntry, TypeOK, Entries, Calls, Live, DropOldTask, Go, table, disk,
         running, editing, history
<1>4. OverlapsMet'
  BY DEF IInv, OverlapsMet, UnmetShown, Busy, TypeOK, Calls, Live, DropOldTask, Go, table, disk, running,
         editing, history
<1>5. UnmetShown'
  BY DEF IInv, UnmetShown, OverlapsMet, Busy, TypeOK, Entries, Calls, Live, DropOldTask, Go, table, disk,
         running, editing, history
<1>6. RunsAreReachable'
  BY DEF IInv, RunsAreReachable, OverlapsMet, Busy, TypeOK, Calls, Live, DropOldTask, Go, table, disk,
         running, editing, history
<1>7. OneEdit'
  BY DEF IInv, OneEdit, TypeOK, Calls, Midway, DropOldTask, Go, table, disk, running, editing, history
<1>8. Tasks'
  BY DEF IInv, Tasks, TableTask, OneEdit, ReadEntry, TypeOK, Entries, Calls, Midway, DropOldTask, Go,
         table, disk, running, editing, history
<1>9. FileWritten'
  BY DEF IInv, FileWritten, Written, Unwritten, Writing, OneEdit, ReadEntry, TypeOK, Calls, Midway,
         DropOldTask, Go, table, disk, running, editing, history
<1> QED
  BY <1>1, <1>2, <1>3, <1>4, <1>5, <1>6, <1>7, <1>8, <1>9 DEF IInv

LEMMA NewTaskInv ==
  ASSUME IInv, NEW e \in Edits, NewTask(e)
  PROVE  IInv'
<1> USE CallsAssumption
<1>1. TypeOK'
  BY DEF IInv, TypeOK, ReadEntry, Entries, Calls, Stages, Live, Writing, Midway, NewTask, Go, table, disk,
         running, editing, history
<1>2. ReadEntry'
  BY DEF IInv, ReadEntry, TypeOK, Entries, Calls, NewTask, Go, table, disk, running, editing, history
<1>3. RunningIsReal'
  BY DEF IInv, RunningIsReal, ReadEntry, TypeOK, Entries, Calls, Live, NewTask, Go, table, disk, running,
         editing, history
<1>4. OverlapsMet'
  BY DEF IInv, OverlapsMet, UnmetShown, Busy, TypeOK, Calls, Live, NewTask, Go, table, disk, running,
         editing, history
<1>5. UnmetShown'
  BY DEF IInv, UnmetShown, OverlapsMet, Busy, TypeOK, Entries, Calls, Live, NewTask, Go, table, disk,
         running, editing, history
<1>6. RunsAreReachable'
  BY DEF IInv, RunsAreReachable, OverlapsMet, Busy, TypeOK, Calls, Live, NewTask, Go, table, disk,
         running, editing, history
<1>7. OneEdit'
  BY DEF IInv, OneEdit, TypeOK, Calls, Midway, NewTask, Go, table, disk, running, editing, history
<1>8. Tasks'
  BY DEF IInv, Tasks, TableTask, OneEdit, ReadEntry, TypeOK, Entries, Calls, Midway, NewTask, Go, table,
         disk, running, editing, history
<1>9. FileWritten'
  BY DEF IInv, FileWritten, Written, Unwritten, Writing, OneEdit, ReadEntry, TypeOK, Calls, Midway,
         NewTask, Go, table, disk, running, editing, history
<1> QED
  BY <1>1, <1>2, <1>3, <1>4, <1>5, <1>6, <1>7, <1>8, <1>9 DEF IInv

LEMMA SetTaskInv ==
  ASSUME IInv, NEW e \in Edits, SetTask(e)
  PROVE  IInv'
<1> USE CallsAssumption
<1>1. TypeOK'
  BY DEF IInv, TypeOK, ReadEntry, Entries, Calls, Stages, Live, Writing, Midway, SetTask, Go, table, disk,
         running, editing, history
<1>2. ReadEntry'
  BY DEF IInv, ReadEntry, TypeOK, Entries, Calls, SetTask, Go, table, disk, running, editing, history
<1>3. RunningIsReal'
  BY DEF IInv, RunningIsReal, ReadEntry, TypeOK, Entries, Calls, Live, SetTask, Go, table, disk, running,
         editing, history
<1>4. OverlapsMet'
  BY DEF IInv, OverlapsMet, UnmetShown, Busy, TypeOK, Calls, Live, SetTask, Go, table, disk, running,
         editing, history
<1>5. UnmetShown'
  BY DEF IInv, UnmetShown, OverlapsMet, Busy, TypeOK, Entries, Calls, Live, SetTask, Go, table, disk,
         running, editing, history
<1>6. RunsAreReachable'
  BY DEF IInv, RunsAreReachable, OverlapsMet, Busy, TypeOK, Calls, Live, SetTask, Go, table, disk,
         running, editing, history
<1>7. OneEdit'
  BY DEF IInv, OneEdit, TypeOK, Calls, Midway, SetTask, Go, table, disk, running, editing, history
<1>8. Tasks'
  BY DEF IInv, Tasks, TableTask, OneEdit, ReadEntry, TypeOK, Entries, Calls, Midway, SetTask, Go, table,
         disk, running, editing, history
<1>9. FileWritten'
  BY DEF IInv, FileWritten, Written, Unwritten, Writing, OneEdit, ReadEntry, TypeOK, Calls, Midway,
         SetTask, Go, table, disk, running, editing, history
<1> QED
  BY <1>1, <1>2, <1>3, <1>4, <1>5, <1>6, <1>7, <1>8, <1>9 DEF IInv

LEMMA PauseInv ==
  ASSUME IInv, NEW e \in Edits, Pause(e)
  PROVE  IInv'
<1> USE CallsAssumption
<1>1. TypeOK'
  BY DEF IInv, TypeOK, ReadEntry, Entries, Calls, Stages, Live, Writing, Midway, Pause, Cross, Go, table,
         disk, running, editing, history
<1>2. ReadEntry'
  BY DEF IInv, ReadEntry, TypeOK, Entries, Calls, Pause, Cross, Go, table, disk, running, editing, history
<1>3. RunningIsReal'
  BY DEF IInv, RunningIsReal, ReadEntry, TypeOK, Entries, Calls, Live, Pause, Cross, Go, table, disk,
         running, editing, history
<1>4. OverlapsMet'
  BY DEF IInv, OverlapsMet, UnmetShown, Busy, TypeOK, Calls, Live, Pause, Cross, Go, table, disk, running,
         editing, history
<1>5. UnmetShown'
  BY DEF IInv, UnmetShown, OverlapsMet, Busy, TypeOK, Entries, Calls, Live, Pause, Cross, Go, table, disk,
         running, editing, history
<1>6. RunsAreReachable'
  BY DEF IInv, RunsAreReachable, OverlapsMet, Busy, TypeOK, Calls, Live, Pause, Cross, Go, table, disk,
         running, editing, history
<1>7. OneEdit'
  BY DEF IInv, OneEdit, TypeOK, Calls, Midway, Pause, Cross, Go, table, disk, running, editing, history
<1>8. Tasks'
  <2>1. None \notin Entries
    OBVIOUS
  <2>2. \A f \in Entries, b \in BOOLEAN :
          [f EXCEPT !.running = b] \in Entries /\ [f EXCEPT !.paused = b] \in Entries /\ [f EXCEPT
                 !.parses = b] \in Entries
    BY DEF Entries
  <2>3. Fresh \in Entries
    BY DEF Fresh, Entries
  <2>4. entry' # None
    BY <2>1, <2>2, <2>3 DEF IInv, TypeOK, Pause, Cross, Go, table, disk, running, editing, history
  <2> QED
    BY <2>4 DEF IInv, Tasks, TableTask, OneEdit, TypeOK, Calls, Midway, Pause, Cross, Go, table, disk,
           running, editing, history
<1>9. FileWritten'
  BY DEF IInv, FileWritten, Written, Unwritten, Writing, OneEdit, ReadEntry, TypeOK, Calls, Midway, Pause,
         Cross, Go, table, disk, running, editing, history
<1> QED
  BY <1>1, <1>2, <1>3, <1>4, <1>5, <1>6, <1>7, <1>8, <1>9 DEF IInv

LEMMA PersistEditInv ==
  ASSUME IInv, NEW e \in Edits, PersistEdit(e)
  PROVE  IInv'
<1> USE CallsAssumption
<1>1. TypeOK'
  BY DEF IInv, TypeOK, ReadEntry, Entries, Calls, Stages, Live, Writing, Midway, PersistEdit, Persist, Go,
         table, disk, running, editing, history
<1>2. ReadEntry'
  BY DEF IInv, ReadEntry, TypeOK, Entries, Calls, PersistEdit, Persist, Go, table, disk, running, editing,
         history
<1>3. RunningIsReal'
  BY DEF IInv, RunningIsReal, ReadEntry, TypeOK, Entries, Calls, Live, PersistEdit, Persist, Go, table,
         disk, running, editing, history
<1>4. OverlapsMet'
  BY DEF IInv, OverlapsMet, UnmetShown, Busy, TypeOK, Calls, Live, PersistEdit, Persist, Go, table, disk,
         running, editing, history
<1>5. UnmetShown'
  BY DEF IInv, UnmetShown, OverlapsMet, Busy, TypeOK, Entries, Calls, Live, PersistEdit, Persist, Go,
         table, disk, running, editing, history
<1>6. RunsAreReachable'
  BY DEF IInv, RunsAreReachable, OverlapsMet, Busy, TypeOK, Calls, Live, PersistEdit, Persist, Go, table,
         disk, running, editing, history
<1>7. OneEdit'
  BY DEF IInv, OneEdit, TypeOK, Calls, Midway, PersistEdit, Persist, Go, table, disk, running, editing,
         history
<1>8. Tasks'
  BY DEF IInv, Tasks, TableTask, OneEdit, ReadEntry, TypeOK, Entries, Calls, Midway, PersistEdit, Persist,
         Go, table, disk, running, editing, history
<1>9. FileWritten'
  BY DEF IInv, FileWritten, Written, Unwritten, Writing, OneEdit, ReadEntry, TypeOK, Calls, Midway,
         PersistEdit, Persist, Go, table, disk, running, editing, history
<1> QED
  BY <1>1, <1>2, <1>3, <1>4, <1>5, <1>6, <1>7, <1>8, <1>9 DEF IInv

LEMMA EditRefusedInv ==
  ASSUME IInv, NEW e \in Edits, EditRefused(e)
  PROVE  IInv'
<1> USE CallsAssumption
<1>1. TypeOK'
  BY DEF IInv, TypeOK, ReadEntry, Entries, Calls, Stages, Live, Writing, Midway, EditRefused, Go, table,
         disk, running, editing, history
<1>2. ReadEntry'
  BY DEF IInv, ReadEntry, TypeOK, Entries, Calls, EditRefused, Go, table, disk, running, editing, history
<1>3. RunningIsReal'
  BY DEF IInv, RunningIsReal, ReadEntry, TypeOK, Entries, Calls, Live, EditRefused, Go, table, disk,
         running, editing, history
<1>4. OverlapsMet'
  BY DEF IInv, OverlapsMet, UnmetShown, Busy, TypeOK, Calls, Live, EditRefused, Go, table, disk, running,
         editing, history
<1>5. UnmetShown'
  BY DEF IInv, UnmetShown, OverlapsMet, Busy, TypeOK, Entries, Calls, Live, EditRefused, Go, table, disk,
         running, editing, history
<1>6. RunsAreReachable'
  BY DEF IInv, RunsAreReachable, OverlapsMet, Busy, TypeOK, Calls, Live, EditRefused, Go, table, disk,
         running, editing, history
<1>7. OneEdit'
  BY DEF IInv, OneEdit, TypeOK, Calls, Midway, EditRefused, Go, table, disk, running, editing, history
<1>8. Tasks'
  BY DEF IInv, Tasks, TableTask, OneEdit, ReadEntry, TypeOK, Entries, Calls, Midway, EditRefused, Go,
         table, disk, running, editing, history
<1>9. FileWritten'
  BY DEF IInv, FileWritten, Written, Unwritten, Writing, OneEdit, ReadEntry, TypeOK, Calls, Midway,
         EditRefused, Go, table, disk, running, editing, history
<1> QED
  BY <1>1, <1>2, <1>3, <1>4, <1>5, <1>6, <1>7, <1>8, <1>9 DEF IInv

LEMMA ReadFileInv ==
  ASSUME IInv, NEW e \in Edits, ReadFile(e)
  PROVE  IInv'
<1> USE CallsAssumption
<1>1. TypeOK'
  BY DEF IInv, TypeOK, ReadEntry, Entries, Calls, Stages, Live, Writing, Midway, ReadFile, Cross, Go,
         table, disk, running, editing, history
<1>2. ReadEntry'
  BY DEF IInv, ReadEntry, TypeOK, Entries, Calls, ReadFile, Cross, Go, table, disk, running, editing, history
<1>3. RunningIsReal'
  BY DEF IInv, RunningIsReal, ReadEntry, TypeOK, Entries, Calls, Live, ReadFile, Cross, Go, table, disk,
         running, editing, history
<1>4. OverlapsMet'
  BY DEF IInv, OverlapsMet, UnmetShown, Busy, TypeOK, Calls, Live, ReadFile, Cross, Go, table, disk,
         running, editing, history
<1>5. UnmetShown'
  BY DEF IInv, UnmetShown, OverlapsMet, Busy, TypeOK, Entries, Calls, Live, ReadFile, Cross, Go, table,
         disk, running, editing, history
<1>6. RunsAreReachable'
  BY DEF IInv, RunsAreReachable, OverlapsMet, Busy, TypeOK, Calls, Live, ReadFile, Cross, Go, table, disk,
         running, editing, history
<1>7. OneEdit'
  BY DEF IInv, OneEdit, TypeOK, Calls, Midway, ReadFile, Cross, Go, table, disk, running, editing, history
<1>8. Tasks'
  BY DEF IInv, Tasks, TableTask, OneEdit, ReadEntry, TypeOK, Entries, Calls, Midway, ReadFile, Cross, Go,
         table, disk, running, editing, history
<1>9. FileWritten'
  BY DEF IInv, FileWritten, Written, Unwritten, Writing, OneEdit, ReadEntry, TypeOK, Calls, Midway,
         ReadFile, Cross, Go, table, disk, running, editing, history
<1> QED
  BY <1>1, <1>2, <1>3, <1>4, <1>5, <1>6, <1>7, <1>8, <1>9 DEF IInv

LEMMA CompareInv ==
  ASSUME IInv, NEW e \in Edits, Compare(e)
  PROVE  IInv'
<1> USE CallsAssumption
<1>1. TypeOK'
  BY DEF IInv, TypeOK, ReadEntry, Entries, Calls, Stages, Live, Writing, Midway, Compare, Go, table, disk,
         running, editing, history
<1>2. ReadEntry'
  BY DEF IInv, ReadEntry, TypeOK, Entries, Calls, Compare, Go, table, disk, running, editing, history
<1>3. RunningIsReal'
  BY DEF IInv, RunningIsReal, ReadEntry, TypeOK, Entries, Calls, Live, Compare, Go, table, disk, running,
         editing, history
<1>4. OverlapsMet'
  BY DEF IInv, OverlapsMet, UnmetShown, Busy, TypeOK, Calls, Live, Compare, Go, table, disk, running,
         editing, history
<1>5. UnmetShown'
  BY DEF IInv, UnmetShown, OverlapsMet, Busy, TypeOK, Entries, Calls, Live, Compare, Go, table, disk,
         running, editing, history
<1>6. RunsAreReachable'
  BY DEF IInv, RunsAreReachable, OverlapsMet, Busy, TypeOK, Calls, Live, Compare, Go, table, disk,
         running, editing, history
<1>7. OneEdit'
  BY DEF IInv, OneEdit, TypeOK, Calls, Midway, Compare, Go, table, disk, running, editing, history
<1>8. Tasks'
  BY DEF IInv, Tasks, TableTask, OneEdit, ReadEntry, TypeOK, Entries, Calls, Midway, Compare, Go, table,
         disk, running, editing, history
<1>9. FileWritten'
  BY DEF IInv, FileWritten, Written, Unwritten, Writing, OneEdit, ReadEntry, TypeOK, Calls, Midway,
         Compare, Go, table, disk, running, editing, history
<1> QED
  BY <1>1, <1>2, <1>3, <1>4, <1>5, <1>6, <1>7, <1>8, <1>9 DEF IInv

LEMMA AdoptTaskInv ==
  ASSUME IInv, NEW e \in Edits, AdoptTask(e)
  PROVE  IInv'
<1> USE CallsAssumption
<1>1. TypeOK'
  BY DEF IInv, TypeOK, ReadEntry, Entries, Calls, Stages, Live, Writing, Midway, AdoptTask, Go, table,
         disk, running, editing, history
<1>2. ReadEntry'
  BY DEF IInv, ReadEntry, TypeOK, Entries, Calls, AdoptTask, Go, table, disk, running, editing, history
<1>3. RunningIsReal'
  BY DEF IInv, RunningIsReal, ReadEntry, TypeOK, Entries, Calls, Live, AdoptTask, Go, table, disk,
         running, editing, history
<1>4. OverlapsMet'
  BY DEF IInv, OverlapsMet, UnmetShown, Busy, TypeOK, Calls, Live, AdoptTask, Go, table, disk, running,
         editing, history
<1>5. UnmetShown'
  BY DEF IInv, UnmetShown, OverlapsMet, Busy, TypeOK, Entries, Calls, Live, AdoptTask, Go, table, disk,
         running, editing, history
<1>6. RunsAreReachable'
  BY DEF IInv, RunsAreReachable, OverlapsMet, Busy, TypeOK, Calls, Live, AdoptTask, Go, table, disk,
         running, editing, history
<1>7. OneEdit'
  BY DEF IInv, OneEdit, TypeOK, Calls, Midway, AdoptTask, Go, table, disk, running, editing, history
<1>8. Tasks'
  BY DEF IInv, Tasks, TableTask, OneEdit, ReadEntry, TypeOK, Entries, Calls, Midway, AdoptTask, Go, table,
         disk, running, editing, history
<1>9. FileWritten'
  BY DEF IInv, FileWritten, Written, Unwritten, Writing, OneEdit, ReadEntry, TypeOK, Calls, Midway,
         AdoptTask, Go, table, disk, running, editing, history
<1> QED
  BY <1>1, <1>2, <1>3, <1>4, <1>5, <1>6, <1>7, <1>8, <1>9 DEF IInv

LEMMA AdoptInv ==
  ASSUME IInv, NEW e \in Edits, Adopt(e)
  PROVE  IInv'
<1> USE CallsAssumption
<1>1. TypeOK'
  <2>1. entry' \in Entries \cup {None}
    BY DEF IInv, TypeOK, ReadEntry, Entries, Adopt, Meet, Go, table, disk, running, editing, history
  <2>2. at' \in [Calls -> Stages]
    BY DEF IInv, TypeOK, Calls, Stages, Live, Writing, Midway, Adopt, Meet, Go, table, disk, running,
           editing, history
  <2> QED
    BY <2>1, <2>2 DEF IInv, TypeOK, Calls, Busy, Adopt, Meet, Go, table, disk, running, editing, history
<1>2. ReadEntry'
  BY DEF IInv, ReadEntry, TypeOK, Entries, Calls, Adopt, Meet, Go, table, disk, running, editing, history
<1>3. RunningIsReal'
  BY DEF IInv, RunningIsReal, ReadEntry, TypeOK, Entries, Calls, Live, Adopt, Meet, Go, table, disk,
         running, editing, history
<1>4. OverlapsMet'
  BY DEF IInv, OverlapsMet, UnmetShown, Busy, TypeOK, Calls, Live, Adopt, Meet, Go, table, disk, running,
         editing, history
<1>5. UnmetShown'
  BY DEF IInv, UnmetShown, OverlapsMet, Busy, TypeOK, Entries, Calls, Live, Adopt, Meet, Go, table, disk,
         running, editing, history
<1>6. RunsAreReachable'
  BY DEF IInv, RunsAreReachable, OverlapsMet, Busy, TypeOK, Calls, Live, Adopt, Meet, Go, table, disk,
         running, editing, history
<1>7. OneEdit'
  BY DEF IInv, OneEdit, TypeOK, Calls, Midway, Adopt, Meet, Go, table, disk, running, editing, history
<1>8. Tasks'
  BY DEF IInv, Tasks, TableTask, OneEdit, ReadEntry, TypeOK, Entries, Calls, Midway, Adopt, Meet, Go,
         table, disk, running, editing, history
<1>9. FileWritten'
  BY DEF IInv, FileWritten, Written, Unwritten, Writing, OneEdit, ReadEntry, TypeOK, Calls, Midway, Adopt,
         Meet, Go, table, disk, running, editing, history
<1> QED
  BY <1>1, <1>2, <1>3, <1>4, <1>5, <1>6, <1>7, <1>8, <1>9 DEF IInv

LEMMA DropTaskInv ==
  ASSUME IInv, NEW e \in Edits, DropTask(e)
  PROVE  IInv'
<1> USE CallsAssumption
<1>1. TypeOK'
  BY DEF IInv, TypeOK, ReadEntry, Entries, Calls, Stages, Live, Writing, Midway, DropTask, Go, table,
         disk, running, editing, history
<1>2. ReadEntry'
  BY DEF IInv, ReadEntry, TypeOK, Entries, Calls, DropTask, Go, table, disk, running, editing, history
<1>3. RunningIsReal'
  BY DEF IInv, RunningIsReal, ReadEntry, TypeOK, Entries, Calls, Live, DropTask, Go, table, disk, running,
         editing, history
<1>4. OverlapsMet'
  BY DEF IInv, OverlapsMet, UnmetShown, Busy, TypeOK, Calls, Live, DropTask, Go, table, disk, running,
         editing, history
<1>5. UnmetShown'
  BY DEF IInv, UnmetShown, OverlapsMet, Busy, TypeOK, Entries, Calls, Live, DropTask, Go, table, disk,
         running, editing, history
<1>6. RunsAreReachable'
  BY DEF IInv, RunsAreReachable, OverlapsMet, Busy, TypeOK, Calls, Live, DropTask, Go, table, disk,
         running, editing, history
<1>7. OneEdit'
  BY DEF IInv, OneEdit, TypeOK, Calls, Midway, DropTask, Go, table, disk, running, editing, history
<1>8. Tasks'
  BY DEF IInv, Tasks, TableTask, OneEdit, ReadEntry, TypeOK, Entries, Calls, Midway, DropTask, Go, table,
         disk, running, editing, history
<1>9. FileWritten'
  BY DEF IInv, FileWritten, Written, Unwritten, Writing, OneEdit, ReadEntry, TypeOK, Calls, Midway,
         DropTask, Go, table, disk, running, editing, history
<1> QED
  BY <1>1, <1>2, <1>3, <1>4, <1>5, <1>6, <1>7, <1>8, <1>9 DEF IInv

LEMMA DropInv ==
  ASSUME IInv, NEW e \in Edits, Drop(e)
  PROVE  IInv'
<1> USE CallsAssumption
<1>1. TypeOK'
  <2>1. entry' \in Entries \cup {None}
    BY DEF IInv, TypeOK, ReadEntry, Entries, Drop, Meet, Go, table, disk, running, editing, history
  <2>2. at' \in [Calls -> Stages]
    BY DEF IInv, TypeOK, Calls, Stages, Live, Writing, Midway, Drop, Meet, Go, table, disk, running,
           editing, history
  <2> QED
    BY <2>1, <2>2 DEF IInv, TypeOK, Calls, Busy, Drop, Meet, Go, table, disk, running, editing, history
<1>2. ReadEntry'
  BY DEF IInv, ReadEntry, TypeOK, Entries, Calls, Drop, Meet, Go, table, disk, running, editing, history
<1>3. RunningIsReal'
  BY DEF IInv, RunningIsReal, ReadEntry, TypeOK, Entries, Calls, Live, Drop, Meet, Go, table, disk,
         running, editing, history
<1>4. OverlapsMet'
  BY DEF IInv, OverlapsMet, UnmetShown, Busy, TypeOK, Calls, Live, Drop, Meet, Go, table, disk, running,
         editing, history
<1>5. UnmetShown'
  BY DEF IInv, UnmetShown, OverlapsMet, Busy, TypeOK, Entries, Calls, Live, Drop, Meet, Go, table, disk,
         running, editing, history
<1>6. RunsAreReachable'
  BY DEF IInv, RunsAreReachable, OverlapsMet, Busy, TypeOK, Calls, Live, Drop, Meet, Go, table, disk,
         running, editing, history
<1>7. OneEdit'
  BY DEF IInv, OneEdit, TypeOK, Calls, Midway, Drop, Meet, Go, table, disk, running, editing, history
<1>8. Tasks'
  BY DEF IInv, Tasks, TableTask, OneEdit, ReadEntry, TypeOK, Entries, Calls, Midway, Drop, Meet, Go,
         table, disk, running, editing, history
<1>9. FileWritten'
  BY DEF IInv, FileWritten, Written, Unwritten, Writing, OneEdit, ReadEntry, TypeOK, Calls, Midway, Drop,
         Meet, Go, table, disk, running, editing, history
<1> QED
  BY <1>1, <1>2, <1>3, <1>4, <1>5, <1>6, <1>7, <1>8, <1>9 DEF IInv

(* A dropped call leaves what it has done so far, and its mark in the       *)
(* history if that is half of something.                                    *)
LEMMA DropCallInv ==
  ASSUME IInv, NEW x \in Calls, DropCall(x)
  PROVE  IInv'
<1> USE CallsAssumption
<1>1. /\ at[x] \notin {"new", "done", "lost"} /\ at'[x] = "done"
      /\ \A y \in Calls : y # x => at'[y] = at[y]
      /\ UNCHANGED <<entry, task, file, tasks, token, cancelled, ticks, crashes, met, foreign>>
      /\ old' = [e \in Edits |-> IF e = x THEN None ELSE old[e]]
      /\ read' = [e \in Edits |-> IF e = x THEN None ELSE read[e]]
  BY DEF IInv, TypeOK, DropCall, table, running
<1>2. \A e \in Edits : e # x => e \in Calls /\ at'[e] = at[e] /\ old'[e] = old[e] /\ read'[e] = read[e]
  BY <1>1 DEF Calls
<1>3. Busy' \subseteq Busy
  BY <1>1 DEF Busy, Live, Calls
<1>4. (stale => stale') /\ (unsaved => unsaved') /\ (crossed => crossed')
  BY DEF DropCall
<1>5. TypeOK'
  <2>1. at' \in [Calls -> Stages]
    BY DEF IInv, TypeOK, DropCall, Stages
  <2>2. {unsaved, stale, crossed, foreign}' \subseteq BOOLEAN
    BY DEF IInv, TypeOK, DropCall
  <2>3. old' \in [Edits -> Edits \cup {Startup, None}] /\ read' \in [Edits -> Entries \cup {None}]
    BY <1>1 DEF IInv, TypeOK
  <2> QED
    BY <1>1, <2>1, <2>2, <2>3 DEF IInv, TypeOK
<1>6. ReadEntry'
  BY <1>1, <1>2 DEF IInv, ReadEntry
<1>7. RunningIsReal'
  <2> SUFFICES ASSUME entry # None, entry.running, ~stale'
               PROVE  \E y \in Runs : at'[y] \in Live \cup {"unregistered"}
    BY <1>1 DEF RunningIsReal
  <2>1. PICK y \in Runs : at[y] \in Live \cup {"unregistered"}
    BY <1>4 DEF IInv, RunningIsReal
  <2>2. at[x] \notin Live \cup {"unregistered"}
    BY DEF DropCall
  <2> QED
    BY <1>1, <2>1, <2>2 DEF Calls
<1>8. OverlapsMet' /\ UnmetShown'
  BY <1>1, <1>3 DEF IInv, OverlapsMet, UnmetShown
<1>9. RunsAreReachable'
  BY <1>1 DEF IInv, RunsAreReachable, Calls
<1>10. OneEdit'
  BY <1>1, <1>2, <1>4 DEF IInv, OneEdit, Midway
<1>11. Tasks'
  <2> SUFFICES ASSUME ~crossed'
               PROVE  /\ (\A e \in Edits : at'[e] \notin Midway) => tasks = TableTask
                      /\ \A e \in Edits \ {x} :
                           /\ at[e] \in {"add", "adopt"} => entry = None /\ tasks = {}
                           /\ at[e] \in {"task", "adopted"} => entry = None /\ tasks = {e}
                           /\ at[e] \in {"edited", "compare"} => tasks = TableTask
                           /\ at[e] = "popped" => entry = None /\ tasks = {old[e]}
                           /\ at[e] \in {"cron", "drop"} => entry # None /\ old[e] = task /\ tasks = {task}
                           /\ at[e] \in {"untasked", "dropped"} => entry # None /\ tasks = {}
                           /\ at[e] = "newtask" => entry # None /\ tasks = {e}
    BY <1>1, <1>2 DEF Tasks, TableTask
  <2>1. ~crossed
    BY <1>4
  <2>2. ASSUME \A e \in Edits : at'[e] \notin Midway PROVE tasks = TableTask
    <3>1. CASE x \in Edits /\ at[x] \in Midway
      <4>1. at[x] \in {"add", "adopt", "edited", "compare", "cron", "drop"}
        BY <3>1 DEF DropCall, Midway
      <4>2. CASE at[x] \in {"add", "adopt", "edited", "compare"}
        BY <2>1, <3>1, <4>2 DEF IInv, Tasks, TableTask
      <4>3. CASE at[x] \in {"cron", "drop"}
        BY <2>1, <3>1, <4>3 DEF IInv, Tasks, TableTask
      <4> QED
        BY <4>1, <4>2, <4>3
    <3>2. CASE \A e \in Edits : at[e] \notin Midway
      BY <2>1, <3>2 DEF IInv, Tasks
    <3> QED
      BY <1>2, <2>2, <3>1, <3>2
  <2> QED
    BY <2>1, <2>2 DEF IInv, Tasks
<1>12. FileWritten'
  <2> SUFFICES ASSUME Written', ~unsaved', ~crossed', ~foreign'
               PROVE  file = entry
    BY <1>1 DEF FileWritten
  <2>1. at[x] \notin Writing \cup Unwritten
    BY DEF DropCall, Unwritten
  <2>2. Written
    BY <1>1, <2>1 DEF Written
  <2> QED
    BY <1>1, <1>4, <2>2 DEF IInv, FileWritten
<1> QED
  BY <1>5, <1>6, <1>7, <1>8, <1>9, <1>10, <1>11, <1>12 DEF IInv

LEMMA WriteForeignInv ==
  ASSUME IInv, WriteForeign
  PROVE  IInv'
<1> USE CallsAssumption DEF IInv, WriteForeign, table, disk, running, editing, history
<1>1. Fresh \in Entries
  BY DEF Fresh, Entries
<1>2. TypeOK'
  BY <1>1 DEF TypeOK
<1>3. ReadEntry' /\ RunningIsReal' /\ OverlapsMet' /\ UnmetShown' /\ RunsAreReachable'
  BY DEF ReadEntry, RunningIsReal, OverlapsMet, UnmetShown, RunsAreReachable, Busy
<1>4. OneEdit' /\ Tasks' /\ FileWritten'
  BY DEF OneEdit, Tasks, TableTask, FileWritten
<1> QED
  BY <1>2, <1>3, <1>4

LEMMA PersistOtherInv ==
  ASSUME IInv, PersistOther
  PROVE  IInv'
<1> USE CallsAssumption DEF IInv, PersistOther, table, disk, running, editing, history
<1>1. TypeOK'
  BY DEF TypeOK
<1>2. ReadEntry' /\ RunningIsReal' /\ OverlapsMet' /\ UnmetShown' /\ RunsAreReachable'
  BY DEF ReadEntry, RunningIsReal, OverlapsMet, UnmetShown, RunsAreReachable, Busy
<1>3. OneEdit' /\ Tasks' /\ FileWritten'
  BY DEF OneEdit, Tasks, TableTask, FileWritten
<1> QED
  BY <1>1, <1>2, <1>3

(* A restart leaves no call under way and loads the job with its status     *)
(* cleared.                                                                 *)
LEMMA RestartInv ==
  ASSUME IInv, Restart
  PROVE  IInv'
<1> USE CallsAssumption, CrashesAssumption
<1>1. \A x \in Calls : at'[x] \in {"new", "lost"}
  BY DEF Restart
<1>2. PICK found \in {file} \cup {Broken} :
        LET job == IF found \in {None, Broken} THEN None ELSE Cleared(found)
            loaded == IF job # None /\ job.parses THEN job ELSE None IN
          /\ entry' = loaded
          /\ task' = IF loaded = None THEN None ELSE Startup
          /\ tasks' = IF loaded = None THEN {} ELSE {Startup}
          /\ \/ file' = (IF job = None THEN found ELSE job) /\ unsaved' = (loaded # file')
             \/ found # job /\ file' \in {found, Broken} /\ unsaved' = TRUE
  BY DEF Restart
<1>3. found \in Entries \cup {None, Broken}
  BY <1>2 DEF IInv, TypeOK
<1>4. found \notin {None, Broken} => Cleared(found) \in Entries /\ ~Cleared(found).running
  BY <1>3 DEF Cleared, Entries
<1>5. /\ entry' \in Entries \cup {None} /\ (entry' # None => ~entry'.running)
      /\ task' = (IF entry' = None THEN None ELSE Startup)
      /\ tasks' = (IF entry' = None THEN {} ELSE {Startup})
      /\ file' \in Entries \cup {None, Broken} /\ unsaved' \in BOOLEAN
      /\ unsaved' \/ file' = entry'
  <2>1. CASE found \in {None, Broken}
    BY <1>2, <1>3, <2>1
  <2>2. CASE found \notin {None, Broken}
    BY <1>2, <1>3, <1>4, <2>2
  <2> QED
    BY <2>1, <2>2
<1>6. TypeOK'
  <2>1. crashes' \in 0..MaxCrashes
    BY DEF Restart, IInv, TypeOK
  <2>2. at' \in [Calls -> Stages]
    BY DEF Restart, IInv, TypeOK, Stages
  <2> QED
    BY <1>5, <2>1, <2>2 DEF Restart, TypeOK
<1>7. ReadEntry' /\ OverlapsMet' /\ UnmetShown' /\ RunsAreReachable' /\ OneEdit'
  BY <1>1 DEF ReadEntry, OverlapsMet, UnmetShown, RunsAreReachable, OneEdit, Busy, Live, Calls, Midway
<1>8. RunningIsReal'
  BY <1>5 DEF RunningIsReal
<1>9. Tasks'
  BY <1>1, <1>5 DEF Tasks, TableTask, Calls
<1>10. FileWritten'
  BY <1>5 DEF FileWritten
<1> QED
  BY <1>6, <1>7, <1>8, <1>9, <1>10 DEF IInv

LEMMA StutterInv ==
  ASSUME IInv, UNCHANGED vars
  PROVE  IInv'
<1> USE DEF IInv, vars, table, disk, running, editing, history
<1>1. TypeOK'
  BY DEF TypeOK
<1>2. ReadEntry' /\ RunningIsReal' /\ OverlapsMet' /\ UnmetShown' /\ RunsAreReachable'
  BY DEF ReadEntry, RunningIsReal, OverlapsMet, UnmetShown, RunsAreReachable, Busy
<1>3. OneEdit' /\ Tasks' /\ FileWritten'
  BY DEF OneEdit, Tasks, TableTask, FileWritten, Written
<1> QED
  BY <1>1, <1>2, <1>3

LEMMA NextInv == IInv /\ [Next]_vars => IInv'
<1> SUFFICES ASSUME IInv, [Next]_vars PROVE IInv'
  OBVIOUS
<1>1. ASSUME NEW x \in Runs, Execute(x) PROVE IInv'
  BY <1>1, StartInv, StartRefusedInv, FireInv, CheckPausedInv, MarkDueInv, PersistStartInv,
     RegisterTokenInv, ExecutionEndsInv, UnregisterTokenInv, ClearRunningInv, PersistEndInv
     DEF Execute, Finish
<1>2. ASSUME NEW k \in Kills, Kill(k) PROVE IInv'
  BY <1>2, CheckRunningInv, TakeTokenInv, ClearKilledInv, PersistKillInv DEF Kill
<1>3. ASSUME NEW e \in Edits, Edit(e) PROVE IInv'
  <2>1. CASE Synchronise(e)
    BY <2>1, ReadFileInv, CompareInv, AdoptTaskInv, AdoptInv, DropTaskInv, DropInv DEF Synchronise
  <2>2. CASE Add(e) \/ RegisterTask(e) \/ InsertJob(e) \/ Remove(e) \/ UnregisterTask(e)
    BY <2>2, AddInv, RegisterTaskInv, InsertJobInv, RemoveInv, UnregisterTaskInv
  <2>3. CASE Update(e) \/ DropOldTask(e) \/ NewTask(e) \/ SetTask(e)
    BY <2>3, UpdateInv, DropOldTaskInv, NewTaskInv, SetTaskInv
  <2>4. CASE Pause(e) \/ PersistEdit(e) \/ EditRefused(e)
    BY <2>4, PauseInv, PersistEditInv, EditRefusedInv
  <2> QED
    BY <1>3, <2>1, <2>2, <2>3, <2>4 DEF Edit
<1> QED
  BY <1>1, <1>2, <1>3, DropCallInv, WriteForeignInv, PersistOtherInv, RestartInv, StutterInv DEF Next

LEMMA InvAlways == Spec => []IInv
<1> QED
  BY InitInv, NextInv, PTL DEF Spec

-----------------------------------------------------------------------------

(* The state of a job keeps its type, however its calls meet.               *)
THEOREM Typed == Spec => []TypeOK
<1>1. IInv => TypeOK
  BY DEF IInv
<1> QED
  BY <1>1, InvAlways, PTL

(* A job that the table says is running is: neither a crash nor a kill nor  *)
(* the last execution leaves the status behind, unless a run_now has given  *)
(* up or been dropped, or the status was read, since it was last cleared.   *)
THEOREM RunningTheorem == Spec => []RunningIsReal
<1>1. IInv => RunningIsReal
  BY DEF IInv
<1> QED
  BY <1>1, InvAlways, PTL

(* An execution that no other call got in the way of has the token of the   *)
(* job, or has been cancelled, for any number of executions and kills.      *)
THEOREM ReachTheorem == Spec => []RunsAreReachable
<1>1. IInv => RunsAreReachable
  BY DEF IInv
<1> QED
  BY <1>1, InvAlways, PTL

(* Edits that do not overlap leave the cron task of the entry registered    *)
(* and no other.                                                            *)
THEOREM TaskTheorem == Spec => []TaskFollowsTable
<1>1. IInv => TaskFollowsTable
  BY DEF IInv, Tasks, TableTask, TaskFollowsTable
<1> QED
  BY <1>1, InvAlways, PTL

(* Once no call is at a write the file says what the table says, unless a   *)
(* write failed or another process has written it.                          *)
THEOREM FileTheorem == Spec => []FileFollowsTable
<1>1. IInv => FileFollowsTable
  BY DEF IInv, FileWritten, Written, Unwritten, FileFollowsTable, Midway
<1> QED
  BY <1>1, InvAlways, PTL

=============================================================================
