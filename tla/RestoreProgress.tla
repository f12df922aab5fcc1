--------------------------- MODULE RestoreProgress ---------------------------
(***************************************************************************)
(* GetRestore (unnamed/part_000:501-545): the state of a restore task and  *)
(* its progress percentage, read from the MetaManager while the restore    *)
(* engine (not in this repository; from the spec) registers tasks and      *)
(* moves bytes.                                                            *)
(***************************************************************************)
EXTENDS Integers

CONSTANTS
    TaskIds,    \* ids RestoreBackup may register
    Ids,        \* ids a GetRestoreStateRequest may carry (Empty included)
    Empty,      \* the empty id ""
    NoTask,     \* GetRestoreTask found nothing (a nil *RestoreBackupTask)
    MaxSize     \* bound on a task's toRestoreSize in bytes, with
                \* MaxSize * 100 < 2^24; TaskIds \subseteq Ids and Empty
                \* is in Ids but not in TaskIds

MinInt32 == -2147483647 - 1

VARIABLES
    tasks,      \* id -> [restored, toRestore] or NoTask
    nanInt,     \* int32(NaN) of the build: MinInt32 on amd64, 0 on arm64
    resp        \* the last GetRestore response; code "Panic" when it panicked

rvars == <<tasks, nanInt, resp>>

(* int32(float32(restored) * 100 / float32(toRestore)).  The operands stay
   below 2^24, where float32 is exact and truncation is integer division;
   0/0 is NaN, whose conversion the Go spec leaves to the implementation. *)
Percent(t) ==
    IF t.toRestore = 0 THEN nanInt ELSE (t.restored * 100) \div t.toRestore

Init ==
    /\ tasks = [id \in TaskIds |-> NoTask]
    /\ nanInt \in {MinInt32, 0}
    /\ resp = [code |-> "None", progress |-> 0]

(* RestoreBackup registers a task with the size of what it will restore
   (from the spec; a meta-only backup has size 0). *)
AddRestoreTask(id, size) ==
    /\ tasks[id] = NoTask
    /\ tasks' = [tasks EXCEPT ![id] = [restored |-> 0, toRestore |-> size]]
    /\ UNCHANGED <<nanInt, resp>>

(* A bulk-insert job of the task finishes and its bytes count as restored. *)
RestoreSegment(id, n) ==
    /\ tasks[id] # NoTask
    /\ tasks[id].restored + n <= tasks[id].toRestore
    /\ tasks' = [tasks EXCEPT ![id].restored = @ + n]
    /\ UNCHANGED <<nanInt, resp>>

(* GetRestore: an empty id fails; otherwise the progress is computed from
   the task, floored to 1, and stored in task.Progress before the nil check,
   so an unknown id dereferences nil. *)
GetRestore(id) ==
    /\ IF id = Empty
       THEN resp' = [code |-> "Fail", progress |-> 0]
       ELSE IF id \notin TaskIds \/ tasks[id] = NoTask
       THEN resp' = [code |-> "Panic", progress |-> 0]
       ELSE LET p == Percent(tasks[id])
            IN  resp' = [code |-> "Success", progress |-> IF p = 0 THEN 1 ELSE p]
    /\ UNCHANGED <<tasks, nanInt>>

Next ==
    \/ \E id \in TaskIds, size \in 0..MaxSize : AddRestoreTask(id, size)
    \/ \E id \in TaskIds, n \in 1..MaxSize : RestoreSegment(id, n)
    \/ \E id \in Ids : GetRestore(id)

Spec == Init /\ [][Next]_rvars

-----------------------------------------------------------------------------

(* The progress GetRestore reports is an integer percentage, floored to 1
   (spec, RestoreTask.progress). *)
ProgressIsPercent ==
    resp.code = "Success" => resp.progress \in 1..100

=============================================================================
