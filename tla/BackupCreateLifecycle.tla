------------------------- MODULE BackupCreateLifecycle -------------------------
(***************************************************************************)
(* BackupCreate implements BackupLifecycle: the MetaManager state code is  *)
(* the abstract status, and the requests between b.mu.Lock() and the       *)
(* deferred Unlock are the abstract holders of the execution slot.  Name   *)
(* checks, prepare retries, fills, copy jobs, meta writes and the cluster  *)
(* are stutters of the abstract specification.                             *)
(***************************************************************************)
EXTENDS BackupCreate

(* The requests inside executeCreateBackup. *)
Inside == {r \in Requests : Holding(r)}

Lifecycle == INSTANCE BackupLifecycle WITH status <- state, inside <- Inside

(* Every behaviour of CreateBackup is one of the lifecycle: a backup is
   registered Initial by AddBackup, only the mutex holder's backup changes
   to Success or Fail, Success and Fail are final, and every registered
   backup is eventually driven to its final state with the mutex given
   back (the fairness of the abstract Progress). *)
LifecycleRefinement == Lifecycle!Spec

(* The lifecycle without its fairness: the part TLAPS proves. *)
LifecycleSafety == Lifecycle!Init /\ [][Lifecycle!Next]_Lifecycle!avars

(* The MetaManager state code agrees with the goroutine's program point: no
   state before AddBackup, Initial from AddBackup until the UpdateBackup of
   line 684, and Success while writeBackupInfoMeta runs.  The mutex holder's
   backup is therefore still Initial when a failure path fails it. *)
StateCodeInv ==
    \A r \in Requests :
        /\ pc[r] = "Check" => state[r] = "None"
        /\ pc[r] \in {"Queued", "Parse", "Before", "Flush", "After", "Snapshot",
                      "Fill", "SetSuccess"} => state[r] = "Initial"
        /\ pc[r] = "WriteMeta" => state[r] = "Success"
=============================================================================
