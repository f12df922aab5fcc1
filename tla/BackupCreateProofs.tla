------------------------- MODULE BackupCreateProofs -------------------------
(***************************************************************************)
(* Proofs about the create-backup pipeline (BackupCreate), for every       *)
(* number of requests, names, segments and rows and every retry bound.     *)
(***************************************************************************)
EXTENDS BackupCreateLifecycle, TLAPS

\* TypeOK is not inductive alone: a request in the prepare loop must have
\* an attempt left, or a further failure would push attempts past the bound.
IInv == TypeOK /\ AttemptsBound

\* The initial state satisfies the inductive invariant.
LEMMA InitIInv == Init => IInv
<1> SUFFICES ASSUME Init PROVE IInv
    OBVIOUS
<1>1. /\ segState \in [Segs -> SegStates]
      /\ segRows \in [Segs -> SUBSET Rows]
      /\ srcStore \subseteq Binlogs /\ gcPaused \in BOOLEAN
      /\ dstStore \subseteq Names \X Segs \X Kinds
      /\ manifest \in [Names -> ManifestRec \cup {NoManifest}]
      /\ mu \in BOOLEAN
    BY DEF Init, SegStates
<1>2. /\ pc \in [Requests -> PCs]
      /\ force \in [Requests -> BOOLEAN]
      /\ state \in [Requests -> BackupStates]
      /\ attempts \in [Requests -> 0..PrepareAttempts]
    BY AttemptsAssumption DEF Init, PCs, BackupStates
<1>3. /\ before \in [Requests -> SUBSET Segs]
      /\ flushIds \in [Requests -> SUBSET Segs]
      /\ cut \in [Requests -> SUBSET Rows]
      /\ segs \in [Requests -> SUBSET Segs]
      /\ warned \in [Requests -> BOOLEAN]
      /\ toFill \in [Requests -> SUBSET Segs]
      /\ binlogs \in [Requests -> SUBSET Binlogs]
      /\ copying \in [Requests -> SUBSET Segs]
      /\ remain \in [Requests -> SUBSET Binlogs]
      /\ jobErr \in [Requests -> BOOLEAN]
      /\ backuped \in [Requests -> SUBSET Segs]
    BY DEF Init
<1>4. TypeOK
    BY <1>1, <1>2, <1>3 DEF TypeOK
<1>5. AttemptsBound
    BY AttemptsAssumption DEF Init, AttemptsBound
<1>6. QED
    BY <1>4, <1>5 DEF IInv

\* Every step of the service, of the cluster and of the copy jobs preserves
\* the inductive invariant.
LEMMA NextIInv == IInv /\ [Next]_vars => IInv'
<1> SUFFICES ASSUME IInv, [Next]_vars PROVE IInv'
    OBVIOUS
<1> USE NameAssumption, AttemptsAssumption, GcAssumption
<1> USE DEF IInv, TypeOK, AttemptsBound, SegStates, PCs, BackupStates, Kinds,
           Binlogs, clusterVars, reqVars
<1>1. ASSUME NEW r \in Requests, CheckName(r) PROVE IInv'
    BY <1>1 DEF CheckName, clusterVars
<1>2. ASSUME NEW r \in Requests, Lock(r) PROVE IInv'
    BY <1>2 DEF Lock
<1>3. ASSUME NEW r \in Requests, Parse(r) PROVE IInv'
    BY <1>3 DEF Parse, FirstPrepareStep, FailBackup, Release
<1>4. ASSUME NEW r \in Requests, PrepareFail(r) PROVE IInv'
    <2>1. /\ segState' \in [Segs -> SegStates]
          /\ srcStore' \subseteq Binlogs
        BY <1>4 DEF PrepareFail, Seal, SealedBinlogs
    <2>2. attempts[r] + 1 \in 1..PrepareAttempts
        BY <1>4 DEF PrepareFail
    <2>3. attempts' \in [Requests -> 0..PrepareAttempts]
        BY <1>4, <2>2 DEF PrepareFail, CountFailure
    <2>4. ASSUME RetryLeft(r), pc' = [pc EXCEPT ![r] = FirstPrepareStep(r)]
          PROVE  /\ pc' \in [Requests -> PCs]
                 /\ \A q \in Requests : pc'[q] # "Done" => attempts'[q] < PrepareAttempts
        <3>1. pc' \in [Requests -> PCs]
            BY <2>4 DEF FirstPrepareStep
        <3>2. \A q \in Requests : pc'[q] # "Done" => attempts'[q] < PrepareAttempts
            BY <1>4, <2>4 DEF PrepareFail, CountFailure, RetryLeft
        <3>3. QED
            BY <3>1, <3>2
    <2>5. ASSUME FailBackup(r)
          PROVE  /\ pc' \in [Requests -> PCs]
                 /\ \A q \in Requests : pc'[q] # "Done" => attempts'[q] < PrepareAttempts
        BY <1>4, <2>5 DEF PrepareFail, CountFailure, FailBackup
    <2>6. /\ pc' \in [Requests -> PCs]
          /\ \A q \in Requests : pc'[q] # "Done" => attempts'[q] < PrepareAttempts
        BY <1>4, <2>4, <2>5 DEF PrepareFail, RetryLeft
    <2>7. /\ state' \in [Requests -> BackupStates]
          /\ mu' \in BOOLEAN /\ gcPaused' \in BOOLEAN
        BY <1>4 DEF PrepareFail, FailBackup, Release
    <2>8. QED
        BY <1>4, <2>1, <2>3, <2>6, <2>7 DEF PrepareFail
<1>5. ASSUME NEW r \in Requests, SnapshotBefore(r) PROVE IInv'
    BY <1>5 DEF SnapshotBefore, Persistent, clusterVars
<1>6. ASSUME NEW r \in Requests, Flush(r) PROVE IInv'
    BY <1>6 DEF Flush, Seal, SealedBinlogs, Persistent, Inserted,
                RowsOf
<1>7. ASSUME NEW r \in Requests, SnapshotAfter(r) PROVE IInv'
    BY <1>7 DEF SnapshotAfter, Unfilled, Unmatched, Persistent, clusterVars
<1>8. ASSUME NEW r \in Requests, SnapshotForce(r) PROVE IInv'
    BY <1>8 DEF SnapshotForce, Persistent, clusterVars
<1>9. ASSUME NEW r \in Requests, NEW s \in Segs, Fill(r, s) PROVE IInv'
    <2>1. CASE <<s, "insert">> \in srcStore
               /\ \E I \in SUBSET {<<s, "insert">>}, D \in SUBSET ({<<s, "delta">>} \cap srcStore) :
                    /\ binlogs' = [binlogs EXCEPT ![r] = @ \cup I \cup D]
                    /\ remain' = [remain EXCEPT ![r] = @ \cup I \cup D]
               /\ copying' = [copying EXCEPT ![r] = @ \cup {s}]
               /\ toFill' = [toFill EXCEPT ![r] = @ \ {s}]
               /\ UNCHANGED <<pc, state, mu, gcPaused>>
        <3>1. PICK I \in SUBSET {<<s, "insert">>}, D \in SUBSET ({<<s, "delta">>} \cap srcStore) :
                    /\ binlogs' = [binlogs EXCEPT ![r] = @ \cup I \cup D]
                    /\ remain' = [remain EXCEPT ![r] = @ \cup I \cup D]
            BY <2>1
        <3>2. I \cup D \subseteq Binlogs
            OBVIOUS
        <3>3. QED
            BY <1>9, <2>1, <3>1, <3>2 DEF Fill
    <2>2. CASE FailBackup(r) /\ UNCHANGED <<binlogs, remain, copying, toFill>>
        BY <1>9, <2>2 DEF Fill, FailBackup, Release
    <2>3. QED
        BY <1>9, <2>1, <2>2 DEF Fill
<1>10. ASSUME NEW r \in Requests, WaitCopy(r) PROVE IInv'
    BY <1>10 DEF WaitCopy, FailBackup, Release
<1>11. ASSUME NEW r \in Requests, SetSuccess(r) PROVE IInv'
    BY <1>11 DEF SetSuccess, clusterVars
<1>12. ASSUME NEW r \in Requests, WriteMeta(r) PROVE IInv'
    <2>1. [id |-> r, segs |-> segs[r], binlogs |-> binlogs[r]] \in ManifestRec
        BY DEF ManifestRec
    <2>2. manifest' \in [Names -> ManifestRec \cup {NoManifest}]
        BY <1>12, <2>1 DEF WriteMeta
    <2>3. QED
        BY <1>12, <2>2 DEF WriteMeta, Release
<1>13. ASSUME NEW r \in Requests, NEW s \in Segs, CopyStep(r, s) PROVE IInv'
    <2> USE DEF JobBinlogs, NextBinlog
    <2>1. CASE CopyFinish(r, s)
        BY <1>13, <2>1 DEF CopyStep, CopyFinish
    <2>2. CASE CopyOne(r, s)
        BY <1>13, <2>2 DEF CopyStep, CopyOne
    <2>3. CASE CopyError(r, s)
        BY <1>13, <2>3 DEF CopyStep, CopyError, AbandonJob
    <2>4. CASE CopyMissingInsert(r, s)
        BY <1>13, <2>4 DEF CopyStep, CopyMissingInsert, AbandonJob
    <2>5. QED
        BY <1>13, <2>1, <2>2, <2>3, <2>4 DEF CopyStep
<1>14. ASSUME NEW row \in Rows, Insert(row) PROVE IInv'
    BY <1>14 DEF Insert, Fresh, Inserted, RowsOf, reqVars
<1>15. ASSUME NEW s \in Segs, AutoSeal(s) PROVE IInv'
    BY <1>15 DEF AutoSeal, Seal, SealedBinlogs, reqVars
<1>16. ASSUME NEW s \in Segs, GarbageCollect(s) PROVE IInv'
    BY <1>16 DEF GarbageCollect, Binlogs, reqVars
<1>17. ASSUME NEW a \in Segs, NEW b \in Segs, NEW c \in Segs, Compact({a, b}, c)
       PROVE IInv'
    BY <1>17 DEF Compact, Persistent, RowsOf, reqVars
<1>18. CASE PauseExpires
    BY <1>18 DEF PauseExpires, reqVars
<1>19. CASE UNCHANGED vars \/ Idle
    BY <1>19 DEF Idle, vars, clusterVars, reqVars
<1>20. QED
    BY <1>1, <1>2, <1>3, <1>4, <1>5, <1>6, <1>7, <1>8, <1>9, <1>10, <1>11,
       <1>12, <1>13, <1>14, <1>15, <1>16, <1>17, <1>18, <1>19
    DEF Next, Request, CopyJobs, Cluster

\* Type correctness of the create-backup model: every reachable state gives
\* the cluster, the backup bucket and each request's BackupInfo, retry
\* counter and copy-job bookkeeping values of their types.
THEOREM TypeCorrect == Spec => []TypeOK
<1>1. IInv => TypeOK
    BY DEF IInv
<1>2. QED
    BY <1>1, InitIInv, NextIInv, PTL DEF Spec

-----------------------------------------------------------------------------
(* Mutual exclusion of executeCreateBackup *)

\* Every step preserves ExclusiveExecute in a state of the inductive
\* invariant.
LEMMA NextExclusive == IInv /\ ExclusiveExecute /\ [Next]_vars => ExclusiveExecute'
<1> SUFFICES ASSUME IInv, ExclusiveExecute, [Next]_vars PROVE ExclusiveExecute'
    OBVIOUS
<1> USE DEF IInv, TypeOK, ExclusiveExecute, Holding
\* a step that keeps the mutex and every program counter
<1>0. CASE mu' = mu /\ pc' = pc
    BY <1>0
<1>1. ASSUME NEW r \in Requests, CheckName(r) PROVE ExclusiveExecute'
    BY <1>1 DEF CheckName
<1>2. ASSUME NEW r \in Requests, Lock(r) PROVE ExclusiveExecute'
    BY <1>2 DEF Lock
\* the return of request r from executeCreateBackup
<1>3. ASSUME NEW r \in Requests, Holding(r), FailBackup(r) PROVE ExclusiveExecute'
    BY <1>3 DEF FailBackup, Release
<1>4. ASSUME NEW r \in Requests, Parse(r) PROVE ExclusiveExecute'
    <2>1. CASE pc' = [pc EXCEPT ![r] = FirstPrepareStep(r)] /\ mu' = mu
        BY <1>4, <2>1 DEF Parse, FirstPrepareStep
    <2>2. QED
        BY <1>3, <1>4, <2>1 DEF Parse
<1>5. ASSUME NEW r \in Requests, PrepareFail(r) PROVE ExclusiveExecute'
    <2>1. CASE pc' = [pc EXCEPT ![r] = FirstPrepareStep(r)] /\ mu' = mu
        BY <1>5, <2>1 DEF PrepareFail, FirstPrepareStep
    <2>2. QED
        BY <1>3, <1>5, <2>1 DEF PrepareFail
<1>6. ASSUME NEW r \in Requests, SnapshotBefore(r) \/ Flush(r) \/ SnapshotAfter(r)
                                  \/ SnapshotForce(r) \/ SetSuccess(r)
      PROVE ExclusiveExecute'
    BY <1>6 DEF SnapshotBefore, Flush, SnapshotAfter, SnapshotForce, SetSuccess
<1>7. ASSUME NEW r \in Requests, NEW s \in Segs, Fill(r, s) PROVE ExclusiveExecute'
    BY <1>0, <1>3, <1>7 DEF Fill
<1>8. ASSUME NEW r \in Requests, WaitCopy(r) PROVE ExclusiveExecute'
    <2>1. CASE pc' = [pc EXCEPT ![r] = "SetSuccess"] /\ mu' = mu
        BY <1>8, <2>1 DEF WaitCopy
    <2>2. QED
        BY <1>3, <1>8, <2>1 DEF WaitCopy
<1>9. ASSUME NEW r \in Requests, WriteMeta(r) PROVE ExclusiveExecute'
    BY <1>9 DEF WriteMeta, Release
<1>10. ASSUME NEW r \in Requests, NEW s \in Segs, CopyStep(r, s) PROVE ExclusiveExecute'
    BY <1>0, <1>10 DEF CopyStep
<1>11. CASE Cluster
    BY <1>0, <1>11
    DEF Cluster, Insert, AutoSeal, Compact, GarbageCollect, PauseExpires, reqVars
<1>12. CASE UNCHANGED vars \/ Idle
    BY <1>0, <1>12 DEF Idle, vars, reqVars
<1>13. QED
    BY <1>1, <1>2, <1>4, <1>5, <1>6, <1>7, <1>8, <1>9, <1>10, <1>11, <1>12
    DEF Next, Request, CopyJobs

\* BackupContext.mu serialises executeCreateBackup for every number of
\* concurrent CreateBackup requests: at most one is between Lock and the
\* deferred Unlock, and the mutex is held exactly when one is, whichever
\* early failure return it takes.
THEOREM MutualExclusion == Spec => []ExclusiveExecute
<1>1. Init => ExclusiveExecute
    BY DEF Init, ExclusiveExecute, Holding
<1>2. QED
    BY <1>1, InitIInv, NextIInv, NextExclusive, PTL DEF Spec

-----------------------------------------------------------------------------
(* The upper side of the consistency cut *)

\* The initial state satisfies FlushCutInv: nothing has been flushed.
LEMMA InitCut == Init => FlushCutInv
BY DEF Init, FlushCutInv, Prepared

\* Every step preserves FlushCutInv in a state of the inductive invariant.
LEMMA NextCut == IInv /\ FlushCutInv /\ [Next]_vars => FlushCutInv'
<1> SUFFICES ASSUME IInv, FlushCutInv, [Next]_vars PROVE FlushCutInv'
    OBVIOUS
<1> USE DEF IInv, TypeOK, FlushCutInv, Prepared
\* a step that changes none of the variables the invariant reads
<1>0. CASE UNCHANGED <<segState, segRows, flushIds, cut, pc, force, segs, state>>
    BY <1>0
<1>1. ASSUME NEW r \in Requests, CheckName(r) PROVE FlushCutInv'
    BY <1>1 DEF CheckName, clusterVars
\* a return of request r through FailBackup leaves r not Prepared
<1>2. ASSUME NEW r \in Requests, pc[r] # "Check", FailBackup(r),
             UNCHANGED <<segState, segRows, flushIds, cut, force, segs>>
      PROVE FlushCutInv'
    BY <1>2 DEF FailBackup
<1>3. ASSUME NEW r \in Requests, Lock(r) PROVE FlushCutInv'
    BY <1>3 DEF Lock
<1>4. ASSUME NEW r \in Requests, Parse(r) PROVE FlushCutInv'
    <2>1. CASE pc' = [pc EXCEPT ![r] = FirstPrepareStep(r)] /\ UNCHANGED state
        BY <1>4, <2>1 DEF Parse, FirstPrepareStep
    <2>2. QED
        BY <1>2, <1>4, <2>1 DEF Parse
\* sealing the growing segments keeps every flushed segment sealed or dropped
<1>5. ASSUME NEW G, segState' = [s \in Segs |-> IF s \in G THEN "Sealed" ELSE segState[s]],
             \A s \in G : segState[s] = "Growing",
             UNCHANGED <<segRows, flushIds, cut>>
      PROVE  \A r \in Requests : \A s \in flushIds'[r] :
                segState'[s] \in {"Sealed", "Dropped"} /\ segRows'[s] \subseteq cut'[r]
    BY <1>5
<1>6. ASSUME NEW r \in Requests, PrepareFail(r) PROVE FlushCutInv'
    <2>1. \A q \in Requests : \A s \in flushIds'[q] :
             segState'[s] \in {"Sealed", "Dropped"} /\ segRows'[s] \subseteq cut'[q]
        <3>1. CASE UNCHANGED <<segState, srcStore>>
            BY <1>6, <3>1 DEF PrepareFail
        <3>2. CASE Seal({s \in Segs : segState[s] = "Growing"})
            BY <1>5, <1>6, <3>2 DEF PrepareFail, Seal
        <3>3. QED
            BY <1>6, <3>1, <3>2 DEF PrepareFail
    <2>2. CASE pc' = [pc EXCEPT ![r] = FirstPrepareStep(r)] /\ UNCHANGED state
        BY <1>6, <2>1, <2>2 DEF PrepareFail, FirstPrepareStep
    <2>3. CASE FailBackup(r)
        BY <1>6, <2>1, <2>3 DEF PrepareFail, FailBackup
    <2>4. QED
        BY <1>6, <2>2, <2>3 DEF PrepareFail
<1>7. ASSUME NEW r \in Requests, SnapshotBefore(r) PROVE FlushCutInv'
    BY <1>7 DEF SnapshotBefore, clusterVars
<1>8. ASSUME NEW r \in Requests, Flush(r) PROVE FlushCutInv'
    <2> DEFINE G == {s \in Segs : segState[s] = "Growing"}
    <2>1. segState' = [s \in Segs |-> IF s \in G THEN "Sealed" ELSE segState[s]]
        BY <1>8 DEF Flush, Seal
    <2>2. \A s \in flushIds'[r] : segState'[s] \in {"Sealed", "Dropped"}
        BY <1>8, <2>1 DEF Flush, Persistent
    <2>3. \A s \in flushIds'[r] : segRows'[s] \subseteq cut'[r]
        BY <1>8 DEF Flush, Persistent, Inserted, RowsOf
    <2>4. \A q \in Requests \ {r} : \A s \in flushIds'[q] :
             segState'[s] \in {"Sealed", "Dropped"} /\ segRows'[s] \subseteq cut'[q]
        BY <1>8, <2>1 DEF Flush
    <2>5. QED
        BY <1>8, <2>2, <2>3, <2>4 DEF Flush
<1>9. ASSUME NEW r \in Requests, SnapshotAfter(r) PROVE FlushCutInv'
    BY <1>9 DEF SnapshotAfter, Unfilled, clusterVars
<1>10. ASSUME NEW r \in Requests, SnapshotForce(r) PROVE FlushCutInv'
    BY <1>10 DEF SnapshotForce, clusterVars
<1>11. ASSUME NEW r \in Requests, NEW s \in Segs, Fill(r, s) PROVE FlushCutInv'
    BY <1>0, <1>2, <1>11 DEF Fill
<1>12. ASSUME NEW r \in Requests, WaitCopy(r) PROVE FlushCutInv'
    <2>1. CASE pc' = [pc EXCEPT ![r] = "SetSuccess"] /\ UNCHANGED state
        BY <1>12, <2>1 DEF WaitCopy
    <2>2. QED
        BY <1>2, <1>12, <2>1 DEF WaitCopy
<1>13. ASSUME NEW r \in Requests, SetSuccess(r) PROVE FlushCutInv'
    BY <1>13 DEF SetSuccess, clusterVars
<1>14. ASSUME NEW r \in Requests, WriteMeta(r) PROVE FlushCutInv'
    BY <1>14 DEF WriteMeta
<1>15. ASSUME NEW r \in Requests, NEW s \in Segs, CopyStep(r, s) PROVE FlushCutInv'
    BY <1>0, <1>15 DEF CopyStep, clusterVars
<1>16. ASSUME NEW row \in Rows, Insert(row) PROVE FlushCutInv'
    BY <1>16 DEF Insert, Fresh, reqVars
<1>17. ASSUME NEW s \in Segs, AutoSeal(s) PROVE FlushCutInv'
    BY <1>5, <1>17 DEF AutoSeal, Seal, reqVars
<1>18. ASSUME NEW a \in Segs, NEW b \in Segs, NEW c \in Segs, Compact({a, b}, c)
       PROVE FlushCutInv'
    BY <1>18 DEF Compact, Persistent, reqVars
<1>19. CASE Cluster
    BY <1>0, <1>16, <1>17, <1>18, <1>19
    DEF Cluster, GarbageCollect, PauseExpires, reqVars
<1>20. CASE UNCHANGED vars \/ Idle
    BY <1>0, <1>20 DEF Idle, vars, clusterVars, reqVars
<1>21. QED
    BY <1>1, <1>3, <1>4, <1>6, <1>7, <1>8, <1>9, <1>10, <1>11, <1>12,
       <1>13, <1>14, <1>15, <1>19, <1>20
    DEF Next, Request, CopyJobs

\* The upper side of the consistency cut, for every instance: a flushed
\* backup records no segment holding a row inserted after its FlushV2
\* returned, however the cluster seals, compacts and collects around the
\* two GetPersistentSegmentInfo calls of backupCollectionPrepare.
THEOREM CutSafety == Spec => []CutExcludesLaterRows
<1>1. FlushCutInv => CutExcludesLaterRows
    BY DEF FlushCutInv, CutExcludesLaterRows, RowsOf
<1>2. QED
    BY <1>1, InitIInv, NextIInv, InitCut, NextCut, PTL DEF Spec

-----------------------------------------------------------------------------
(* Backuped segments are copied *)

\* The initial state satisfies CopyInv: no binlog is recorded.
LEMMA InitCopy == Init => CopyInv
BY DEF Init, CopyInv

\* Every step preserves CopyInv in a state of the inductive invariant.
LEMMA NextCopy == IInv /\ CopyInv /\ [Next]_vars => CopyInv'
<1> SUFFICES ASSUME IInv, CopyInv, [Next]_vars PROVE CopyInv'
    OBVIOUS
<1> USE DEF IInv, TypeOK, CopyInv, Binlogs, Kinds
\* a step that changes none of the variables the invariant reads
<1>0. CASE UNCHANGED <<pc, binlogs, copying, backuped, toFill, remain, dstStore>>
    BY <1>0
\* a step of request r that leaves the execute-wave bookkeeping alone and
\* moves r from one program point to another outside the execute wave, or
\* returns
<1>1. ASSUME NEW r \in Requests,
             pc[r] \in {"Check", "Queued", "Parse", "Before", "Flush", "After", "Snapshot"},
             \E p \in {"Check", "Queued", "Parse", "Before", "Flush", "After",
                       "Snapshot", "Done"} : pc' = [pc EXCEPT ![r] = p],
             UNCHANGED <<binlogs, copying, backuped, toFill, remain, dstStore>>
      PROVE  CopyInv'
    BY <1>1
<1>2. ASSUME NEW r \in Requests, CheckName(r) \/ Lock(r) \/ Parse(r) \/ PrepareFail(r)
                                  \/ SnapshotBefore(r) \/ Flush(r)
      PROVE  CopyInv'
    BY <1>1, <1>2 DEF CheckName, Lock, Parse, PrepareFail, SnapshotBefore, Flush,
                      FirstPrepareStep, FailBackup
<1>3. ASSUME NEW r \in Requests, NEW S \in SUBSET Segs, pc[r] \in {"After", "Snapshot"},
             toFill' = [toFill EXCEPT ![r] = S], pc' = [pc EXCEPT ![r] = "Fill"],
             UNCHANGED <<binlogs, copying, backuped, remain, dstStore>>
      PROVE  CopyInv'
    BY <1>3
<1>10. ASSUME NEW r \in Requests, SnapshotAfter(r) \/ SnapshotForce(r) PROVE CopyInv'
    <2>1. CASE SnapshotAfter(r)
        BY <1>3, <2>1 DEF SnapshotAfter, Unfilled, clusterVars
    <2>2. CASE SnapshotForce(r)
        BY <1>3, <2>2 DEF SnapshotForce, Persistent, clusterVars
    <2>3. QED
        BY <1>10, <2>1, <2>2
<1>4. ASSUME NEW r \in Requests, NEW s \in Segs, Fill(r, s) PROVE CopyInv'
    <2>1. CASE FailBackup(r) /\ UNCHANGED <<binlogs, remain, copying, toFill>>
        BY <1>4, <2>1 DEF Fill, FailBackup
    <2>2. CASE <<s, "insert">> \in srcStore
               /\ \E I \in SUBSET {<<s, "insert">>}, D \in SUBSET ({<<s, "delta">>} \cap srcStore) :
                    /\ binlogs' = [binlogs EXCEPT ![r] = @ \cup I \cup D]
                    /\ remain' = [remain EXCEPT ![r] = @ \cup I \cup D]
               /\ copying' = [copying EXCEPT ![r] = @ \cup {s}]
               /\ toFill' = [toFill EXCEPT ![r] = @ \ {s}]
               /\ UNCHANGED <<pc, state, mu, gcPaused>>
        <3>1. PICK I \in SUBSET {<<s, "insert">>}, D \in SUBSET ({<<s, "delta">>} \cap srcStore) :
                    /\ binlogs' = [binlogs EXCEPT ![r] = @ \cup I \cup D]
                    /\ remain' = [remain EXCEPT ![r] = @ \cup I \cup D]
            BY <2>2
        <3>2. \A b \in I \cup D : b[1] = s
            OBVIOUS
        <3>3. QED
            BY <1>4, <2>2, <3>1, <3>2 DEF Fill
    <2>3. QED
        BY <1>4, <2>1, <2>2 DEF Fill
<1>5. ASSUME NEW r \in Requests, WaitCopy(r) \/ SetSuccess(r) \/ WriteMeta(r)
      PROVE  CopyInv'
    BY <1>5 DEF WaitCopy, SetSuccess, WriteMeta, FailBackup
<1>6. ASSUME NEW r \in Requests, NEW s \in Segs, CopyStep(r, s) PROVE CopyInv'
    <2> USE DEF JobBinlogs, NextBinlog
    <2>1. CASE CopyFinish(r, s)
        BY <1>6, <2>1 DEF CopyStep, CopyFinish
    <2>2. CASE CopyOne(r, s)
        <3> DEFINE nb == NextBinlog(r, s)
        <3>1. nb \in {<<s, "insert">>, <<s, "delta">>}
            OBVIOUS
        <3>2. dstStore' = dstStore \cup {<<ReqName[r], nb[1], nb[2]>>}
            BY <2>2, <3>1 DEF CopyOne
        <3>3. remain' = [remain EXCEPT ![r] = @ \ {nb}]
            BY <2>2 DEF CopyOne
        <3>4. UNCHANGED <<pc, binlogs, copying, backuped, toFill>>
            BY <1>6, <2>2 DEF CopyStep, CopyOne
        <3>5. ASSUME NEW q \in Requests, NEW b \in binlogs[q], b[1] \in copying[q],
                     b \notin remain'[q]
              PROVE  <<ReqName[q], b[1], b[2]>> \in dstStore'
            BY <3>2, <3>3, <3>4, <3>5
        <3>6. QED
            BY <3>2, <3>3, <3>4, <3>5
    <2>3. CASE CopyError(r, s) \/ CopyMissingInsert(r, s)
        <3>1. AbandonJob(r, s) /\ UNCHANGED <<dstStore, backuped>>
            BY <2>3 DEF CopyError, CopyMissingInsert
        <3>2. UNCHANGED <<pc, binlogs, toFill>>
            BY <1>6 DEF CopyStep
        <3>3. ASSUME NEW q \in Requests, NEW b \in binlogs[q], b[1] \in copying'[q],
                     b \notin remain'[q]
              PROVE  <<ReqName[q], b[1], b[2]>> \in dstStore'
            <4>1. b[1] \in copying[q] /\ b \notin remain[q]
                BY <3>1, <3>3 DEF AbandonJob
            <4>2. QED
                BY <3>1, <4>1
        <3>4. QED
            BY <3>1, <3>2, <3>3 DEF AbandonJob
    <2>4. QED
        BY <1>6, <2>1, <2>2, <2>3 DEF CopyStep
<1>7. CASE Cluster
    BY <1>0, <1>7
    DEF Cluster, Insert, AutoSeal, Compact, GarbageCollect, PauseExpires, reqVars
<1>8. CASE UNCHANGED vars \/ Idle
    BY <1>0, <1>8 DEF Idle, vars, reqVars
<1>9. QED
    BY <1>2, <1>10, <1>4, <1>5, <1>6, <1>7, <1>8
    DEF Next, Request, CopyJobs

\* For every instance, a segment whose copySegment job set Backuped has
\* every binlog fillSegmentBackupInfo recorded for it copied under the
\* backup's name, whatever the jobs of other requests and the garbage
\* collector do in between.
THEOREM BackupedCopied == Spec => []BackupedImpliesCopied
<1>1. CopyInv => BackupedImpliesCopied
    BY DEF CopyInv, BackupedImpliesCopied
<1>2. QED
    BY <1>1, InitIInv, NextIInv, InitCopy, NextCopy, PTL DEF Spec

-----------------------------------------------------------------------------
(* The lifecycle refinement *)

\* The initial state satisfies StateCodeInv: every request is at its name
\* check with no state.
LEMMA InitState == Init => StateCodeInv
    BY DEF Init, StateCodeInv

\* Every step keeps the state code in line with the program point.
LEMMA NextState == IInv /\ StateCodeInv /\ [Next]_vars => StateCodeInv'
<1> SUFFICES ASSUME IInv, StateCodeInv, [Next]_vars PROVE StateCodeInv'
    OBVIOUS
<1> USE DEF IInv, TypeOK, StateCodeInv, PCs
<1>0. CASE pc' = pc /\ state' = state
    BY <1>0
<1>1. ASSUME NEW r \in Requests, CheckName(r) PROVE StateCodeInv'
    BY <1>1 DEF CheckName
<1>2. ASSUME NEW r \in Requests, Lock(r) PROVE StateCodeInv'
    BY <1>2 DEF Lock
\* a failure return: the request ends Done with state Fail
<1>3. ASSUME NEW r \in Requests, FailBackup(r) PROVE StateCodeInv'
    BY <1>3 DEF FailBackup
<1>4. ASSUME NEW r \in Requests, Parse(r) PROVE StateCodeInv'
    <2>1. CASE pc' = [pc EXCEPT ![r] = FirstPrepareStep(r)] /\ state' = state
        BY <1>4, <2>1 DEF Parse, FirstPrepareStep
    <2>2. QED
        BY <1>3, <1>4, <2>1 DEF Parse
<1>5. ASSUME NEW r \in Requests, PrepareFail(r) PROVE StateCodeInv'
    <2>1. CASE pc' = [pc EXCEPT ![r] = FirstPrepareStep(r)] /\ state' = state
        BY <1>5, <2>1 DEF PrepareFail, FirstPrepareStep
    <2>2. QED
        BY <1>3, <1>5, <2>1 DEF PrepareFail
<1>6. ASSUME NEW r \in Requests, SnapshotBefore(r) \/ Flush(r) \/ SnapshotAfter(r)
                                  \/ SnapshotForce(r) \/ SetSuccess(r)
      PROVE StateCodeInv'
    BY <1>6 DEF SnapshotBefore, Flush, SnapshotAfter, SnapshotForce, SetSuccess
<1>7. ASSUME NEW r \in Requests, NEW s \in Segs, Fill(r, s) PROVE StateCodeInv'
    BY <1>0, <1>3, <1>7 DEF Fill
<1>8. ASSUME NEW r \in Requests, WaitCopy(r) PROVE StateCodeInv'
    <2>1. CASE pc' = [pc EXCEPT ![r] = "SetSuccess"] /\ state' = state
        BY <1>8, <2>1 DEF WaitCopy
    <2>2. QED
        BY <1>3, <1>8, <2>1 DEF WaitCopy
<1>9. ASSUME NEW r \in Requests, WriteMeta(r) PROVE StateCodeInv'
    BY <1>9 DEF WriteMeta
<1>10. ASSUME NEW r \in Requests, NEW s \in Segs, CopyStep(r, s) PROVE StateCodeInv'
    BY <1>0, <1>10 DEF CopyStep
<1>11. CASE Cluster
    BY <1>0, <1>11
    DEF Cluster, Insert, AutoSeal, Compact, GarbageCollect, PauseExpires, reqVars
<1>12. CASE UNCHANGED vars \/ Idle
    BY <1>0, <1>12 DEF Idle, vars, reqVars
<1>13. QED
    BY <1>1, <1>2, <1>4, <1>5, <1>6, <1>7, <1>8, <1>9, <1>10, <1>11, <1>12
    DEF Next, Request, CopyJobs
\* The program points at which a failure return fails the backup.
FailingPcs == {"Parse", "Before", "Flush", "After", "Snapshot", "Fill"}

\* Every step of CreateBackup is a step of the lifecycle or leaves the
\* state codes and the set of mutex holders alone.
LEMMA NextLifecycle ==
    IInv /\ ExclusiveExecute /\ StateCodeInv /\ [Next]_vars
        => [Lifecycle!Next]_Lifecycle!avars
<1> SUFFICES ASSUME IInv, ExclusiveExecute, StateCodeInv, [Next]_vars
             PROVE [Lifecycle!Next]_Lifecycle!avars
    OBVIOUS
<1> USE DEF IInv, TypeOK, PCs
<1> DEFINE Abs(r) == Lifecycle!Register(r) \/ Lifecycle!Progress(r)
\* a step that moves no request into or out of the mutex and keeps state
<1>0. ASSUME state' = state,
             \A q \in Requests : Holding(q)' <=> Holding(q)
      PROVE [Lifecycle!Next]_Lifecycle!avars
    BY <1>0 DEF Lifecycle!avars, Inside
<1>1. ASSUME NEW r \in Requests, CheckName(r) PROVE [Lifecycle!Next]_Lifecycle!avars
    <2>1. CASE state' = state
        BY <1>0, <1>1, <2>1 DEF CheckName, Holding
    <2>2. CASE state' = [state EXCEPT ![r] = "Initial"] /\ pc' = [pc EXCEPT ![r] = "Queued"]
        <3>1. state[r] = "None"
            BY <1>1 DEF CheckName, StateCodeInv
        <3>2. Inside' = Inside
            BY <1>1, <2>2 DEF CheckName, Inside, Holding
        <3>3. Lifecycle!Register(r)
            BY <2>2, <3>1, <3>2
            DEF Lifecycle!Register
        <3>4. QED
            BY <3>3 DEF Lifecycle!Next
    <2>3. QED
        BY <1>1, <2>1, <2>2 DEF CheckName
<1>2. ASSUME NEW r \in Requests, Lock(r) PROVE [Lifecycle!Next]_Lifecycle!avars
    <2>1. state[r] = "Initial"
        BY <1>2 DEF Lock, StateCodeInv
    <2>2. Inside = {}
        BY <1>2 DEF Lock, ExclusiveExecute, Inside
    <2>3. Inside' = {r}
        BY <1>2, <2>2 DEF Lock, Inside, Holding
    <2>4. Lifecycle!Acquire(r)
        BY <1>2, <2>1, <2>2, <2>3 DEF Lock, Lifecycle!Acquire
    <2>5. QED
        BY <2>4 DEF Lifecycle!Next, Lifecycle!Progress
\* the failure return of the mutex holder
<1>3. ASSUME NEW r \in Requests, pc[r] \in FailingPcs, FailBackup(r)
      PROVE [Lifecycle!Next]_Lifecycle!avars
    <2>1. state[r] = "Initial"
        BY <1>3 DEF StateCodeInv, FailingPcs
    <2>2. Inside = {r}
        BY <1>3 DEF ExclusiveExecute, Inside, Holding, FailingPcs
    <2>3. Inside' = {}
        BY <1>3, <2>2 DEF FailBackup, Inside, Holding
    <2>4. Lifecycle!Abort(r)
        BY <1>3, <2>1, <2>2, <2>3 DEF FailBackup, Lifecycle!Abort
    <2>5. QED
        BY <2>4 DEF Lifecycle!Next, Lifecycle!Progress
<1>4. ASSUME NEW r \in Requests, Parse(r) PROVE [Lifecycle!Next]_Lifecycle!avars
    <2>1. CASE pc' = [pc EXCEPT ![r] = FirstPrepareStep(r)] /\ state' = state
        BY <1>0, <1>4, <2>1 DEF Parse, FirstPrepareStep, Holding
    <2>2. QED
        BY <1>3, <1>4, <2>1 DEF Parse, FailingPcs
<1>5. ASSUME NEW r \in Requests, PrepareFail(r) PROVE [Lifecycle!Next]_Lifecycle!avars
    <2>1. CASE pc' = [pc EXCEPT ![r] = FirstPrepareStep(r)] /\ state' = state
        BY <1>0, <1>5, <2>1 DEF PrepareFail, FirstPrepareStep, Holding
    <2>2. QED
        BY <1>3, <1>5, <2>1 DEF PrepareFail, FailingPcs
<1>6. ASSUME NEW r \in Requests, SnapshotBefore(r) \/ Flush(r) \/ SnapshotAfter(r)
                                  \/ SnapshotForce(r)
      PROVE [Lifecycle!Next]_Lifecycle!avars
    BY <1>0, <1>6 DEF SnapshotBefore, Flush, SnapshotAfter, SnapshotForce, Holding
<1>7. ASSUME NEW r \in Requests, NEW s \in Segs, Fill(r, s)
      PROVE [Lifecycle!Next]_Lifecycle!avars
    <2>1. CASE pc' = pc /\ state' = state
        BY <1>0, <2>1 DEF Holding
    <2>2. QED
        BY <1>3, <1>7, <2>1 DEF Fill, FailingPcs
<1>8. ASSUME NEW r \in Requests, WaitCopy(r) PROVE [Lifecycle!Next]_Lifecycle!avars
    <2>1. CASE pc' = [pc EXCEPT ![r] = "SetSuccess"] /\ state' = state
        BY <1>0, <1>8, <2>1 DEF WaitCopy, Holding
    <2>2. QED
        BY <1>3, <1>8, <2>1 DEF WaitCopy, FailingPcs
<1>9. ASSUME NEW r \in Requests, SetSuccess(r) PROVE [Lifecycle!Next]_Lifecycle!avars
    <2>1. state[r] = "Initial"
        BY <1>9 DEF SetSuccess, StateCodeInv
    <2>2. Inside = {r}
        BY <1>9 DEF SetSuccess, ExclusiveExecute, Inside, Holding
    <2>3. Inside' = Inside
        BY <1>9 DEF SetSuccess, Inside, Holding
    <2>4. Lifecycle!Succeed(r)
        BY <1>9, <2>1, <2>2, <2>3 DEF SetSuccess, Lifecycle!Succeed
    <2>5. QED
        BY <2>4 DEF Lifecycle!Next, Lifecycle!Progress
<1>10. ASSUME NEW r \in Requests, WriteMeta(r) PROVE [Lifecycle!Next]_Lifecycle!avars
    <2>1. state[r] = "Success"
        BY <1>10 DEF WriteMeta, StateCodeInv
    <2>2. Inside = {r}
        BY <1>10 DEF WriteMeta, ExclusiveExecute, Inside, Holding
    <2>3. Inside' = {}
        BY <1>10, <2>2 DEF WriteMeta, Inside, Holding
    <2>4. Lifecycle!Leave(r)
        BY <1>10, <2>1, <2>2, <2>3 DEF WriteMeta, Lifecycle!Leave
    <2>5. QED
        BY <2>4 DEF Lifecycle!Next, Lifecycle!Progress
<1>11. ASSUME NEW r \in Requests, NEW s \in Segs, CopyStep(r, s)
       PROVE [Lifecycle!Next]_Lifecycle!avars
    BY <1>0, <1>11 DEF CopyStep, Holding
<1>12. CASE Cluster
    BY <1>0, <1>12
    DEF Cluster, Insert, AutoSeal, Compact, GarbageCollect, PauseExpires, reqVars, Holding
<1>13. CASE UNCHANGED vars \/ Idle
    BY <1>0, <1>13 DEF Idle, vars, reqVars, Holding
<1>14. QED
    BY <1>1, <1>2, <1>4, <1>5, <1>6, <1>7, <1>8, <1>9, <1>10, <1>11, <1>12, <1>13
    DEF Next, Request, CopyJobs

\* CreateBackup implements the lifecycle for every number of requests: the
\* MetaManager state codes and the holders of BackupContext.mu only ever
\* take the steps Register, Acquire, Abort, Succeed and Leave.
THEOREM LifecycleImplemented == Spec => LifecycleSafety
<1>1. Init => Lifecycle!Init
    BY DEF Init, Lifecycle!Init, Inside, Holding
<1>2. Init => ExclusiveExecute
    BY DEF Init, ExclusiveExecute, Holding
<1>3. QED
    BY <1>1, <1>2, InitIInv, NextIInv, NextExclusive, InitState, NextState,
       NextLifecycle, PTL
    DEF Spec, LifecycleSafety

\* The inductive invariants the runs check, stated for every instance.

\* Every flushed id of a request names a sealed or dropped segment holding
\* only rows inserted before that FlushV2 returned.
THEOREM FlushCutInvariant == Spec => []FlushCutInv
BY InitIInv, NextIInv, InitCut, NextCut, PTL DEF Spec

\* The copy jobs' bookkeeping: a running job has copied what it no longer
\* has to copy, and a Backuped segment has all its binlogs copied.
THEOREM CopyInvariant == Spec => []CopyInv
BY InitIInv, NextIInv, InitCopy, NextCopy, PTL DEF Spec

\* The MetaManager state code agrees with the goroutine's program point.
THEOREM StateCodeInvariant == Spec => []StateCodeInv
BY InitIInv, NextIInv, InitState, NextState, PTL DEF Spec

-----------------------------------------------------------------------------
(* A Success backup's record is frozen *)

\* Initially no request has reached Success and no job runs.
LEMMA InitDrain == Init => DrainInv
BY DEF Init, DrainInv

\* Every step keeps a request that has passed WaitJobs free of copy jobs:
\* WaitCopy waits for them all, and only a request at its fill submits one.
LEMMA NextDrain == IInv /\ StateCodeInv /\ DrainInv /\ [Next]_vars => DrainInv'
<1> SUFFICES ASSUME IInv, StateCodeInv, DrainInv, [Next]_vars PROVE DrainInv'
    OBVIOUS
<1> USE DEF IInv, TypeOK, DrainInv
<1>0. CASE UNCHANGED <<pc, state, copying>>
    BY <1>0
<1>1. ASSUME NEW r \in Requests, FailBackup(r), UNCHANGED copying PROVE DrainInv'
    BY <1>1 DEF FailBackup
<1>2. ASSUME NEW r \in Requests,
             CheckName(r) \/ Lock(r) \/ Parse(r) \/ PrepareFail(r)
             \/ SnapshotBefore(r) \/ Flush(r) \/ SnapshotAfter(r) \/ SnapshotForce(r)
      PROVE  DrainInv'
    BY <1>2, <1>1 DEF StateCodeInv, CheckName, Lock, Parse, PrepareFail,
       SnapshotBefore, Flush, SnapshotAfter, SnapshotForce, FirstPrepareStep,
       FailBackup
\* a fill submits a job only at the fill, where the state is still Initial
<1>3. ASSUME NEW r \in Requests, NEW s \in Segs, Fill(r, s) PROVE DrainInv'
    BY <1>3 DEF Fill, StateCodeInv, FailBackup
<1>4. ASSUME NEW r \in Requests, WaitCopy(r) PROVE DrainInv'
    BY <1>4 DEF WaitCopy, FailBackup
<1>5. ASSUME NEW r \in Requests, SetSuccess(r) \/ WriteMeta(r) PROVE DrainInv'
    BY <1>5 DEF SetSuccess, WriteMeta
<1>6. ASSUME NEW r \in Requests, NEW s \in Segs, CopyStep(r, s) PROVE DrainInv'
    BY <1>6 DEF CopyStep, CopyFinish, CopyOne, CopyError, CopyMissingInsert, AbandonJob
<1>7. CASE Cluster \/ Idle \/ UNCHANGED vars
    BY <1>0, <1>7
    DEF Cluster, Insert, AutoSeal, Compact, GarbageCollect, PauseExpires, Idle,
        vars, reqVars
<1>8. QED
    BY <1>2, <1>3, <1>4, <1>5, <1>6, <1>7 DEF Next, Request, CopyJobs

\* A step never touches the MetaManager record of a Success backup.
LEMMA NextFrozen ==
    ASSUME IInv, StateCodeInv, DrainInv, [Next]_vars
    PROVE  [\A r \in Requests :
                state[r] = "Success" =>
                    UNCHANGED <<segs[r], binlogs[r], backuped[r], copying[r]>>]_vars
<1> USE DEF IInv, TypeOK
<1> SUFFICES ASSUME NEW q \in Requests, state[q] = "Success"
             PROVE  UNCHANGED <<segs[q], binlogs[q], backuped[q], copying[q]>>
    OBVIOUS
\* a Success request is writing its meta or has returned, with no job left
<1>1. pc[q] \in {"WriteMeta", "Done"} /\ copying[q] = {}
    BY DEF StateCodeInv, DrainInv, PCs
<1>2. CASE UNCHANGED <<segs, binlogs, backuped, copying>>
    BY <1>2
<1>3. ASSUME NEW r \in Requests, NEW s \in Segs, Fill(r, s) PROVE r # q
    BY <1>1, <1>3 DEF Fill
<1>4. ASSUME NEW r \in Requests, NEW s \in Segs, CopyStep(r, s) PROVE r # q
    BY <1>1, <1>4 DEF CopyStep
<1>5. ASSUME NEW r \in Requests, SnapshotAfter(r) \/ SnapshotForce(r) PROVE r # q
    BY <1>1, <1>5 DEF SnapshotAfter, SnapshotForce
<1>6. ASSUME NEW r \in Requests, NEW s \in Segs, Fill(r, s) \/ CopyStep(r, s)
      PROVE  UNCHANGED <<segs[q], binlogs[q], backuped[q], copying[q]>>
    BY <1>3, <1>4, <1>6
    DEF Fill, CopyStep, CopyFinish, CopyOne,
        CopyError, CopyMissingInsert, AbandonJob, FailBackup
\* every other step leaves the four record fields of every request alone
<1>7. ASSUME NEW r \in Requests,
             CheckName(r) \/ Lock(r) \/ Parse(r) \/ PrepareFail(r) \/ SnapshotBefore(r)
             \/ Flush(r) \/ WaitCopy(r) \/ SetSuccess(r) \/ WriteMeta(r)
      PROVE  UNCHANGED <<segs, binlogs, backuped, copying>>
    BY <1>7 DEF CheckName, Lock, Parse, PrepareFail, SnapshotBefore, Flush,
       WaitCopy, SetSuccess, WriteMeta
<1>8. ASSUME Cluster \/ Idle \/ UNCHANGED vars
      PROVE  UNCHANGED <<segs, binlogs, backuped, copying>>
    BY <1>8 DEF Cluster, Insert, AutoSeal, Compact, GarbageCollect, PauseExpires,
       Idle, vars, reqVars
<1>9. CASE \E r \in Requests : Request(r)
    <2>1. PICK r \in Requests : Request(r)
        BY <1>9
    <2>2. CASE \E s \in Segs : Fill(r, s)
        BY <2>2, <1>6
    <2>3. CASE SnapshotAfter(r) \/ SnapshotForce(r)
        BY <2>3, <1>5 DEF SnapshotAfter, SnapshotForce
    <2>4. CASE CheckName(r) \/ Lock(r) \/ Parse(r) \/ PrepareFail(r) \/ SnapshotBefore(r)
               \/ Flush(r) \/ WaitCopy(r) \/ SetSuccess(r) \/ WriteMeta(r)
        BY <2>4, <1>7
    <2>5. QED
        BY <2>1, <2>2, <2>3, <2>4 DEF Request
<1>10. CASE \E r \in Requests : CopyJobs(r)
    BY <1>10, <1>6 DEF CopyJobs
<1>11. QED
    BY <1>8, <1>9, <1>10 DEF Next

\* Once a backup is Success, no step of any request, copy job or of the
\* cluster changes the segments, binlogs, Backuped flags or running jobs
\* writeBackupInfoMeta serializes for it: copySegments' WaitJobs leaves no
\* job of the backup behind.
THEOREM SuccessFrozen == Spec => SuccessRecordFrozen
<1>1. IInv /\ StateCodeInv /\ DrainInv /\ [Next]_vars =>
        [\A r \in Requests :
            state[r] = "Success" =>
                UNCHANGED <<segs[r], binlogs[r], backuped[r], copying[r]>>]_vars
    BY NextFrozen
<1>2. QED
    BY <1>1, InitIInv, NextIInv, InitState, NextState, InitDrain, NextDrain, PTL
    DEF Spec, SuccessRecordFrozen

\* A request that has passed copySegments' WaitJobs, Success backups
\* included, has no copy job running, in every reachable state.
THEOREM DrainInvariant == Spec => []DrainInv
BY InitIInv, NextIInv, InitState, NextState, InitDrain, NextDrain, PTL DEF Spec
-----------------------------------------------------------------------------
(* What the lifecycle guarantees, carried over to CreateBackup through the *)
(* refinement: the theorems of BackupLifecycleProofs under the mapping of  *)
(* BackupCreateLifecycle.                                                  *)

LP == INSTANCE BackupLifecycleProofs WITH status <- state, inside <- Inside

\* The holder of BackupContext.mu, if any, is one request whose backup is
\* Initial or Success in the MetaManager: every failure path records Fail
\* and unlocks in the same step.
THEOREM HolderNotFailed == Spec => []Lifecycle!SlotHeld
<1>1. LP!SafeSpec => []LP!SlotHeld
    BY LP!SlotSafety
<1>2. LifecycleSafety => []Lifecycle!SlotHeld
    BY <1>1 DEF LifecycleSafety, LP!SafeSpec, Lifecycle!SlotHeld, LP!SlotHeld,
       LP!Init, Lifecycle!Init, LP!Next, Lifecycle!Next, LP!avars, Lifecycle!avars,
       LP!Register, Lifecycle!Register, LP!Progress, Lifecycle!Progress,
       LP!Acquire, Lifecycle!Acquire, LP!Abort, Lifecycle!Abort,
       LP!Succeed, Lifecycle!Succeed, LP!Leave, Lifecycle!Leave
<1> QED
    BY <1>2, LifecycleImplemented

\* A backup's MetaManager state code only advances along None -> Initial ->
\* Success or Fail, so Success and Fail are final; and only the request
\* holding BackupContext.mu moves its backup to Success or Fail.
THEOREM StateAdvances == Spec => Lifecycle!StatusAdvances
<1>1. LP!SafeSpec => LP!StatusAdvances
    BY LP!StatusSafety
<1>2. LifecycleSafety => Lifecycle!StatusAdvances
    BY <1>1 DEF LifecycleSafety, LP!SafeSpec, Lifecycle!StatusAdvances, LP!StatusAdvances,
       Lifecycle!Advance, LP!Advance, LP!Init, Lifecycle!Init, LP!Next, Lifecycle!Next, LP!avars, Lifecycle!avars,
       LP!Register, Lifecycle!Register, LP!Progress, Lifecycle!Progress,
       LP!Acquire, Lifecycle!Acquire, LP!Abort, Lifecycle!Abort,
       LP!Succeed, Lifecycle!Succeed, LP!Leave, Lifecycle!Leave
<1> QED
    BY <1>2, LifecycleImplemented

=============================================================================
