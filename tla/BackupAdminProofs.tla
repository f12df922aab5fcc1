-------------------------- MODULE BackupAdminProofs --------------------------
(***************************************************************************)
(* Proofs about DeleteBackup and GetBackup running beside CreateBackup     *)
(* (BackupAdmin), for every number of requests, clients and names.         *)
(***************************************************************************)
EXTENDS BackupAdmin, BackupCreateProofs

\* Every client deletes one of the backup names.
AdminNameType == AdminName \in [Admins -> Names]

\* The invariants of the CreateBackup side the admin proofs rest on.
CInv == IInv /\ ExclusiveExecute /\ StateCodeInv

\* A manifest is only ever written for a name some CreateBackup registered.
ManifestRegistered == \A n \in Names : manifest[n] # NoManifest => InMeta(n)

\* A client whose last GetBackup still found the backup found a name in the
\* MetaManager.
FoundRegistered ==
    \A a \in Admins : apc[a] = "Done" /\ after[a] # "NotFound" => InMeta(AdminName[a])

AInv == CInv /\ AdminTypeOK /\ ManifestRegistered /\ FoundRegistered

\* The CreateBackup side's invariants hold initially and are kept.
LEMMA InitCInv == Init => CInv
<1>1. Init => ExclusiveExecute
    BY DEF Init, ExclusiveExecute, Holding
<1> QED
    BY <1>1, InitIInv, InitState DEF CInv

LEMMA NextCInv == CInv /\ [Next]_vars => CInv'
BY NextIInv, NextExclusive, NextState DEF CInv

\* A registered backup stays registered: through the refinement, a state
\* code changes only along Advance, which never leads back to None.
LEMMA RegisteredStable ==
    CInv /\ [Next]_vars => \A r \in Requests : state[r] # "None" => state'[r] # "None"
<1> SUFFICES ASSUME CInv, [Next]_vars, NEW r \in Requests, state[r] # "None"
             PROVE  state'[r] # "None"
    OBVIOUS
<1>1. [Lifecycle!Next]_Lifecycle!avars
    BY NextLifecycle DEF CInv
<1>2. [LP!Next]_LP!avars
    BY <1>1 DEF LP!Next, Lifecycle!Next, LP!avars, Lifecycle!avars,
       LP!Register, Lifecycle!Register, LP!Progress, Lifecycle!Progress,
       LP!Acquire, Lifecycle!Acquire, LP!Abort, Lifecycle!Abort,
       LP!Succeed, Lifecycle!Succeed, LP!Leave, Lifecycle!Leave
<1>3. LP!AbsTypeOK
    BY DEF CInv, IInv, TypeOK, LP!AbsTypeOK, LP!Statuses, BackupStates, Inside
<1>4. state'[r] # state[r] => <<state[r], state'[r]>> \in LP!Advance
    BY <1>2, <1>3, LP!NextAdvances DEF LP!avars
<1> QED
    BY <1>4 DEF LP!Advance

\* Only writeBackupInfoMeta writes a manifest, and only for the name of a
\* request whose backup is Success.
LEMMA ManifestWrite ==
    ASSUME CInv, [Next]_vars, NEW n \in Names, manifest'[n] # manifest[n]
    PROVE  \E r \in Requests : ReqName[r] = n /\ state'[r] = "Success"
<1>1. ASSUME NEW r \in Requests, WriteMeta(r)
      PROVE  \E q \in Requests : ReqName[q] = n /\ state'[q] = "Success"
    <2>1. manifest' # manifest
        OBVIOUS
    <2>2. ReqName[r] = n
        BY <1>1, <2>1, NameAssumption DEF WriteMeta, CInv, IInv, TypeOK
    <2>3. state'[r] = "Success"
        BY <1>1 DEF WriteMeta, CInv, StateCodeInv
    <2> QED
        BY <2>2, <2>3
<1>2. ASSUME NEW r \in Requests,
             CheckName(r) \/ Lock(r) \/ Parse(r) \/ PrepareFail(r) \/ SnapshotBefore(r)
             \/ Flush(r) \/ SnapshotAfter(r) \/ SnapshotForce(r) \/ WaitCopy(r)
             \/ SetSuccess(r) \/ \E s \in Segs : Fill(r, s) \/ CopyStep(r, s)
      PROVE  UNCHANGED manifest
    BY <1>2 DEF CheckName, Lock, Parse, PrepareFail, SnapshotBefore, Flush,
       SnapshotAfter, SnapshotForce, WaitCopy, SetSuccess, Fill, CopyStep,
       CopyFinish, CopyOne, CopyError, CopyMissingInsert, AbandonJob, FailBackup
<1>3. ASSUME Cluster \/ Idle \/ UNCHANGED vars PROVE UNCHANGED manifest
    BY <1>3 DEF Cluster, Insert, AutoSeal, Compact, GarbageCollect, PauseExpires,
       Idle, vars
<1> QED
    BY <1>1, <1>2, <1>3 DEF Next, Request, CopyJobs

\* A name a CreateBackup registered stays registered.
LEMMA InMetaStable ==
    ASSUME CInv, [Next]_vars, NEW n \in Names, InMeta(n) PROVE InMeta(n)'
BY RegisteredStable DEF InMeta

\* The initial state satisfies the invariant.
LEMMA InitAInv == AdminInit => AInv
BY InitCInv DEF AdminInit, AInv, AdminTypeOK, ManifestRegistered, FoundRegistered,
   Init, NoManifestAssumption

\* A step of CreateBackup, the cluster or a copy job keeps the invariant.
LEMMA CreateStepAInv ==
    ASSUME AdminNameType, AInv, Next, UNCHANGED adminVars PROVE AInv'
<1> USE DEF AInv
<1>1. CInv'
    BY NextCInv
<1>2. AdminTypeOK'
    BY DEF AdminTypeOK, adminVars
<1>3. ManifestRegistered'
    <2> SUFFICES ASSUME NEW n \in Names, manifest'[n] # NoManifest PROVE InMeta(n)'
        BY DEF ManifestRegistered
    <2>1. CASE manifest'[n] = manifest[n]
        BY <2>1, InMetaStable DEF ManifestRegistered
    <2>2. CASE manifest'[n] # manifest[n]
        BY <2>2, ManifestWrite DEF InMeta
    <2> QED
        BY <2>1, <2>2
<1>4. FoundRegistered'
    BY InMetaStable, AdminNameType DEF FoundRegistered, adminVars, AdminNameType
<1> QED
    BY <1>1, <1>2, <1>3, <1>4

\* The steps of a client keep the invariant.
LEMMA AdminStepAInv ==
    ASSUME AdminNameType, AInv, NEW a \in Admins,
           DeleteGet(a) \/ DeleteRemove(a) \/ GetAfterDelete(a)
    PROVE  AInv'
<1> USE DEF AInv
<1>1. InMeta(AdminName[a]) \/ manifest[AdminName[a]] # NoManifest
          => InMeta(AdminName[a])
    BY AdminNameType DEF ManifestRegistered, AdminNameType
<1>2. CASE DeleteGet(a) \/ GetAfterDelete(a)
    <2>1. UNCHANGED vars
        BY <1>2 DEF DeleteGet, GetAfterDelete
    <2>2. CInv'
        BY <2>1, NextCInv
    <2>7. ManifestRegistered'
        BY <2>1 DEF vars, reqVars, ManifestRegistered, InMeta
    <2>3. AdminTypeOK'
        BY <1>2 DEF DeleteGet, GetAfterDelete, GetBackupCodes, AdminTypeOK
    <2>4. FoundRegistered'
        BY <1>1, <1>2, <2>1 DEF DeleteGet, GetAfterDelete, GetBackupCodes,
           FoundRegistered, InMeta, AdminTypeOK, vars, reqVars
    <2> QED
        BY <2>2, <2>7, <2>3, <2>4
<1>3. CASE DeleteRemove(a)
    <2>1. UNCHANGED <<clusterVars, mu, reqVars>>
        BY <1>3 DEF DeleteRemove
    <2>2. InMeta(AdminName[a])' = InMeta(AdminName[a])
        BY <2>1 DEF reqVars, InMeta
    <2>3. CInv'
        BY <1>3, <2>1 DEF DeleteRemove, CInv, IInv, TypeOK, AttemptsBound,
           reqVars, clusterVars, ExclusiveExecute, Holding, StateCodeInv
    <2>4. ManifestRegistered'
        <3> SUFFICES ASSUME NEW m \in Names, manifest'[m] # NoManifest PROVE InMeta(m)'
            BY DEF ManifestRegistered
        <3>1. manifest \in [Names -> ManifestRec \cup {NoManifest}]
            BY DEF CInv, IInv, TypeOK
        <3>2. manifest[m] # NoManifest
            BY <1>3, <3>1 DEF DeleteRemove
        <3> QED
            BY <2>1, <3>2 DEF ManifestRegistered, InMeta, reqVars
    <2>5. AdminTypeOK'
        BY <1>3 DEF DeleteRemove, AdminTypeOK
    <2>6. FoundRegistered'
        BY <1>3, <2>1 DEF DeleteRemove, FoundRegistered, InMeta, reqVars, AdminTypeOK
    <2> QED
        BY <2>3, <2>4, <2>5, <2>6
<1> QED
    BY <1>2, <1>3


\* Every step of CreateBackup, the cluster, the copy jobs or the clients
\* keeps the invariant.
LEMMA NextAInv == AdminNameType /\ AInv /\ [AdminNext]_allVars => AInv'
<1> SUFFICES ASSUME AdminNameType, AInv, [AdminNext]_allVars PROVE AInv'
    OBVIOUS
<1>1. CASE Next /\ UNCHANGED adminVars
    BY <1>1, CreateStepAInv
<1>2. CASE \E a \in Admins : DeleteGet(a) \/ DeleteRemove(a) \/ GetAfterDelete(a)
    BY <1>2, AdminStepAInv
<1>3. CASE UNCHANGED allVars
    <2>1. [Next]_vars /\ UNCHANGED adminVars
        BY <1>3 DEF allVars
    <2>2. CInv'
        BY <2>1, NextCInv DEF AInv
    <2> QED
        BY <1>3, <2>2 DEF allVars, vars, reqVars, adminVars, AInv, AdminTypeOK,
           ManifestRegistered, FoundRegistered, InMeta
<1> QED
    BY <1>1, <1>2, <1>3 DEF AdminNext

\* For every number of requests, clients and names: once DeleteBackup has
\* answered Success, a GetBackup of the name finds the backup again only
\* because a CreateBackup registered the name in the MetaManager, which
\* DeleteBackup never cleans up.  No manifest written by a concurrent
\* CreateBackup reaches GetBackup without such an entry.
THEOREM DeleteUndoneOnlyByMeta ==
    AdminNameType => (AdminSpec => []DeleteThenGetUnlessInMeta)
<1> SUFFICES ASSUME AdminNameType PROVE AdminSpec => []DeleteThenGetUnlessInMeta
    OBVIOUS
<1>1. AdminInit => AInv
    BY InitAInv
<1>2. AInv /\ [AdminNext]_allVars => AInv'
    BY NextAInv
<1>3. AInv => DeleteThenGetUnlessInMeta
    BY DEF AInv, FoundRegistered, DeleteThenGetUnlessInMeta
<1> QED
    BY <1>1, <1>2, <1>3, PTL DEF AdminSpec

=============================================================================
