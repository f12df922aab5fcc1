---------------------------- MODULE BackupCreate ----------------------------
(***************************************************************************)
(* The create-backup pipeline of milvus-backup                             *)
(* (core/backup_impl_create_backup.go), run by concurrent CreateBackup     *)
(* requests against a source cluster that keeps inserting, sealing,        *)
(* compacting and garbage-collecting segments.                             *)
(*                                                                         *)
(* One collection with one partition is backed up.  A request goes        *)
(* through the name check of CreateBackup, then executeCreateBackup under  *)
(* the process-wide mutex: optional GC pause, parse, the retried prepare   *)
(* (snapshot / flush / snapshot, or one snapshot when force), the execute  *)
(* wave (fill each segment's binlog listing, submit one copy job per       *)
(* segment to the copy pool, wait), then Success and the manifest write.   *)
(* Copy jobs are separate actors: they keep running after the request     *)
(* that submitted them has returned.                                       *)
(*                                                                         *)
(* Data is abstracted: a row is an insert batch, a binlog is a pair        *)
(* <<segment, kind>>, a backup path is a triple <<name, segment, kind>>.   *)
(***************************************************************************)
EXTENDS Naturals, FiniteSets

CONSTANTS
    Requests,         \* concurrent CreateBackup requests
    Names,            \* backup names the requests use
    ReqName,          \* request -> the backup name it asks for
    Segs,             \* segment ids the source cluster may allocate
    Rows,             \* insert batches written to the collection
    PrepareAttempts,  \* retry.Attempts(128) around backupCollectionPrepare
    GcPauseEnable,    \* backup.gcPause.enable / request.GcPauseEnable
    NoManifest        \* no manifest under a name

ASSUME NameAssumption == ReqName \in [Requests -> Names]
ASSUME AttemptsAssumption == PrepareAttempts \in Nat \ {0}
ASSUME GcAssumption == GcPauseEnable \in BOOLEAN

Kinds == {"insert", "delta"}
Binlogs == Segs \X Kinds

ManifestRec == [id : Requests, segs : SUBSET Segs, binlogs : SUBSET Binlogs]
ASSUME NoManifestAssumption == NoManifest \notin ManifestRec

SegStates == {"None", "Growing", "Sealed", "Dropped"}
BackupStates == {"None", "Initial", "Success", "Fail"}
PCs == {"Check", "Queued", "Parse", "Before", "Flush", "After", "Snapshot",
        "Fill", "SetSuccess", "WriteMeta", "Done"}

VARIABLES
    \* source cluster and its object store (the VectorDB / ObjectStore capabilities)
    segState,   \* segment id -> lifecycle state in the source cluster
    segRows,    \* segment id -> rows it holds
    srcStore,   \* binlog objects present under milvusRoot
    gcPaused,   \* the datacoord garbage collector is paused
    \* backup bucket
    dstStore,   \* copied objects under backupRoot/<name>/binlogs
    manifest,   \* name -> manifest written under backupRoot/<name>/meta
    \* BackupContext
    mu,         \* BackupContext.mu held by an executeCreateBackup
    \* per request: its goroutine and its MetaManager entries
    pc,
    force,      \* request.Force
    state,      \* BackupInfo.StateCode in the MetaManager ("None": not added)
    attempts,   \* failed attempts of the prepare retry
    before,     \* ids of segmentEntitiesBeforeFlush
    flushIds,   \* newSealedSegmentIDs ++ flushedSegmentIDs
    cut,        \* ghost: rows inserted when the flush returned
    segs,       \* segments the prepare added to the MetaManager
    warned,     \* the "Segment return in Flush not exist" warning was logged
    toFill,     \* segments copySegments has still to fill
    binlogs,    \* binlogs fillSegmentBackupInfo recorded
    copying,    \* submitted copy jobs that have not returned
    remain,     \* binlogs a running copy job has still to copy
    jobErr,     \* some copy job returned an error
    backuped    \* segments whose copySegment set Backuped

clusterVars == <<segState, segRows, srcStore, gcPaused>>
reqVars == <<pc, force, state, attempts, before, flushIds, cut, segs, warned,
             toFill, binlogs, copying, remain, jobErr, backuped>>
vars == <<clusterVars, dstStore, manifest, mu, reqVars>>

-----------------------------------------------------------------------------
(* Helpers *)

\* GetPersistentSegmentInfo: the sealed, not yet compacted-away segments.
Persistent == {s \in Segs : segState[s] = "Sealed"}

RowsOf(S) == UNION {segRows[s] : s \in S}

Inserted == RowsOf(Segs)

Fresh == {s \in Segs : segState[s] = "None"}

\* Binlogs a sealed segment writes: its insert log, and a delta log if it
\* has deletes.
SealedBinlogs(S, D) == (S \X {"insert"}) \cup (D \X {"delta"})

\* The path a backup name occupies: its manifest or any copied binlog.
NameTaken(n) == manifest[n] # NoManifest \/ \E b \in Binlogs : <<n, b[1], b[2]>> \in dstStore

DstOf(n) == {b \in Binlogs : <<n, b[1], b[2]>> \in dstStore}

\* Leaving executeCreateBackup: the deferred resumeMilvusGC (best effort)
\* and the deferred Unlock.
Release ==
    /\ mu' = FALSE
    /\ gcPaused' \in IF GcPauseEnable THEN {FALSE, gcPaused} ELSE {gcPaused}

\* UpdateBackup(setStateCode(BACKUP_FAIL)) and return err.
FailBackup(r) ==
    /\ state' = [state EXCEPT ![r] = "Fail"]
    /\ pc' = [pc EXCEPT ![r] = "Done"]
    /\ Release

-----------------------------------------------------------------------------
(* The source cluster, modelled from the VectorDB capability of the spec. *)

Insert(row) ==
    /\ row \notin Inserted
    /\ \/ \E g \in Segs :
            /\ segState[g] = "Growing"
            /\ segRows' = [segRows EXCEPT ![g] = @ \cup {row}]
            /\ UNCHANGED segState
       \/ /\ \A g \in Segs : segState[g] # "Growing"
          /\ \E s \in Fresh :
                /\ segState' = [segState EXCEPT ![s] = "Growing"]
                /\ segRows' = [segRows EXCEPT ![s] = {row}]
    /\ UNCHANGED <<srcStore, gcPaused, dstStore, manifest, mu, reqVars>>

\* Sealing the growing segments (by the data node, or by a Flush) writes
\* their binlogs.
Seal(G) ==
    /\ segState' = [s \in Segs |-> IF s \in G THEN "Sealed" ELSE segState[s]]
    /\ \E D \in SUBSET G : srcStore' = srcStore \cup SealedBinlogs(G, D)

AutoSeal(s) ==
    /\ segState[s] = "Growing"
    /\ Seal({s})
    /\ UNCHANGED <<segRows, gcPaused, dstStore, manifest, mu, reqVars>>

\* Compaction merges one or two sealed segments into a fresh sealed one and
\* drops them; their binlogs stay until the garbage collector removes them.
Compact(S, c) ==
    /\ S # {} /\ S \subseteq Persistent
    /\ segState[c] = "None"
    /\ segState' = [s \in Segs |-> IF s \in S THEN "Dropped"
                                   ELSE IF s = c THEN "Sealed" ELSE segState[s]]
    /\ segRows' = [segRows EXCEPT ![c] = RowsOf(S)]
    /\ srcStore' = srcStore \cup {<<c, "insert">>}
    /\ UNCHANGED <<gcPaused, dstStore, manifest, mu, reqVars>>

GarbageCollect(s) ==
    /\ ~gcPaused
    /\ segState[s] = "Dropped"
    /\ \E k \in Kinds : <<s, k>> \in srcStore
    /\ srcStore' = srcStore \ ({s} \X Kinds)
    /\ UNCHANGED <<segState, segRows, gcPaused, dstStore, manifest, mu, reqVars>>

\* The pause_seconds of the GC pause run out.
PauseExpires ==
    /\ gcPaused
    /\ gcPaused' = FALSE
    /\ UNCHANGED <<segState, segRows, srcStore, dstStore, manifest, mu, reqVars>>

-----------------------------------------------------------------------------
(* CreateBackup and executeCreateBackup *)

\* Mutant: the Parameter_Error branch fills the response but does not return.
CheckNameNoReturn(r) ==
    /\ pc[r] = "Check"
    /\ \/ /\ pc' = [pc EXCEPT ![r] = "Queued"]
          /\ UNCHANGED state
       \/ /\ ~NameTaken(ReqName[r])
          /\ state' = [state EXCEPT ![r] = "Initial"]
          /\ pc' = [pc EXCEPT ![r] = "Queued"]
    /\ UNCHANGED <<clusterVars, dstStore, manifest, mu, force, attempts, before,
                   flushIds, cut, segs, warned, toFill, binlogs, copying,
                   remain, jobErr, backuped>>

\* CreateBackup: the name-exists check, name validation and GetVersion run
\* outside the mutex; then AddBackup(INITIAL) and executeCreateBackup.
CheckName(r) ==
    /\ pc[r] = "Check"
    /\ \/ \* Parameter_Error when the name is taken; an Exist or GetVersion
          \* error may end the request at any name
          /\ pc' = [pc EXCEPT ![r] = "Done"]
          /\ UNCHANGED state
       \/ /\ ~NameTaken(ReqName[r])
          /\ state' = [state EXCEPT ![r] = "Initial"]
          /\ pc' = [pc EXCEPT ![r] = "Queued"]
    /\ UNCHANGED <<clusterVars, dstStore, manifest, mu, force, attempts, before,
                   flushIds, cut, segs, warned, toFill, binlogs, copying,
                   remain, jobErr, backuped>>

\* Mutant: executeCreateBackup runs without taking the mutex.
LockUnguarded(r) ==
    /\ pc[r] = "Queued"
    /\ mu' = TRUE
    /\ gcPaused' \in IF GcPauseEnable THEN {TRUE, gcPaused} ELSE {gcPaused}
    /\ pc' = [pc EXCEPT ![r] = "Parse"]
    /\ UNCHANGED <<segState, segRows, srcStore, dstStore, manifest, force, state,
                   attempts, before, flushIds, cut, segs, warned, toFill,
                   binlogs, copying, remain, jobErr, backuped>>

\* b.mu.Lock(), then pauseMilvusGC when enabled; the pause request may fail.
Lock(r) ==
    /\ pc[r] = "Queued"
    /\ ~mu
    /\ mu' = TRUE
    /\ gcPaused' \in IF GcPauseEnable THEN {TRUE, gcPaused} ELSE {gcPaused}
    /\ pc' = [pc EXCEPT ![r] = "Parse"]
    /\ UNCHANGED <<segState, segRows, srcStore, dstStore, manifest, force, state,
                   attempts, before, flushIds, cut, segs, warned, toFill,
                   binlogs, copying, remain, jobErr, backuped>>

FirstPrepareStep(r) == IF force[r] THEN "Snapshot" ELSE "Before"

\* parseBackupCollections: ListCollections / HasCollection may fail.
Parse(r) ==
    /\ pc[r] = "Parse"
    /\ \/ /\ pc' = [pc EXCEPT ![r] = FirstPrepareStep(r)]
          /\ UNCHANGED <<mu, gcPaused, state>>
       \/ FailBackup(r)
    /\ UNCHANGED <<segState, segRows, srcStore, dstStore, manifest, force,
                   attempts, before, flushIds, cut, segs, warned, toFill,
                   binlogs, copying, remain, jobErr, backuped>>

\* Mutant: the retry bound is off by one.
RetryLeftOffByOne(r) == attempts[r] + 1 <= PrepareAttempts

\* Mutant: the failed attempt is not counted.
CountFailureNone(r) == attempts' = attempts

\* retry.Do counts a failed attempt of backupCollectionPrepare ...
CountFailure(r) == attempts' = [attempts EXCEPT ![r] = @ + 1]

\* ... and sleeps and tries again while attempts remain.
RetryLeft(r) == attempts[r] + 1 < PrepareAttempts

\* An RPC of backupCollectionPrepare fails; retry.Do runs it again from the
\* start, up to PrepareAttempts attempts, then the collection job fails.
PrepareFail(r) ==
    /\ pc[r] \in {"Before", "Flush", "After", "Snapshot"}
    /\ CountFailure(r)
    /\ \/ /\ RetryLeft(r)
          /\ pc' = [pc EXCEPT ![r] = FirstPrepareStep(r)]
          /\ UNCHANGED <<mu, gcPaused, state>>
       \/ /\ ~RetryLeft(r)
          /\ FailBackup(r)
    /\ \* a failed Flush may still have sealed the growing segments
       \/ UNCHANGED <<segState, srcStore>>
       \/ /\ pc[r] = "Flush"
          /\ Seal({s \in Segs : segState[s] = "Growing"})
    /\ UNCHANGED <<segRows, dstStore, manifest, force, before, flushIds, cut,
                   segs, warned, toFill, binlogs, copying, remain, jobErr, backuped>>

\* GetPersistentSegmentInfo before the flush.
SnapshotBefore(r) ==
    /\ pc[r] = "Before"
    /\ before' = [before EXCEPT ![r] = Persistent]
    /\ pc' = [pc EXCEPT ![r] = "Flush"]
    /\ UNCHANGED <<clusterVars, dstStore, manifest, mu, force, state, attempts,
                   flushIds, cut, segs, warned, toFill, binlogs, copying,
                   remain, jobErr, backuped>>

\* FlushV2 (synchronous): seals the growing segments and returns the newly
\* sealed and the already flushed ids; the rows inserted so far are the cut.
Flush(r) ==
    /\ pc[r] = "Flush"
    /\ Seal({s \in Segs : segState[s] = "Growing"})
    /\ flushIds' = [flushIds EXCEPT ![r] = Persistent']
    /\ cut' = [cut EXCEPT ![r] = Inserted]
    /\ pc' = [pc EXCEPT ![r] = "After"]
    /\ UNCHANGED <<segRows, gcPaused, dstStore, manifest, mu, force, state,
                   attempts, before, segs, warned, toFill, binlogs, copying,
                   remain, jobErr, backuped>>

\* Mutant: the segmentDict filter is left out.
UnfilledNoFilter(flushed, beforeFlush, afterFlush) == afterFlush \cup beforeFlush

\* Mutant: only the after-flush snapshot is scanned.
UnfilledAfterOnly(flushed, beforeFlush, afterFlush) ==
    {s \in afterFlush : s \in flushed}

\* The unfilled segments of a flushed collection: segmentDict is the flush
\* result; the after-flush snapshot is scanned first, then the before-flush
\* one, each id taken at most once.
Unfilled(flushed, beforeFlush, afterFlush) ==
    {s \in afterFlush \cup beforeFlush : s \in flushed}

\* Ids the flush returned that neither snapshot holds (the logged warning).
Unmatched(flushed, beforeFlush, afterFlush) ==
    flushed \ (afterFlush \cup beforeFlush)

\* GetPersistentSegmentInfo after the flush, then AddSegment / AddPartition
\* for the unfilled segments.
SnapshotAfter(r) ==
    /\ pc[r] = "After"
    /\ segs' = [segs EXCEPT ![r] = Unfilled(flushIds[r], before[r], Persistent)]
    /\ warned' = [warned EXCEPT ![r] = Unmatched(flushIds[r], before[r], Persistent) # {}]
    /\ toFill' = [toFill EXCEPT ![r] = segs'[r]]
    /\ pc' = [pc EXCEPT ![r] = "Fill"]
    /\ UNCHANGED <<clusterVars, dstStore, manifest, mu, force, state, attempts,
                   before, flushIds, cut, binlogs, copying, remain, jobErr, backuped>>

\* force: one GetPersistentSegmentInfo, every persistent segment is taken.
SnapshotForce(r) ==
    /\ pc[r] = "Snapshot"
    /\ segs' = [segs EXCEPT ![r] = Persistent]
    /\ toFill' = [toFill EXCEPT ![r] = Persistent]
    /\ pc' = [pc EXCEPT ![r] = "Fill"]
    /\ UNCHANGED <<clusterVars, dstStore, manifest, mu, force, state, attempts,
                   before, flushIds, cut, warned, binlogs, copying, remain,
                   jobErr, backuped>>

\* fillSegmentBackupInfo for the next segment, then submit its copy job.
\* An empty insert_log listing fails the collection job at once, without
\* waiting for the copy jobs already submitted.  An error listing a field
\* directory's binlogs (line 901) or the delta_log directory is ignored:
\* the field is recorded with no binlogs, or the placeholder instead.
Fill(r, s) ==
    /\ pc[r] = "Fill"
    /\ s \in toFill[r]
    /\ \/ /\ <<s, "insert">> \in srcStore
          /\ \E I \in SUBSET {<<s, "insert">>}, D \in SUBSET ({<<s, "delta">>} \cap srcStore) :
                /\ binlogs' = [binlogs EXCEPT ![r] = @ \cup I \cup D]
                /\ remain' = [remain EXCEPT ![r] = @ \cup I \cup D]
          /\ copying' = [copying EXCEPT ![r] = @ \cup {s}]
          /\ toFill' = [toFill EXCEPT ![r] = @ \ {s}]
          /\ UNCHANGED <<pc, state, mu, gcPaused>>
       \/ \* no insert binlog listed: the object is gone, or the listing
          \* failed and returned nothing
          /\ FailBackup(r)
          /\ UNCHANGED <<binlogs, remain, copying, toFill>>
    /\ UNCHANGED <<segState, segRows, srcStore, dstStore, manifest, force,
                   attempts, before, flushIds, cut, segs, warned, jobErr, backuped>>

\* Mutant: WaitJobs returns before the copy jobs have.
WaitCopyNoDrain(r) ==
    /\ pc[r] = "Fill"
    /\ toFill[r] = {}
    /\ \/ /\ ~jobErr[r]
          /\ pc' = [pc EXCEPT ![r] = "SetSuccess"]
          /\ UNCHANGED <<state, mu, gcPaused>>
       \/ /\ jobErr[r]
          /\ FailBackup(r)
    /\ UNCHANGED <<segState, segRows, srcStore, dstStore, manifest, force,
                   attempts, before, flushIds, cut, segs, warned, toFill,
                   binlogs, copying, remain, jobErr, backuped>>

\* WaitJobs of copySegments and of the collection pool: every copy job has
\* returned; the first error fails the backup.
WaitCopy(r) ==
    /\ pc[r] = "Fill"
    /\ toFill[r] = {}
    /\ copying[r] = {}
    /\ \/ /\ ~jobErr[r]
          /\ pc' = [pc EXCEPT ![r] = "SetSuccess"]
          /\ UNCHANGED <<state, mu, gcPaused>>
       \/ /\ jobErr[r]
          /\ FailBackup(r)
    /\ UNCHANGED <<segState, segRows, srcStore, dstStore, manifest, force,
                   attempts, before, flushIds, cut, segs, warned, toFill,
                   binlogs, copying, remain, jobErr, backuped>>

\* The binlogs the copy job of segment s has still to copy, and the one it
\* copies next: the insert logs first, then the delta logs.
JobBinlogs(r, s) == {b \in remain[r] : b[1] = s}
NextBinlog(r, s) ==
    IF <<s, "insert">> \in JobBinlogs(r, s) THEN <<s, "insert">> ELSE <<s, "delta">>

\* Mutant: Backuped is set before the loops have run out.
CopyFinishEarly(r, s) ==
    /\ backuped' = [backuped EXCEPT ![r] = @ \cup {s}]
    /\ copying' = [copying EXCEPT ![r] = @ \ {s}]
    /\ UNCHANGED <<dstStore, remain, jobErr>>

\* Both loops done: segment.Backuped = true, return nil.
CopyFinish(r, s) ==
    /\ JobBinlogs(r, s) = {}
    /\ backuped' = [backuped EXCEPT ![r] = @ \cup {s}]
    /\ copying' = [copying EXCEPT ![r] = @ \ {s}]
    /\ UNCHANGED <<dstStore, remain, jobErr>>

\* Exist is true and the retried Copy succeeds.
CopyOne(r, s) ==
    /\ JobBinlogs(r, s) # {}
    /\ NextBinlog(r, s) \in srcStore
    /\ dstStore' = dstStore \cup {<<ReqName[r], s, NextBinlog(r, s)[2]>>}
    /\ remain' = [remain EXCEPT ![r] = @ \ {NextBinlog(r, s)}]
    /\ UNCHANGED <<copying, jobErr, backuped>>

\* Mutant: an early return leaves the job counted as running.
AbandonJobKeepsJob(r, s) ==
    /\ remain' = [remain EXCEPT ![r] = @ \ JobBinlogs(r, s)]
    /\ copying' = copying

\* The job returns early: the remaining binlogs of s are not copied.
AbandonJob(r, s) ==
    /\ remain' = [remain EXCEPT ![r] = @ \ JobBinlogs(r, s)]
    /\ copying' = [copying EXCEPT ![r] = @ \ {s}]

\* An Exist error, a missing delta log, or Copy failing 5 times: the job
\* returns an error.
CopyError(r, s) ==
    /\ JobBinlogs(r, s) # {}
    /\ AbandonJob(r, s)
    /\ jobErr' = [jobErr EXCEPT ![r] = TRUE]
    /\ UNCHANGED <<dstStore, backuped>>

\* A missing insert binlog: "return err" with err = nil from Exist; the job
\* returns no error and the segment is not Backuped.
CopyMissingInsert(r, s) ==
    /\ JobBinlogs(r, s) # {}
    /\ NextBinlog(r, s)[2] = "insert"
    /\ NextBinlog(r, s) \notin srcStore
    /\ AbandonJob(r, s)
    /\ UNCHANGED <<dstStore, jobErr, backuped>>

\* One step of copySegment, the copy job of segment s that request r
\* submitted.
CopyStep(r, s) ==
    /\ s \in copying[r]
    /\ \/ CopyFinish(r, s) \/ CopyOne(r, s) \/ CopyError(r, s) \/ CopyMissingInsert(r, s)
    /\ UNCHANGED <<clusterVars, manifest, mu, pc, force, state, attempts, before,
                   flushIds, cut, segs, warned, toFill, binlogs>>

\* UpdateBackup(setStateCode(BACKUP_SUCCESS)) before the manifest is written.
SetSuccess(r) ==
    /\ pc[r] = "SetSuccess"
    /\ state' = [state EXCEPT ![r] = "Success"]
    /\ pc' = [pc EXCEPT ![r] = "WriteMeta"]
    /\ UNCHANGED <<clusterVars, dstStore, manifest, mu, force, attempts, before,
                   flushIds, cut, segs, warned, toFill, binlogs, copying,
                   remain, jobErr, backuped>>

\* writeBackupInfoMeta: serialize GetFullMeta and Write the meta files; the
\* Write errors are ignored.  Then the deferred resume and Unlock.
WriteMeta(r) ==
    /\ pc[r] = "WriteMeta"
    /\ \/ manifest' = [manifest EXCEPT ![ReqName[r]] =
                         [id |-> r, segs |-> segs[r], binlogs |-> binlogs[r]]]
       \/ UNCHANGED manifest
    /\ pc' = [pc EXCEPT ![r] = "Done"]
    /\ Release
    /\ UNCHANGED <<segState, segRows, srcStore, dstStore, force, state, attempts,
                   before, flushIds, cut, segs, warned, toFill, binlogs,
                   copying, remain, jobErr, backuped>>

-----------------------------------------------------------------------------

Init ==
    /\ segState = [s \in Segs |-> "None"]
    /\ segRows = [s \in Segs |-> {}]
    /\ srcStore = {}
    /\ gcPaused = FALSE
    /\ dstStore = {}
    /\ manifest = [n \in Names |-> NoManifest]
    /\ mu = FALSE
    /\ pc = [r \in Requests |-> "Check"]
    /\ force \in [Requests -> BOOLEAN]
    /\ state = [r \in Requests |-> "None"]
    /\ attempts = [r \in Requests |-> 0]
    /\ before = [r \in Requests |-> {}]
    /\ flushIds = [r \in Requests |-> {}]
    /\ cut = [r \in Requests |-> {}]
    /\ segs = [r \in Requests |-> {}]
    /\ warned = [r \in Requests |-> FALSE]
    /\ toFill = [r \in Requests |-> {}]
    /\ binlogs = [r \in Requests |-> {}]
    /\ copying = [r \in Requests |-> {}]
    /\ remain = [r \in Requests |-> {}]
    /\ jobErr = [r \in Requests |-> FALSE]
    /\ backuped = [r \in Requests |-> {}]

\* The steps of request r's goroutine.
Request(r) ==
    \/ CheckName(r) \/ Lock(r) \/ Parse(r) \/ PrepareFail(r)
    \/ SnapshotBefore(r) \/ Flush(r) \/ SnapshotAfter(r) \/ SnapshotForce(r)
    \/ \E s \in Segs : Fill(r, s)
    \/ WaitCopy(r) \/ SetSuccess(r) \/ WriteMeta(r)

\* The copy jobs request r submitted to the copy pool.
CopyJobs(r) == \E s \in Segs : CopyStep(r, s)

Cluster ==
    \/ \E row \in Rows : Insert(row)
    \/ \E s \in Segs : AutoSeal(s) \/ GarbageCollect(s)
    \/ \E a, b, c \in Segs : Compact({a, b}, c)
    \/ PauseExpires

\* Every request has returned and every copy job too: the service idles.
Idle ==
    /\ \A r \in Requests : pc[r] = "Done" /\ copying[r] = {}
    /\ UNCHANGED vars

Next ==
    \/ \E r \in Requests : Request(r) \/ CopyJobs(r)
    \/ Cluster
    \/ Idle

\* Goroutines and pool workers are scheduled; the cluster is not obliged to act.
Fairness == \A r \in Requests : WF_vars(Request(r)) /\ WF_vars(CopyJobs(r))

Spec == Init /\ [][Next]_vars /\ Fairness

-----------------------------------------------------------------------------
(* Properties *)

TypeOK ==
    /\ segState \in [Segs -> SegStates]
    /\ segRows \in [Segs -> SUBSET Rows]
    /\ srcStore \subseteq Binlogs
    /\ gcPaused \in BOOLEAN
    /\ dstStore \subseteq Names \X Segs \X Kinds
    /\ manifest \in [Names -> ManifestRec \cup {NoManifest}]
    /\ mu \in BOOLEAN
    /\ pc \in [Requests -> PCs]
    /\ force \in [Requests -> BOOLEAN]
    /\ state \in [Requests -> BackupStates]
    /\ attempts \in [Requests -> 0..PrepareAttempts]
    /\ before \in [Requests -> SUBSET Segs]
    /\ flushIds \in [Requests -> SUBSET Segs]
    /\ cut \in [Requests -> SUBSET Rows]
    /\ segs \in [Requests -> SUBSET Segs]
    /\ warned \in [Requests -> BOOLEAN]
    /\ toFill \in [Requests -> SUBSET Segs]
    /\ binlogs \in [Requests -> SUBSET Binlogs]
    /\ copying \in [Requests -> SUBSET Segs]
    /\ remain \in [Requests -> SUBSET Binlogs]
    /\ jobErr \in [Requests -> BOOLEAN]
    /\ backuped \in [Requests -> SUBSET Segs]

\* A request that has not returned has an attempt of the prepare retry
\* left (retry.Attempts bounds the failed attempts of backupCollectionPrepare).
AttemptsBound ==
    \A r \in Requests : pc[r] # "Done" => attempts[r] < PrepareAttempts

\* Program points reached once backupCollectionPrepare has returned.
Prepared(r) == pc[r] \in {"Fill", "SetSuccess", "WriteMeta"}
                \/ (pc[r] = "Done" /\ state[r] = "Success")

\* Request r is inside executeCreateBackup, between b.mu.Lock() and the
\* deferred Unlock.
Holding(r) == pc[r] \in {"Parse", "Before", "Flush", "After", "Snapshot",
                         "Fill", "SetSuccess", "WriteMeta"}

\* BackupContext.mu serialises executeCreateBackup: two requests never run
\* the prepare, execute and meta-write phases at the same time, and the
\* mutex is held exactly while one of them does (the deferred Unlock on
\* every return path, the early failure returns included).
ExclusiveExecute ==
    /\ \A r1, r2 \in Requests : Holding(r1) /\ Holding(r2) => r1 = r2
    /\ mu = \E r \in Requests : Holding(r)

\* Consistency cut, upper side: a flushed (non-force) backup holds no row
\* that was inserted after its flush returned, however the cluster sealed
\* and compacted segments around the two GetPersistentSegmentInfo calls
\* (the segmentDict filter of backupCollectionPrepare).
CutExcludesLaterRows ==
    \A r \in Requests :
        Prepared(r) /\ ~force[r] => RowsOf(segs[r]) \subseteq cut[r]

\* The inductive form of the upper side of the cut: every id the last
\* FlushV2 returned names a sealed or dropped segment whose rows were all
\* inserted before that flush returned (compaction writes only fresh
\* segments, inserts only growing ones), a request reaches the force
\* snapshot only with force set, and the segments a flushed backup records
\* are among the flushed ids (the segmentDict filter).  A request that has
\* not passed CreateBackup's checks has no state in the MetaManager.
FlushCutInv ==
    \A r \in Requests :
        /\ pc[r] = "Check" => state[r] = "None"
        /\ \A s \in flushIds[r] : segState[s] \in {"Sealed", "Dropped"}
                                /\ segRows[s] \subseteq cut[r]
        /\ pc[r] = "Snapshot" => force[r]
        /\ Prepared(r) /\ ~force[r] => segs[r] \subseteq flushIds[r]

\* Consistency cut, lower side: unless the prepare logged the warning that
\* a flushed segment is in neither snapshot, every row inserted before the
\* flush returned is in a segment the backup records (the union of the
\* before-flush and after-flush snapshots in backupCollectionPrepare).
CutCoversEarlierRows ==
    \A r \in Requests :
        Prepared(r) /\ ~force[r] /\ ~warned[r] => cut[r] \subseteq RowsOf(segs[r])

\* The inductive form of the lower side of the cut: the cluster never loses
\* a row (compaction moves the rows of the segments it drops into its
\* target), so when FlushV2 has sealed every growing segment its result
\* covers every row inserted so far; and with no warning the two snapshots
\* together hold every flushed id, so the backup records them all.
CoverInv ==
    /\ Inserted \subseteq RowsOf({s \in Segs : segState[s] \in {"Growing", "Sealed"}})
    /\ \A r \in Requests : pc[r] = "After" => cut[r] \subseteq RowsOf(flushIds[r])
    /\ CutCoversEarlierRows

\* A segment copySegment marked Backuped has every binlog the fill recorded
\* for it under the backup's name.
BackupedImpliesCopied ==
    \A r \in Requests : \A b \in binlogs[r] :
        b[1] \in backuped[r] => <<ReqName[r], b[1], b[2]>> \in dstStore

\* The inductive form of BackupedImpliesCopied, per request: before the
\* execute wave no binlog is recorded and no job runs; a segment still to
\* fill has no job and no recorded binlog yet; a running copy job has
\* copied every binlog of its segment it no longer has to copy; and a
\* Backuped segment has all its binlogs copied.
CopyInv ==
    \A r \in Requests :
        /\ pc[r] \in {"Check", "Queued", "Parse", "Before", "Flush", "After", "Snapshot"} =>
              binlogs[r] = {} /\ copying[r] = {} /\ backuped[r] = {}
        /\ \A s \in toFill[r] : s \notin copying[r] \cup backuped[r]
                               /\ \A b \in binlogs[r] : b[1] # s
        /\ \A b \in binlogs[r] :
              b[1] \in copying[r] /\ b \notin remain[r] =>
                  <<ReqName[r], b[1], b[2]>> \in dstStore
        /\ \A b \in binlogs[r] :
              b[1] \in backuped[r] => <<ReqName[r], b[1], b[2]>> \in dstStore

\* Backup names are unique: two requests for the same name never both
\* reach Success (CreateBackup's exists check).
SuccessNamesUnique ==
    \A r1, r2 \in Requests :
        r1 # r2 /\ ReqName[r1] = ReqName[r2] => ~(state[r1] = "Success" /\ state[r2] = "Success")

\* Once executeCreateBackup has returned for a Success backup, the manifest
\* writeBackupInfoMeta wrote is under its name (spec invariant 5): the
\* request does not return before the meta write, whose Write errors are
\* the only way to miss it.
SuccessImpliesManifest ==
    \A r \in Requests : state[r] = "Success" /\ pc[r] = "Done" =>
                           /\ manifest[ReqName[r]] # NoManifest
                           /\ manifest[ReqName[r]].id = r

\* Once a backup's state is Success every binlog its manifest lists has
\* been copied under its name (spec invariant 5, binlog tree complete).
SuccessImpliesCopied ==
    \A r \in Requests : state[r] = "Success" =>
        \A b \in binlogs[r] : <<ReqName[r], b[1], b[2]>> \in dstStore

\* A Success backup records the insert binlogs of every segment it keeps:
\* fillSegmentBackupInfo found the segment's insert_log directory (or the
\* job failed), so its manifest lists the segment's data (spec invariant 5,
\* binlog tree complete).  The per-field listing whose error line 901
\* drops is the step that could lose them.
SuccessRecordsInsertLogs ==
    \A r \in Requests : state[r] = "Success" =>
        \A s \in segs[r] : <<s, "insert">> \in binlogs[r]

\* After executeCreateBackup has returned, nothing more is written under the
\* backup's name by its jobs (the WaitJobs drain of the worker pool).
TerminalBackupFrozen ==
    [][\A r \in Requests : pc[r] = "Done" => DstOf(ReqName[r])' = DstOf(ReqName[r])]_vars

\* Once UpdateBackup has made a backup Success, the record that
\* writeBackupInfoMeta serializes through GetFullMeta no longer changes: no
\* copy job of the backup is left to set Backuped, and no fill to record
\* binlogs or submit a job (the WaitJobs of copySegments drained them all).
SuccessRecordFrozen ==
    [][\A r \in Requests :
         state[r] = "Success" =>
             UNCHANGED <<segs[r], binlogs[r], backuped[r], copying[r]>>]_vars

\* The inductive form: from the Success step on (at SetSuccess, at
\* WriteMeta, and after) the request has no copy job running.
DrainInv ==
    \A r \in Requests :
        pc[r] \in {"SetSuccess", "WriteMeta"} \/ state[r] = "Success" => copying[r] = {}

\* Every request eventually returns.
Termination == \A r \in Requests : <>(pc[r] = "Done")

=============================================================================
