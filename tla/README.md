# Verification of milvus-backup's backup service

TLA+ models, TLC runs and TLAPS proofs for the backup service in `src/`.
The service reads a live Milvus cluster and copies the collection's binlog
files into a backup bucket. It also writes a manifest under the backup's name.

## The system and its parts

| Part | Source | Module | Status |
|---|---|---|---|
| `CreateBackup`: name check, `AddBackup`, sync/async dispatch | `core/backup_impl_create_backup.go:27-127` | `BackupCreate` | modelled |
| `executeCreateBackup`: mutex, GC pause/resume, parse, prepare wave, execute wave, Success, meta write | `:586-699` | `BackupCreate` | partly (one collection) |
| `backupCollectionPrepare`: snapshot, flush, snapshot, segment selection, `retry.Do` | `:215-513`, `:628-655` | `BackupCreate` | partly |
| `copySegments` / `fillSegmentBackupInfo` / `copySegment`: the copy-pool jobs | `:743-969` | `BackupCreate` | modelled |
| The source cluster: insert, seal, flush, compaction, GC, GC pause | spec §4.B (not in `src/`) | `BackupCreate` | modelled from the spec |
| Backup path rewrite: binlog paths, `backupPathFunc`, group-id replace | `:768-793`, `:877-918` | `PathRewrite` | modelled |
| Channel name split of `writeBackupInfoMeta` | `:715` | none | not modelled: channel names carry no modelled state |
| `DeleteBackup`, `GetBackup` by name | `unnamed/part_000:213-445` | `BackupAdmin` | partly |
| `GetRestore` and the restore tasks it reads | `unnamed/part_000:501-545` | `RestoreProgress` | partly (the restore engine is from the spec) |
| `GetBackup` by id, `ListBackups`, `Check` | `unnamed/part_000` | none | not modelled: read-only, or I/O only |
| What `executeCreateBackup` promises | `:586-699` | `BackupLifecycle` (abstract), `BackupCreateLifecycle` (mapping) | modelled |
| Context construction, lazy clients, worker pools | `unnamed/part_000:77-210` | `BackupCreate` (`Init`: the empty `BackupContext` of lines 126-137) | partly: the clients and pools themselves are not modelled |
| paramtable configuration, CLI commands | `core/...:987-1396`, `cmd/restore.go`, `unnamed/part_001` | none | not modelled: configuration reading and flag parsing, no concurrent state |

### How the parts interact

A `CreateBackup` call first checks, outside any lock, that nothing exists
under `backupRoot/<name>`. It then records the backup as INITIAL and runs
`executeCreateBackup`. If the request is async, that runs in a goroutine.

`executeCreateBackup` takes `BackupContext.mu`, pauses the Milvus GC (best
effort) and parses the collection list. It then runs `backupCollectionPrepare`
under `retry.Do(128)`. That function runs:

1. `GetPersistentSegmentInfo`.
2. `FlushV2`.
3. `GetPersistentSegmentInfo` again.

It keeps the flushed segments that appear in either snapshot. With `force`,
it takes one snapshot and no flush.

The execute wave calls `copySegments`. For each segment, this lists the
segment's insert and delta binlogs (`fillSegmentBackupInfo`) and submits a
`copySegment` job to the copy pool. It then waits for the jobs.

The backup is then marked Success and the manifest is written. The deferred
calls resume the GC and release the mutex.

The cluster acts concurrently throughout: inserts, seals, compaction, and
garbage collection of dropped segments.

## The module `BackupCreate`

State (`VARIABLES`):

- **Cluster and its object store:**
  - `segState`: None, Growing, Sealed or Dropped.
  - `segRows`: the rows each segment holds. A row is an insert batch.
  - `srcStore`: the binlogs present. A binlog is `<<segment, "insert"|"delta">>`.
  - `gcPaused`.
- **Backup bucket:**
  - `dstStore`: copied files, as `<<name, segment, kind>>`.
  - `manifest`: name to manifest record.
- **`BackupContext.mu`:** `mu`.
- **Per request:**
  - `pc`: the goroutine's program point.
  - `force`.
  - `state`: the MetaManager state code.
  - `attempts`: failed prepare attempts.
  - `before`, `flushIds`: the before-flush snapshot and the flush result.
  - `cut`: a ghost variable, the rows inserted when the flush returned.
  - `segs`: the selected segments.
  - `warned`: the "not exist" warning was logged.
  - `toFill`.
  - `binlogs`: what the fill recorded.
  - `copying`, `remain`: running copy jobs and the binlogs they still have to copy.
  - `jobErr`.
  - `backuped`: segments whose `Backuped` flag is set.

Actions, in code order:

- `CheckName`: the exists check, validation, `GetVersion` and `AddBackup`.
  Failing early returns go to Done.
- `Lock`: `mu.Lock` and `pauseMilvusGC`.
- `Parse`: `parseBackupCollections`, which may fail.
- `SnapshotBefore`, `Flush`, `SnapshotAfter`, or `SnapshotForce` with `force`:
  the steps of `backupCollectionPrepare`.
  - `Unfilled` is the `segmentDict` filter.
  - `Unmatched` is the set of flushed ids behind the warning.
- `PrepareFail`: a failed RPC of the prepare. It is counted by `CountFailure`
  and retried from the start while `RetryLeft`, and otherwise fails the
  backup. A failed Flush may still have sealed segments.
- `Fill(r, s)`: `fillSegmentBackupInfo` and the job submission. Its error path
  is the early return of `copySegments`, which does not wait for the jobs.
  On success the insert and delta binlogs it records may each come out empty:
  the error of the per-field insert listing (line 901) is dropped, and a
  failed delta listing is logged and skipped.
- `CopyStep(r, s)`: one step of a copy job. It is one of:
  - `CopyOne`: Exist, then the retried Copy.
  - `CopyError`.
  - `CopyMissingInsert`: the `return err` with nil err at line 810.
  - `CopyFinish`: `Backuped = true`.
- `WaitCopy`: `WaitJobs`.
- `SetSuccess`: line 684.
- `WriteMeta`: `writeBackupInfoMeta`, whose Write errors are ignored.
  `Release` is the deferred resume and Unlock. `FailBackup` is
  `UpdateBackup(FAIL)` plus return.

The cluster actions (`Insert`, `AutoSeal`, `Compact`, `GarbageCollect`,
`PauseExpires`) are modelled from the spec's VectorDB capability. That code
is not in this repository.

## The abstract module `BackupLifecycle` and its refinement

`BackupLifecycle` states what a create request promises, without the
prepare and copy steps. Its state is:

- `status`: the state code of each request's backup;
- `inside`: the requests inside `executeCreateBackup`.

Its actions are `Register` (`AddBackup` as INITIAL), `Acquire` (the mutex,
when free), `Abort` (FAIL and release), `Succeed` (Success while holding)
and `Leave` (release after Success). Weak fairness of each request's
`Progress` says a registered backup reaches a final state.

`BackupCreateLifecycle` maps `BackupCreate` onto it:
`status <- state`, `inside <- {r : Holding(r)}`. The `live` run checks
`LifecycleRefinement == Lifecycle!Spec`, fairness included, and
`BackupCreateProofs` proves its safety part (below), from the lemma
`StateCodeInv` that ties each program point to its state code.

## The module `PathRewrite`

This module models the paths of the copy jobs. A path is a sequence of
tokens: a digit "0".."9", the separator "/", or a word without digits.

- `FormatInt` is `strconv.FormatInt`.
- `FillRoot`, `LogDir` and `LogPath` build the paths that
  `fillSegmentBackupInfo` lists.
- `BackupPath` is `backupPathFunc`.
- `GroupPath` is the replace at line 789 of the first partition id by
  `<partition>/<group>`, with group = segment id.

Go's `strings.Replace(s, old, new, 1)` is `ReplaceFirstSubSeq(new, old, s)`
of SequencesExt.

The state has three parts:

- the backup name;
- the Milvus root path;
- the set of segments whose `CopySegment` ran. Its guard is the
  "can not be the same" error.

`IdAssumption` states what Milvus' allocator gives:

- ids are positive;
- segment ids are unique;
- a partition lies in one collection and has a larger id than it.

The instance uses four segments. Their ids include 3, 13, 31 and 34, so that
one id's digits occur inside another's. The candidate names are "n", "n3", "n13"
and "3n". `Init` keeps only those `ValidName` accepts. That is
`utils.ValidateType`, whose code is not under `src/`: the first character
must be a letter, so "3n" is never a backup name. The roots are "", "files" and "f3".

## The modules `BackupAdmin` and `RestoreProgress`

`BackupAdmin` extends `BackupCreate` with clients. Each client calls
`DeleteBackup` and then `GetBackup` by name, concurrently with the create
requests. Neither call takes the mutex.

- `DeleteGet` is the `GetBackup` at line 409. `GetBackupCodes` answers
  Success from the MetaManager or the manifest. It answers NotFound otherwise,
  or when a manifest read fails.
- `DeleteRemove` is the unconditional `RemoveWithPrefix` and the response
  (lines 412-445). A failed remove may have removed any part of the files.
- `GetAfterDelete` is the client's second `GetBackup`.

`RestoreProgress` models `GetRestore` over the restore tasks:

- `AddRestoreTask` and `RestoreSegment` come from the spec; that engine is
  not in `src/`.
- `nanInt` is the build's `int32(NaN)`: MinInt32 on amd64, 0 on arm64. Go
  leaves this conversion to the implementation.

## Runs

The `BackupCreate` runs use `MC_BackupCreate.tla` with model values, and `PrepareAttempts = 2`.
Two attempts reach both the retry and the give-up branch of `retry.Do`.

| Run | Instance | Checks | Result |
|---|---|---|---|
| `cut` | 1 request, 4 segments, 2 rows, GC pause on; symmetry on segments and rows | `TypeOK`, `CutExcludesLaterRows`, `CutCoversEarlierRows`, `BackupedImpliesCopied`, the proof invariants `FlushCutInv`, `CopyInv` and `CoverInv`, and the action property `SuccessRecordFrozen` | pass, 488,512 states |
| `live` | 2 requests for one name, 2 segments, 1 row; no symmetry (liveness) | `ExclusiveExecute`, `Termination`, `LifecycleRefinement` | pass, 786,632 states |
| `namerace` | 2 requests, 2 segments, 1 row | `SuccessNamesUnique` | violated |
| `successmeta` | as `cut` | `SuccessImpliesManifest` | violated |
| `missingbinlog` | 1 request, GC pause requested (it may fail or expire) | `SuccessImpliesCopied` | violated |
| `fieldlist` | 1 request, GC not paused | `SuccessRecordsInsertLogs` | violated |
| `orphan` | 1 request, GC not paused | `TerminalBackupFrozen` | violated |
| `inject` (`MC_PathRewrite`) | 4 segments, 2 fields, 3 valid names, 3 roots | `DestinationsInjective` | pass, 144 states |
| `layout` (`MC_PathRewrite`) | as `inject` | `LayoutMatches` | violated |
| `deleteget` (`MC_BackupAdmin`) | 1 request, 1 client, small cluster | `DeleteThenGetNotFound` | violated |
| `percent` (`MC_RestoreProgress`) | 1 task, ids {task, unknown, ""}, sizes 0..2 | `ProgressIsPercent` | violated |

Why these bounds are enough:

- **The cut runs** need four segment ids. That allows one growing segment,
  one segment sealed between the two snapshots, and two compaction targets.
  Two rows separate "before the flush" from "after the flush". Every
  interleaving of seal and compaction around the three prepare RPCs is then
  reachable.
- **The two-request runs** need only one segment per flush, so they use
  smaller sets. This keeps the liveness graph small.

Fairness: the model assumes weak fairness of each request's goroutine
(`Request(r)`) and of its copy jobs (`CopyJobs(r)`). Go schedules runnable
goroutines and pool workers. The cluster gets no fairness, because the
backup must not depend on the cluster doing anything. `Idle` is the service
with every request returned; it is not a deadlock.

Every property of the passing runs has a mutant, a plausible bug that TLC
catches:

| Mutant | Property it breaks |
|---|---|
| an off-by-one retry bound | `TypeOK` |
| no `segmentDict` filter | `CutExcludesLaterRows`, `FlushCutInv` |
| scanning only the after-flush snapshot | `CutCoversEarlierRows`, `CoverInv` |
| `WaitJobs` returning with copy jobs still running | `SuccessRecordFrozen` |
| `Backuped` set before the loops end | `BackupedImpliesCopied` |
| an abandoned copy job still counted as running | `CopyInv` |
| `Lock` without the mutex guard | `ExclusiveExecute` |
| an uncounted retry | `Termination` |
| a failed name check that goes on to execute | `LifecycleRefinement` |
| a binlog path without its field directory (`PathRewrite`) | `DestinationsInjective` |

## Findings

1. **Duplicate backup names** (`namerace`). The exists check (line 58) runs
   outside the mutex, and nothing is written under the name until the copy
   jobs run. Two requests for one name both reach Success and write into
   one directory.
2. **Success without a manifest** (`successmeta`). Line 684 sets Success
   before `writeBackupInfoMeta`, and the Write errors at lines 729-734 are
   dropped. `executeCreateBackup` returns (pc `Done`) with its backup
   Success and no manifest written.
3. **A missing insert binlog is skipped silently** (`missingbinlog`). At
   line 810 the job returns the nil `err` of a successful `Exist`. When GC
   removes a compacted segment's files after the fill, the backup reaches
   Success without them. The GC pause is requested in this run; it is best
   effort, and it may fail or expire. The delta branch (line 855) returns an
   error for the same case.
4. **Orphaned copy jobs** (`orphan`). A fill error returns from
   `copySegments` (line 755) without waiting for the jobs already submitted.
   They keep writing under the name after the backup is Fail and the mutex
   is released.
5. **Binlogs outside the backup's layout** (`layout`). The group-id replace
   (line 789) replaces the first occurrence of the partition id's digits
   anywhere in the path. It does not only replace the partition directory.
   Take the valid backup name "n3" at root "" with partition 3 and segment 4.
   The files go to `backup/n3/4/binlogs/insert_log/1/3/<seg>/...`: the group
   directory lands inside the name, and is missing under the partition.
   `inject` shows the targets stay distinct under the allocator's id rules.
6. **A failed field listing empties the segment** (`fieldlist`). Line 901
   drops the error of `ListWithPrefix` on a field directory. The field is
   recorded with no binlogs, and the backup reaches Success without the
   segment's insert data.
7. **Delete is not seen by Get** (`deleteget`). `DeleteBackup` removes the
   files and the manifest but never the MetaManager entry. `GetBackup`
   reads that entry first, so it still answers Success.
8. **`GetRestore` panics on an unknown id** (no run). Line 534 writes
   `task.Progress` before the nil check at line 535. The model answers
   "Panic" there. A run would add nothing to reading those lines.
9. **Progress of an empty restore** (`percent`). 0/0 in float32 is NaN.
   Its `int32` conversion is -2147483648 on amd64, which is not a
   percentage. That restore progress stays in 0..100 otherwise is only
   model-checked on sizes 0..2: the model's integer division is the code's
   float32 division only while sizes stay below 2^24 / 100 bytes, far below
   real segment sizes.

## Proofs (checked by `tlapm`)

Four modules hold proofs:

- `BackupCreateProofs` and `BackupCreateCoverProofs`: the create pipeline.
- `BackupLifecycleProofs`: the abstract lifecycle.
- `BackupAdminProofs`: delete and get.

All the proofs hold for every value of the constants.

Every invariant and the action property that the `cut` run checks is proved
for all values of the constants. Each proof below names the inductive invariant
it rests on; the `cut` run checks that invariant too. The lemmas
`StateCodeInv` and `DrainInv` are proved along the way and checked by no run.

**`TypeCorrect == Spec => []TypeOK`** holds for all values of the constants,
under the assumptions `NameAssumption`, `AttemptsAssumption` and
`GcAssumption`. `TypeOK` alone is not inductive: a request at the prepare
step with `attempts = PrepareAttempts` would step past the bound.

The inductive invariant is `IInv == TypeOK /\ AttemptsBound`. A request that
has not returned has an attempt left. The proof has these parts:

- `InitIInv`.
- `NextIInv`, with one step per action. `PrepareFail` and `Fill` are split
  by path, and `CopyStep` by outcome.
- A PTL step.

**`MutualExclusion == Spec => []ExclusiveExecute`** says the mutex admits at
most one request into `executeCreateBackup`, and `mu` is held exactly while
one is inside. It is proved inductive together with `IInv`. Every
`FailBackup` return and `WriteMeta` releases the mutex from the only holder.

**`CutSafety == Spec => []CutExcludesLaterRows`** is the upper side of the
consistency cut. It rests on `FlushCutInv`, which the `cut` run also checks.
`FlushCutInv` says:

- Every id the last flush returned names a sealed or dropped segment.
- Those segments' rows were all inserted before the flush returned.
  Compaction writes only fresh segments, inserts go only to growing ones,
  and sealing never changes rows.
- The force snapshot is reached only with `force`.
- A flushed backup's segments are among the flushed ids.
- A request still at its name check has no MetaManager state. This is needed
  because the early return of that check leaves `state` alone.

**`CutCompleteness == Spec => []CutCoversEarlierRows`** is the lower side
of the cut. It is in `BackupCreateCoverProofs.tla`. It says that, unless the
prepare logged that a flushed id is in neither snapshot, a flushed backup
records a segment holding every row inserted before its flush returned. It
rests on `CoverInv` (theorem `CoverInvariant`), proved inductive relative to
`IInv` and `FlushCutInv`. `CoverInv` says:

- Every inserted row is in a growing or sealed segment. Compaction drops its
  sources only after writing their rows to the new segment, and GC drops only
  dropped segments. So the cluster never loses a row (`NextRowsLive`).
- After the flush, every row in the cut is in a segment the flush returned,
  because `FlushV2` seals every growing segment.
- The property itself. Its step rests on two lemmas. `FlushedRowsStable`:
  a sealed or dropped segment's rows never change. `UnfilledIsFlushed`: with
  no warning, the segments the backup keeps are exactly the flushed ids.

The lemma `DrainInv` says a request past `WaitJobs`, a Success backup
included, has no copy job running.
**`SuccessFrozen == Spec => SuccessRecordFrozen`** is an action property.
Once a backup is Success, no step changes its recorded segments, binlogs,
Backuped flags or jobs. The proof is the lemma
`IInv /\ StateCodeInv /\ DrainInv /\ [Next]_vars => [A]_vars`, one case per
action, followed by a PTL step. It depends on `StateCodeInv`, which ties
Success to the program points after `SetSuccess`. It also depends on
`DrainInv`, which says no job is left to write `Backuped` or `GroupId` from
a pool worker. So `writeBackupInfoMeta` reads a record that this backup's
own jobs no longer touch.

Only model-checked: the liveness property `Termination`. TLAPS cannot
reason about `ENABLED` and fairness, which it needs.

**`BackupedCopied == Spec => []BackupedImpliesCopied`** rests on `CopyInv`.
For each request, `CopyInv` says:

- Before the execute wave, nothing is recorded and no job runs.
- A segment still to fill has no job and no recorded binlog. This keeps a
  second fill from adding uncopied binlogs to a finished segment.
- A running job has copied every recorded binlog of its segment that it no
  longer has to copy.
- A Backuped segment has all its binlogs copied.

The backup bucket only grows, so copies made by other requests' jobs never
undo this.

**`LifecycleImplemented == Spec => LifecycleSafety`** proves the safety
part of the refinement: `Lifecycle!Init /\ [][Lifecycle!Next]_Lifecycle!avars`.

- `InitState` and `NextState` prove `StateCodeInv` inductive relative to
  `IInv`.
- `NextLifecycle` maps every step to an abstract step or a stutter:
  - `CheckName`'s success is `Register`;
  - `Lock` is `Acquire`;
  - a `FailBackup` at one of the `FailingPcs` is `Abort`;
  - `SetSuccess` is `Succeed`;
  - the release after `WriteMeta` is `Leave`;
  - every other step leaves `state` and the holder alone.
- It needs `ExclusiveExecute`, so that "the holder" is one request, and
  `StateCodeInv`, so that a failing request is still INITIAL.

**The lifecycle's guarantees, proved once and inherited.**
`BackupLifecycleProofs` proves two theorems of the abstract specification's
safety part, `SafeSpec`:

- `SlotSafety`: `SafeSpec => []SlotHeld`. The slot has at most one holder,
  and that holder's backup is Initial or Success. It is inductive together
  with the type, `LInv`.
- `StatusSafety`: `SafeSpec => StatusAdvances`. A state code moves only along
  `Advance` (None -> Initial -> Success or Fail). Only the slot holder makes
  a backup Success or Fail.

`BackupCreateProofs` instantiates that module under the refinement mapping
(`LP`). `LifecycleImplemented` proves `Spec => LifecycleSafety`, so the same
facts hold for CreateBackup with no new induction over its actions:

- `HolderNotFailed`: the holder of `BackupContext.mu` is one request, and its
  MetaManager state code is Initial or Success.
- `StateAdvances`: the MetaManager state code never goes back. Success and
  Fail are final. Only the mutex holder finishes its backup.

**`DeleteUndoneOnlyByMeta`** (`BackupAdminProofs`) assumes that every client
deletes one of the backup names. It proves
`AdminSpec => []DeleteThenGetUnlessInMeta`. Suppose `DeleteBackup` answered
Success and the client's next `GetBackup` still finds the backup. Then the
name is registered in the MetaManager, by an entry that `DeleteBackup` never
removes. The `deleteget` finding is therefore the only way the delete goes
unseen. A manifest that a concurrent CreateBackup rewrote never reaches
`GetBackup` without such an entry. The inductive invariant `AInv` has four
parts:

- the CreateBackup invariants `IInv`, `ExclusiveExecute` and `StateCodeInv`;
- the clients' type;
- `ManifestRegistered`: every manifest belongs to a registered name;
- `FoundRegistered`.

`ManifestRegistered` rests on two lemmas:

- `ManifestWrite`: only `WriteMeta` writes a manifest, and it writes it for
  a Success backup.
- `RegisteredStable`: a registered name stays registered. This lemma uses
  the refinement. `NextLifecycle` maps each step to a lifecycle step, and
  `LP!NextAdvances` says that no lifecycle step returns a code to None.

No run checks `DeleteThenGetUnlessInMeta`. The `deleteget` run checks the
property the spec states and the code violates. TLC checked the formula on
the `deleteget` instance before it was proved.

Only model-checked:

- **The fairness part of `LifecycleRefinement`.** It is liveness, which needs
  `ENABLED` and fairness reasoning beyond TLAPS.
- **Everything about `PathRewrite`.** `PathRewrite` uses the RECURSIVE
  `FormatInt`, and `tlapm` loses its SMT backend in a module that reaches a
  RECURSIVE operator. `DestinationsInjective` is also about what a recursive
  definition computes for every input. That would need induction over data,
  which the installed provers cannot instantiate.

## Plan for the parts not yet modelled

- A property for `DeleteBackup`'s answer after a transient manifest read
  error. The spec does not say what it should be.
- Several collections with the collection worker pool and the shared
  `jobIds` of the two waves.
