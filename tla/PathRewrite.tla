---------------------------- MODULE PathRewrite ----------------------------
(***************************************************************************)
(* The object paths of a backup's copy jobs: where fillSegmentBackupInfo   *)
(* finds a segment's binlogs in the Milvus bucket, and where copySegment   *)
(* writes them in the backup bucket (backupPathFunc, then the group-id     *)
(* strings.Replace).                                                       *)
(*                                                                         *)
(* A path is a sequence of tokens: a decimal digit is a string "0".."9",  *)
(* the separator is "/", and a word without digits ("insert_log") is one   *)
(* token.  Go's strings.Replace(s, old, new, 1) is                         *)
(* ReplaceFirstSubSeq(new, old, s) of SequencesExt, which also replaces    *)
(* the empty string at the front as Go does.                               *)
(***************************************************************************)
EXTENDS Naturals, Sequences, SequencesExt, FiniteSets

CONSTANTS
    Segments,   \* the backup's segments: records [coll, part, id]
    Fields,     \* field ids of the field-log directories
    LogIds,     \* binlog object names, which are numbers
    BackupRoot, \* params.MinioCfg.BackupRootPath, a token sequence
    Names,      \* backup names the request may carry
    RootPaths   \* values params.MinioCfg.RootPath may have (<<>> is "")

(* Ids come from Milvus' global allocator, which is not in this repository:
   they are positive, a segment id names one segment, a partition lies in
   one collection, and a partition id is allocated after its collection's. *)
ASSUME IdAssumption ==
    /\ \A s \in Segments : s.coll \in Nat \ {0} /\ s.part \in Nat \ {0}
                           /\ s.id \in Nat \ {0} /\ s.coll < s.part
    /\ \A s, t \in Segments : (s.id = t.id => s = t)
                              /\ (s.part = t.part => s.coll = t.coll)

VARIABLES
    name,        \* request.GetBackupName()
    milvusRoot,  \* b.milvusRootPath = params.MinioCfg.RootPath
    done         \* segments whose copySegment job wrote its binlogs

vars == <<name, milvusRoot, done>>

Kinds == {"insert_log", "delta_log"}

Sep == <<"/">>

Digit == <<"0", "1", "2", "3", "4", "5", "6", "7", "8", "9">>

(* strconv.FormatInt(n, 10) and the %v verb of fmt.Sprintf on an int64. *)
RECURSIVE FormatInt(_)
FormatInt(n) ==
    IF n < 10 THEN <<Digit[n + 1]>> ELSE FormatInt(n \div 10) \o <<Digit[(n % 10) + 1]>>

(* The rootPath of fillSegmentBackupInfo: RootPath + "/", or "". *)
FillRoot(mr) == IF mr = <<>> THEN <<>> ELSE mr \o Sep

(* insertPath / deltaLogPath: "%s%s/%v/%v/%v/" of the root, the kind and
   the collection, partition and segment ids. *)
LogDir(mr, kind, seg) ==
    FillRoot(mr) \o <<kind>> \o Sep \o FormatInt(seg.coll) \o Sep
        \o FormatInt(seg.part) \o Sep \o FormatInt(seg.id) \o Sep

(* Mutant: the recorded binlog path loses its field directory. *)
LogPathNoFieldDir(mr, kind, seg, f, l) == LogDir(mr, kind, seg) \o FormatInt(l)

(* A listed binlog: the field directory "<dir><field>/" and the object. *)
LogPath(mr, kind, seg, f, l) == LogDir(mr, kind, seg) \o FormatInt(f) \o Sep \o FormatInt(l)

(* BackupBinlogDirPath(backupRootPath, name): "<root>/<name>/binlogs". *)
BackupBinlogDirPath(br, nm) == br \o Sep \o nm \o Sep \o <<"binlogs">>

(* backupPathFunc: prefix the binlog path when the Milvus root is "",
   otherwise replace the first occurrence of the root by dstPath. *)
BackupPath(binlogPath, rootPath, dstPath) ==
    IF rootPath = <<>> THEN dstPath \o Sep \o binlogPath
    ELSE ReplaceFirstSubSeq(dstPath, rootPath, binlogPath)

(* segment.GroupId = segment.SegmentId, then, as GroupId # 0, the first
   occurrence of the partition id becomes "<partition>/<group>". *)
GroupPath(targetPath, seg) ==
    LET groupId == seg.id
    IN  IF groupId # 0
        THEN ReplaceFirstSubSeq(FormatInt(seg.part) \o Sep \o FormatInt(groupId),
                                FormatInt(seg.part), targetPath)
        ELSE targetPath

(* The target path of one binlog of a copySegment job. *)
TargetPath(nm, mr, kind, seg, f, l) ==
    GroupPath(BackupPath(LogPath(mr, kind, seg, f, l), mr,
                         BackupBinlogDirPath(BackupRoot, nm)), seg)

(* The binlogs a segment's job copies: insert and delta logs of each field. *)
Binlogs(seg) == {<<seg, k, f, l>> : k \in Kinds, f \in Fields, l \in LogIds}

Source(b) == LogPath(milvusRoot, b[2], b[1], b[3], b[4])

Target(b) == TargetPath(name, milvusRoot, b[2], b[1], b[3], b[4])

Copied == UNION {Binlogs(seg) : seg \in done}

(* utils.ValidateType(name, BACKUP_NAME) of CreateBackup (line 74; the
   validator is not in this repository, the spec gives its rule): a name
   is not empty and its first character is a letter, not a digit. *)
ValidName(nm) == Len(nm) > 0 /\ nm[1] \notin {Digit[i] : i \in 1..10}

Init ==
    /\ name \in {nm \in Names : ValidName(nm)}
    /\ milvusRoot \in RootPaths
    /\ done = {}

(* copySegment(seg): every binlog's target differs from its source (the
   "can not be the same" error otherwise returns with nothing copied) and
   is written. *)
CopySegment(seg) ==
    /\ seg \notin done
    /\ \A b \in Binlogs(seg) : Target(b) # Source(b)
    /\ done' = done \cup {seg}
    /\ UNCHANGED <<name, milvusRoot>>

Next == \E seg \in Segments : CopySegment(seg)

Spec == Init /\ [][Next]_vars

-----------------------------------------------------------------------------

(* Two different binlogs of the backup, of one segment or of two, are never
   written to one object: copySegment's rewrite keeps the backup's files
   apart for every backup name and Milvus root path. *)
DestinationsInjective ==
    Cardinality({Target(b) : b \in Copied}) = Cardinality(Copied)

(* The layout of the spec (section "Persisted layout"): every binlog lands at
   <backupRoot>/<name>/binlogs/<kind>/<coll>/<part>/<group>/<seg>/<field>/<file>. *)
LayoutMatches ==
    \A b \in Copied :
        Target(b) = BackupBinlogDirPath(BackupRoot, name) \o Sep \o <<b[2]>> \o Sep
                        \o FormatInt(b[1].coll) \o Sep \o FormatInt(b[1].part) \o Sep
                        \o FormatInt(b[1].id) \o Sep \o FormatInt(b[1].id) \o Sep
                        \o FormatInt(b[3]) \o Sep \o FormatInt(b[4])
=============================================================================
