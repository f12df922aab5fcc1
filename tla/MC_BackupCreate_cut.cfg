\* The consistency cut of the prepare against sealing, compaction and GC.
CONSTANTS
    r1 = r1  r2 = r2  n1 = n1
    s1 = s1  s2 = s2  s3 = s3  s4 = s4
    w1 = w1  w2 = w2
    NoManifest = NoManifest
    Requests <- OneRequest
    Names <- MCNames
    ReqName <- MCReqName
    Segs <- MCSegs
    Rows <- MCRows
    PrepareAttempts = 2
    GcPauseEnable = TRUE
SPECIFICATION Spec
SYMMETRY Symmetry
INVARIANTS
    TypeOK
    CutExcludesLaterRows
    CutCoversEarlierRows
    BackupedImpliesCopied
    FlushCutInv
    CopyInv
    CoverInv
PROPERTY
    SuccessRecordFrozen
