\* Two requests contend for the BackupContext mutex; every request returns.
CONSTANTS
    r1 = r1  r2 = r2  n1 = n1
    s1 = s1  s2 = s2  s3 = s3  s4 = s4
    w1 = w1  w2 = w2
    NoManifest = NoManifest
    Requests <- TwoRequests
    Names <- MCNames
    ReqName <- MCReqName
    Segs <- MCSegsSmall
    Rows <- MCRowsSmall
    PrepareAttempts = 2
    GcPauseEnable = TRUE
SPECIFICATION Spec
INVARIANT ExclusiveExecute
PROPERTIES
    Termination
    LifecycleRefinement
