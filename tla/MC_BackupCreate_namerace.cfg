\* Two requests for one name both pass the exists check before either writes.
CONSTANTS
    r1 = r1  r2 = r2  n1 = n1
    s1 = s1  s2 = s2  s3 = s3  s4 = s4
    w1 = w1  w2 = w2
    NoManifest = NoManifest
    Requests <- TwoRequests
    Names <- MCNames
    ReqName <- MCReqName
    Segs <- MCSegsSmall
    Rows <- MCRowsSmall
    PrepareAttempts = 2
    GcPauseEnable = FALSE
SPECIFICATION Spec
INVARIANT SuccessNamesUnique
