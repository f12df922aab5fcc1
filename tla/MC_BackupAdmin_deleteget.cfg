\* A client deletes a finished backup and asks for it again.
CONSTANTS
    r1 = r1  r2 = r2  n1 = n1  a1 = a1
    s1 = s1  s2 = s2  s3 = s3  s4 = s4
    w1 = w1  w2 = w2
    NoManifest = NoManifest
    Requests <- OneRequest
    Names <- MCNames
    ReqName <- MCReqName
    Admins <- OneAdmin
    AdminName <- MCAdminName
    Segs <- MCSegsSmall
    Rows <- MCRowsSmall
    PrepareAttempts = 2
    GcPauseEnable = TRUE
SPECIFICATION AdminSpec
INVARIANT DeleteThenGetNotFound
