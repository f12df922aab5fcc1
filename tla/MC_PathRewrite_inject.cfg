\* Every binlog of every segment, for each backup name and Milvus root path.
CONSTANTS
    Segments <- MCSegments
    Fields <- MCFields
    LogIds <- MCLogIds
    BackupRoot <- MCBackupRoot
    Names <- MCNames
    RootPaths <- MCRootPaths
SPECIFICATION Spec
INVARIANTS
    DestinationsInjective
CHECK_DEADLOCK FALSE
