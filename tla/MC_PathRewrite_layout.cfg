\* The persisted layout of the spec, for the same names and root paths.
CONSTANTS
    Segments <- MCSegments
    Fields <- MCFields
    LogIds <- MCLogIds
    BackupRoot <- MCBackupRoot
    Names <- MCNames
    RootPaths <- MCRootPaths
SPECIFICATION Spec
INVARIANTS
    LayoutMatches
CHECK_DEADLOCK FALSE
