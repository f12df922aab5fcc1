\* GetRestore of a task with nothing to restore.
CONSTANTS
    t1 = t1  u1 = u1
    Empty = Empty
    NoTask = NoTask
    TaskIds <- MCTaskIds
    Ids <- MCIds
    MaxSize = 2
SPECIFICATION Spec
INVARIANT ProgressIsPercent
