CONSTANTS
    a1 = a1
    a2 = a2
    r1 = r1
    r2 = r2
    AppTasks = {a1}
    EventTasks = {r1}
    MaxCount = 2
    UseBackup = FALSE
    SkipFrames = 0
    Reprocess = FALSE
    Timed = TRUE
    Faults = {}
    Careless = {}
SPECIFICATION Spec
INVARIANT
    ExclusiveOwnership
