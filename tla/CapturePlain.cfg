CONSTANTS
    a1 = a1
    a2 = a2
    r1 = r1
    r2 = r2
    AppTasks = {a1}
    EventTasks = {}
    MaxCount = 3
    UseBackup = FALSE
    SkipFrames = 3
    Reprocess = TRUE
    Timed = TRUE
    Faults = {"alloc", "start", "stop"}
    Careless = {}
SPECIFICATION Spec
PROPERTY
    ReprocessedOnce
