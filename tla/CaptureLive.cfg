CONSTANTS
    a1 = a1
    a2 = a2
    r1 = r1
    r2 = r2
    AppTasks = {a1}
    EventTasks = {r1, r2}
    MaxCount = 3
    UseBackup = TRUE
    SkipFrames = 2
    Reprocess = FALSE
    Timed = FALSE
    Faults = {"alloc", "start", "stop", "restart"}
    Careless = {}
SPECIFICATION FairSpec
PROPERTIES
    ControlReturns
    WaiterServed
