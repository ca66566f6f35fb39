CONSTANTS
    a1 = a1
    a2 = a2
    r1 = r1
    r2 = r2
    AppTasks = {a1, a2}
    EventTasks = {r1, r2}
    MaxCount = 4
    UseBackup = TRUE
    SkipFrames = 0
    Reprocess = FALSE
    Timed = TRUE
    Faults = {"alloc", "stop", "restart"}
    Careless = {}
SPECIFICATION Spec
INVARIANTS
    TypeOK
    FreeFlagSound
    ExclusiveOwnership
    NoBufferLost
    SemAccounting
    ReservedForDriver
PROPERTIES
    StorageOutlivesController
    FifoSpec
