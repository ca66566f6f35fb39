CONSTANTS
    t1 = t1
    t2 = t2
    AppTasks = {t1, t2}
    MaxCount = 2
    MaxAddr = 2
    Preempting = {TRUE, FALSE}
SPECIFICATION FairSpec
INVARIANTS
    FramesAccounted
    ReturnsToOpenStream
PROPERTY
    StreamStops
