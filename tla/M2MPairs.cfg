CONSTANTS
    t1 = t1
    t2 = t2
    Task = {t1, t2}
    MaxCount = 2
    Session = TRUE
    Timed = TRUE
    Faults = {"alloc", "start", "stop"}
SPECIFICATION FairSpec
INVARIANTS
    EveryBufferOnce
    CaptureNeverWaits
    PairsMatch
PROPERTIES
    CaptureReturns
