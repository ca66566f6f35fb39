CONSTANTS
    a1 = a1
    a2 = a2
    l = l
    AppTasks = {a1, a2}
    Listener = l
    MaxReference = 2
    EventQueueSize = 2
    MaxSequence = 3
    Faults = {"init", "deinit", "stop", "restart"}
SPECIFICATION FairSpec
INVARIANTS
    TypeOK
    HardwareExact
    IsrQueueAlive
    EventsExact
PROPERTIES
    CallsReturn
    ListenerReleased
