CONSTANTS
    Halves = 3
    QueueSize = 3
    MayBeLate = FALSE
SPECIFICATION FairSpec
INVARIANTS
    FrameIntact
    DeletedIsQuiet
PROPERTIES
    FramesDelivered
