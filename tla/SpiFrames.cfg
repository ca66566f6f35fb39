CONSTANTS
    b1 = b1
    b2 = b2
    b3 = b3
    Buffers = {b1, b2, b3}
    Spare = Spare
    None = None
    DropFrames = 1
    Configs <- AllConfigs
    Reusable = FALSE
SPECIFICATION FairSpec
INVARIANTS
    EachBufferOnce
    FrameIntact
    QueuesHaveRoom
PROPERTY
    FramesDelivered
