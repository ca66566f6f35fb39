CONSTANTS
    ae = ae
    hist = hist
    awb = awb
    r1 = r1
    r2 = r2
    Always = {ae, hist}
    Optional = {awb}
    MaxCount = 2
    QueueSize = 1
    Receivers = {r1, r2}
    Reinit = FALSE
SPECIFICATION FairSpec
INVARIANTS
    TypeOK
    OpenBufferExclusive
    DeletesOnlyUnused
PROPERTIES
    StatsAdjacent
    StatsKeepComing
