SPECIFICATION FairSpec
CONSTANTS
    Vessel = {v1, v2}
    Socket = {s1, s2, s3}
    None = None
    MinDelay = 1
    MaxDelay = 3
    StaleAfter = 3
    PruneEvery = 2
INVARIANTS
    TypeOK
    OneConnection
    StopIsFinal
    VesselAgeBounded
PROPERTY StreamReconnects
