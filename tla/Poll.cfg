SPECIFICATION PollFairSpec
CONSTANTS
    i1 = i1
    i2 = i2
    x = x
    y = y
    p = p
    r1 = r1
    r2 = r2
    NoRow = NoRow
    None = None
    Caller = {c1, c2}
    PoolSize = 2
    MaxTime = 3
    Interval = 1
    Retention = 1
    MonthLength = 2
    MaxRaw = 2
    CallCounts = {0, 1}
    Id <- MCId
    Content <- MCContent
    Place <- MCPlace
    Ref <- MCRef
    Batch <- MCBatch
INVARIANTS
    PollTypeOK
    AtMostOneCycle
    OneClientForIngest
    CallsAccounted
PROPERTIES
    CycleEnds
    StampsNeverRegress
    OnlyExpiredDeleted
    ReportedIngestIsStored
    ReportedIngestIsPruned
