SPECIFICATION ReadSpec
CONSTANTS
    i1 = i1
    x = x
    p = p
    r1 = r1
    NoRow = NoRow
    None = None
    Caller = {c1, c2}
    Request = {q1, q2}
    PoolSize = 2
    MaxTime = 2
    Interval = 1
    Retention = 1
    MonthLength = 2
    MaxRaw = 1
    CallCounts = {1}
    Id <- MCId
    Content <- MCContent
    Place <- MCPlace
    Ref <- MCRef
    Batch <- MCBatch
INVARIANT IngestLeavesClients
PROPERTY ReadsServed
