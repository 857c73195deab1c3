SPECIFICATION PgFairSpec
CONSTANTS
    i1 = i1
    i2 = i2
    x = x
    y = y
    p = p
    q = q
    r1 = r1
    r2 = r2
    NoRow = NoRow
    Id <- MCId
    Content <- MCContent
    Place <- MCPlace
    Ref <- MCRef
    Batch <- MCBatch
    MaxTime = 1
    Caller = {c1, c2}
    PoolSize = 2
INVARIANTS
    PgTypeOK
    TransactionsIsolated
    NoClientLeak
PROPERTIES
    ImplementsEventStore
    EveryCallSettles
