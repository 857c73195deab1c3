SPECIFICATION MemSpec
CONSTANTS
    i1 = i1
    i2 = i2
    i3 = i3
    p = p
    q = q
    r1 = r1
    r2 = r2
    NoRow = NoRow
    None = None
    Id <- MCId
    Content <- MCContent
    Place <- MCPlace
    Ref <- MCRef
    Batch <- MCBatch
    Query <- MCQuery
    MaxTime = 2
    MAX_LIMIT = 2
    DEFAULT_LIMIT = 1
INVARIANTS
    MemTypeOK
    ListsAsSql
    AnswerBounded
PROPERTY MemImplementsEventStore
