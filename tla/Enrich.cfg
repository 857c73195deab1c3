SPECIFICATION Spec
CONSTANTS
    Line <- MCLine
    Cell = 4
    Window = 2
    RoundsUp = {2}
    EmptyDay <- MCEmptyDay
    Blank = Blank
    NaN = NaN
    Dropped = Dropped
    NoToken = NoToken
    None = None
    Log1p <- MCLog1p
    RelevanceReply <- MCRelevanceReply
    SeverityReply <- MCSeverityReply
    CategoryReply <- MCCategoryReply
    SummaryReply <- MCSummaryReply
INVARIANTS
    EmittedIsComplete
    MarginalNeedsRegressor
    SameIdIsNear
    KeywordsReachTheLlm
    TellsNotOutvoted
CHECK_DEADLOCK FALSE
