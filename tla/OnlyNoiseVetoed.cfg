SPECIFICATION Spec
CONSTANTS
    Line <- Attention
    Cell = 4
    Window = 2
    RoundsUp = {2}
    EmptyDay <- MCEmptyDay
    Blank = Blank
    NaN = NaN
    Dropped = Dropped
    NoToken = NoToken
    None = None
    Log1p <- MCLog1p
    RelevanceReply <- MCRelevanceReply
    SeverityReply <- MCSeverityReply
    CategoryReply <- MCCategoryReply
    SummaryReply <- MCSummaryReply
CHECK_DEADLOCK FALSE
INVARIANT OnlyNoiseVetoed
