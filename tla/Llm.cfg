SPECIFICATION FairSpec
CONSTANTS
    Attempts = 3
    Timeout = 2
    MaxTime = 11
INVARIANTS
    SettlesInTime
    ZombiesEnd
    UndercountBounded
    AnswerIsCurrent
PROPERTIES
    ImplementsWithResilience
    PromptSettles
CHECK_DEADLOCK FALSE
