SPECIFICATION Spec
CONSTANTS
    Attempts = 3
    Timeout = 2
    MaxTime = 11
INVARIANT CountsEveryCall
CHECK_DEADLOCK FALSE
