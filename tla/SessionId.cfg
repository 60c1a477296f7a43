SPECIFICATION FairSpec
CONSTANTS
    Span = 3
    MaxTime = 2
    MaxIssued = 5
INVARIANT
    NeverReused
PROPERTY
    LoopEnds
CHECK_DEADLOCK FALSE
