SPECIFICATION Spec
CONSTANTS
    Movers = {0, 1}
    Batch = 2
    NumValues = 3
    MaxFailures = 2
    MaxKills = 1
    MaxTerms = 1
INVARIANTS AllAccounted OrderKept
PROPERTY StopEnds
CHECK_DEADLOCK FALSE
