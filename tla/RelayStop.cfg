SPECIFICATION Spec
CONSTANTS
    Movers = {0, 1}
    Batch = 2
    NumValues = 2
    MaxFailures = 0
    MaxKills = 0
    MaxTerms = 1
PROPERTY SigtermEnds
CHECK_DEADLOCK FALSE
