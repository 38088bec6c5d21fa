CONSTANTS
    Timeout = 20
    PollInterval = 2
    BackoffCap = 5
    QueryTime = 1
SPECIFICATION FairSpec
CHECK_DEADLOCK FALSE
INVARIANTS
    EndsInTime
    CountsTransients
PROPERTIES
    EveryGateReturns
    RoundsRunOut
