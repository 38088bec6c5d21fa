CONSTANTS
    Timeout = 20
    PollInterval = 2
    BackoffCap = 5
    QueryTime = 1
SPECIFICATION Spec
CHECK_DEADLOCK FALSE
INVARIANT
    TransientIsRetried
