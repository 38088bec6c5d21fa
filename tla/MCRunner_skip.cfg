CONSTANTS
    Procs = {p1, p2}
    Nobody = Nobody
    Migration <- MCExpandContract
    Faults <- MCNoFaults
    TimelyHeartbeats = TRUE
SPECIFICATION Spec
CHECK_DEADLOCK FALSE
PROPERTY CompletedIsSkipped
