CONSTANTS
    Procs = {p1, p2}
    Nobody = Nobody
    Migration <- MCExpandContract
    Faults <- MCNoFaults
    TimelyHeartbeats = FALSE
SPECIFICATION Spec
CHECK_DEADLOCK FALSE
PROPERTY LostLockStopsPhase
