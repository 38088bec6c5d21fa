CONSTANTS
    Procs = {p1, p2}
    Nobody = Nobody
    Migration <- MCBackfillGate
    Faults <- MCLostAnswers
    TimelyHeartbeats = FALSE
SPECIFICATION Spec
CHECK_DEADLOCK FALSE
SYMMETRY Symmetric
INVARIANTS
    OneOwnerPerAttempt
    AttemptsDense
    AttemptLifecycle
    PhaseOrder
PROPERTY ImplementsLedger
