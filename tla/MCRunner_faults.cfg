CONSTANTS
    Procs = {p1, p2}
    Nobody = Nobody
    Migration <- MCRollback
    Faults <- MCAllFaults
    TimelyHeartbeats = TRUE
SPECIFICATION FairSpec
CHECK_DEADLOCK FALSE
INVARIANTS
    LatestIsNewest
    CompletedIsApplied
    DoneMeansCompleted
PROPERTIES
    EveryCommandReturns
    StatementsRunOut
    ImplementsLock
