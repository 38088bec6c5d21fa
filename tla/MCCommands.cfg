CONSTANTS
    Procs = {p1, p2}
    Nobody = Nobody
    Migration <- MCMigration
    Faults <- MCCrash
    TimelyHeartbeats = TRUE
    Targets <- MCTargets
SPECIFICATION CommandsSpec
CHECK_DEADLOCK FALSE
SYMMETRY Symmetric
VIEW View
INVARIANTS
    TypeOK
    MutualExclusion
    DoneLeavesNoLock
    StatusIsOfOneMoment
    WarningIsTrue
    UndoneFromTheEnd
    MissingIsUndone
PROPERTY GcKeepsLive
