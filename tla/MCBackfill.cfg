CONSTANTS
    MaxId = 5
    FirstIds <- MCFirstIds
    Size = 2
    CheckpointEvery = {1, 2}
    Executions = 2
    MaxLagEvents = 2
SPECIFICATION FairSpec
CHECK_DEADLOCK FALSE
INVARIANTS
    NothingLeftBehind
    SuccessMeansDone
    BackoffForgets
    ReportedIsLeft
PROPERTIES
    EveryBackfillEnds
    BatchesRunOut
