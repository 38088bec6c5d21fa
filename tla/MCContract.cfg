CONSTANTS
    Script <- MCScript
    UndoScript <- MCUndoScript
    Executions = 3
    Retries = 3
SPECIFICATION Spec
CHECK_DEADLOCK FALSE
INVARIANTS
    SuccessMeansAll
    AppliedIsPrefix
    CheckpointsTruthful
    DeliversResults
