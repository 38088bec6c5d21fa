CONSTANTS
    Nil = Nil
    Columns <- MCColumns
    Files <- MCFiles
    CommandLines <- MCCommandLines
    Rows <- MCRows
    Tables <- MCTables
    EndsWith <- MCEndsWith
    Minute = 60
SPECIFICATION Spec
CHECK_DEADLOCK FALSE
INVARIANTS
    NoPanic
    AcceptedFillsAll
    EstimateHolds
