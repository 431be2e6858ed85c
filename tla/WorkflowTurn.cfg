\* One turn: every reply of the model, PDOK and DuckDB, and every failure.
SPECIFICATION Spec
CONSTANTS
    NoIntent = NoIntent
    NoTable = NoTable
    Null = Null
    Columns <- MCColumns
    Data <- MCData
    Values <- MCValues
    Like <- MCLike
    Categorical <- MCCategorical
    TableOrder <- MCTableOrder
    Intents <- MCIntents
INVARIANTS
    TypeOK
    QuestionInsteadOfSql
    SqlOnSoundFilters
    BlameSparesLocations
    CorrectionMovesOn
    NeverSilent
CHECK_DEADLOCK FALSE
