SPECIFICATION WindowedSpec
CONSTANTS
    w1 = w1
    w2 = w2
    w3 = w3
    Null = Null
    Fraction = Fraction
    None = None
    Feeds <- PgOutputUpdates
    TableRows <- MCRows
    Columns <- MCColumns
    KeyColumn = "id"
    TimeColumn = "ts"
    GroupColumn = "amount"
    OtherRows <- MCOther
    MaxChanges = 3
    MaxMessages = 2
    AllowedLateness = 1
    Disorder = 1
    WindowSize = 1
INVARIANTS
    PgOutputIsParsed
CHECK_DEADLOCK FALSE
