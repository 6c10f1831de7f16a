SPECIFICATION DataPathSpec
CONSTANTS
    k1 = k1
    k2 = k2
    a = a
    b = b
    two = two
    Null = Null
    NoSql = NoSql
    NoText = NoText
    Expression = Expression
    NoAlias = NoAlias
    Star = Star
    LeftRows <- MCLeftRows
    RightRows <- MCRightRows
    MaxDelta = 2
    JoinKey = "id"
    Configs <- AllConfigs
    MaxWeight = 2
    w1 = w1
    w2 = w2
    w3 = w3
    Fraction = Fraction
    None = None
    Feeds <- AllFeeds
    TableRows <- MCRows
    Columns <- MCColumns
    KeyColumn = "id"
    TimeColumn = "ts"
    GroupColumn = "amount"
    OtherRows <- MCOther
    MaxChanges = 4
    MaxMessages = 2
    AllowedLateness = 1
    Disorder = 1
    WindowSize = 1
    c1 = c1
    c2 = c2
    eu = eu
    BadRequest = BadRequest
    NoResponse = NoResponse
    Requests <- AllRequests
    Tasks = {t1, t2}
    Schemas <- MCSchemas
    FieldValues = {0, 1}
    MaxVersions = 2
    Undecodable = Undecodable
    Unavailable = Unavailable
INVARIANTS
    AggregateViewExact
    SelectedViewExact
    JoinIsMaintained
    NoRowOfWeightZero
    CopyIsPastTable
    WindowedViewExact
    PendingIsOpen
    NothingArrivesLate
    AnswerIsQuery
    DecodedAsWritten
CHECK_DEADLOCK FALSE
