SPECIFICATION Spec
CONSTANTS
    k1 = k1
    k2 = k2
    a = a
    b = b
    two = two
    Null = Null
    NoSql = NoSql
    NoText = NoText
    Expression = Expression
    NoAlias = NoAlias
    Star = Star
    LeftRows <- MCLeftRows
    RightRows <- MCRightRows
    MaxDelta = 2
    JoinKey = "id"
    Configs <- SavedSum
    MaxWeight = 1
INVARIANTS
    ViewSurvivesRestart
