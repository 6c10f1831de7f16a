SPECIFICATION FairSpec
CONSTANTS
    n1 = n1
    n2 = n2
    NoEntry = NoEntry
    Names = {n1}
    MaxSchedulers = 1
    MaxTasks = 1
    Epochs = {1}
    TasksMayFail = FALSE
PROPERTIES
    StopTakesEffect
CHECK_DEADLOCK FALSE
