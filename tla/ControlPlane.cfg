SPECIFICATION FairSpec
CONSTANTS
    n1 = n1
    n2 = n2
    NoEntry = NoEntry
    Names = {n1, n2}
    MaxSchedulers = 2
    MaxTasks = 3
    Epochs = {1}
    TasksMayFail = TRUE
INVARIANTS
    TypeOK
    GaugeCountsStatuses
    RunningIsEnabled
PROPERTIES
    DeletedStaysDown
    StopDrains
    SavedFileIsOwn
CHECK_DEADLOCK FALSE
