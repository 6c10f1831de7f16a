SPECIFICATION FairSpec
CONSTANTS
    p1 = p1
    p2 = p2
    NoFile = NoFile
    Torn = Torn
    Partitions = {p1, p2}
    MaxOffset = 3
    Epochs <- MCOffsets
    Malformed <- MCMalformed
    Removal <- RemovalAcross
    Updates = {}
    MaxPoll = 2
    CheckpointInterval = 1
    HighWatermark = 100
    LowWatermark = 0
    Faults = {"crash", "stop", "rebalance"}
    MaxFaults = 3
INVARIANTS
    CommittedIsDurable
    NothingSkipped
PROPERTIES
    EventuallyComplete
    ImplementsRecoverableView
CHECK_DEADLOCK FALSE
