SPECIFICATION Spec
CONSTANTS
    p1 = p1
    p2 = p2
    NoFile = NoFile
    Torn = Torn
    Partitions = {p1, p2}
    MaxOffset = 3
    Epochs <- MCOffsets
    Malformed = {}
    Removal <- UpdateAndBack
    Updates <- MCUpdates
    MaxPoll = 2
    CheckpointInterval = 1
    HighWatermark = 1
    LowWatermark = 1
    Faults = {"crash", "window", "cleanup", "restore", "connect", "pause", "poll", "save", "commit", "confirm"}
    MaxFaults = 4
INVARIANTS
    TypeOK
    OneOrphan
    CheckpointBehindCommit
    AtMostOnce
PROPERTIES
    DurableGrows
    HaltIsForLife
    ImplementsRecoverableView
    BackpressureBoundsView
CHECK_DEADLOCK FALSE
