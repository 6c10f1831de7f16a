SPECIFICATION Spec
CONSTANTS
    p1 = p1
    p2 = p2
    NoFile = NoFile
    Torn = Torn
    Partitions = {p1}
    MaxOffset = 3
    Epochs <- MCOffsets
    Malformed = {}
    Removal <- NoRemoval
    Updates = {}
    MaxPoll = 2
    CheckpointInterval = 1
    HighWatermark = 100
    LowWatermark = 0
    Faults = {"window"}
    MaxFaults = 1
INVARIANTS
    AtLeastOnce
CHECK_DEADLOCK FALSE
