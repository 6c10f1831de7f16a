SPECIFICATION Spec
CONSTANTS
    NoFile = NoFile
    Torn = Torn
    HalfDigits = 2
    MaxTxns = 2
    TxnEnd <- AllOfSizeOne
    TxnLsn <- AlignedEnd
    CommitLsn <- AlignedCommit
    CommitFormat = "pgoutput"
    Epochs <- MCEpochs
    MaxPoll = 2
    ChanCap = 2
    CheckpointInterval = 1
    Faults = {"crash"}
    MaxFaults = 1
INVARIANTS
    AtLeastOnce
CHECK_DEADLOCK FALSE
