SPECIFICATION FairSpec
CONSTANTS
    NoFile = NoFile
    Torn = Torn
    HalfDigits = 2
    MaxTxns = 2
    TxnEnd <- AllOfSizeOne
    TxnLsn <- CloseLsn
    CommitLsn <- CommitBefore
    CommitFormat = "bare"
    Epochs <- MCEpochs
    MaxPoll = 2
    ChanCap = 2
    CheckpointInterval = 1
    Faults = {"link"}
    MaxFaults = 1
PROPERTIES
    Reconnects
CHECK_DEADLOCK FALSE
