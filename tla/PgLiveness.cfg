SPECIFICATION FairSpec
CONSTANTS
    NoFile = NoFile
    Torn = Torn
    HalfDigits = 2
    MaxTxns = 3
    TxnEnd <- MCTxnEnd
    TxnLsn <- CloseLsn
    CommitLsn <- CommitBefore
    CommitFormat = "bare"
    Epochs <- MCEpochs
    MaxPoll = 2
    ChanCap = 2
    CheckpointInterval = 1
    Faults = {"dial"}
    MaxFaults = 2
PROPERTIES
    EventuallyComplete
CHECK_DEADLOCK FALSE
