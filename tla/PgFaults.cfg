SPECIFICATION Spec
CONSTANTS
    NoFile = NoFile
    Torn = Torn
    HalfDigits = 2
    MaxTxns = 3
    TxnEnd <- MCTxnEnd
    TxnLsn <- CloseLsn
    CommitLsn <- CommitBefore
    CommitFormat = "json"
    Epochs <- MCEpochs
    MaxPoll = 2
    ChanCap = 2
    CheckpointInterval = 4
    Faults = {"crash", "stop", "cleanup", "restore", "boot", "save", "connect", "dial", "link", "ack", "confirm"}
    MaxFaults = 3
INVARIANTS
    TypeOK
    TransactionAtomicity
    WalAppliedAtMostOnce
    HandoffLeavesNoGap
PROPERTIES
    DurableGrows
    ImplementsRecoverableView
CHECK_DEADLOCK FALSE
