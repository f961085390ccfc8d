SPECIFICATION Spec
CONSTANTS
    RxMax = 5
    Aggr = 2
    TxMax = 5
    MaxBuf = 2
    MaxAttempts = 1
    RetryMax = 0
    MaxFrames = 1
    FullChip = {TRUE, FALSE}
    MaxFaults = 1
    FaultKinds <- LinkFaults
INVARIANT TypeOK
INVARIANT CreditsReal
PROPERTY BootEventKept
INVARIANT AckMeansRestart
PROPERTY NoStaleTx
PROPERTY NoStaleReset
PROPERTY Recovers
CHECK_DEADLOCK FALSE
