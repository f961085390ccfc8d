SPECIFICATION FairSpec
CONSTANTS
    Errs = {"e1"}
    MaxAttempts = 1
    HasResetGpio = FALSE
    RadioCtrl = FALSE
    OtaConfigured = FALSE
    Unload = FALSE
    MaxWrites = 0
    MaxFaults = 1
    FaultKinds = {"stateful", "lose", "hang", "ack", "enqueue", "gpio"}
INVARIANT SoftRebootLeft
PROPERTY RecoveryCompletes
\* A settled driver with healthy firmware has nothing left to do.
CHECK_DEADLOCK FALSE
