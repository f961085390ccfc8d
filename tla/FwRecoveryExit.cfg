SPECIFICATION FairSpec
CONSTANTS
    Errs = {"e1"}
    MaxAttempts = 1
    HasResetGpio = TRUE
    RadioCtrl = FALSE
    OtaConfigured = FALSE
    Unload = TRUE
    MaxWrites = 0
    MaxFaults = 1
    FaultKinds = {"bus"}
INVARIANT ExitQuiescent
PROPERTY ExitCompletes
\* A settled driver with healthy firmware has nothing left to do.
CHECK_DEADLOCK FALSE
