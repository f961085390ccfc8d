SPECIFICATION FairSpec
CONSTANTS
    Errs = {"e1"}
    MaxAttempts = 1
    HasResetGpio = TRUE
    RadioCtrl = TRUE
    OtaConfigured = FALSE
    Unload = FALSE
    MaxWrites = 1
    MaxFaults = 0
    FaultKinds = {}
PROPERTY RadioConverges
\* A settled driver with healthy firmware has nothing left to do.
CHECK_DEADLOCK FALSE
