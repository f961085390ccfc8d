SPECIFICATION Spec
CONSTANTS
    Errs = {"e1"}
    MaxAttempts = 1
    HasResetGpio = TRUE
    RadioCtrl = TRUE
    OtaConfigured = TRUE
    Unload = FALSE
    MaxWrites = 0
    MaxFaults = 1
    FaultKinds <- AllFaults
INVARIANT TypeOK
INVARIANT WatchdogArmed
INVARIANT RecoveryInv
INVARIANT BudgetInv
INVARIANT ResetSerialised
INVARIANT RestartIntentSettles
INVARIANT SessionUsable
\* A settled driver with healthy firmware has nothing left to do.
CHECK_DEADLOCK FALSE
