SPECIFICATION Spec
\* One descriptor, and a segment counter that passes half of its range at once.
CONSTANTS
    RxMod = 8
    RxLimit = 2
    CrMod = 4
    Slots = 1
    LiveMax = 1
    MaxAttempts = 1
    AppendModes = {TRUE}
    MaxFrames = 3
    MaxFaults = 1
    FaultKinds = {"bus"}
INVARIANT CreditHeld
CHECK_DEADLOCK FALSE
