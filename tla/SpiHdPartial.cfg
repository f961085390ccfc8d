SPECIFICATION Spec
CONSTANTS
    RxMod = 8
    RxLimit = 2
    CrMod = 8
    Slots = 2
    LiveMax = 3
    MaxAttempts = 1
    AppendModes = {TRUE}
    MaxFrames = 1
    MaxFaults = 1
    FaultKinds = {"credit"}
PROPERTY ResumeClean
CHECK_DEADLOCK FALSE
