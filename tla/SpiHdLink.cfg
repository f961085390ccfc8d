SPECIFICATION Spec
CONSTANTS
    RxMod = 8
    RxLimit = 2
    CrMod = 8
    Slots = 2
    LiveMax = 3
    MaxAttempts = 2
    AppendModes = {TRUE, FALSE}
    MaxFrames = 1
    MaxFaults = 1
    FaultKinds <- LinkFaults
INVARIANT TypeOK
INVARIANT CountersCoherent
INVARIANT NoLostWakeup
PROPERTY ReadyFresh
PROPERTY Recovers
CHECK_DEADLOCK FALSE
