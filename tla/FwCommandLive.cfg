SPECIFICATION FairSpec
CONSTANTS
    Aps = {"a1"}
    NoAp = "noap"
    Bodies = {"f", "g"}
    Robust = {"f", "g"}
    Header <- OneHeader
    Ops <- AllOps
    Styles = {"marked", "legacy"}
    Modes = {"STA", "APSTA"}
    MaxCmds = 2
    MaxFaults = 2
    FaultKinds <- AllFaults
PROPERTY Settles
\* A host that has sent its commands has nothing left to do.
CHECK_DEADLOCK FALSE
