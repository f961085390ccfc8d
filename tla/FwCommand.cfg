SPECIFICATION Spec
CONSTANTS
    Aps = {a1, a2}
    NoAp = noap
    Bodies = {f, g}
    Robust = {f, g}
    Header <- OneHeader
    Ops <- AllOps
    Styles = {"marked", "legacy"}
    Modes = {"STA", "APSTA"}
    MaxCmds = 3
    MaxFaults = 1
    FaultKinds <- AllFaults
SYMMETRY Symmetry
INVARIANT TypeOK
INVARIANT StatusTruthful
INVARIANT AnsweredOnce
PROPERTY StaleEventsInert
PROPERTY MlmeCurrent
\* A host that has sent its commands has nothing left to do.
CHECK_DEADLOCK FALSE
