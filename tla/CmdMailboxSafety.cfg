SPECIFICATION Spec
CONSTANTS
    u1 = u1
    u2 = u2
    n1 = n1
    n2 = n2
    NoNode = NoNode
    Users = {u1, u2}
    Nodes = {n1, n2}
    UserCodes = {"STA_RSSI", "SET_RADIO_SERVICE"}
    SeqSpace = 3
    Unload = FALSE
    MaxCalls = 2
    MaxBoots = 1
    MaxFaults = 1
    FaultKinds <- AllFaults
SYMMETRY Symmetry
INVARIANT TypeOK
INVARIANT NodesConserved
INVARIANT QueuesOwned
INVARIANT ResponseMatches
INVARIANT SubmittedIsCurrent
INVARIANT NoneStranded
INVARIANT AmbiguousQuarantined
PROPERTY ImplementsService
\* An idle mailbox has nothing left to do.
CHECK_DEADLOCK FALSE
