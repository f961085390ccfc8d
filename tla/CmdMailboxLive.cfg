SPECIFICATION FairSpec
CONSTANTS
    u1 = u1
    n1 = n1
    NoNode = NoNode
    Users = {u1}
    Nodes = {n1}
    UserCodes = {"MONITOR_CONFIG"}
    SeqSpace = 4
    Unload = TRUE
    MaxCalls = 2
    MaxBoots = 1
    MaxFaults = 1
    FaultKinds <- AllFaults
PROPERTY ManagerReturns
PROPERTY CallsReturn
\* An idle mailbox has nothing left to do.
CHECK_DEADLOCK FALSE
