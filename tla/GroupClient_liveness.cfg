CONSTANTS
    Nodes = {n1, n2}
    NoNode = NoNode
    ShardIds = {1, 2}
    MaxKey = 1
    MaxEpoch = 2
    MaxTerm = 2
    Ops = {"Get", "AddReplica"}
SPECIFICATION Spec
VIEW MC_View
PROPERTIES
    CallsTerminate
