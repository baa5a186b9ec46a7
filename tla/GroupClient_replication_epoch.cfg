CONSTANTS
    Nodes = {n1, n2, n3}
    NoNode = NoNode
    ShardIds = {1, 2}
    MaxKey = 1
    MaxEpoch = 2
    MaxTerm = 2
    Ops = {"AddReplica"}
SPECIFICATION Spec
SYMMETRY MC_Symmetry
VIEW MC_View
INVARIANT
    ReplicationRequestKeepsEpoch
