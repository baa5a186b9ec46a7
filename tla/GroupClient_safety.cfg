CONSTANTS
    Nodes = {n1, n2, n3}
    NoNode = NoNode
    ShardIds = {1, 2}
    MaxKey = 1
    MaxEpoch = 2
    MaxTerm = 2
    Ops = {"Get", "Scan", "Write", "MoveReplicas", "WatchKey", "TransferLeader", "MoveOut", "Forward"}
SPECIFICATION Spec
SYMMETRY MC_Symmetry
VIEW MC_View
INVARIANTS
    TypeOK
PROPERTIES
    GroupCallRefined
    EpochNeverDecreases
