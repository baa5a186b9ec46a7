\* Two nodes reporting one group: descriptor changes, elections, batching,
\* failed reports and lost replies.  The system stops once every update is
\* reported and the workers wait on empty channels, hence no deadlock check.
CONSTANTS
    n1 = n1
    n2 = n2
    None = None
    Nodes <- MCNodes
    ReplicaOrder <- MCReplicaOrder
    MaxEpoch = 2
    MaxTerm = 2
    MaxBatch = 2
SPECIFICATION Spec
INVARIANTS TypeOK ReportedStateSettles
PROPERTY RootConverges
CHECK_DEADLOCK FALSE
