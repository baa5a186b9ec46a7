\* One root handler at a time: the catalog invariants of the sequential code.
\* The run stops when MaxCalls calls have returned, hence no deadlock check.
CONSTANTS
    Procs = {p1}
    Names = {"a", "b"}
    ClusterIds = {"c1", "c2"}
    Ops <- MC_AllOps
    MaxCalls = 6
SPECIFICATION Spec
INVARIANTS TypeOK IdsUnique CollectionShardsRecorded
CHECK_DEADLOCK FALSE
