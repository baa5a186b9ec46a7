\* Two root handlers create collections on the same group concurrently.
CONSTANTS
    Procs = {p1, p2}
    Names = {"a", "b"}
    ClusterIds = {"c1"}
    Ops = {"TryBootstrap", "CreateCollection"}
    MaxCalls = 3
SPECIFICATION Spec
INVARIANT CollectionShardsRecorded
CHECK_DEADLOCK FALSE
