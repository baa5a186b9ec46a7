\* Two root handlers allocate ids concurrently (two create_database calls with different names).
CONSTANTS
    Procs = {p1, p2}
    Names = {"a", "b"}
    ClusterIds = {"c1"}
    Ops = {"TryBootstrap", "CreateDatabase"}
    MaxCalls = 3
SPECIFICATION Spec
INVARIANT IdsUnique
CHECK_DEADLOCK FALSE
