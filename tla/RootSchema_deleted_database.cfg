\* create_database and delete_database after bootstrap, one handler.
CONSTANTS
    Procs = {p1}
    Names = {"a", "b"}
    ClusterIds = {"c1"}
    Ops = {"TryBootstrap", "CreateDatabase", "DeleteDatabase"}
    MaxCalls = 3
SPECIFICATION Spec
INVARIANT DeletedDatabaseGone
CHECK_DEADLOCK FALSE
