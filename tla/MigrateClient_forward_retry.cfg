\* The three GroupClient-based entry points of MigrateClient over a group
\* that may elect once and change its replicas or shards once.
CONSTANTS
    Nodes = {n1, n2}
    NoNode = NoNode
    ShardIds = {1, 2}
    MaxKey = 1
    MaxEpoch = 2
    MaxTerm = 2
    Ops = {"Forward"}
    MigrateCalls = {"setup_migration", "commit_migration", "forward"}
    MaxIterations = 2
SPECIFICATION MigrateSpec
INVARIANT ForwardExecutedAtMostOnce
