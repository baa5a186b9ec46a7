# Model checking sekas

This directory holds TLA+ modules for parts of the sekas key-value store (`src/`), along with the TLC configurations that check them. `PROJECT.json` maps every definition to the source lines it translates. It also lists the runs, the mutants, the findings, and the hazards of the code with the properties that cover them.

## The system

sekas stores data in replicated **groups**. Each group is a raft group of replicas on nodes. It has a descriptor **epoch**, which changes on every membership change or shard split, and it holds **shards**: key ranges `[start, end)`, where an empty end means +infinity.

The parts modelled here interact as follows:
- **Group client** (`client/src/group_client.rs`). It turns a call on a group into RPCs to the group's leader under the leader's epoch. It copes with a stale router cache, leader changes, membership and shard changes, connection failures, and transport errors that may hide an executed request.
- **Migrate client** (`client/src/migrate_client.rs`). It wraps fresh group clients in retry loops for shard migration.
- **Root schema** (`server/src/root/schema.rs`). The root group keeps the catalog: ids, databases, collections, nodes, group descriptors and replica states. It is stored as a key-value store in system collections. Concurrent root RPC handlers read and write it through awaits.
- **State reporting** (`server/src/node/job/report_state.rs`). Each replica broadcasts every new group descriptor and every change of its raft state into its node's channel. A worker per node batches the channel and reports to root, retrying forever. Root stores each update with `update_group_replica` and derives the group's leader from the stored replica states with `list_group_state` (schema.rs).
- **Snapshot creation** (`server/src/raftgroup/snap/create.rs`). A replica checkpoints its state machine into a snapshot directory and persists the snapshot meta through a temporary file. Only then does it install the snapshot, after which raft may drop the log the snapshot covers.

### Inventory

| Part | Source | Module | Status |
|---|---|---|---|
| Group client: routing, retry and error classification | `group_client.rs` | `GroupClient`, `GroupCall` | partly: no watch stream after its first response, no response decoding |
| Executability of a request under a new descriptor | `group_client.rs:623-677` | `GroupClient` (operators) | modelled |
| Router and connection manager | not under `src/` | `GroupClient` (environment) | a lagging group snapshot; connect failures are nondeterministic |
| Group server: raft leader, epoch, split | mostly not under `src/` | `GroupClient` (environment) | environment actions |
| Migrate client | `migrate_client.rs` | `MigrateClient` | partly: `pull_shard_chunk` needs `ShardClient`, which is not under `src/` |
| Root schema | `root/schema.rs` | `RootSchema` | partly (see below) |
| Node state reporting | `node/job/report_state.rs` | `ReportState` | partly: one group on two nodes; schedule states and shutdown are not modelled |
| Snapshot creation | `raftgroup/snap/create.rs` | `SnapshotCreate` | modelled |
| Root SHOW statements, parser AST, build script, schema constants, ascii escaping, tests | various | none | not modelled: formatting and data with no state changes of their own |

## Module `GroupClient` and its abstract specification `GroupCall`

**Constants.**
- `Nodes`: the nodes.
- `ShardIds`: the shard ids.
- `MaxKey`: keys are `0..MaxKey`.
- `MaxEpoch` and `MaxTerm`: bounds on epoch changes and elections.
- `Ops`: which public methods callers use.
- `NoNode`: a model value standing for `None`.

**Group (environment).** The variables are `gEpoch`, `gReplicas`, `gLeader`, `gTerm` and `gShards`. The environment actions are:
- `ElectLeader`: a new term, with a leader among the replicas, or none.
- `ChangeReplicas`: a new membership, which bumps the epoch.
- `SplitShard`: from `split_shard`. The split key must belong to the shard, and the epoch is bumped.
- `RouterRefresh`: the router takes a snapshot of the group, and may lag behind the group arbitrarily.

**Client state.** The variables mirror the fields of `GroupClient`:

| Variable | Field |
|---|---|
| `epoch` | `epoch` |
| `leaderState` | `leader_state` |
| `replicas` | `replicas` (a sequence) |
| `accessNode` | `access_node_id` |
| `nextIndex` | `next_access_index` |
| `nodeClients` | `node_clients` |
| `timeout` | `timeout`, abstracted to set or not set |

`Init` is `GroupClient::lazy`.

**Operations.**
- `SetTimeout` models `set_timeout` and `set_timeout_opt`.
- `Invoke(o)` is the prologue of `invoke_with_opt`.
- The retry loop is split at its one await:
  - `RecommendClient` is replica selection.
  - There is one `Rpc*` action per arm of `apply_status`, each followed by the loop's deadline check.
- `InvokeOpt` gives, for every public method, its `request`, `accurate_epoch` and `ignore_transport_error`:
  - `ReplicaInvokeOpt` covers lines 357-511.
  - `ShardInvokeOpt` covers lines 512-620.
  - `MigrationInvokeOpt` covers `setup_migration` and `commit_migration`, which are not under `src/` and follow spec §4.3.
- Methods with equal options behave alike in the model, so the runs use one representative of each (for example `AddReplica` for `create_shard`, `add_learner` and `remove_group_replica`).

**History variables.** These exist for the properties only:
- `applied`: how many times the group executed the current call's request.
- `attempts`: the RPCs the current call has sent.
- `callEpoch`, `lastReply`, `shardsAt` and `elected`.

No action reads them. The state view `MC_View` leaves out `attempts`, `lastReply` and `result`, and `MC_AttemptsView` keeps `attempts` for the one run that checks it.

**`GroupCall`.** This module states what one call promises its caller, whatever happens inside it. A call begins, or is refused when the router has no route. The group executes its request some number of times, and then the call returns. A request outside `Idempotent` is executed at most once; `Idempotent` means read-only, or declared safe to repeat on a transport fault.

`GroupClient` implements `GroupCall` under this refinement mapping:
- `calling` is `pc` ∈ {select, rpc, panicked};
- `callOp` is `op`;
- `execs` is `applied`.

The refinement is checked as the property `GroupCallRefined`.

## Module `MigrateClient`

This module extends `GroupClient`, so the migrate client drives the same group, router and RPC outcomes.

**State.**
- `mpc`: the loop's position.
- `mop`: the entry point.
- `iters`: iterations so far.
- `mApplied`: executions in finished iterations.
- `mResult`: what the entry point returned.

**Actions.**
- `MigrateStart` is `RetryState::new` followed by the first `group_client()`.
- `LazyClient` is `GroupClient::lazy`: every iteration resets the client's fields.
- `MigrateInvoke` makes the call: `Invoke` of the group client method in `GroupClientMethod`.
- `MigrateReturn` is the `match` on the call's result:
  - `Ok` returns.
  - `EpochNotMatch` is returned at once by `setup_migration` (`SetupMigrationMatch`); `commit_migration` and `forward` retry every error (`CommitMigrationMatch`, `ForwardMatch`).
  - Anything else goes to `RetryStateRetry`.
- `RetryState` is not under `src/`. Following spec §4.5, it either sleeps and loops while its budget lasts, or returns the error. The budget is bounded by `MaxIterations`.

`migrate_client.rs` calls a three-argument `GroupClient::lazy`, but `group_client.rs:81` takes two arguments. The file is out of step with the client it wraps, so the model keeps its intent: a fresh lazy client on every iteration.

## Module `RootSchema`

The catalog is a function from keys to descriptors. A key is `Key(collection, bytes)`, and its bytes are encoded the way schema.rs builds them:
- `NameBytes` for names;
- `IdBytes` for `u64::to_le_bytes`;
- `collection_key` for `(database id, name)`;
- `replica_key`.

Each is a tuple of one shape, so TLC can compare them. The `put_*` operators are the `put_*` helpers of schema.rs. `InitSystemCollections`, `InitMetaCollection` and `BootstrapBatch` are the batch that `try_bootstrap` writes.

**Processes.** Root serves RPCs concurrently. Each process in `Procs` runs one schema method at a time, with program counter `pc[p]` and locals `loc[p]`. Every store await is its own step:
- `next_id` is a subroutine. `NextIdRead` is `get_meta`. `NextIdPut` is the `batch_write` of the counter plus one, which returns to `loc.ret`.
- `create_database`: `CreateDatabase`, then `next_id`, then `DatabasePut`.
- `delete_database`: `DatabaseDeleteGet`, then `DatabaseDelete`.
- `add_node`: `AddNode`, then `next_id`, then `NodePut`.
- `create_collection`: `CreateCollection`, then `CollectionShardId` (`next_id`), then `CollectionCreateShard`, then `CollectionGroupRead` (`get_group(..).unwrap()`: if the group is gone the handler panics and stays at `panicked`), then `CollectionWrite` (one batch with the collection and the extended group).
- `delete_collection`, `delete_node` and `delete_group` are single store calls. `list_all_events` (`ListAllEvents`) lists databases, collections (`list_collection`, which reads the database collection), groups and replica states; its four lists are one step, since the runs that call it have one handler. `delete_group` leaves the group's replica states in place, as the TODO in the code says.
- `try_bootstrap`: `TryBootstrap`, then `BootstrapCheck`, then `BootstrapWrite`.

A store write may fail without being applied. The method then returns the error with no rollback.

**History.**
- `created`: the shards given to `RootStore::create_shard`.
- `dbDeleted`: names whose `delete_database` returned Ok.
- `lastEvents`: the last `list_all_events` result (databases, collections, groups, and the groups of the replica states) and the collections stored when it ran. No run checks it (see the hazards at schema.rs:211 and :289): TLC reaches databases published as collections, and group states published for a deleted group.

`calls` bounds the number of method calls.

**Not modelled in this module:**
- the watch hub;
- the `get_*` methods and `list_node`, which only read and feed no property;
- `update_group_replica` and `list_group_state`, which are modelled in `ReportState`;
- replica-state cleanup and the heartbeat handlers.

## Module `ReportState`

**State.**
- `gEpoch` and `nodeEpoch`: the group's committed descriptor and each node's applied one.
- `chan`: each node's unbounded channel, a sequence of `GroupUpdates`.
- `wpc` and `batch`: each worker's position and the `ReportRequest` it is reporting.
- `rootAt`: how many updates of that request root's handler has stored in the current attempt.
- `gTerm` and `gLeader`: the group's raft term and the leader it elected; `nodeTerm`: the term of the replica state each node last broadcast.
- `rootEpoch`: the descriptor root stores; `rootState`: the `ReplicaState` root stores per replica (key `replica_key(group, replica)`), or `NoState`.

**Actions.**
- `CommitDescriptor`: the group commits a change. This is environment.
- `ElectLeader`: the group elects a leader in a new term. This is environment.
- `BroadcastGroupDescriptor`: a replica applies the next descriptor in log order, and sends it or not. Which replicas report which descriptors is decided by callers not under `src/`, so the model leaves it free.
- `BroadcastReplicaState`: a replica learns of the current term and sends its new state, leader or follower.
- `WaitStateUpdates`: one update, then `try_next` until the batch reaches `MaxBatch`. The limit stands for the 32 KiB bound over the encoded size of one update.
- `UpdateGroupReplica(n)`: root's handler stores the next update of n's request with `update_group_replica`, its own `batch_write`, which overwrites the descriptor and the replica's state without comparing epochs or terms.
- `ReportOk`: root has stored every update, the RPC returns Ok, and the worker goes back to wait.
- `ListGroupState(states)` is `list_group_state` as a fold over the stored states in key order (`ReplicaOrder`): the first makes the group entry, each later one sets `leader_id` if it is a leader or clears it if it named that replica. The callers of the broadcasts and root's report handler are not under `src/`. The triggers (`ElectLeader`, each replica reporting its state once per term) and the handler's loop over the updates (`Root`) come from the design.
- `ReportRetry`: the RPC fails: before root stored anything, part way (an `update_group_replica` failed), or after root stored all of it (a lost reply). The worker sends the same request again from its first update, so root may store an older replica state again for a while.

## Module `SnapshotCreate`

**State.**
- For each snapshot directory, a cached and a durable view of its entries (`entC`, `entD`: name ↦ inode) and of its inodes' contents (`inoC`, `inoD`).
- `installed`: the snapshots given to `SnapManager::install`.

**Actions.** The actions follow `create_snapshot` and `stable_snapshot_meta`, one step per io call:
- `CreateSnapshot`: `snap_mgr.create`.
- `Checkpoint`.
- `WriteTemp`: open, truncate and write `TEMP`.
- `SyncTempStep`: `sync_all` of the file, which makes its inode durable.
- `Rename`: `TEMP` becomes `META`.
- `SyncDirStep`: `sync_all` of the directory, which makes its entries durable.
- `Install`.
- `StepFails`: any io step returns an error, and the task ends.
- `Crash`: the node restarts. Each change not yet synced may or may not be on disk, and a file that was not synced may be torn.

The checkpoint is not under `src/`. It is assumed to leave `DATA` durable (see the hazard at create.rs:64).

## Runs

| Run | Config | Checks | Result |
|---|---|---|---|
| groupclient_safety | `GroupClient_safety.cfg`: 3 nodes, 8 methods, symmetry | `TypeOK`, `GroupCallRefined`, `EpochNeverDecreases` | Holds, at about 1.4M distinct states (about 90 s). |
| groupclient_liveness | `GroupClient_liveness.cfg`: 2 nodes, Get and AddReplica | `CallsTerminate` | Every call ends. |
| groupclient_attempts | violation: 3 nodes, Get | `AttemptsWithinBound` | One call makes 5 attempts with 3 replicas. The sequence is: Connect from the leader; a NotLeader from a follower that names the leader at a newer term; a sticky retry of the leader; Connect again; one more pick of the cursor. The cursor bound (line 203) does not count sticky retries, and EpochNotMatch resets it, so the code breaks the "at most \|replicas\| + 1 attempts" of spec §4.1 and §9. |
| groupclient_timeout | violation | `AttemptCarriesTimeout` | `InvokeContext.timeout` reads `self.timeout` after `take()` (lines 136 and 142), so no RPC carries the timeout. |
| groupclient_replication_epoch | violation | `ReplicationRequestKeepsEpoch` | The `invoke()` callers pass no request, so they are re-sent under a newer epoch (line 343), against spec §4.4. |
| migrateclient_forward_retry | violation | `ForwardExecutedAtMostOnce` | `MigrateClient::forward` retries the transport error that `GroupClient::forward` surfaces because the forward may have run, so one forward call executes it twice (migrate_client.rs:90). |
| rootschema_safety | `RootSchema_safety.cfg`: one handler, every method, 6 calls, 2 cluster ids | `TypeOK`, `IdsUnique`, `CollectionShardsRecorded` | Holds for sequential handlers, including a restarted `try_bootstrap` and deleted nodes and groups, at 1.5M distinct states. `CollectionShardsRecorded` speaks of groups still in the catalog. |
| rootschema_next_id_race | violation: 2 handlers | `IdsUnique` | `next_id` is a read, then a write; two `create_database` calls get the same id (schema.rs:592). |
| rootschema_lost_group_update | violation: 2 handlers | `CollectionShardsRecorded` | Two concurrent `create_collection` calls read, extend and write the same group descriptor, so one shard is lost (schema.rs:135). |
| rootschema_deleted_database | violation: one handler, bootstrap, create and delete of databases | `DeletedDatabaseGone` | `delete_database` deletes the key `id.to_le_bytes()`, which `put_database` never writes, because it stores databases under their names. The database therefore stays stored after the delete returns Ok (schema.rs:108). The trace is `try_bootstrap`, `create_database`, `delete_database`. |
| reportstate_two_nodes | `ReportState_two_nodes.cfg`: 2 nodes, 2 epochs, 2 terms, batches of 2 | `TypeOK`, `ReportedStateSettles`, `RootConverges` | When a node's worker is idle and no replica state is left in its channel, root stores the node's latest state. This holds however the reports are batched, fail part way, or are retried after root stored them. During such a retry root does hold an older term for a while. Reports of the two nodes reach root in any order, and root may list a deposed leader for a while. Still, root's replica states and its listed leader converge to the group's. |
| snapshotcreate_crash | `SnapshotCreate_crash.cfg`: 2 directories, 2 crashes | `TypeOK`, `MetaOnDiskComplete`, `InstalledSnapshotDurable` | After any crash, a `META` on disk is complete and its `DATA` is present, and an installed snapshot keeps its `META`. |

Every property of a passing run has a mutant in `PROJECT.json`: a plausible bug in a mapped definition that the run catches. Examples:
- A transport error that is always retryable breaks `GroupCallRefined`.
- A `next_id` counter that starts one too low breaks `IdsUnique`.
- A failed report that is requeued behind newer updates breaks `ReportedStateSettles`.
- A `list_group_state` that never updates the leader of an existing entry breaks `RootConverges`.
- A skipped `sync_all` breaks the snapshot properties.

## Bounds

**GroupClient.**
- `MaxEpoch = 2` and `MaxTerm = 2`: one descriptor change and one election occur while a call is in flight.
- Two shard ids and keys `0..1` let a split move a key out of its shard.
- Three nodes let a hint name a node other than the one asked and the one at the cursor.

**MigrateClient.** Two nodes, with the same epoch and term bounds. Two iterations are enough for a retry after a lost reply.

**RootSchema.**
- Two names let two creations differ.
- Two handlers are enough for each race.
- Six sequential calls reach bootstrap, then creation, deletion and listing of databases, collections and nodes, and a second `try_bootstrap` with another cluster id.

**ReportState.** Two terms (one election, to either node) let a deposed leader's state sort after the new leader's, and let a node's two states share one batch, so that a retry stores the older one again. One descriptor change puts descriptor updates into the same channels and batches. No property reads the descriptor, so more epochs would add only states. Batches of two give full batches, partial batches, and failures after one of two updates. Three epochs take about 3 minutes, and three terms take more than ten.

**SnapshotCreate.** Two crashes reach a crash during a second snapshot after the first was installed, and a crash that leaves a partly persisted directory behind a later snapshot.

## Fairness

- **`GroupClient`:** `WF_vars(CallStep)`. A pending call keeps being polled and each RPC eventually returns. The environment gets no fairness and its changes are bounded, so liveness means that calls end once the group stops changing.
- **`MigrateClient`:** the same, plus weak fairness of the loop's steps.
- **`RootSchema`:** weak fairness on each handler's awaits. A store call eventually returns; no run checks liveness.
- **`ReportState`:**
  - These make progress (weak fairness): a broadcasting replica, a waiting worker with updates in its channel, a root handler with updates left to store, and a report root stored whole.
  - Root is eventually reachable: each node's reports fail only finitely often (`<>[][~ReportRetry(n)]_vars`). Before that point a report may fail any number of times, at any point of its handler.
  - `CommitDescriptor` and `ElectLeader` have no fairness, and are bounded.
- **`SnapshotCreate`:** none. Its properties are safety.

## Not modelled

- In `GroupClient`: the watch stream after its first response, decoding of response variants, metrics and logging. The router and the connection manager are not under `src/` and appear only as environment. Raft elections and membership are environment actions. The panic at line 328 is unreachable in the model, because a leader always replies with the group's current descriptor.
- `pull_shard_chunk` of the migrate client: `ShardClient` is not under `src/`.
- In the root schema:
  - the watch hub;
  - the read-only `get_*` methods and `list_node`;
  - replica-state cleanup;
  - the orphan shard left when the catalog write of `create_collection` fails (a hazard with a note);
  - the concurrent `add_node` id clash. It is the same `next_id` race, and because node keys are ids it shows up as an overwrite rather than a duplicate.
- `broadcast_schedule_state` and root's use of schedule states (not under `src/`), and the worker's abort when the `StateChannel` is dropped.
- Whether root keeps the newest descriptor of a group. Which replicas report descriptors is decided outside `src/`. When any replica may report or not, root can keep an older descriptor for good, and nothing in the repository says it must not. `rootEpoch` shows this, but no property checks it.
- A root report handler that runs on after its client saw the RPC fail. In the model a failure ends the handler.
- The root statement executor (`stmt_executor.rs`), the parser AST, the build script, the schema constants and ascii escaping. They format data or generate code, and change no state that a property could observe.

## Plan for later sittings

1. A reference check of `Executable` against a direct definition over all bounded descriptors.
2. `get_root_replicas` in `RootSchema`, once the root group's replicas are part of the group descriptor in the model.
