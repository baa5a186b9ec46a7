---------------------------- MODULE GroupClient ----------------------------
(***************************************************************************)
(* The retry/routing state machine of sekas-client's GroupClient           *)
(* (src/src/client/src/group_client.rs), run against a replicated group    *)
(* whose leader, replica set and shard set change while calls are in       *)
(* flight, and a router cache that lags behind the group.                  *)
(*                                                                         *)
(* One GroupClient instance issues calls one after another (it is          *)
(* single-owner, `&mut self`).  A call is `invoke_with_opt`: lazy load,    *)
(* then a loop of replica selection (`recommend_client`), one RPC, and     *)
(* `apply_status` followed by the deadline check.  The RPC is the only     *)
(* suspension point, so the group and the router may change between the   *)
(* selection of a node and the answer of that node.                        *)
(***************************************************************************)
EXTENDS Naturals, Sequences, FiniteSets, TLC
LOCAL INSTANCE SequencesExt

CONSTANTS
    Nodes,      \* node ids; a group has at most one replica per node, so a
                \* replica is named by the node that hosts it
    ShardIds,   \* shard ids the group may ever host
    MaxKey,     \* user keys are 0..MaxKey
    MaxEpoch,   \* bound on group epoch changes (split, replica change)
    MaxTerm,    \* bound on raft elections
    Ops,        \* the GroupClient methods the caller may invoke
    NoNode      \* model value: Option<u64>::None for a node id

ASSUME NoNode \notin Nodes
ASSUME MaxEpoch \in Nat \ {0} /\ MaxTerm \in Nat \ {0}

Keys == 0..MaxKey
Infinity == MaxKey + 1          \* an empty range end: +oo

(* GroupClient::setup_migration and commit_migration, which MigrateClient  *)
(* calls, are not under src/: their options follow spec section 4.3, where  *)
(* migration RPCs are not re-routable and take accurate_epoch.              *)
MigrationInvokeOpt ==
    [SetupMigration  |-> [request |-> "None", accurate |-> TRUE, ignore |-> FALSE],
     CommitMigration |-> [request |-> "None", accurate |-> TRUE, ignore |-> FALSE]]

(***************************************************************************)
(* InvokeOpt of each public method (group_client.rs lines 357-620).        *)
(* `request` is the kind of the `Request` it carries, or "None".  A method *)
(* that calls invoke() passes the defaults: no request, neither flag.      *)
(***************************************************************************)
\* request, watch_key and the replica and leadership methods (357-511).
ReplicaInvokeOpt ==
    [Get                |-> [request |-> "Get",   accurate |-> FALSE, ignore |-> FALSE],
     Scan               |-> [request |-> "Scan",  accurate |-> FALSE, ignore |-> FALSE],
     Write              |-> [request |-> "Write", accurate |-> FALSE, ignore |-> FALSE],
     WatchKey           |-> [request |-> "None",  accurate |-> FALSE, ignore |-> FALSE],
     CreateShard        |-> [request |-> "None",  accurate |-> FALSE, ignore |-> FALSE],
     TransferLeader     |-> [request |-> "None",  accurate |-> TRUE,  ignore |-> TRUE],
     RemoveGroupReplica |-> [request |-> "None",  accurate |-> FALSE, ignore |-> FALSE],
     AddReplica         |-> [request |-> "None",  accurate |-> FALSE, ignore |-> FALSE],
     MoveReplicas       |-> [request |-> "MoveReplicas", accurate |-> FALSE, ignore |-> FALSE]]

\* add_learner and the shard methods (512-620).
ShardInvokeOpt ==
    [AddLearner         |-> [request |-> "None",  accurate |-> FALSE, ignore |-> FALSE],
     AcceptShard        |-> [request |-> "None",  accurate |-> TRUE,  ignore |-> TRUE],
     SplitShard         |-> [request |-> "None",  accurate |-> TRUE,  ignore |-> TRUE],
     MergeShard         |-> [request |-> "None",  accurate |-> TRUE,  ignore |-> TRUE],
     AcquireShard       |-> [request |-> "None",  accurate |-> TRUE,  ignore |-> TRUE],
     MoveOut            |-> [request |-> "None",  accurate |-> FALSE, ignore |-> TRUE],
     Forward            |-> [request |-> "None",  accurate |-> TRUE,  ignore |-> FALSE]]

InvokeOpt == ReplicaInvokeOpt @@ ShardInvokeOpt @@ MigrationInvokeOpt

ASSUME Ops \subseteq DOMAIN InvokeOpt

\* Requests whose target shard and keys `is_executable` inspects.
KeyedRequests == {"Get", "Write"}
Keyed(o) == InvokeOpt[o].request \in KeyedRequests

\* is_read_only_request
IsReadOnly(o) == InvokeOpt[o].request \in {"Get", "Scan"}

VARIABLES
    \* --- the replicated group, as its leader sees it -----------------
    gEpoch, gReplicas, gLeader, gTerm, gShards,
    elected,        \* every (term, leader) pair raft ever produced
    shardsAt,       \* shardsAt[e]: the shard set of the group at epoch e
    \* --- the router cache (process-wide, refreshed from heartbeats) ----
    router,
    \* --- GroupClient fields ------------------------------------------
    epoch, leaderState, replicas, accessNode, nextIndex, nodeClients, timeout,
    \* --- the call in progress (locals of invoke_with_opt) ------------
    pc, op, shard, keys, deadline, callEpoch, ctxTimeout, applied, result,
    lastReply,      \* the status of the last RPC answer (history, for the properties)
    attempts        \* RPCs sent by the call so far (history, for the properties)

groupVars  == <<gEpoch, gReplicas, gLeader, gTerm, gShards, elected, shardsAt>>
clientVars == <<epoch, leaderState, replicas, accessNode, nextIndex, nodeClients, timeout>>
callVars   == <<pc, op, shard, keys, deadline, callEpoch, ctxTimeout, applied, result,
               lastReply, attempts>>
vars == <<groupVars, router, clientVars, callVars>>

NoLeader == [id |-> NoNode, term |-> 0]
NoGroup  == [epoch |-> 0, replicas |-> {}, leaderState |-> NoLeader]
KeyRange == [start : Keys \cup {Infinity}, end : Keys \cup {Infinity}]

-----------------------------------------------------------------------------
(***************************************************************************)
(* Sequence helpers on the replica vector.                                 *)
(***************************************************************************)
Swap(s, i, j) == [s EXCEPT ![i] = s[j], ![j] = s[i]]

\* move_node_to_first_element: swap the replica on `n` to index 0, if any.
MoveNodeToFirst(s, n) ==
    IF \E i \in 1..Len(s) : s[i] = n
    THEN Swap(s, 1, CHOOSE i \in 1..Len(s) : s[i] = n /\ \A j \in 1..(i-1) : s[j] # n)
    ELSE s

\* move_replica_to_first_element: like the above, but a leader that is not
\* in the (stale) vector is appended first.
MoveReplicaToFirst(s, n) ==
    IF \E i \in 1..Len(s) : s[i] = n THEN MoveNodeToFirst(s, n)
    ELSE Swap(Append(s, n), 1, Len(s) + 1)

\* shard::belong_to: half-open [start, end), an end of +oo is unbounded.
BelongTo(r, k) == r.start <= k /\ (r.end = Infinity \/ k < r.end)

\* is_target_shard_exists / is_all_target_shard_exists
AllTargetShardExists(shards, s, ks) ==
    s \in DOMAIN shards /\ \A k \in ks : BelongTo(shards[s], k)

\* is_executable: only Get and the keyed writes can be re-checked.
Executable(shards, o, s, ks) ==
    CASE InvokeOpt[o].request = "None" -> TRUE
      [] Keyed(o)                      -> AllTargetShardExists(shards, s, ks)
      [] OTHER                         -> FALSE

-----------------------------------------------------------------------------
(***************************************************************************)
(* The group: elections, replica changes and shard splits (environment).   *)
(***************************************************************************)
ElectLeader ==
    /\ gTerm < MaxTerm
    /\ \E n \in gReplicas \cup {NoNode} :
          /\ gTerm' = gTerm + 1
          /\ gLeader' = n
          /\ elected' = IF n = NoNode THEN elected
                        ELSE elected \cup {[term |-> gTerm + 1, id |-> n]}
    /\ UNCHANGED <<gEpoch, gReplicas, gShards, shardsAt, router, clientVars, callVars>>

BumpEpoch(shards) ==
    /\ gEpoch' = gEpoch + 1
    /\ shardsAt' = Append(shardsAt, shards)

ChangeReplicas ==
    /\ gEpoch < MaxEpoch
    /\ \E rs \in (SUBSET Nodes) \ {{}, gReplicas} :
          /\ gReplicas' = rs
          /\ gLeader' = IF gLeader \in rs THEN gLeader ELSE NoNode
    /\ BumpEpoch(gShards)
    /\ UNCHANGED <<gTerm, gShards, elected, router, clientVars, callVars>>

\* split_shard (cmd_split_shard.rs): the split key must belong to the shard.
SplitShard ==
    /\ gEpoch < MaxEpoch
    /\ \E old \in DOMAIN gShards, new \in ShardIds \ DOMAIN gShards, k \in Keys :
          /\ BelongTo(gShards[old], k)
          /\ gShards' = [s \in DOMAIN gShards \cup {new} |->
                            IF s = new THEN [start |-> k, end |-> gShards[old].end]
                            ELSE IF s = old THEN [start |-> gShards[old].start, end |-> k]
                            ELSE gShards[s]]
          /\ BumpEpoch(gShards')
    /\ UNCHANGED <<gReplicas, gLeader, gTerm, elected, router, clientVars, callVars>>

\* The router cache takes a consistent snapshot of the group.
RouterRefresh ==
    /\ router' = [epoch |-> gEpoch, replicas |-> gReplicas,
                  leaderState |-> IF gLeader = NoNode THEN NoLeader
                                  ELSE [id |-> gLeader, term |-> gTerm]]
    /\ UNCHANGED <<groupVars, clientVars, callVars>>

\* Time passes: an armed deadline elapses.
Tick ==
    /\ pc \in {"select", "rpc"}
    /\ deadline = "armed"
    /\ deadline' = "expired"
    /\ UNCHANGED <<groupVars, router, clientVars, pc, op, shard, keys, callEpoch,
                   ctxTimeout, applied, result, lastReply, attempts>>

-----------------------------------------------------------------------------
(***************************************************************************)
(* GroupClient                                                             *)
(***************************************************************************)

\* set_timeout / set_timeout_opt: arm (or clear) the timeout of the next call.
SetTimeout ==
    /\ pc = "idle"
    /\ \E t \in BOOLEAN : timeout' = t /\ timeout' # timeout
    /\ UNCHANGED <<groupVars, router, epoch, leaderState, replicas, accessNode,
                   nextIndex, nodeClients, callVars>>

\* Mutant: the group state is reloaded from the router on every call.
NeedsInitialStateAlways == TRUE

\* The lazy client has not loaded its group state yet.
NeedsInitialState == epoch = 0

\* apply_group_state: leader state and epoch are copied, the replica map is
\* drained in HashMap order, and the leader's node is moved to the front.
ApplyGroupState(g) ==
    /\ leaderState' = g.leaderState
    /\ epoch' = g.epoch
    /\ \E p \in SetToSeqs(g.replicas) :
          replicas' = IF g.leaderState.id \in g.replicas
                      THEN MoveNodeToFirst(p, g.leaderState.id) ELSE p

\* The caller builds its request from the descriptor of the epoch it sends.
ChooseRequest(o, e) ==
    IF Keyed(o)
    THEN \E s \in DOMAIN shardsAt[e], ks \in (SUBSET Keys) \ {{}} :
            /\ \A k \in ks : BelongTo(shardsAt[e][s], k)
            /\ (InvokeOpt[o].request = "Get" => Cardinality(ks) = 1)
            /\ shard' = s /\ keys' = ks
    ELSE UNCHANGED shard /\ keys' = {}

\* invoke_with_opt, up to the loop: lazy load, reset the cursor, take the
\* timeout.  A missing router entry fails the call before the timeout is
\* taken.
Invoke(o) ==
    /\ pc = "idle"
    /\ op' = o
    /\ applied' = 0
    /\ attempts' = 0
    /\ \/ /\ NeedsInitialState
          /\ router = NoGroup
          /\ result' = "GroupNotAccessable"
          /\ UNCHANGED <<pc, shard, keys, deadline, callEpoch, ctxTimeout, clientVars>>
       \/ /\ NeedsInitialState => router # NoGroup
          /\ IF NeedsInitialState THEN ApplyGroupState(router)
             ELSE UNCHANGED <<leaderState, epoch, replicas>>
          /\ nextIndex' = 0
          /\ deadline' = IF timeout THEN "armed" ELSE "none"
          /\ timeout' = FALSE
          /\ callEpoch' = epoch'
          /\ ChooseRequest(o, epoch')
          /\ pc' = "select"
          /\ result' = "pending"
          /\ UNCHANGED <<accessNode, nodeClients, ctxTimeout>>
    /\ UNCHANGED <<groupVars, router, lastReply>>

\* Mutant: off-by-one in the cursor bound.
HasNextAccessPastEnd == nextIndex <= Len(replicas) + 1

\* next_access_node_id: the cursor may visit index 0 a second time.
HasNextAccess == nextIndex <= Len(replicas)
NextAccessNode == replicas[(nextIndex % Len(replicas)) + 1]

\* fetch_client: a cached node client is reused; otherwise the address may be
\* unknown or the connection may fail.
FetchClient(n) ==
    \/ /\ n \in nodeClients
       /\ UNCHANGED nodeClients
       /\ accessNode' = n /\ pc' = "rpc"
    \/ /\ n \notin nodeClients
       /\ nodeClients' = nodeClients \cup {n}
       /\ accessNode' = n /\ pc' = "rpc"
    \/ /\ n \notin nodeClients
       /\ UNCHANGED <<nodeClients, pc>>
       /\ accessNode' = NoNode

\* One turn of the loop in recommend_client.
RecommendClient ==
    /\ pc = "select"
    /\ \/ /\ accessNode # NoNode
          /\ FetchClient(accessNode)
          /\ UNCHANGED <<nextIndex, result>>
       \/ /\ accessNode = NoNode
          /\ HasNextAccess
          /\ nextIndex' = nextIndex + 1
          /\ FetchClient(NextAccessNode)
          /\ UNCHANGED result
       \/ /\ accessNode = NoNode
          /\ ~HasNextAccess
          /\ pc' = "idle"
          /\ result' = "GroupNotAccessable"
          /\ UNCHANGED <<nextIndex, nodeClients, accessNode>>
    \* The InvokeContext of the attempt carries `self.timeout`, already taken.
    /\ ctxTimeout' = timeout
    /\ attempts' = IF pc' = "rpc" THEN attempts + 1 ELSE attempts
    /\ UNCHANGED <<groupVars, router, epoch, leaderState, replicas, timeout,
                   op, shard, keys, deadline, callEpoch, applied, lastReply>>

-----------------------------------------------------------------------------
(***************************************************************************)
(* One RPC and apply_status.  The node answers from the group's state at   *)
(* the moment it handles the request.                                      *)
(***************************************************************************)

\* The leader executes a request that carries the group's current epoch.
Served == accessNode = gLeader /\ epoch = gEpoch

\* The deadline check that follows every recovered error.
CheckDeadline ==
    IF deadline = "expired"
    THEN pc' = "idle" /\ result' = "DeadlineExceeded"
    ELSE pc' = "select" /\ UNCHANGED result

\* A surfaced error ends the call.
Surface(e) == pc' = "idle" /\ result' = e

RpcOk ==
    /\ pc = "rpc" /\ Served
    /\ lastReply' = [kind |-> "Ok", hint |-> NoLeader]
    /\ applied' = applied + 1
    /\ Surface("Ok")
    /\ UNCHANGED <<groupVars, router, clientVars, op, shard, keys, deadline,
                   callEpoch, ctxTimeout, attempts>>

\* CasFailed, InvalidArgument, TxnConflict and unknown errors surface as-is.
RpcBusinessError ==
    /\ pc = "rpc" /\ Served
    /\ lastReply' = [kind |-> "Business", hint |-> NoLeader]
    /\ Surface("BusinessError")
    /\ UNCHANGED <<groupVars, router, clientVars, op, shard, keys, deadline,
                   callEpoch, ctxTimeout, applied, attempts>>

\* GroupNotFound: the node holds no replica of the group.
RpcGroupNotFound ==
    /\ pc = "rpc" /\ accessNode \notin gReplicas
    /\ lastReply' = [kind |-> "GroupNotFound", hint |-> NoLeader]
    /\ accessNode' = NoNode
    /\ CheckDeadline
    /\ UNCHANGED <<groupVars, router, epoch, leaderState, replicas, nextIndex,
                   nodeClients, timeout, op, shard, keys, deadline, callEpoch,
                   ctxTimeout, applied, attempts>>

\* apply_not_leader_status: a hint of a term not newer than the local one is
\* ignored; a newer one becomes sticky and its replica moves to the front.
ApplyNotLeaderStatus(h) ==
    IF h.id # NoNode /\ ~(leaderState.id # NoNode /\ leaderState.term >= h.term)
    THEN /\ accessNode' = h.id
         /\ leaderState' = h
         /\ replicas' = MoveReplicaToFirst(replicas, h.id)
    ELSE /\ accessNode' = NoNode
         /\ UNCHANGED <<leaderState, replicas>>

\* NotLeader from a follower: the leader it knows, as of its own term, which
\* may be older than the group's term.
RpcNotLeader ==
    /\ pc = "rpc"
    /\ accessNode \in gReplicas /\ accessNode # gLeader
    /\ \E h \in elected \cup {[id |-> NoNode, term |-> gTerm]} :
          /\ h.id # accessNode
          /\ ApplyNotLeaderStatus(h)
          /\ lastReply' = [kind |-> "NotLeader", hint |-> h]
    /\ CheckDeadline
    /\ UNCHANGED <<groupVars, router, epoch, nextIndex, nodeClients, timeout,
                   op, shard, keys, deadline, callEpoch, ctxTimeout, applied,
                   attempts>>

\* Error::Connect: the request never reached the node.
RpcConnect ==
    /\ pc = "rpc"
    /\ lastReply' = [kind |-> "Connect", hint |-> NoLeader]
    /\ accessNode' = NoNode
    /\ CheckDeadline
    /\ UNCHANGED <<groupVars, router, epoch, leaderState, replicas, nextIndex,
                   nodeClients, timeout, op, shard, keys, deadline, callEpoch,
                   ctxTimeout, applied, attempts>>

\* Mutant: every transport fault is retried.
TransportRetryableAlways(o) == TRUE

\* A transport fault is retried only for idempotent calls.
TransportRetryable(o) == InvokeOpt[o].ignore \/ IsReadOnly(o)

\* Error::Transport: the connection broke mid-call; a request the leader was
\* serving may or may not have been executed.
RpcTransport ==
    /\ pc = "rpc"
    /\ lastReply' = [kind |-> "Transport", hint |-> NoLeader]
    /\ \E done \in IF Served THEN {0, 1} ELSE {0} : applied' = applied + done
    /\ IF TransportRetryable(op)
       THEN accessNode' = NoNode /\ CheckDeadline
       ELSE UNCHANGED accessNode /\ Surface("Transport")
    /\ UNCHANGED <<groupVars, router, epoch, leaderState, replicas, nextIndex,
                   nodeClients, timeout, op, shard, keys, deadline, callEpoch,
                   ctxTimeout, attempts>>

\* The caller demanded an accurate epoch: EpochNotMatch is not retried.
RetainEpoch(o) == InvokeOpt[o].accurate

\* Mutant: the remote epoch is not adopted.
AdoptDescKeepEpoch(d) ==
    /\ \E p \in SetToSeqs(d.replicas) : replicas' = MoveNodeToFirst(p, accessNode)
    /\ UNCHANGED epoch
    /\ nextIndex' = 1

\* Adopt the remote descriptor and retry the same node under its epoch.
AdoptDesc(d) ==
    /\ \E p \in SetToSeqs(d.replicas) : replicas' = MoveNodeToFirst(p, accessNode)
    /\ epoch' = d.epoch
    /\ nextIndex' = 1

\* apply_epoch_not_match_status.
ApplyEpochNotMatchStatus(d) ==
    CASE RetainEpoch(op) ->
            Surface("EpochNotMatch") /\ UNCHANGED <<replicas, epoch, nextIndex>>
      [] d.epoch <= epoch ->
            pc' = "panicked" /\ UNCHANGED <<result, replicas, epoch, nextIndex>>
      [] ~Executable(d.shards, op, shard, keys) ->
            Surface("EpochNotMatch") /\ UNCHANGED <<replicas, epoch, nextIndex>>
      [] OTHER ->
            AdoptDesc(d) /\ CheckDeadline

\* EpochNotMatch from the leader: the request carried another epoch.
RpcEpochNotMatch ==
    /\ pc = "rpc"
    /\ lastReply' = [kind |-> "EpochNotMatch", hint |-> NoLeader]
    /\ accessNode = gLeader /\ epoch # gEpoch
    /\ ApplyEpochNotMatchStatus([epoch |-> gEpoch, replicas |-> gReplicas,
                                 shards |-> gShards])
    /\ UNCHANGED <<groupVars, router, leaderState, accessNode, nodeClients, timeout,
                   op, shard, keys, deadline, callEpoch, ctxTimeout, applied,
                   attempts>>

-----------------------------------------------------------------------------
Init ==
    /\ gEpoch = 1
    /\ gReplicas = Nodes
    /\ gTerm = 1
    /\ gLeader \in Nodes
    /\ elected = {[term |-> 1, id |-> gLeader]}
    /\ gShards = [s \in {CHOOSE s \in ShardIds : TRUE} |-> [start |-> 0, end |-> Infinity]]
    /\ shardsAt = <<gShards>>
    /\ router \in {NoGroup, [epoch |-> 1, replicas |-> Nodes,
                             leaderState |-> [id |-> gLeader, term |-> 1]]}
    \* GroupClient::lazy
    /\ epoch = 0
    /\ leaderState = NoLeader
    /\ replicas = <<>>
    /\ accessNode = NoNode
    /\ nextIndex = 0
    /\ nodeClients = {}
    /\ timeout = FALSE
    /\ pc = "idle"
    /\ op = CHOOSE o \in Ops : TRUE
    /\ shard = CHOOSE s \in ShardIds : TRUE
    /\ keys = {}
    /\ deadline = "none"
    /\ callEpoch = 0
    /\ ctxTimeout = FALSE
    /\ applied = 0
    /\ result = "none"
    /\ lastReply = [kind |-> "None", hint |-> NoLeader]
    /\ attempts = 0

Environment ==
    \/ ElectLeader \/ ChangeReplicas \/ SplitShard \/ RouterRefresh \/ Tick

\* The steps of the call in progress, once the caller has started it.
CallStep ==
    \/ RecommendClient
    \/ RpcOk \/ RpcBusinessError \/ RpcGroupNotFound \/ RpcNotLeader
    \/ RpcConnect \/ RpcTransport \/ RpcEpochNotMatch

Next ==
    \/ Environment
    \/ SetTimeout
    \/ \E o \in Ops : Invoke(o)
    \/ CallStep

\* The task running a call is polled whenever it can progress, and an RPC
\* is eventually answered (or fails).
Spec == Init /\ [][Next]_vars /\ WF_vars(CallStep)

-----------------------------------------------------------------------------
(***************************************************************************)
(* Properties                                                              *)
(***************************************************************************)
Reply == [kind : {"None", "Ok", "Business", "GroupNotFound", "NotLeader",
                  "Connect", "Transport", "EpochNotMatch"},
          hint : {NoLeader} \cup [id : Nodes \cup {NoNode}, term : 0..MaxTerm]]

TypeOK ==
    /\ gEpoch \in 1..MaxEpoch /\ gTerm \in 1..MaxTerm
    /\ gReplicas \in (SUBSET Nodes) \ {{}} /\ gLeader \in gReplicas \cup {NoNode}
    /\ gShards \in [DOMAIN gShards -> KeyRange] /\ DOMAIN gShards \subseteq ShardIds
    /\ Len(shardsAt) = gEpoch
    /\ epoch \in 0..gEpoch
    /\ leaderState \in {NoLeader} \cup [id : Nodes, term : 1..MaxTerm]
    /\ replicas \in Seq(Nodes) /\ Len(replicas) <= Cardinality(Nodes)
    /\ accessNode \in Nodes \cup {NoNode}
    /\ nextIndex \in 0..(Cardinality(Nodes) + 1)
    /\ nodeClients \subseteq Nodes
    /\ timeout \in BOOLEAN /\ ctxTimeout \in BOOLEAN
    /\ pc \in {"idle", "select", "rpc", "panicked"}
    /\ op \in Ops /\ shard \in ShardIds /\ keys \subseteq Keys
    /\ deadline \in {"none", "armed", "expired"}
    /\ applied \in Nat
    /\ lastReply \in Reply
    /\ attempts \in Nat

InCall == pc \in {"select", "rpc"}

(* GroupClient implements GroupCall: seen from its caller, a call begins, *)
(* the group executes its request, and the call returns; a request that   *)
(* is neither read-only nor declared safe to repeat on a transport fault   *)
(* (a Write, MoveReplicas, add_replica, forward, ...) is executed at most  *)
(* once, however its attempts interleave with leader changes, epoch        *)
(* changes and broken connections (apply_status, group_client.rs:264-276). *)
(* A call the router cannot place is refused before it begins.             *)
Call == INSTANCE GroupCall
            WITH Methods <- Ops,
                 Idempotent <- {o \in Ops : InvokeOpt[o].ignore \/ IsReadOnly(o)},
                 calling <- pc \in {"select", "rpc", "panicked"},
                 callOp <- op,
                 execs <- applied

GroupCallRefined == Call!Spec

(* The client's epoch never decreases over its lifetime, although the     *)
(* router it loaded from may lag behind epochs learned from EpochNotMatch *)
(* (spec section 3; invoke_with_opt:131, apply_epoch_not_match_status).   *)
EpochNeverDecreases == [][epoch' >= epoch]_epoch

(* Every call ends: with a value, a surfaced error, GroupNotAccessable or  *)
(* DeadlineExceeded.  The retry loop of invoke_with_opt cannot spin        *)
(* forever while the group's epoch and term stop changing.                 *)
CallsTerminate == InCall ~> pc = "idle"

(* The InvokeContext of every attempt of a call armed with set_timeout     *)
(* carries a timeout, so the RPC itself is bounded (group_client.rs:103-   *)
(* 105, 142: "it depends the underlying request metadata").                *)
AttemptCarriesTimeout ==
    pc = "rpc" /\ deadline # "none" => ctxTimeout

(* Spec 4.4: replication/schedule requests (create_shard, add_replica,     *)
(* remove_group_replica, add_learner) are not re-routable: an              *)
(* EpochNotMatch surfaces and they are never re-sent under another epoch.  *)
ReplicationRequestKeepsEpoch ==
    InCall /\ op = "AddReplica" => epoch = callEpoch

(* Spec sections 4.1 and 9: replica selection caps a call at             *)
(* |replicas| + 1 attempts, the leader at index 0 being tried twice, and *)
(* only then yields GroupNotAccessable.  The cursor of                   *)
(* next_access_node_id is the only bound in the code (group_client.rs:  *)
(* 200-210); EpochNotMatch sets it back to 1 and a sticky NotLeader hint *)
(* is followed without consuming it.  The bound is taken over the        *)
(* largest replica vector the call can hold, |Nodes|, so a shrinking     *)
(* replica set alone does not violate it.                               *)
AttemptsWithinBound ==
    pc = "rpc" => attempts <= Cardinality(Nodes) + 1

=============================================================================
