----------------------------- MODULE ReportState -----------------------------
(***************************************************************************)
(* Reporting of group state from nodes to root                            *)
(* (server/src/node/job/report_state.rs).  On every node, the replicas of *)
(* a group broadcast their new group descriptor into an unbounded channel *)
(* (StateChannel::broadcast_group_descriptor).  One worker per node takes *)
(* a batch from the channel (wait_state_updates) and reports it to root,  *)
(* retrying until root accepts it (report_state_updates).  Replicas also  *)
(* broadcast their raft state (broadcast_replica_state) into the same     *)
(* channel.  Root stores each update of a report, one after another, with *)
(* Schema::update_group_replica and derives the group's leader from the   *)
(* stored replica states with Schema::list_group_state.  The group is one *)
(* raft group with a replica on every node of Nodes.                      *)
(***************************************************************************)
EXTENDS Naturals, Sequences, SequencesExt

CONSTANTS
    Nodes,      \* nodes holding a replica of the group, each with a worker
    MaxEpoch,   \* bound on descriptor changes of the group
    MaxTerm,    \* bound on raft terms (elections) of the group
    ReplicaOrder, \* the replicas in the key order of replica_key
    None,       \* leader_id = None
    MaxBatch    \* updates per report: 32 KiB over the encoded size of one update

VARIABLES
    gEpoch,     \* epoch of the latest descriptor committed by the group
    nodeEpoch,  \* epoch of the descriptor the replica on each node applied
    chan,       \* per node: the unbounded mpsc channel of GroupUpdates
    wpc,        \* per node: report_state_worker waits or reports
    batch,      \* per node: the ReportRequest being reported
    rootAt,     \* per node: updates of its report root has stored in this attempt
    rootEpoch,  \* epoch of the group descriptor stored by root
    gTerm,      \* current raft term of the group
    gLeader,    \* the replica elected leader in gTerm
    nodeTerm,   \* per node: term of the replica state it last broadcast
    rootState   \* per replica: the ReplicaState root stores, or NoState

vars == <<gEpoch, nodeEpoch, chan, wpc, batch, rootAt, rootEpoch,
          gTerm, gLeader, nodeTerm, rootState>>
groupVars == <<gEpoch, gTerm, gLeader>>

ASSUME ReplicaOrder \in Seq(Nodes) /\ None \notin Nodes
NoDesc == 0
NoState == [replica |-> None, term |-> 0, role |-> "None"]

\* GroupUpdates { group_id, group_desc, replica_state, .. }: each update
\* carries one of the two (the group is implicit, there is one).
Update(e) == [groupDesc |-> e, replicaState |-> NoState]
StateUpdate(s) == [groupDesc |-> NoDesc, replicaState |-> s]

-----------------------------------------------------------------------------
(* The group commits a descriptor change, or elects a leader in a new   *)
(* term (spec-level environment).                                        *)
CommitDescriptor ==
    /\ gEpoch < MaxEpoch
    /\ gEpoch' = gEpoch + 1
    /\ UNCHANGED <<nodeEpoch, chan, wpc, batch, rootAt, rootEpoch, gTerm, gLeader,
                   nodeTerm, rootState>>

ElectLeader ==
    /\ gTerm < MaxTerm
    /\ gTerm' = gTerm + 1
    /\ gLeader' \in Nodes
    /\ UNCHANGED <<gEpoch, nodeEpoch, chan, wpc, batch, rootAt, rootEpoch, nodeTerm,
                   rootState>>

(* The replica on n applies the next descriptor in raft-log order and may *)
(* call broadcast_group_descriptor; start_send on the unbounded sender   *)
(* succeeds while the worker holds the receiver.  Which replicas report  *)
(* which descriptors is decided by callers not under src/, so any may or *)
(* may not.                                                              *)
BroadcastGroupDescriptor(n) ==
    /\ nodeEpoch[n] < gEpoch
    /\ nodeEpoch' = [nodeEpoch EXCEPT ![n] = @ + 1]
    /\ \/ chan' = [chan EXCEPT ![n] = Append(@, Update(nodeEpoch'[n]))]
       \/ UNCHANGED chan
    /\ UNCHANGED <<groupVars, wpc, batch, rootAt, rootEpoch, nodeTerm, rootState>>

(* The replica on n learns of the current term and calls                 *)
(* broadcast_replica_state with its new raft state: leader if it was     *)
(* elected in that term, follower otherwise.                             *)
BroadcastReplicaState(n) ==
    /\ nodeTerm[n] < gTerm
    /\ nodeTerm' = [nodeTerm EXCEPT ![n] = gTerm]
    /\ chan' = [chan EXCEPT ![n] = Append(@, StateUpdate(
                   [replica |-> n, term |-> gTerm,
                    role |-> IF n = gLeader THEN "Leader" ELSE "Follower"]))]
    /\ UNCHANGED <<groupVars, nodeEpoch, wpc, batch, rootAt, rootEpoch, rootState>>

(* wait_state_updates: block for one update, then take what try_next     *)
(* yields until the batch reaches the size limit.                        *)
BatchSizePastLimit(n) == IF Len(chan[n]) < MaxBatch + 1 THEN Len(chan[n]) ELSE MaxBatch + 1
BatchSize(n) == IF Len(chan[n]) < MaxBatch THEN Len(chan[n]) ELSE MaxBatch

WaitStateUpdates(n) ==
    /\ wpc[n] = "wait"
    /\ chan[n] # <<>>
    /\ batch' = [batch EXCEPT ![n] = SubSeq(chan[n], 1, BatchSize(n))]
    /\ chan' = [chan EXCEPT ![n] = SubSeq(chan[n], BatchSize(n) + 1, Len(chan[n]))]
    /\ wpc' = [wpc EXCEPT ![n] = "report"]
    /\ UNCHANGED <<groupVars, nodeEpoch, rootAt, rootEpoch, nodeTerm, rootState>>

(* Root stores the next update of n's report: update_group_replica puts  *)
(* the descriptor and the replica state it carries in one batch_write,   *)
(* without comparing epochs or terms; the replica state goes under       *)
(* replica_key(group, replica).                                          *)
UpdateGroupReplica(n) ==
    LET u == batch[n][rootAt[n] + 1] IN
    /\ wpc[n] = "report"
    /\ rootAt[n] < Len(batch[n])
    /\ rootEpoch' = IF u.groupDesc # NoDesc THEN u.groupDesc ELSE rootEpoch
    /\ rootState' = IF u.replicaState # NoState
                    THEN [rootState EXCEPT ![u.replicaState.replica] = u.replicaState]
                    ELSE rootState
    /\ rootAt' = [rootAt EXCEPT ![n] = @ + 1]
    /\ UNCHANGED <<groupVars, nodeEpoch, chan, wpc, batch, nodeTerm>>

(* report_state_updates: root stored every update and the report RPC    *)
(* returns Ok; the loop ends.                                            *)
ReportOk(n) ==
    /\ wpc[n] = "report"
    /\ rootAt[n] = Len(batch[n])
    /\ wpc' = [wpc EXCEPT ![n] = "wait"]
    /\ batch' = [batch EXCEPT ![n] = <<>>]
    /\ rootAt' = [rootAt EXCEPT ![n] = 0]
    /\ UNCHANGED <<groupVars, nodeEpoch, chan, nodeTerm, rootEpoch, rootState>>

(* The report RPC fails: before root stored anything, after a failing    *)
(* update_group_replica ended the handler part way, or after root stored *)
(* all of it (a lost reply).  The worker sleeps with capped backoff and  *)
(* reports the same request, from its first update.                      *)
ReportFailedRequeue(n) ==
    /\ wpc' = [wpc EXCEPT ![n] = "wait"]
    /\ chan' = [chan EXCEPT ![n] = @ \o batch[n]]
    /\ batch' = [batch EXCEPT ![n] = <<>>]
ReportFailed(n) ==
    UNCHANGED <<wpc, batch, chan>>

ReportRetry(n) ==
    /\ wpc[n] = "report"
    /\ ReportFailed(n)
    /\ rootAt' = [rootAt EXCEPT ![n] = 0]
    /\ UNCHANGED <<groupVars, nodeEpoch, nodeTerm, rootEpoch, rootState>>

-----------------------------------------------------------------------------
(* list_group_state: root lists the stored replica states in key order   *)
(* and folds them into a GroupState; the first state of the group makes  *)
(* the entry (Vacant), each later one updates it (Occupied).  The result *)
(* is the group's leader_id, or None when no state is stored.            *)
ListGroupStateVacantOnly(states) ==
    LET Step(acc, r) ==
          LET s == states[r] IN
          IF s = NoState THEN acc
          ELSE IF ~acc.present
               THEN [present |-> TRUE, leader |-> IF s.role = "Leader" THEN r ELSE None]
               ELSE [present |-> TRUE,
                     leader  |-> IF acc.leader = r THEN None ELSE acc.leader]
    IN  FoldLeft(Step, [present |-> FALSE, leader |-> None], ReplicaOrder).leader

ListGroupState(states) ==
    LET Step(acc, r) ==
          LET s == states[r] IN
          IF s = NoState THEN acc
          ELSE IF ~acc.present
               THEN [present |-> TRUE, leader |-> IF s.role = "Leader" THEN r ELSE None]
               ELSE [present |-> TRUE,
                     leader  |-> IF s.role = "Leader" THEN r
                                 ELSE IF acc.leader = r THEN None
                                 ELSE acc.leader]
    IN  FoldLeft(Step, [present |-> FALSE, leader |-> None], ReplicaOrder).leader

-----------------------------------------------------------------------------
Init ==
    /\ gEpoch = 1
    /\ nodeEpoch = [n \in Nodes |-> 1]
    /\ chan = [n \in Nodes |-> <<>>]
    /\ wpc = [n \in Nodes |-> "wait"]
    /\ batch = [n \in Nodes |-> <<>>]
    /\ rootAt = [n \in Nodes |-> 0]
    /\ rootEpoch = 1
    /\ gTerm = 1
    /\ gLeader \in Nodes
    /\ nodeTerm = [n \in Nodes |-> 0]
    /\ rootState = [n \in Nodes |-> NoState]

Worker(n) == WaitStateUpdates(n) \/ ReportOk(n) \/ ReportRetry(n)

\* The root handler of the report in flight.
Root(n) == UpdateGroupReplica(n)

Next ==
    \/ CommitDescriptor
    \/ ElectLeader
    \/ \E n \in Nodes : \/ BroadcastGroupDescriptor(n)
                        \/ BroadcastReplicaState(n)
                        \/ Worker(n)
                        \/ Root(n)

(* The worker is a spawned task that is polled whenever it can progress, *)
(* and a root handler runs on while its RPC lasts.  Root is eventually   *)
(* reachable: after some point a node's reports stop failing, so the      *)
(* report retried forever is eventually stored whole and returns Ok.     *)
(* A replica eventually applies what its group committed and reports its *)
(* raft state of a new term.                                             *)
Spec ==
    /\ Init /\ [][Next]_vars
    /\ \A n \in Nodes : /\ WF_vars(BroadcastGroupDescriptor(n))
                        /\ WF_vars(BroadcastReplicaState(n))
                        /\ WF_vars(WaitStateUpdates(n))
                        /\ WF_vars(UpdateGroupReplica(n))
                        /\ WF_vars(ReportOk(n))
                        /\ <>[][~ReportRetry(n)]_vars

-----------------------------------------------------------------------------
(* Properties *)

StateType == [replica : Nodes, term : 1..MaxTerm, role : {"Leader", "Follower"}]

TypeOK ==
    /\ gEpoch \in 1..MaxEpoch /\ gTerm \in 1..MaxTerm /\ gLeader \in Nodes
    /\ nodeEpoch \in [Nodes -> 1..MaxEpoch]
    /\ nodeTerm \in [Nodes -> 0..MaxTerm]
    /\ wpc \in [Nodes -> {"wait", "report"}]
    /\ \A n \in Nodes : Len(batch[n]) <= MaxBatch /\ rootAt[n] \in 0..Len(batch[n])
    /\ rootEpoch \in 1..MaxEpoch
    /\ rootState \in [Nodes -> StateType \cup {NoState}]

\* The channel holds a replica state update not yet taken by the worker.
StatePending(n) == \E i \in 1..Len(chan[n]) : chan[n][i].replicaState # NoState

(* Once a node's worker is idle and every replica state the node         *)
(* broadcast has left its channel, root stores the latest of them: the   *)
(* updates of one node reach update_group_replica in broadcast order     *)
(* across batching, reports that fail part way, and the retry of a       *)
(* report root already stored (report_state.rs:49-54, 90-96).  While a   *)
(* retry re-stores a report, root may hold an older state for a while.   *)
ReportedStateSettles ==
    \A n \in Nodes :
        wpc[n] = "wait" /\ ~StatePending(n) => rootState[n].term = nodeTerm[n]

(* Root's view of the group's raft state converges: once the group stops *)
(* electing, root stores every replica's state for the current term and  *)
(* list_group_state derives the group's leader from them, and it stays   *)
(* so.  Reports of different nodes reach update_group_replica in any     *)
(* order, and list_group_state folds the states in key order, not by     *)
(* term, so it may list a deposed leader whose state sorts after the new *)
(* leader's; this says that does not last.                               *)
RootConverges ==
    <>[](/\ \A n \in Nodes : rootState[n].term = gTerm
         /\ ListGroupState(rootState) = gLeader)

====
