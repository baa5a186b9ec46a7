---------------------------- MODULE MigrateClient ----------------------------
(***************************************************************************)
(* MigrateClient (src/src/client/src/migrate_client.rs) composed with the  *)
(* GroupClient model.  Each entry point is a loop: build a fresh          *)
(* GroupClient::lazy, make one call through it, and on an error let        *)
(* RetryState decide whether to sleep and go round again.  The group, the *)
(* router and the RPC outcomes are those of GroupClient; the variables     *)
(* below are the locals of the entry point in progress.                    *)
(***************************************************************************)
EXTENDS GroupClient

CONSTANTS
    MigrateCalls,   \* entry points the caller uses
    MaxIterations   \* bound on loop iterations of one entry point

VARIABLES
    mpc,        \* "idle", "invoke" (client built, call not yet made), "call"
    mop,        \* the entry point in progress
    iters,      \* loop iterations of it so far
    mApplied,   \* executions by the group in the finished iterations
    mResult     \* what the entry point returned

migrateVars == <<mpc, mop, iters, mApplied, mResult>>
mvars == <<vars, migrateVars>>

\* The GroupClient method each entry point calls.
GroupClientMethod ==
    [setup_migration  |-> "SetupMigration",
     commit_migration |-> "CommitMigration",
     forward          |-> "Forward"]

ASSUME MigrateCalls \subseteq DOMAIN GroupClientMethod

-----------------------------------------------------------------------------
\* group_client(): GroupClient::lazy, so no leader hint, replica order or
\* epoch survives from the previous iteration.
LazyClient ==
    /\ epoch' = 0
    /\ leaderState' = NoLeader
    /\ replicas' = <<>>
    /\ accessNode' = NoNode
    /\ nextIndex' = 0
    /\ nodeClients' = {}
    /\ timeout' = FALSE

\* RetryState::new(None) for a call of entry point m, then the first
\* group_client() of its loop.
MigrateStart(m) ==
    /\ mpc = "idle"
    /\ mop' = m
    /\ iters' = 1
    /\ mApplied' = 0
    /\ mResult' = "pending"
    /\ LazyClient
    /\ mpc' = "invoke"
    /\ UNCHANGED <<groupVars, router, callVars>>

\* client.<method>(..): the call runs as a GroupClient call.
MigrateInvoke ==
    /\ mpc = "invoke"
    /\ Invoke(GroupClientMethod[mop])
    /\ mpc' = "call"
    /\ UNCHANGED <<mop, iters, mApplied, mResult>>

\* The entry point returns r; the GroupClient it built is dropped.
Finish(r) == mpc' = "idle" /\ mResult' = r /\ UNCHANGED <<iters, clientVars>>

\* retry_state.retry(err).await?: RetryState is not under src/; following
\* spec section 4.5 it sleeps and lets the loop go round while its budget
\* lasts, or returns the error.
RetryStateRetry ==
    \/ /\ iters < MaxIterations
       /\ iters' = iters + 1
       /\ LazyClient
       /\ mpc' = "invoke"
       /\ UNCHANGED mResult
    \/ Finish(result)

\* The match of setup_migration: EpochNotMatch is surfaced at once (the
\* migration is superseded), every other error goes to the retry state.
SetupMigrationMatch ==
    \/ result = "Ok" /\ Finish(result)
    \/ result = "EpochNotMatch" /\ Finish(result)
    \/ result \notin {"Ok", "EpochNotMatch"} /\ RetryStateRetry

\* The match of commit_migration: every error goes to the retry state.
CommitMigrationMatch ==
    \/ result = "Ok" /\ Finish(result)
    \/ result # "Ok" /\ RetryStateRetry

\* The match of forward: every error goes to the retry state.
ForwardMatch ==
    \/ result = "Ok" /\ Finish(result)
    \/ result # "Ok" /\ RetryStateRetry

\* The call through the GroupClient returned; the entry point matches on
\* its result.
MigrateReturn ==
    /\ mpc = "call"
    /\ pc = "idle"
    /\ mApplied' = mApplied + applied
    /\ \/ mop = "setup_migration" /\ SetupMigrationMatch
       \/ mop = "commit_migration" /\ CommitMigrationMatch
       \/ mop = "forward" /\ ForwardMatch
    /\ UNCHANGED <<groupVars, router, callVars, mop>>

-----------------------------------------------------------------------------
MigrateInit ==
    /\ Init
    /\ mpc = "idle"
    /\ mop = CHOOSE m \in MigrateCalls : TRUE
    /\ iters = 0
    /\ mApplied = 0
    /\ mResult = "none"

MigrateNext ==
    \/ Environment /\ UNCHANGED migrateVars
    \/ CallStep /\ UNCHANGED migrateVars
    \/ \E m \in MigrateCalls : MigrateStart(m)
    \/ MigrateInvoke
    \/ MigrateReturn

\* The task of the entry point is polled whenever it can progress, and
\* every RPC is eventually answered.
MigrateSpec ==
    /\ MigrateInit /\ [][MigrateNext]_mvars
    /\ WF_mvars(CallStep /\ UNCHANGED migrateVars)
    /\ WF_mvars(MigrateInvoke \/ MigrateReturn)

-----------------------------------------------------------------------------
(* Properties *)

\* Executions of the current (or last) entry point, all iterations counted.
Executed == mApplied + IF mpc = "call" THEN applied ELSE 0

(* GroupClient::forward surfaces a transport error instead of retrying it *)
(* (ignore_transport_error is false: the forwarded request may already    *)
(* have been executed).  MigrateClient::forward must then not repeat it:  *)
(* one forward call executes the request at most once.                    *)
ForwardExecutedAtMostOnce ==
    mop = "forward" => Executed <= 1

====
