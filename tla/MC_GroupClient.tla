--------------------------- MODULE MC_GroupClient ---------------------------
(* Model-checking instance of GroupClient: three nodes, keys 0..2, two     *)
(* shard ids (one split), at most two epoch changes and two elections.     *)
EXTENDS GroupClient

MC_Ops == {"Get", "Scan", "Write", "MoveReplicas", "WatchKey", "AddReplica",
           "TransferLeader", "MoveOut", "Forward"}

\* Nodes are interchangeable: nothing in the model orders or names them.
MC_Symmetry == Permutations(Nodes)

\* The fingerprint of a state.  No action reads `lastReply`, `result` or
\* `attempts`, and no action reads the locals of a finished call before
\* Invoke overwrites them, so states that differ only there behave alike.
MC_View ==
    <<groupVars, router, clientVars, pc, applied,
      IF pc = "idle" THEN <<>> ELSE <<op, shard, keys, deadline, callEpoch, ctxTimeout>>>>

\* The same, keeping the attempt count of the call in progress for the
\* property that reads it.
MC_AttemptsView ==
    <<MC_View, IF pc = "idle" THEN 0 ELSE attempts>>
=============================================================================
