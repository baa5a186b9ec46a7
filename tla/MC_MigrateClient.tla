--------------------------- MODULE MC_MigrateClient ---------------------------
(* Model-checking instance of MigrateClient: two nodes, one shard, the     *)
(* group's leader, term and epoch fixed, so that only the RPC outcomes and *)
(* the retry loop vary.                                                    *)
EXTENDS MigrateClient

====
