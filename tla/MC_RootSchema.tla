---------------------------- MODULE MC_RootSchema ----------------------------
(* Model-checking instance of RootSchema. *)
EXTENDS RootSchema

MC_AllOps == {"TryBootstrap", "CreateDatabase", "DeleteDatabase", "AddNode",
              "CreateCollection", "DeleteCollection", "ListAllEvents",
              "DeleteNode", "DeleteGroup"}
====
