-------------------------- MODULE MC_SnapshotCreate --------------------------
(* Model-checking instance of SnapshotCreate. *)
EXTENDS SnapshotCreate
====
