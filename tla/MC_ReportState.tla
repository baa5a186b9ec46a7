--------------------------- MODULE MC_ReportState ---------------------------
(* Model-checking instance of ReportState: two nodes, the replica on n1  *)
(* first in key order.                                                   *)
EXTENDS ReportState

CONSTANTS n1, n2

MCNodes == {n1, n2}
MCReplicaOrder == <<n1, n2>>
====
