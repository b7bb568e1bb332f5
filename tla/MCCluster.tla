----------------------------- MODULE MCCluster ------------------------------
(* Instances of Cluster for TLC. *)
EXTENDS Cluster

CONSTANTS d1
=============================================================================
