-------------------------- MODULE MC_ReplicaSync --------------------------
(* Finite instances of ReplicaSync for TLC.                                 *)
EXTENDS ReplicaSync, TLC

Symmetry == Permutations(Replicas) \cup Permutations(Requests)
=============================================================================
