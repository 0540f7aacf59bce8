---------------------------- MODULE MC_Deployment ----------------------------
(* Finite instances of Deployment for TLC.                                   *)
EXTENDS Deployment, TLC

ControllerSymmetry == Permutations(Controllers)
RequestSymmetry == Permutations(Requests)
=============================================================================
