----------------------- MODULE MC_GatewayConnections -----------------------
(* Finite instances of GatewayConnections for TLC.                          *)
EXTENDS GatewayConnections, TLC

ConnSymmetry == Permutations(Conns)

(* What happens once an update of the list is lost is not explored, nor is  *)
(* a shutdown after a failed call or a second subscription.                 *)
Explored == ~lost /\ (down = "no" \/ (faults = 0 /\ subCount < MaxSubs))
=============================================================================
