----------------------------- MODULE MC_EventHub -----------------------------
(* Finite instances of EventHub for TLC.                                     *)
EXTENDS EventHub, TLC

ChannelSymmetry == Permutations(Channels)

OneGateway  == {1}
TwoGateways == {1, 2}
=============================================================================
