-------------------------- MODULE MC_WebhookOutbox --------------------------
(* Finite instances of WebhookOutbox for TLC.                               *)
EXTENDS WebhookOutbox, TLC

Symmetry == Permutations(Subscribers) \cup Permutations(Workers)
              \cup Permutations(Dispatchers)
=============================================================================
