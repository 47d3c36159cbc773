----------------------------- MODULE MCKaspiOutbox -----------------------------
(* Instances of KaspiOutbox for TLC. *)
EXTENDS KaspiOutbox, TLC

Symmetric == Permutations(Clients) \cup Permutations(Polls) \cup Permutations(Checkouts)
=============================================================================
