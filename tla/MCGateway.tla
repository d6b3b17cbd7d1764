----------------------------- MODULE MCGateway -----------------------------
(* Two requests at a time from one address. *)
EXTENDS Gateway, TLC

Symmetry == Permutations(Requests)
=============================================================================
