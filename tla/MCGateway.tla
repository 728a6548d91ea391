----------------------------- MODULE MCGateway -----------------------------
(* Instances of Gateway for TLC; requests and users are interchangeable. *)
EXTENDS Gateway, TLC

Symmetry == Permutations(Request) \cup Permutations(User)
=============================================================================
