--------------------------- MODULE MCRateLimiter ---------------------------
(* An instance of RateLimiter for TLC: the requests are interchangeable. *)
EXTENDS RateLimiter, TLC

Symmetry == Permutations(Request)
=============================================================================
