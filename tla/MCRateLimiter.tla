--------------------------- MODULE MCRateLimiter ---------------------------
(* Instances of RateLimiter for TLC. *)
EXTENDS RateLimiter, TLC

(* No property tells handlers apart, and none is a liveness property. *)
Symmetry == Permutations(Requests)
=============================================================================
