-------------------------- MODULE MCSpendPipeline --------------------------
(* Instances of SpendPipeline for TLC. *)
EXTENDS SpendPipeline, TLC

(* No property of the runs that use it tells requests, keys or flushers    *)
(* apart, and none is a liveness property.                                 *)
Symmetry ==
    Permutations(Requests) \cup Permutations(Keys)
        \cup Permutations(LogFlushers) \cup Permutations(KeyFlushers)
=============================================================================
