----------------------------- MODULE MCSelection ----------------------------
(* Instance of Selection for TLC. *)
EXTENDS Selection

CONSTANTS m1, m2, m3

ThreeModels == <<m1, m2, m3>>
Weighting(w1, w2, w3) == (m1 :> w1) @@ (m2 :> w2) @@ (m3 :> w3)

(* Weights that differ, one of them 0; no weight at all; and one below zero. *)
FileWeights ==
    {Weighting(1, 3, 2), Weighting(2, 0, 1), Weighting(0, 0, 0), Weighting(1, -3, 4)}
=============================================================================
