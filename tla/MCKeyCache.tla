----------------------------- MODULE MCKeyCache -----------------------------
(* An instance of KeyCache for TLC. *)
EXTENDS KeyCache

CONSTANTS t1

OneTeam == [k \in Keys |-> t1]
=============================================================================
