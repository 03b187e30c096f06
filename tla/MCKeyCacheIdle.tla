--------------------------- MODULE MCKeyCacheIdle ---------------------------
(* An instance of KeyCacheIdle for TLC. *)
EXTENDS KeyCacheIdle

CONSTANTS t1

OneTeam == [k \in Keys |-> t1]
=============================================================================
