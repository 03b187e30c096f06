---------------------------- MODULE KeyCacheIdle ----------------------------
(***************************************************************************)
(* KeyCache with a record of when each key was last used, to ask whether   *)
(* an entry that refreshCachedKeys evicts as idle really was.              *)
(***************************************************************************)
EXTENDS KeyCache

VARIABLES
    used,   \* history: the time last written by touchCachedKey or by a load
    seen    \* history: `used` when refreshCachedKeys took its snapshot

idleVars == <<vars, used, seen>>

(* This step is a handler's access to the entry of k. *)
Accesses(r, k) ==
    /\ req[r].key = k
    /\ Store(r) \/ (Touch(r) /\ cache[k] # NotCached)

IdleInit ==
    /\ Init
    /\ used = [k \in Keys |-> 0]
    /\ seen = [k \in Keys |-> 0]

RecordUse ==
    used' = [k \in Keys |-> IF \E r \in Requests : Accesses(r, k)
                            THEN cache'[k].accessAt
                            ELSE used[k]]

RecordSeen == seen' = IF Snapshot THEN used ELSE seen

IdleSpec == IdleInit /\ [][Next /\ RecordUse /\ RecordSeen]_idleVars

(* "Evicted idle key cache entry", says the log of refreshCachedKeys: when *)
(* the refresh evicts a key, no request that ended before its snapshot had *)
(* used the key within keyCacheIdleTTL.                                    *)
EvictedWasIdle ==
    refresh.pc = "evict" => refresh.now - seen[refresh.key] > IdleTTL
=============================================================================
