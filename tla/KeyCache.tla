------------------------------ MODULE KeyCache ------------------------------
(***************************************************************************)
(* The key cache of the gateway: validKeys in src/cmd/main.go.             *)
(*                                                                         *)
(* Four kinds of goroutine work on it.  Request handlers validate a key    *)
(* (getValidKeyForRequest), the one background loop refreshes the cached   *)
(* entries (refreshCachedKeys), admin handlers write the database row and  *)
(* then invalidate the entry (updateKey, updateTeam), and the spend        *)
(* flusher lowers balances behind the cache's back.  Every access to the   *)
(* map is one critical section of `mutex` and is one step here; between    *)
(* two steps of a goroutine any other may run.  A database statement is    *)
(* one step too.                                                           *)
(*                                                                         *)
(* A database row is the join of janus_auth_key with its team that         *)
(* keyQuery selects; its `grant` stands for the effective model list that  *)
(* applyEffectiveModelPermissions derives from it.  lastHeld is a history  *)
(* variable: the program does not have it.                                 *)
(***************************************************************************)
EXTENDS Integers, FiniteSets

CONSTANTS
    Keys,        \* key contents, the map's keys
    Teams,       \* teams of the database
    TeamOf,      \* the team a key belongs to, which never changes
    Requests,    \* request handler goroutines
    Admins,      \* admin handler goroutines
    Rpms, Balances, Expiries, Grants,  \* values of a row's columns
    NoExpiry,    \* the NULL expire_time
    NoRow,       \* no row has this key_content
    NotCached,   \* the map has no entry
    NoKey,       \* a goroutine that works on no key
    SyncTTL,     \* keyCacheSyncTTL
    IdleTTL,     \* keyCacheIdleTTL
    MaxClock,    \* bound: the clock stops here
    LastWrite    \* bound: no database write after this time

Rows == [rpm : Rpms, balance : Balances, expire : Expiries, grant : Grants]

(* cachedKey *)
Entries == [row : Rows, syncAt : Nat, accessAt : Nat]
Times == [syncAt : Nat, accessAt : Nat]

ASSUME TTLAssumption == SyncTTL \in Nat /\ IdleTTL \in Nat
ASSUME ColumnAssumption ==
    /\ Rpms \subseteq Nat          \* CHECK (request_per_minute >= 0)
    /\ Balances \subseteq Int
    /\ Expiries \ {NoExpiry} \subseteq Nat
ASSUME SentinelAssumption ==
    /\ NoRow \notin Rows
    /\ NoKey \notin Keys
    /\ NotCached \notin Entries \cup Times
ASSUME TeamAssumption == TeamOf \in [Keys -> Teams]

VARIABLES
    clock,     \* time.Now(), in minutes
    row,       \* the database: the row of each key, or NoRow
    cache,     \* validKeys: an entry or NotCached for each key
    rings,     \* the keys that have an entry in keyRequestRing
    req,       \* the request handlers
    refresh,   \* the goroutine of startBackgroundTasks
    admin,     \* the admin handlers
    lastHeld   \* history: when the database last ceased to hold a row

vars == <<clock, row, cache, rings, req, refresh, admin, lastHeld>>

Never == -(SyncTTL + 1)

Expired(r, now) == r.expire # NoExpiry /\ r.expire <= now

(* invalidKeyResult *)
Invalid(r, now) == r.rpm < 0 \/ r.balance <= 0 \/ Expired(r, now)

(* now.Sub(LastSyncAt) <= keyCacheSyncTTL *)
Fresh(entry, now) == now - entry.syncAt <= SyncTTL

(* refreshCachedKeys' test on LastAccessAt *)
Idle(entry, now) == now - entry.accessAt > IdleTTL

IdleReq == [pc |-> "idle", key |-> NoKey, now |-> 0, row |-> NoRow]
IdleAdmin == [pc |-> "idle", todo |-> {}, key |-> NoKey]
IdleRefresh ==
    [pc |-> "sleep", now |-> 0, snap |-> [k \in Keys |-> NotCached],
     key |-> NoKey, row |-> NoRow]

Init ==
    /\ clock = 0
    /\ row \in [Keys -> Rows \cup {NoRow}]
    /\ cache = [k \in Keys |-> NotCached]
    /\ rings = {}
    /\ req = [r \in Requests |-> IdleReq]
    /\ refresh = IdleRefresh
    /\ admin = [a \in Admins |-> IdleAdmin]
    /\ lastHeld = [k \in Keys |-> [r \in Rows |-> Never]]

-----------------------------------------------------------------------------
(* A request handler: checkKeyMiddleware and getValidKeyForRequest.        *)

Goto(r, pc) == req' = [req EXCEPT ![r].pc = pc]

(* `now` is sampled once, before the cache and the database are read. *)
Arrive(r, k) ==
    /\ req[r].pc = "idle"
    /\ req' = [req EXCEPT ![r] = [pc |-> "lookup", key |-> k, now |-> clock, row |-> NoRow]]
    /\ UNCHANGED <<clock, row, cache, rings, refresh, admin, lastHeld>>

(* getCachedKey and the tests on its copy of the entry *)
LookupInvalid(r) ==
    /\ req[r].pc = "lookup"
    /\ LET entry == cache[req[r].key]
       IN entry # NotCached /\ Invalid(entry.row, req[r].now)
    /\ Goto(r, "drop")
    /\ UNCHANGED <<clock, row, cache, rings, refresh, admin, lastHeld>>

(* Mutant of LookupFresh: a fresh entry is not validated again *)
LookupFreshUnchecked(r) ==
    /\ req[r].pc = "lookup"
    /\ LET entry == cache[req[r].key]
       IN /\ entry # NotCached
          /\ Fresh(entry, req[r].now)
          /\ req' = [req EXCEPT ![r].pc = "touch", ![r].row = entry.row]
    /\ UNCHANGED <<clock, row, cache, rings, refresh, admin, lastHeld>>

LookupFresh(r) ==
    /\ req[r].pc = "lookup"
    /\ LET entry == cache[req[r].key]
       IN /\ entry # NotCached
          /\ ~Invalid(entry.row, req[r].now)
          /\ Fresh(entry, req[r].now)
          /\ req' = [req EXCEPT ![r].pc = "touch", ![r].row = entry.row]
    /\ UNCHANGED <<clock, row, cache, rings, refresh, admin, lastHeld>>

LookupMiss(r) ==
    /\ req[r].pc = "lookup"
    /\ LET entry == cache[req[r].key]
       IN entry # NotCached =>
             ~Invalid(entry.row, req[r].now) /\ ~Fresh(entry, req[r].now)
    /\ Goto(r, "load")
    /\ UNCHANGED <<clock, row, cache, rings, refresh, admin, lastHeld>>

(* Mutant of Touch: no test for the entry, so that a zero one may appear *)
TouchBlindly(r) ==
    /\ req[r].pc = "touch"
    /\ LET k == req[r].key
           entry == IF cache[k] = NotCached THEN [row |-> NoRow, syncAt |-> 0] ELSE cache[k]
       IN cache' = [cache EXCEPT ![k] = [row |-> entry.row, syncAt |-> entry.syncAt,
                                         accessAt |-> req[r].now]]
    /\ Goto(r, "admitted")
    /\ UNCHANGED <<clock, row, rings, refresh, admin, lastHeld>>

(* Mutant of Touch: the entry counts as synchronised too *)
TouchSynchronises(r) ==
    /\ req[r].pc = "touch"
    /\ LET k == req[r].key  now == req[r].now
       IN cache' = IF cache[k] = NotCached THEN cache
                   ELSE [cache EXCEPT ![k].accessAt = now, ![k].syncAt = now]
    /\ Goto(r, "admitted")
    /\ UNCHANGED <<clock, row, rings, refresh, admin, lastHeld>>

(* touchCachedKey: the entry may be gone by now, and is not brought back. *)
Touch(r) ==
    /\ req[r].pc = "touch"
    /\ LET k == req[r].key
       IN cache' = IF cache[k] = NotCached THEN cache
                   ELSE [cache EXCEPT ![k].accessAt = req[r].now]
    /\ Goto(r, "admitted")
    /\ UNCHANGED <<clock, row, rings, refresh, admin, lastHeld>>

(* auth.GetKeyByContent: a row, no row, or an error that is answered 503. *)
LoadError(r) ==
    /\ req[r].pc = "load"
    /\ req' = [req EXCEPT ![r] = IdleReq]
    /\ UNCHANGED <<clock, row, cache, rings, refresh, admin, lastHeld>>

LoadRefused(r) ==
    /\ req[r].pc = "load"
    /\ LET loaded == row[req[r].key]
       IN loaded # NoRow => Invalid(loaded, req[r].now)
    /\ Goto(r, "drop")
    /\ UNCHANGED <<clock, row, cache, rings, refresh, admin, lastHeld>>

LoadRow(r) ==
    /\ req[r].pc = "load"
    /\ LET loaded == row[req[r].key]
       IN /\ loaded # NoRow
          /\ ~Invalid(loaded, req[r].now)
          /\ req' = [req EXCEPT ![r].pc = "store", ![r].row = loaded]
    /\ UNCHANGED <<clock, row, cache, rings, refresh, admin, lastHeld>>

(* Mutant of Store: upsertCachedKey(effective, time.Now(), time.Now()) *)
StoreStampedLate(r) ==
    /\ req[r].pc = "store"
    /\ cache' = [cache EXCEPT ![req[r].key] =
                    [row |-> req[r].row, syncAt |-> clock, accessAt |-> clock]]
    /\ Goto(r, "admitted")
    /\ UNCHANGED <<clock, row, rings, refresh, admin, lastHeld>>

(* upsertCachedKey(effective, now, now) *)
Store(r) ==
    /\ req[r].pc = "store"
    /\ LET k == req[r].key  now == req[r].now
       IN cache' = [cache EXCEPT ![k] =
                       [row |-> req[r].row, syncAt |-> now, accessAt |-> now]]
    /\ Goto(r, "admitted")
    /\ UNCHANGED <<clock, row, rings, refresh, admin, lastHeld>>

(* deleteCachedKey, then proxy.RemoveRequestRing, then the refusal *)
Drop(r) ==
    /\ req[r].pc = "drop"
    /\ cache' = [cache EXCEPT ![req[r].key] = NotCached]
    /\ Goto(r, "unring")
    /\ UNCHANGED <<clock, row, rings, refresh, admin, lastHeld>>

Unring(r) ==
    /\ req[r].pc = "unring"
    /\ rings' = rings \ {req[r].key}
    /\ req' = [req EXCEPT ![r] = IdleReq]
    /\ UNCHANGED <<clock, row, cache, refresh, admin, lastHeld>>

(* A valid key goes on to GetOrCreateRequestRing and, from here, to the    *)
(* proxy with the copy of the row it was validated with.                   *)
Admit(r) ==
    /\ req[r].pc = "admitted"
    /\ rings' = IF req[r].row.rpm > 0 THEN rings \cup {req[r].key} ELSE rings
    /\ req' = [req EXCEPT ![r] = IdleReq]
    /\ UNCHANGED <<clock, row, cache, refresh, admin, lastHeld>>

RequestStep(r) ==
    \/ LookupInvalid(r) \/ LookupFresh(r) \/ LookupMiss(r) \/ Touch(r)
    \/ LoadError(r) \/ LoadRefused(r) \/ LoadRow(r) \/ Store(r)
    \/ Drop(r) \/ Unring(r) \/ Admit(r)

-----------------------------------------------------------------------------
(* The background goroutine: refreshCachedKeys, once per tick.  The ticker *)
(* may fire at any point; a tick that comes while the loop runs is late.   *)

TickFires ==
    /\ refresh.pc = "sleep"
    /\ refresh' = [refresh EXCEPT !.pc = "snapshot", !.now = clock]
    /\ UNCHANGED <<clock, row, cache, rings, req, admin, lastHeld>>

(* snapshotCachedKeys: of the copy only the two times are read again, and  *)
(* an entry is forgotten once the loop is done with its key.               *)
Snapshot ==
    /\ refresh.pc = "snapshot"
    /\ refresh' = [refresh EXCEPT !.pc = "next",
          !.snap = [k \in Keys |-> IF cache[k] = NotCached THEN NotCached
                        ELSE [syncAt |-> cache[k].syncAt, accessAt |-> cache[k].accessAt]]]
    /\ UNCHANGED <<clock, row, cache, rings, req, admin, lastHeld>>

(* The map is ranged over in any order. *)
ToVisit(k) == refresh.pc = "next" /\ refresh.snap[k] # NotCached

PickIdle(k) ==
    /\ ToVisit(k)
    /\ Idle(refresh.snap[k], refresh.now)
    /\ refresh' = [refresh EXCEPT !.pc = "evict", !.key = k, !.snap[k] = NotCached]
    /\ UNCHANGED <<clock, row, cache, rings, req, admin, lastHeld>>

PickFresh(k) ==
    /\ ToVisit(k)
    /\ ~Idle(refresh.snap[k], refresh.now)
    /\ Fresh(refresh.snap[k], refresh.now)
    /\ refresh' = [refresh EXCEPT !.snap[k] = NotCached]
    /\ UNCHANGED <<clock, row, cache, rings, req, admin, lastHeld>>

PickStale(k) ==
    /\ ToVisit(k)
    /\ ~Idle(refresh.snap[k], refresh.now)
    /\ ~Fresh(refresh.snap[k], refresh.now)
    /\ refresh' = [refresh EXCEPT !.pc = "load", !.key = k]
    /\ UNCHANGED <<clock, row, cache, rings, req, admin, lastHeld>>

RefreshDone ==
    /\ refresh.pc = "next"
    /\ \A k \in Keys : refresh.snap[k] = NotCached
    /\ refresh' = IdleRefresh
    /\ UNCHANGED <<clock, row, cache, rings, req, admin, lastHeld>>

(* On to the next key; key and row are dead until they are set again. *)
NextKey ==
    refresh' = [refresh EXCEPT !.pc = "next", !.snap[refresh.key] = NotCached,
                               !.key = NoKey, !.row = NoRow]

(* Mutant of RefreshError: the entry counts as synchronised after an error *)
RefreshErrorExtends ==
    /\ refresh.pc = "load"
    /\ cache' = IF cache[refresh.key] = NotCached THEN cache
                ELSE [cache EXCEPT ![refresh.key].syncAt = refresh.now]
    /\ NextKey
    /\ UNCHANGED <<clock, row, rings, req, admin, lastHeld>>

(* auth.GetValidKeyByContent, whose WHERE clause samples the time again *)
RefreshError ==
    /\ refresh.pc = "load"
    /\ NextKey
    /\ UNCHANGED <<clock, row, cache, rings, req, admin, lastHeld>>

(* Mutant of Selected: the query of GetKeyByContent, which has no WHERE *)
SelectedUnconditionally(r) == r # NoRow

Selected(r) == r # NoRow /\ r.balance > 0 /\ ~Expired(r, clock)

RefreshMissing ==
    /\ refresh.pc = "load"
    /\ ~Selected(row[refresh.key])
    /\ refresh' = [refresh EXCEPT !.pc = "remove"]
    /\ UNCHANGED <<clock, row, cache, rings, req, admin, lastHeld>>

RefreshRow ==
    /\ refresh.pc = "load"
    /\ Selected(row[refresh.key])
    /\ refresh' = [refresh EXCEPT !.pc = "store", !.row = row[refresh.key]]
    /\ UNCHANGED <<clock, row, cache, rings, req, admin, lastHeld>>

(* upsertCachedKey(latest, now, keyInfo.LastAccessAt): the time of the     *)
(* last access is the snapshot's, and the entry may have been deleted.     *)
RefreshStore ==
    /\ refresh.pc = "store"
    /\ LET k == refresh.key
       IN cache' = [cache EXCEPT ![k] =
                      [row |-> refresh.row, syncAt |-> refresh.now,
                       accessAt |-> refresh.snap[k].accessAt]]
    /\ NextKey
    /\ UNCHANGED <<clock, row, rings, req, admin, lastHeld>>

(* An idle entry ("evict") and one whose key is no longer valid ("remove") *)
RefreshDelete ==
    /\ refresh.pc \in {"evict", "remove"}
    /\ cache' = [cache EXCEPT ![refresh.key] = NotCached]
    /\ refresh' = [refresh EXCEPT !.pc = "unring"]
    /\ UNCHANGED <<clock, row, rings, req, admin, lastHeld>>

RefreshUnring ==
    /\ refresh.pc = "unring"
    /\ rings' = rings \ {refresh.key}
    /\ NextKey
    /\ UNCHANGED <<clock, row, cache, req, admin, lastHeld>>

RefreshLoad == RefreshMissing \/ RefreshRow

RefreshStep ==
    \/ Snapshot \/ RefreshDone \/ RefreshStore \/ RefreshDelete \/ RefreshUnring
    \/ \E k \in Keys : PickIdle(k) \/ PickFresh(k) \/ PickStale(k)

-----------------------------------------------------------------------------
(* The database and its writers.                                           *)

(* The rows of the keys in `written` become those of `new`. *)
Write(written, new) ==
    /\ clock <= LastWrite
    /\ row' = [k \in Keys |-> IF k \in written THEN new[k] ELSE row[k]]
    /\ lastHeld' = [k \in Keys |-> [r \in Rows |->
                      IF k \in written /\ r = row[k] THEN clock ELSE lastHeld[k][r]]]

CreateKey(k) ==
    /\ row[k] = NoRow
    /\ \E r \in Rows : Write({k}, [row EXCEPT ![k] = r])
    /\ UNCHANGED <<clock, cache, rings, req, refresh, admin>>

(* updateKey: the UPDATE, then invalidateKeyCache *)
UpdateKey(a, k) ==
    /\ admin[a].pc = "idle"
    /\ row[k] # NoRow
    /\ \E r \in Rows : Write({k}, [row EXCEPT ![k] = r])
    /\ admin' = [admin EXCEPT ![a] = [pc |-> "delete", todo |-> {k}, key |-> NoKey]]
    /\ UNCHANGED <<clock, cache, rings, req, refresh>>

Existing(keys) == {k \in keys : row[k] # NoRow}

(* updateTeam: the team's model list is part of the row of each of its keys *)
UpdateTeam(a, t) ==
    LET members == {k \in Keys : TeamOf[k] = t}
    IN /\ admin[a].pc = "idle"
       /\ \E grant \in [Keys -> Grants] :
             Write(Existing(members), [k \in Keys |-> IF row[k] = NoRow THEN NoRow
                                         ELSE [row[k] EXCEPT !.grant = grant[k]]])
       /\ admin' = [admin EXCEPT ![a] = [pc |-> "pluck", todo |-> members, key |-> NoKey]]
       /\ UNCHANGED <<clock, cache, rings, req, refresh>>

(* invalidateTeamKeyCache: an error of Pluck ends it silently. *)
Pluck(a) ==
    /\ admin[a].pc = "pluck"
    /\ \E found \in {{}, Existing(admin[a].todo)} :
          admin' = [admin EXCEPT ![a] = IF found = {} THEN IdleAdmin
                       ELSE [pc |-> "delete", todo |-> found, key |-> NoKey]]
    /\ UNCHANGED <<clock, row, cache, rings, req, refresh, lastHeld>>

(* invalidateKeyCache, for each key in turn *)
InvalidateCache(a, k) ==
    /\ admin[a].pc = "delete" /\ k \in admin[a].todo
    /\ cache' = [cache EXCEPT ![k] = NotCached]
    /\ admin' = [admin EXCEPT ![a] = [pc |-> "unring", todo |-> @.todo \ {k}, key |-> k]]
    /\ UNCHANGED <<clock, row, rings, req, refresh, lastHeld>>

InvalidateRing(a) ==
    /\ admin[a].pc = "unring"
    /\ rings' = rings \ {admin[a].key}
    /\ admin' = [admin EXCEPT ![a] = IF @.todo = {} THEN IdleAdmin
                    ELSE [pc |-> "delete", todo |-> @.todo, key |-> NoKey]]
    /\ UNCHANGED <<clock, row, cache, req, refresh, lastHeld>>

AdminStep(a) ==
    Pluck(a) \/ InvalidateRing(a) \/ \E k \in Keys : InvalidateCache(a, k)

(* spend.UpdateKeySpendRecord: a smaller balance, and no invalidation *)
Charge(k) ==
    /\ row[k] # NoRow
    /\ \E b \in Balances : /\ b < row[k].balance
                           /\ Write({k}, [row EXCEPT ![k] = [@ EXCEPT !.balance = b]])
    /\ UNCHANGED <<clock, cache, rings, req, refresh, admin>>

Tick ==
    /\ clock < MaxClock
    /\ clock' = clock + 1
    /\ UNCHANGED <<row, cache, rings, req, refresh, admin, lastHeld>>

-----------------------------------------------------------------------------
Next ==
    \/ \E r \in Requests : RequestStep(r) \/ \E k \in Keys : Arrive(r, k)
    \/ TickFires \/ RefreshStep \/ RefreshError \/ RefreshLoad
    \/ \E a \in Admins : AdminStep(a) \/ (\E k \in Keys : UpdateKey(a, k))
                                      \/ (\E t \in Teams : UpdateTeam(a, t))
    \/ \E k \in Keys : CreateKey(k) \/ Charge(k)
    \/ Tick

Spec == Init /\ [][Next]_vars

(* Goroutines that can run do run, the ticker keeps firing, time passes,   *)
(* and the database does not fail every refresh forever.                   *)
Fairness ==
    /\ \A r \in Requests : WF_vars(RequestStep(r))
    /\ \A a \in Admins : WF_vars(AdminStep(a))
    /\ WF_vars(TickFires) /\ WF_vars(RefreshStep)
    /\ SF_vars(RefreshLoad) /\ WF_vars(RefreshLoad \/ RefreshError)
    /\ WF_vars(Tick)

FairSpec == Spec /\ Fairness

-----------------------------------------------------------------------------
RequestPCs == {"idle", "lookup", "touch", "load", "store", "drop", "unring", "admitted"}
RefreshPCs == {"sleep", "snapshot", "next", "load", "store", "evict", "remove", "unring"}

DataType ==
    /\ clock \in Nat
    /\ row \in [Keys -> Rows \cup {NoRow}]
    /\ cache \in [Keys -> Entries \cup {NotCached}]
    /\ \A k \in Keys : cache[k] # NotCached => cache[k].syncAt <= clock
    /\ rings \subseteq Keys
    /\ lastHeld \in [Keys -> [Rows -> Nat \cup {Never}]]

RequestsType ==
    /\ req \in [Requests -> [pc : RequestPCs, key : Keys \cup {NoKey}, now : Nat,
                             row : Rows \cup {NoRow}]]
    /\ \A r \in Requests :
          /\ req[r].now <= clock
          /\ req[r].pc # "idle" => req[r].key \in Keys
          /\ req[r].pc \in {"touch", "store", "admitted"} => req[r].row \in Rows

RefreshType ==
    /\ refresh \in [pc : RefreshPCs, now : Nat, snap : [Keys -> Times \cup {NotCached}],
                    key : Keys \cup {NoKey}, row : Rows \cup {NoRow}]
    /\ refresh.now <= clock
    /\ refresh.pc \in {"load", "store", "evict", "remove", "unring"} => refresh.key \in Keys
    /\ refresh.pc \in {"load", "store"} => refresh.snap[refresh.key] # NotCached
    /\ refresh.pc = "store" => refresh.row \in Rows

AdminsType ==
    /\ admin \in [Admins -> [pc : {"idle", "pluck", "delete", "unring"},
                             todo : SUBSET Keys, key : Keys \cup {NoKey}]]
    /\ \A a \in Admins : admin[a].pc = "unring" => admin[a].key \in Keys

(* Types, and the bounds between a sampled time and the clock. *)
TypeOK == DataType /\ RequestsType /\ RefreshType /\ AdminsType

(* The database held row r for key k at time t or later. *)
HeldSince(k, r, t) == row[k] = r \/ lastHeld[k][r] >= t

(* checkKeyMiddleware lets a request in only with a row that the database  *)
(* held within keyCacheSyncTTL before the request sampled the time, or     *)
(* later: however invalidations, slow loaders, refreshes and touches       *)
(* interleave, a revoked or changed key is served no longer than that.     *)
BoundedStaleness ==
    \A r \in Requests : req[r].pc = "admitted" =>
        HeldSince(req[r].key, req[r].row, req[r].now - SyncTTL)

(* No request is let in on a row that was already exhausted or expired at  *)
(* the time the request sampled, though the entry may have been validated  *)
(* long before it.                                                         *)
AdmittedIsValid ==
    \A r \in Requests : req[r].pc = "admitted" => ~Invalid(req[r].row, req[r].now)

(* What every entry of validKeys promises: its row was the database's at   *)
(* LastSyncAt or later, although the entry may be written long after.      *)
EntriesHistoric ==
    \A k \in Keys : cache[k] # NotCached =>
        HeldSince(k, cache[k].row, cache[k].syncAt)

(* The same promise for what a goroutine is about to write or to let in.   *)
InFlightHistoric ==
    /\ \A r \in Requests :
          /\ req[r].pc = "store" => HeldSince(req[r].key, req[r].row, req[r].now)
          /\ req[r].pc = "touch" => HeldSince(req[r].key, req[r].row, req[r].now - SyncTTL)
          /\ req[r].pc \in {"touch", "store"} => ~Invalid(req[r].row, req[r].now)
    /\ refresh.pc = "store" => HeldSince(refresh.key, refresh.row, refresh.now)

(* The inductive invariant behind BoundedStaleness and AdmittedIsValid. *)
IInv ==
    /\ TypeOK
    /\ EntriesHistoric
    /\ InFlightHistoric
    /\ BoundedStaleness
    /\ AdmittedIsValid

(* A key whose row stays exhausted or expired leaves the cache for good,   *)
(* even when a loader that read the row before put it back after the       *)
(* invalidation, or when no invalidation took place at all (Charge).       *)
Revoked(k) == row[k] # NoRow /\ Invalid(row[k], clock)

RevokedIsForgotten ==
    \A k \in Keys : (<>[]Revoked(k)) => <>[](cache[k] = NotCached)
=============================================================================
