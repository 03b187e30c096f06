--------------------------- MODULE KeyCacheProofs ---------------------------
(***************************************************************************)
(* What holds of KeyCache for every set of keys, handlers and admins and   *)
(* every value of the two TTLs: its types, and BoundedStaleness.           *)
(*                                                                         *)
(* IInv is inductive because each of a goroutine's copies of a row carries *)
(* a time, sampled before the row was read, since when the database held   *)
(* that row (HeldSince).  HeldSince is about the past: no step can make it *)
(* false again (HeldStable).                                               *)
(***************************************************************************)
EXTENDS KeyCache, TLAPS

USE DEF RequestPCs, RefreshPCs

(* What the constants are, and that the values that stand for nothing are not among the others. *)
LEMMA ConstTypes ==
    /\ SyncTTL \in Nat /\ Never \in Int /\ Never < 0 - SyncTTL
    /\ NoKey \notin Keys /\ NoRow \notin Rows
    /\ NotCached \notin Entries /\ NotCached \notin Times
BY TTLAssumption, SentinelAssumption DEF Never

(* TypeOK holds at the start. *)
LEMMA InitType == Init => TypeOK
<1> SUFFICES ASSUME Init PROVE TypeOK
  OBVIOUS
<1> USE DEF Init
<1>1. DataType
  BY DEF DataType
<1>2. RequestsType
  BY DEF RequestsType, IdleReq
<1>3. RefreshType
  BY DEF RefreshType, IdleRefresh
<1>4. AdminsType
  BY DEF AdminsType, IdleAdmin
<1> QED
  BY <1>1, <1>2, <1>3, <1>4 DEF TypeOK

-----------------------------------------------------------------------------
(* The types, one kind of goroutine at a time.                             *)

(* A request that takes a row in hand, from the cache or from the table.   *)
LEMMA RowHeld ==
    ASSUME RequestsType, clock' = clock, NEW r \in Requests, NEW p \in RequestPCs,
           NEW w \in Rows, req[r].pc # "idle",
           req' = [req EXCEPT ![r].pc = p, ![r].row = w]
    PROVE  RequestsType'
<1> DEFINE R == [pc : RequestPCs, key : Keys \cup {NoKey}, now : Nat, row : Rows \cup {NoRow}]
           e == [req[r] EXCEPT !.pc = p, !.row = w]
<1>1. req \in [Requests -> R] /\ req[r] \in R
  BY DEF RequestsType
<1>2. e \in R /\ e.key = req[r].key /\ e.now = req[r].now /\ e.row = w
  BY <1>1
<1>3. req' = [req EXCEPT ![r] = e]
  BY <1>1
<1> HIDE DEF R, e
<1>4. req' \in [Requests -> R] /\ \A q \in Requests : req'[q] = IF q = r THEN e ELSE req[q]
  BY <1>1, <1>2, <1>3
<1> QED
  BY <1>2, <1>4 DEF RequestsType, R

(* A step of a request keeps the types.                                    *)
LEMMA RequestStepType ==
    ASSUME TypeOK, NEW r \in Requests, RequestStep(r)
    PROVE  TypeOK'
<1> USE ConstTypes DEF TypeOK, Goto
<1>1. UNCHANGED <<clock, row, refresh, admin, lastHeld>>
  BY DEF RequestStep, LookupInvalid, LookupFresh, LookupMiss, Touch, LoadError,
         LoadRefused, LoadRow, Store, Drop, Unring, Admit
<1>2. RefreshType' /\ AdminsType'
  BY <1>1 DEF RefreshType, AdminsType
<1>3. CASE LookupInvalid(r) \/ LookupMiss(r) \/ LoadRefused(r)
  <2>1. DataType'
    BY <1>3 DEF DataType, LookupInvalid, LookupMiss, LoadRefused
  <2>2. RequestsType'
    BY <1>3 DEF RequestsType, LookupInvalid, LookupMiss, LoadRefused
  <2> QED BY <1>2, <2>1, <2>2
<1>4. CASE LookupFresh(r)
  <2>1. DataType'
    BY <1>4 DEF DataType, LookupFresh
  <2>2. RequestsType'
    <3>1. PICK k \in Keys : k = req[r].key /\ cache[k] \in Entries
      BY <1>4 DEF DataType, RequestsType, LookupFresh
    <3>2. PICK w \in Rows : w = cache[k].row
      BY <3>1 DEF Entries
    <3>3. /\ req' = [req EXCEPT ![r].pc = "touch", ![r].row = w]
          /\ req[r].pc = "lookup" /\ clock' = clock
      BY <1>4, <3>1, <3>2 DEF LookupFresh
    <3> QED BY <3>3, RowHeld
  <2> QED BY <1>2, <2>1, <2>2
<1>5. CASE Touch(r)
  <2> DEFINE k == req[r].key
             e == [cache[k] EXCEPT !.accessAt = req[r].now]
  <2>0. k \in Keys /\ req[r].now \in Nat
    BY <1>5 DEF RequestsType, Touch
  <2>1. DataType'
    <3>1. CASE cache[k] = NotCached
      BY <1>5, <3>1 DEF DataType, Touch
    <3>2. CASE cache[k] # NotCached
      <4>1. cache[k] \in Entries
        BY <2>0, <3>2 DEF DataType
      <4>2. e \in Entries /\ e.syncAt = cache[k].syncAt
        BY <2>0, <4>1 DEF Entries
      <4>3. cache' = [cache EXCEPT ![k] = e] /\ UNCHANGED <<clock, row, rings, lastHeld>>
        BY <1>5, <3>2 DEF Touch
      <4> HIDE DEF k, e
      <4> QED BY <2>0, <3>2, <4>1, <4>2, <4>3 DEF DataType
    <3> QED BY <3>1, <3>2
  <2>2. RequestsType'
    BY <1>5 DEF RequestsType, Touch
  <2> QED BY <1>2, <2>1, <2>2
<1>6. CASE LoadError(r) \/ Unring(r) \/ Admit(r)
  <2>1. DataType'
    BY <1>6 DEF DataType, RequestsType, LoadError, Unring, Admit
  <2>2. req' = [req EXCEPT ![r] = IdleReq] /\ clock' = clock
    BY <1>6 DEF LoadError, Unring, Admit
  <2>3. IdleReq \in [pc : RequestPCs, key : Keys \cup {NoKey}, now : Nat,
                     row : Rows \cup {NoRow}]
    BY DEF IdleReq
  <2>4. RequestsType'
    BY <2>2, <2>3 DEF DataType, RequestsType, IdleReq
  <2> QED BY <1>2, <2>1, <2>4
<1>7. CASE LoadRow(r)
  <2>1. DataType'
    BY <1>7 DEF DataType, LoadRow
  <2>2. RequestsType'
    <3>1. PICK w \in Rows : w = row[req[r].key]
      BY <1>7 DEF DataType, RequestsType, LoadRow
    <3>2. /\ req' = [req EXCEPT ![r].pc = "store", ![r].row = w]
          /\ req[r].pc = "load" /\ clock' = clock
      BY <1>7, <3>1 DEF LoadRow
    <3> QED BY <3>2, RowHeld
  <2> QED BY <1>2, <2>1, <2>2
<1>8. CASE Store(r)
  <2>1. DataType'
    BY <1>8 DEF DataType, RequestsType, Store, Entries
  <2>2. RequestsType'
    BY <1>8 DEF RequestsType, Store
  <2> QED BY <1>2, <2>1, <2>2
<1>9. CASE Drop(r)
  <2>1. DataType'
    BY <1>9 DEF DataType, RequestsType, Drop
  <2>2. RequestsType'
    BY <1>9 DEF RequestsType, Drop
  <2> QED BY <1>2, <2>1, <2>2
<1> QED
  BY <1>3, <1>4, <1>5, <1>6, <1>7, <1>8, <1>9 DEF RequestStep

(* A request that arrives keeps the types. *)
LEMMA ArriveType ==
    ASSUME TypeOK, NEW r \in Requests, NEW k \in Keys, Arrive(r, k)
    PROVE  TypeOK'
BY DEF TypeOK, Arrive, DataType, RequestsType, RefreshType, AdminsType

(* A snapshot of the cache stays one when a key is struck out. *)
LEMMA SnapType ==
    ASSUME RefreshType, NEW k \in Keys
    PROVE  [refresh.snap EXCEPT ![k] = NotCached] \in [Keys -> Times \cup {NotCached}]
BY DEF RefreshType

(* The steps of the refresher keep the types. *)
LEMMA RefreshStepType ==
    ASSUME TypeOK, TickFires \/ RefreshStep \/ RefreshError \/ RefreshLoad
    PROVE  TypeOK'
<1> USE ConstTypes DEF TypeOK
<1>1. UNCHANGED <<clock, row, req, admin, lastHeld>>
  BY DEF TickFires, RefreshStep, RefreshError, RefreshLoad, Snapshot, PickIdle, PickFresh,
         PickStale, RefreshDone, RefreshMissing, RefreshRow, RefreshStore, RefreshDelete,
         RefreshUnring
<1>2. RequestsType' /\ AdminsType'
  BY <1>1 DEF RequestsType, AdminsType
<1>3. CASE TickFires \/ RefreshMissing \/ RefreshRow
  <2>1. DataType'
    BY <1>3 DEF DataType, TickFires, RefreshMissing, RefreshRow
  <2>2. RefreshType'
    <3>1. CASE TickFires
      <4>1. refresh' = [refresh EXCEPT !.pc = "snapshot", !.now = clock]
            /\ clock' = clock /\ clock \in Nat
        BY <3>1 DEF DataType, TickFires
      <4>2. /\ refresh' \in [pc : RefreshPCs, now : Nat,
                              snap : [Keys -> Times \cup {NotCached}],
                              key : Keys \cup {NoKey}, row : Rows \cup {NoRow}]
            /\ refresh'.now = clock /\ refresh'.pc = "snapshot"
        BY <4>1 DEF RefreshType
      <4> QED BY <4>1, <4>2 DEF RefreshType
    <3>2. CASE RefreshMissing
      BY <3>2 DEF DataType, RefreshType, RefreshMissing
    <3>3. CASE RefreshRow
      <4>1. row[refresh.key] \in Rows
        BY <3>3 DEF DataType, RefreshType, RefreshRow, Selected
      <4> QED BY <4>1, <3>3 DEF RefreshType, RefreshRow
    <3> QED BY <1>3, <3>1, <3>2, <3>3
  <2> QED BY <1>2, <2>1, <2>2
<1>4. CASE Snapshot
  <2>1. DataType'
    BY <1>4 DEF DataType, Snapshot
  <2>2. \A k \in Keys : cache[k] # NotCached =>
           [syncAt |-> cache[k].syncAt, accessAt |-> cache[k].accessAt] \in Times
    BY DEF DataType, Entries, Times
  <2>3. RefreshType'
    BY <1>4, <2>2 DEF RefreshType, DataType, Snapshot
  <2> QED BY <1>2, <2>1, <2>3
<1>5. CASE RefreshDone
  <2>1. DataType'
    BY <1>5 DEF DataType, RefreshDone
  <2>2. RefreshType'
    BY <1>5 DEF RefreshType, DataType, RefreshDone, IdleRefresh
  <2> QED BY <1>2, <2>1, <2>2
<1>6. CASE \E k \in Keys : PickIdle(k) \/ PickFresh(k) \/ PickStale(k)
  <2>1. DataType'
    BY <1>6 DEF DataType, PickIdle, PickFresh, PickStale
  <2>2. RefreshType'
    <3>1. PICK k \in Keys : PickIdle(k) \/ PickFresh(k) \/ PickStale(k)
      BY <1>6
    <3> DEFINE s == [refresh.snap EXCEPT ![k] = NotCached]
    <3>2. s \in [Keys -> Times \cup {NotCached}]
      BY SnapType
    <3>3. /\ ToVisit(k) /\ clock' = clock
          /\ \/ refresh' = [refresh EXCEPT !.pc = "evict", !.key = k, !.snap = s]
             \/ refresh' = [refresh EXCEPT !.snap = s]
             \/ refresh' = [refresh EXCEPT !.pc = "load", !.key = k]
      BY <3>1 DEF PickIdle, PickFresh, PickStale
    <3> HIDE DEF s
    <3>4. CASE refresh' = [refresh EXCEPT !.pc = "evict", !.key = k, !.snap = s]
      BY <3>2, <3>3, <3>4 DEF RefreshType, ToVisit
    <3>5. CASE refresh' = [refresh EXCEPT !.snap = s]
      BY <3>2, <3>3, <3>5 DEF RefreshType, ToVisit
    <3>6. CASE refresh' = [refresh EXCEPT !.pc = "load", !.key = k]
      BY <3>3, <3>6 DEF RefreshType, ToVisit
    <3> QED BY <3>3, <3>4, <3>5, <3>6
  <2> QED BY <1>2, <2>1, <2>2
<1>7. CASE RefreshError \/ RefreshUnring
  <2>1. DataType'
    BY <1>7 DEF DataType, RefreshType, RefreshError, RefreshUnring
  <2>2. RefreshType'
    <3> DEFINE s == [refresh.snap EXCEPT ![refresh.key] = NotCached]
    <3>1. s \in [Keys -> Times \cup {NotCached}]
      BY <1>7, SnapType DEF RefreshType, RefreshError, RefreshUnring
    <3>2. /\ clock' = clock
          /\ refresh' = [refresh EXCEPT !.pc = "next", !.snap = s,
                                        !.key = NoKey, !.row = NoRow]
      BY <1>7 DEF RefreshError, RefreshUnring, NextKey
    <3> HIDE DEF s
    <3> QED BY <3>1, <3>2 DEF RefreshType
  <2> QED BY <1>2, <2>1, <2>2
<1>8. CASE RefreshStore
  <2> DEFINE k == refresh.key
             e == [row |-> refresh.row, syncAt |-> refresh.now,
                   accessAt |-> refresh.snap[k].accessAt]
  <2>1. k \in Keys /\ refresh.snap[k] \in Times
    BY <1>8 DEF RefreshType, RefreshStore
  <2>2. e \in Entries /\ e.syncAt <= clock
    BY <1>8, <2>1 DEF RefreshType, RefreshStore, Entries, Times
  <2>3. cache' = [cache EXCEPT ![k] = e] /\ UNCHANGED <<clock, row, rings, lastHeld>>
    BY <1>8 DEF RefreshStore
  <2>4. RefreshType'
    BY <1>8 DEF RefreshType, RefreshStore, NextKey
  <2>5. DataType'
    <3> HIDE DEF k, e
    <3> QED BY <2>1, <2>2, <2>3 DEF DataType
  <2> QED BY <1>2, <2>4, <2>5
<1>9. CASE RefreshDelete
  <2>1. DataType'
    BY <1>9 DEF DataType, RefreshType, RefreshDelete
  <2>2. RefreshType'
    BY <1>9 DEF RefreshType, RefreshDelete
  <2> QED BY <1>2, <2>1, <2>2
<1> QED
  BY <1>3, <1>4, <1>5, <1>6, <1>7, <1>8, <1>9 DEF RefreshStep, RefreshLoad

(* A write of the database keeps the types of the data and of its history. *)
LEMMA WriteType ==
    ASSUME DataType, NEW written \in SUBSET Keys, NEW new \in [Keys -> Rows \cup {NoRow}],
           Write(written, new), UNCHANGED <<clock, cache, rings>>
    PROVE  DataType'
BY DEF DataType, Write

(* What creates or charges a key keeps the types. *)
LEMMA WriterType ==
    ASSUME TypeOK, NEW k \in Keys, CreateKey(k) \/ Charge(k)
    PROVE  TypeOK'
<1>1. UNCHANGED <<clock, cache, rings, req, refresh, admin>>
  BY DEF CreateKey, Charge
<1>2. RequestsType' /\ RefreshType' /\ AdminsType'
  BY <1>1 DEF TypeOK, RequestsType, RefreshType, AdminsType
<1>3. \E new \in [Keys -> Rows \cup {NoRow}] : Write({k}, new)
  <2>1. CASE CreateKey(k)
    BY <2>1 DEF TypeOK, DataType, CreateKey
  <2>2. CASE Charge(k)
    <3>1. PICK b \in Balances : Write({k}, [row EXCEPT ![k] = [@ EXCEPT !.balance = b]])
      BY <2>2 DEF Charge
    <3>2. row[k] \in Rows
      BY <2>2 DEF TypeOK, DataType, Charge
    <3>3. [row[k] EXCEPT !.balance = b] \in Rows
      BY <3>2 DEF Rows
    <3> QED BY <3>1, <3>3 DEF TypeOK, DataType
  <2> QED BY <2>1, <2>2
<1> QED
  BY <1>1, <1>2, <1>3, WriteType DEF TypeOK

(* The steps of the admin handlers keep the types. *)
LEMMA AdminStepType ==
    ASSUME TypeOK, NEW a \in Admins,
           \/ AdminStep(a)
           \/ \E k \in Keys : UpdateKey(a, k)
           \/ \E t \in Teams : UpdateTeam(a, t)
    PROVE  TypeOK'
<1> USE DEF TypeOK
<1>1. UNCHANGED <<clock, req, refresh>>
  BY DEF AdminStep, Pluck, InvalidateRing, InvalidateCache, UpdateKey, UpdateTeam
<1>2. RequestsType' /\ RefreshType'
  BY <1>1 DEF RequestsType, RefreshType
<1>3. ASSUME NEW k \in Keys, UpdateKey(a, k)
      PROVE  TypeOK'
  <2>1. AdminsType'
    BY <1>3 DEF AdminsType, UpdateKey
  <2>2. PICK r \in Rows : Write({k}, [row EXCEPT ![k] = r])
    BY <1>3 DEF UpdateKey
  <2>3. DataType'
    BY <1>3, <2>2, WriteType DEF DataType, UpdateKey
  <2> QED BY <1>2, <2>1, <2>3
<1>4. ASSUME NEW t \in Teams, UpdateTeam(a, t)
      PROVE  TypeOK'
  <2> DEFINE members == {k \in Keys : TeamOf[k] = t}
  <2>1. AdminsType'
    BY <1>4 DEF AdminsType, UpdateTeam
  <2>2. PICK grant \in [Keys -> Grants] :
           Write(Existing(members), [k \in Keys |-> IF row[k] = NoRow THEN NoRow
                                       ELSE [row[k] EXCEPT !.grant = grant[k]]])
    BY <1>4 DEF UpdateTeam
  <2>3. \A k \in Keys : row[k] # NoRow => [row[k] EXCEPT !.grant = grant[k]] \in Rows
    BY DEF DataType, Rows
  <2>4. [k \in Keys |-> IF row[k] = NoRow THEN NoRow
            ELSE [row[k] EXCEPT !.grant = grant[k]]] \in [Keys -> Rows \cup {NoRow}]
    BY <2>3
  <2>5. Existing(members) \in SUBSET Keys
    BY DEF Existing
  <2>6. UNCHANGED <<clock, cache, rings>>
    BY <1>4 DEF UpdateTeam
  <2>7. DataType'
    BY <2>2, <2>4, <2>5, <2>6, WriteType
  <2> QED BY <1>2, <2>1, <2>7
<1>5. CASE Pluck(a)
  <2>1. DataType'
    BY <1>5 DEF DataType, Pluck
  <2>2. AdminsType'
    BY <1>5 DEF AdminsType, Pluck, Existing, IdleAdmin
  <2> QED BY <1>2, <2>1, <2>2
<1>6. ASSUME NEW k \in Keys, InvalidateCache(a, k)
      PROVE  TypeOK'
  <2>1. DataType'
    BY <1>6 DEF DataType, InvalidateCache
  <2>2. AdminsType'
    BY <1>6 DEF AdminsType, InvalidateCache
  <2> QED BY <1>2, <2>1, <2>2
<1>7. CASE InvalidateRing(a)
  <2>1. DataType'
    BY <1>7 DEF DataType, InvalidateRing
  <2>2. AdminsType'
    BY <1>7 DEF AdminsType, InvalidateRing, IdleAdmin
  <2> QED BY <1>2, <2>1, <2>2
<1> QED
  BY <1>3, <1>4, <1>5, <1>6, <1>7 DEF AdminStep

(* The clock keeps the types. *)
LEMMA TickType == TypeOK /\ Tick => TypeOK'
<1> SUFFICES ASSUME TypeOK, Tick PROVE TypeOK'
  OBVIOUS
<1> USE DEF TypeOK, Tick
<1>1. DataType'
  BY DEF DataType, Entries
<1>2. RequestsType' /\ AdminsType'
  BY DEF DataType, RequestsType, AdminsType
<1>3. RefreshType'
  BY DEF DataType, RefreshType
<1> QED BY <1>1, <1>2, <1>3

(* Every step keeps the types. *)
LEMMA NextType == TypeOK /\ [Next]_vars => TypeOK'
<1> SUFFICES ASSUME TypeOK, [Next]_vars PROVE TypeOK'
  OBVIOUS
<1>1. CASE UNCHANGED vars
  BY <1>1 DEF vars, TypeOK, DataType, RequestsType, RefreshType, AdminsType
<1>2. CASE Next
  BY <1>2, RequestStepType, ArriveType, RefreshStepType, AdminStepType, WriterType, TickType
  DEF Next
<1> QED BY <1>1, <1>2

(* Every variable keeps its type, and no sampled time is ahead of the clock. *)
THEOREM TypeCorrect == Spec => []TypeOK
BY InitType, NextType, PTL DEF Spec

-----------------------------------------------------------------------------
(* HeldSince is never falsified.                                           *)

(* Only Write changes rows, and it records the row it replaces. *)
Recorded(k) ==
    \A r \in Rows :
        /\ lastHeld'[k][r] \in {lastHeld[k][r], clock}
        /\ row[k] = r /\ row'[k] # r => lastHeld'[k][r] = clock

(* A write leaves in the history what the row was and until when. *)
LEMMA WriteRecords ==
    ASSUME NEW written, NEW new, Write(written, new), NEW k \in Keys
    PROVE  Recorded(k)
BY DEF Write, Recorded

(* So does every step, as each either writes or leaves the rows alone. *)
LEMMA StepRecords ==
    ASSUME [Next]_vars, NEW k \in Keys
    PROVE  Recorded(k)
<1>1. CASE UNCHANGED <<row, lastHeld>>
  BY <1>1 DEF Recorded
<1>2. CASE \E a \in Admins, q \in Keys : UpdateKey(a, q)
  BY <1>2, WriteRecords DEF UpdateKey
<1>3. CASE \E a \in Admins, t \in Teams : UpdateTeam(a, t)
  BY <1>3, WriteRecords DEF UpdateTeam
<1>4. CASE \E q \in Keys : CreateKey(q) \/ Charge(q)
  BY <1>4, WriteRecords DEF CreateKey, Charge
<1>5. ASSUME NEW r \in Requests, RequestStep(r) \/ \E q \in Keys : Arrive(r, q)
      PROVE  UNCHANGED <<row, lastHeld>>
  BY <1>5 DEF RequestStep, LookupInvalid, LookupFresh, LookupMiss, Touch, LoadError,
     LoadRefused, LoadRow, Store, Drop, Unring, Admit, Arrive
<1>6. CASE TickFires \/ RefreshStep \/ RefreshError \/ RefreshLoad \/ Tick
  <2>1. UNCHANGED <<row, lastHeld>>
    BY <1>6 DEF TickFires, RefreshStep, RefreshError, RefreshLoad, Snapshot, PickIdle,
       PickFresh, PickStale, RefreshDone, RefreshMissing, RefreshRow, RefreshStore,
       RefreshDelete, RefreshUnring, Tick
  <2> QED BY <2>1, <1>1
<1>7. ASSUME NEW a \in Admins, AdminStep(a)
      PROVE  UNCHANGED <<row, lastHeld>>
  BY <1>7 DEF AdminStep, Pluck, InvalidateCache, InvalidateRing
<1>8. CASE UNCHANGED vars
  BY <1>8, <1>1 DEF vars
<1> QED
  BY <1>1, <1>2, <1>3, <1>4, <1>5, <1>6, <1>7, <1>8 DEF Next

(* That a row was held by the database at some time up to now is never undone. *)
LEMMA HeldStable ==
    ASSUME TypeOK, [Next]_vars, NEW k \in Keys, NEW r \in Rows,
           NEW t \in Int, t <= clock, HeldSince(k, r, t)
    PROVE  HeldSince(k, r, t)'
<1>1. Recorded(k)
  BY StepRecords
<1>2. clock \in Int /\ lastHeld[k][r] \in Int
  BY ConstTypes DEF TypeOK, DataType
<1> QED
  BY <1>1, <1>2 DEF Recorded, HeldSince

-----------------------------------------------------------------------------
(* IInv, regrouped by who carries the promise.                             *)

RequestOK(q) ==
    /\ q.pc = "store" => HeldSince(q.key, q.row, q.now)
    /\ q.pc \in {"touch", "admitted"} => HeldSince(q.key, q.row, q.now - SyncTTL)
    /\ q.pc \in {"touch", "store", "admitted"} => ~Invalid(q.row, q.now)

RefreshOK == refresh.pc = "store" => HeldSince(refresh.key, refresh.row, refresh.now)

Promises == EntriesHistoric /\ (\A r \in Requests : RequestOK(req[r])) /\ RefreshOK

(* The invariant is the types with what the goroutines in flight rely on. *)
LEMMA Regroup == IInv <=> TypeOK /\ Promises
BY DEF IInv, Promises, RequestOK, RefreshOK, InFlightHistoric, BoundedStaleness,
       AdmittedIsValid

(* What a step leaves alone keeps its promise. *)
LEMMA KeepEntry ==
    ASSUME TypeOK, EntriesHistoric, [Next]_vars, NEW k \in Keys,
           cache[k] # NotCached,
           cache'[k].row = cache[k].row, cache'[k].syncAt = cache[k].syncAt
    PROVE  HeldSince(k, cache[k].row, cache[k].syncAt)'
<1>1. /\ cache[k].row \in Rows /\ cache[k].syncAt \in Int /\ cache[k].syncAt <= clock
      /\ HeldSince(k, cache[k].row, cache[k].syncAt)
  BY DEF TypeOK, DataType, Entries, EntriesHistoric
<1>2. HeldSince(k, cache[k].row, cache[k].syncAt) =>
        row'[k] = cache[k].row \/ lastHeld'[k][cache[k].row] >= cache[k].syncAt
  BY <1>1, HeldStable DEF HeldSince
<1> QED
  BY <1>1, <1>2 DEF HeldSince

(* What a handler that does not move relies on stays true. *)
LEMMA KeepRequest ==
    ASSUME TypeOK, [Next]_vars, NEW r \in Requests, RequestOK(req[r]), req'[r] = req[r]
    PROVE  RequestOK(req[r])'
<1> DEFINE q == req[r]
<1>1. ASSUME q.pc \in {"touch", "store", "admitted"}
      PROVE  /\ q.key \in Keys /\ q.row \in Rows
             /\ q.now \in Int /\ q.now <= clock
             /\ q.now - SyncTTL \in Int /\ q.now - SyncTTL <= clock
  BY <1>1, ConstTypes DEF TypeOK, DataType, RequestsType
<1>2. q.pc = "store" => row'[q.key] = q.row \/ lastHeld'[q.key][q.row] >= q.now
  BY <1>1, HeldStable DEF HeldSince, RequestOK
<1>3. q.pc \in {"touch", "admitted"} =>
          row'[q.key] = q.row \/ lastHeld'[q.key][q.row] >= q.now - SyncTTL
  BY <1>1, HeldStable DEF HeldSince, RequestOK
<1> QED
  BY <1>2, <1>3 DEF RequestOK, HeldSince, Invalid, Expired

(* What the refresher relies on stays true while it does not move. *)
LEMMA KeepRefresh ==
    ASSUME TypeOK, [Next]_vars, RefreshOK, UNCHANGED refresh
    PROVE  RefreshOK'
<1>1. ASSUME refresh.pc = "store"
      PROVE  refresh.key \in Keys /\ refresh.row \in Rows
             /\ refresh.now \in Int /\ refresh.now <= clock
  BY <1>1 DEF TypeOK, RefreshType
<1>2. refresh.pc = "store" =>
         row'[refresh.key] = refresh.row \/ lastHeld'[refresh.key][refresh.row] >= refresh.now
  BY <1>1, HeldStable DEF HeldSince, RefreshOK
<1> QED
  BY <1>2 DEF RefreshOK, HeldSince

(* A step that writes no new row into the cache and moves no goroutine. *)
LEMMA KeepPromises ==
    ASSUME TypeOK, Promises, [Next]_vars
    PROVE  /\ (\A k \in Keys : cache'[k] \in {NotCached, cache[k]}) => EntriesHistoric'
           /\ UNCHANGED req => \A r \in Requests : RequestOK(req[r])'
           /\ UNCHANGED refresh => RefreshOK'
<1>1. ASSUME \A k \in Keys : cache'[k] \in {NotCached, cache[k]}
      PROVE  EntriesHistoric'
  <2>1. ASSUME NEW k \in Keys, cache'[k] # NotCached
        PROVE  HeldSince(k, cache[k].row, cache[k].syncAt)'
    BY <1>1, <2>1, KeepEntry DEF Promises
  <2> QED BY <2>1 DEF EntriesHistoric
<1>2. ASSUME UNCHANGED req
      PROVE  \A r \in Requests : RequestOK(req[r])'
  BY <1>2, KeepRequest DEF Promises
<1>3. ASSUME UNCHANGED refresh
      PROVE  RefreshOK'
  BY <1>3, KeepRefresh DEF Promises
<1> QED BY <1>1, <1>2, <1>3

(* Nothing is in flight at the start. *)
LEMMA InitPromises == Init => Promises
BY DEF Init, Promises, EntriesHistoric, RequestOK, RefreshOK, IdleReq, IdleRefresh

-----------------------------------------------------------------------------
(* The promises are kept by every step.                                    *)

LEMMA RequestPromises ==
    ASSUME TypeOK, Promises, [Next]_vars, NEW r \in Requests,
           RequestStep(r) \/ \E k \in Keys : Arrive(r, k)
    PROVE  Promises'
<1> DEFINE q == req[r]
<1>1. /\ UNCHANGED <<clock, row, refresh, admin, lastHeld>>
      /\ \A o \in Requests \ {r} : req'[o] = req[o]
  BY DEF TypeOK, RequestsType, RequestStep, LookupInvalid, LookupFresh, LookupMiss, Touch,
     LoadError, LoadRefused, LoadRow, Store, Drop, Unring, Admit, Arrive, Goto
<1>2. RefreshOK' /\ \A o \in Requests \ {r} : RequestOK(req[o])'
  BY <1>1, KeepPromises, KeepRequest DEF Promises
<1>3. q \in [pc : RequestPCs, key : Keys \cup {NoKey}, now : Nat, row : Rows \cup {NoRow}]
  BY DEF TypeOK, RequestsType
<1>4. SUFFICES EntriesHistoric' /\ RequestOK(req[r])'
  BY <1>2 DEF Promises
<1>5. ASSUME \/ LookupInvalid(r) \/ LookupMiss(r) \/ LoadError(r) \/ LoadRefused(r)
             \/ Unring(r) \/ Admit(r) \/ Drop(r) \/ \E k \in Keys : Arrive(r, k)
      PROVE  EntriesHistoric' /\ RequestOK(req[r])'
  <2>1. \A k \in Keys : cache'[k] \in {NotCached, cache[k]}
    BY <1>5 DEF TypeOK, DataType, LookupInvalid, LookupMiss, LoadError, LoadRefused, Unring,
       Admit, Drop, Arrive
  <2>2. req'[r].pc \in {"drop", "load", "idle", "unring", "lookup"}
    BY <1>5 DEF TypeOK, RequestsType, LookupInvalid, LookupMiss, LoadError, LoadRefused,
       Unring, Admit, Drop, Arrive, Goto, IdleReq
  <2> QED BY <2>1, <2>2, KeepPromises DEF RequestOK
<1>6. ASSUME LookupFresh(r)
      PROVE  EntriesHistoric' /\ RequestOK(req[r])'
  <2> DEFINE k == q.key
  <2>1. /\ k \in Keys /\ cache[k] \in Entries /\ cache[k] # NotCached
        /\ ~Invalid(cache[k].row, q.now) /\ q.now - cache[k].syncAt <= SyncTTL
        /\ req'[r] = [q EXCEPT !.pc = "touch", !.row = cache[k].row]
        /\ cache' = cache
    BY <1>6 DEF TypeOK, DataType, RequestsType, LookupFresh, Fresh
  <2>2. HeldSince(k, cache[k].row, cache[k].syncAt)
    BY <2>1 DEF Promises, EntriesHistoric
  <2>3. lastHeld[k][cache[k].row] \in Int
    BY <2>1, ConstTypes DEF TypeOK, DataType, Entries
  <2>4. HeldSince(k, cache[k].row, q.now - SyncTTL)
    <3>1. PICK s \in Int, n \in Int : s = cache[k].syncAt /\ n = q.now
      BY <1>3, <2>1, ConstTypes DEF Entries
    <3>2. SyncTTL \in Int /\ n - SyncTTL <= s
      BY <2>1, <3>1, ConstTypes
    <3> HIDE DEF k
    <3> QED BY <2>2, <2>3, <3>1, <3>2 DEF HeldSince
  <2>5. /\ req'[r].pc = "touch" /\ req'[r].key = k /\ req'[r].now = q.now
        /\ req'[r].row = cache[k].row
    BY <1>3, <2>1
  <2>6. RequestOK(req[r])'
    BY <1>1, <2>1, <2>4, <2>5 DEF RequestOK, HeldSince, Invalid, Expired
  <2> QED BY <2>1, <2>6, KeepPromises
<1>7. ASSUME Touch(r)
      PROVE  EntriesHistoric' /\ RequestOK(req[r])'
  <2>1. /\ q.pc = "touch"
        /\ req'[r].pc = "admitted" /\ req'[r].key = q.key /\ req'[r].now = q.now
        /\ req'[r].row = q.row
    BY <1>3, <1>7 DEF TypeOK, RequestsType, Touch, Goto
  <2>2. RequestOK(req[r])'
    BY <1>1, <2>1 DEF Promises, RequestOK, HeldSince, Invalid, Expired
  <2>3. ASSUME NEW k \in Keys, cache'[k] # NotCached
        PROVE  /\ cache[k] # NotCached
               /\ cache'[k].row = cache[k].row /\ cache'[k].syncAt = cache[k].syncAt
    BY <1>7, <2>3 DEF TypeOK, DataType, Entries, Touch
  <2>4. EntriesHistoric'
    BY <1>1, <2>3 DEF Promises, EntriesHistoric, HeldSince
  <2> QED BY <2>2, <2>4
<1>8. ASSUME LoadRow(r)
      PROVE  EntriesHistoric' /\ RequestOK(req[r])'
  <2>1. /\ ~Invalid(row[q.key], q.now) /\ cache' = cache
        /\ req'[r].pc = "store" /\ req'[r].key = q.key /\ req'[r].now = q.now
        /\ req'[r].row = row[q.key]
    BY <1>3, <1>8 DEF TypeOK, RequestsType, LoadRow
  <2>2. RequestOK(req[r])'
    BY <1>1, <2>1 DEF RequestOK, HeldSince, Invalid, Expired
  <2> QED BY <2>1, <2>2, KeepPromises
<1>9. ASSUME Store(r)
      PROVE  EntriesHistoric' /\ RequestOK(req[r])'
  <2> DEFINE k == q.key
  <2>1. /\ q.pc = "store" /\ k \in Keys /\ q.row \in Rows
        /\ req'[r].pc = "admitted" /\ req'[r].key = k /\ req'[r].now = q.now
        /\ req'[r].row = q.row
        /\ cache' = [cache EXCEPT ![k] =
                        [row |-> q.row, syncAt |-> q.now, accessAt |-> q.now]]
    BY <1>3, <1>9 DEF TypeOK, RequestsType, Store, Goto
  <2>2. HeldSince(k, q.row, q.now) /\ ~Invalid(q.row, q.now)
    BY <2>1 DEF Promises, RequestOK
  <2>3. lastHeld[k][q.row] \in Int
    BY <2>1, ConstTypes DEF TypeOK, DataType
  <2>4. HeldSince(k, q.row, q.now - SyncTTL)
    BY <1>3, <2>2, <2>3, ConstTypes DEF HeldSince
  <2>5. RequestOK(req[r])'
    BY <1>1, <2>1, <2>2, <2>4 DEF RequestOK, HeldSince, Invalid, Expired
  <2>6. EntriesHistoric'
    BY <1>1, <2>1, <2>2 DEF TypeOK, DataType, Promises, EntriesHistoric, HeldSince
  <2> QED BY <2>5, <2>6
<1> QED
  BY <1>5, <1>6, <1>7, <1>8, <1>9 DEF RequestStep

(* The steps of the refresher keep what all rely on. *)
LEMMA RefreshPromises ==
    ASSUME TypeOK, Promises, [Next]_vars,
           TickFires \/ RefreshStep \/ RefreshError \/ RefreshLoad
    PROVE  Promises'
<1>1. UNCHANGED <<clock, row, req, admin, lastHeld>>
  BY DEF TickFires, RefreshStep, RefreshError, RefreshLoad, Snapshot, PickIdle, PickFresh,
         PickStale, RefreshDone, RefreshMissing, RefreshRow, RefreshStore, RefreshDelete,
         RefreshUnring
<1>2. \A r \in Requests : RequestOK(req[r])'
  BY <1>1, KeepPromises
<1>3. CASE TickFires \/ Snapshot \/ RefreshDone \/ RefreshMissing \/ RefreshError
           \/ RefreshDelete \/ RefreshUnring
           \/ \E k \in Keys : PickIdle(k) \/ PickFresh(k) \/ PickStale(k)
  <2>1. \A k \in Keys : cache'[k] \in {NotCached, cache[k]}
    BY <1>3 DEF TypeOK, DataType, TickFires, Snapshot, RefreshDone, RefreshMissing,
       RefreshError, RefreshDelete, RefreshUnring, PickIdle, PickFresh, PickStale
  <2>2. refresh'.pc # "store"
    <3>1. CASE TickFires \/ RefreshMissing \/ RefreshDelete \/ Snapshot
      BY <3>1 DEF TypeOK, RefreshType, TickFires, RefreshMissing, RefreshDelete, Snapshot
    <3>2. CASE RefreshDone
      BY <3>2 DEF RefreshDone, IdleRefresh
    <3>3. CASE RefreshError \/ RefreshUnring
      BY <3>3 DEF TypeOK, RefreshType, RefreshError, RefreshUnring, NextKey
    <3>4. CASE \E k \in Keys : PickIdle(k) \/ PickFresh(k) \/ PickStale(k)
      BY <3>4 DEF TypeOK, RefreshType, PickIdle, PickFresh, PickStale, ToVisit
    <3> QED BY <1>3, <3>1, <3>2, <3>3, <3>4
  <2> QED BY <1>2, <2>1, <2>2, KeepPromises DEF Promises, RefreshOK
<1>4. CASE RefreshRow
  <2>1. /\ cache' = cache
        /\ refresh'.row = row[refresh.key] /\ refresh'.key = refresh.key
    BY <1>4 DEF TypeOK, RefreshType, RefreshRow
  <2>2. RefreshOK'
    BY <1>1, <2>1 DEF RefreshOK, HeldSince
  <2> QED BY <1>2, <2>1, <2>2, KeepPromises DEF Promises
<1>5. CASE RefreshStore
  <2> DEFINE k == refresh.key
             e == [row |-> refresh.row, syncAt |-> refresh.now,
                   accessAt |-> refresh.snap[k].accessAt]
  <2>1. /\ k \in Keys /\ cache' = [cache EXCEPT ![k] = e]
        /\ HeldSince(k, refresh.row, refresh.now)
        /\ refresh'.pc = "next"
    BY <1>5 DEF TypeOK, RefreshType, RefreshStore, NextKey, Promises, RefreshOK
  <2>2. EntriesHistoric'
    BY <1>1, <2>1 DEF TypeOK, DataType, Promises, EntriesHistoric, HeldSince
  <2> QED BY <1>2, <2>1, <2>2 DEF Promises, RefreshOK
<1> QED
  BY <1>3, <1>4, <1>5 DEF RefreshStep, RefreshLoad

(* So do the admin handlers, the flushers and the clock. *)
LEMMA OtherPromises ==
    ASSUME TypeOK, Promises, [Next]_vars,
           \/ \E a \in Admins : AdminStep(a) \/ (\E k \in Keys : UpdateKey(a, k))
                                             \/ (\E t \in Teams : UpdateTeam(a, t))
           \/ \E k \in Keys : CreateKey(k) \/ Charge(k)
           \/ Tick \/ UNCHANGED vars
    PROVE  Promises'
<1>1. UNCHANGED <<req, refresh>>
  BY DEF AdminStep, Pluck, InvalidateRing, InvalidateCache, UpdateKey, UpdateTeam,
         CreateKey, Charge, Tick, vars
<1>2. \A k \in Keys : cache'[k] \in {NotCached, cache[k]}
  BY DEF AdminStep, Pluck, InvalidateRing, InvalidateCache, UpdateKey, UpdateTeam,
         CreateKey, Charge, Tick, vars, TypeOK, DataType
<1> QED
  BY <1>1, <1>2, KeepPromises DEF Promises

(* Every step keeps the invariant. *)
LEMMA NextInv == IInv /\ [Next]_vars => IInv'
<1> SUFFICES ASSUME IInv, [Next]_vars PROVE IInv'
  OBVIOUS
<1>1. TypeOK /\ Promises
  BY Regroup
<1>2. TypeOK'
  BY <1>1, NextType
<1>3. Promises'
  BY <1>1, RequestPromises, RefreshPromises, OtherPromises DEF Next
<1>4. (TypeOK /\ Promises)' => IInv'
  BY DEF IInv, Promises, RequestOK, RefreshOK, InFlightHistoric, BoundedStaleness,
         AdmittedIsValid
<1> QED BY <1>2, <1>3, <1>4

(* With the types: the row of every entry of validKeys was the database's at its LastSyncAt or     *)
(* later, and so was the row a handler or the refresher is about to store; a row a handler is      *)
(* about to go on with is no older than keyCacheSyncTTL, and valid at the time it took (main.go).  *)
THEOREM Inductive == Spec => []IInv
<1>1. Init => IInv
  BY InitType, InitPromises, Regroup
<1> QED BY <1>1, NextInv, PTL DEF Spec

(* Whatever the interleaving of handlers, refresher, admins and flushers,  *)
(* however many keys and however long a goroutine is delayed, no request   *)
(* is let in with a row that the database ceased to hold more than         *)
(* keyCacheSyncTTL before the request sampled the time.                    *)
THEOREM StalenessIsBounded == Spec => []BoundedStaleness
BY Inductive, PTL DEF IInv

(* No request is let in on a row that was exhausted or expired when it     *)
(* sampled the time, however old the cached entry.                         *)
THEOREM OnlyValidKeysAdmitted == Spec => []AdmittedIsValid
BY Inductive, PTL DEF IInv
=============================================================================
