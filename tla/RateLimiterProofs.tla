------------------------- MODULE RateLimiterProofs -------------------------
(***************************************************************************)
(* What holds of RateLimiter for every number of handlers, every limit and *)
(* window, and whatever the delay between a clock reading and its use: its *)
(* types, Spacing and the limit it sets to a window, DenialJustified and    *)
(* which rings are replaced.                                               *)
(***************************************************************************)
EXTENDS RateLimiter, SequenceTheorems, SumTheorems, TLAPS

(* What is left of a ring's times after d of them are dropped. *)
LEMMA PrunedProperties ==
    ASSUME NEW times \in Seq(Nat), NEW d \in 0..Len(times)
    PROVE  /\ Pruned(times, d) \in Seq(Nat)
           /\ Len(Pruned(times, d)) = Len(times) - d
           /\ \A i \in 1..(Len(times) - d) : Pruned(times, d)[i] = times[i + d]
<1>1. \A i \in (d + 1)..Len(times) : times[i] \in Nat
  BY ElementOfSeq, LenProperties
<1>2. Len(times) \in Nat
  BY LenProperties
<1>3. /\ Pruned(times, d) \in Seq(Nat)
      /\ Len(Pruned(times, d)) =
            IF d + 1 <= Len(times) THEN Len(times) - (d + 1) + 1 ELSE 0
      /\ \A i \in 1..(Len(times) - (d + 1) + 1) : Pruned(times, d)[i] = times[d + 1 + i - 1]
  BY <1>1, <1>2, SubSeqProperties DEF Pruned
<1> QED BY <1>2, <1>3

(* The next number is past the last or it is not. *)
LEMMA NextOrNot ==
    ASSUME NEW i \in Int, NEW x \in Int, NEW n \in Int, i + x <= n + 1
    PROVE  i + x <= n \/ i + x = n + 1
OBVIOUS

(* What an entry of the log of a ring is made of. *)
LEMMA LogEntry ==
    ASSUME NEW log \in Log, NEW i \in 1..Len(log)
    PROVE  log[i] \in [stamp : Nat, at : Nat] /\ log[i].stamp \in Nat /\ log[i].at \in Nat
<1>1. log[i] \in [stamp : Nat, at : Nat]
  BY ElementOfSeq DEF Log
<1> QED BY <1>1

(* Pruning keeps a ring in order, whatever clock reading it uses. *)
LEMMA PruneRing ==
    ASSUME NEW ring \in Ring, NEW log \in Log, NEW at \in Nat, NEW now \in Nat, now <= at,
           RingOK(ring, log, at), NEW d \in 0..Len(ring.times), Prunes(ring.times, now, d)
    PROVE  /\ [ring EXCEPT !.times = Pruned(ring.times, d)] \in Ring
           /\ RingOK([ring EXCEPT !.times = Pruned(ring.times, d)], log, at)
<1> DEFINE n == Len(log)
           m == Len(ring.times)
           rest == Pruned(ring.times, d)
<1>1. n \in Nat /\ m \in Nat /\ ring.times \in Seq(Nat) /\ ring.max \in Nat
  BY LenProperties DEF Ring, Log
<1>0. d \in 0..m
  OBVIOUS
<1>2. /\ rest \in Seq(Nat) /\ Len(rest) = m - d
      /\ \A i \in 1..(m - d) : rest[i] = ring.times[i + d]
  BY <1>1, PrunedProperties
<1>3. /\ m <= n /\ m <= ring.max
      /\ \A i \in 1..m : ring.times[i] = log[n - m + i].stamp
      /\ \A i \in 1..(n - m) : log[i].stamp + Window <= at
      /\ \A i \in 1..n : log[i].stamp <= log[i].at /\ log[i].at <= at
      /\ \A i, j \in 1..n : i <= j => log[i].at <= log[j].at
  BY DEF RingOK
<1>4. \A i \in 1..n : log[i].stamp \in Nat /\ log[i].at \in Nat
  BY LogEntry
<1>5. \A i \in 1..(n - (m - d)) : log[i].stamp + Window <= at
  <2>1. SUFFICES ASSUME NEW i \in 1..(n - (m - d)), ~ i <= n - m
                 PROVE  log[i].stamp + Window <= at
    BY <1>1, <1>3
  <2> DEFINE j == i - (n - m)
  <2>2. j \in 1..d /\ i \in 1..n
    <3>1. m <= n /\ d \in 0..m /\ i \in 1..(n - (m - d)) /\ ~ i <= n - m
      BY <1>3, <2>1
    <3> HIDE DEF n, m
    <3> QED BY <1>1, <3>1
  <2>3. j \in 1..m /\ n - m + j = i
    <3> HIDE DEF n, m
    <3> QED BY <1>1, <1>0, <2>1, <2>2
  <2>4. ring.times[j] <= now - Window
    <3> HIDE DEF j
    <3> QED BY <2>2 DEF Prunes
  <2> HIDE DEF n, m, j
  <2>5. ring.times[j] = log[i].stamp
    BY <1>3, <2>3
  <2>6. log[i].stamp \in Nat
    BY <1>4, <2>2
  <2>7. log[i].stamp <= now - Window
    BY <2>4, <2>5
  <2> QED BY <2>6, <2>7, WindowAssumption
<1>6. \A i \in 1..(m - d) : rest[i] = log[n - (m - d) + i].stamp
  <2>1. TAKE i \in 1..(m - d)
  <2> DEFINE j == i + d
  <2>2. j \in 1..m /\ n - m + j = n - (m - d) + i
    BY <1>1
  <2>3. rest[i] = ring.times[j]
    BY <1>2
  <2> HIDE DEF j, rest
  <2>4. ring.times[j] = log[n - m + j].stamp
    BY <1>3, <2>2
  <2> QED BY <2>2, <2>3, <2>4
<1>7. [ring EXCEPT !.times = rest] \in Ring
  BY <1>2 DEF Ring
<1> DEFINE ring2 == [ring EXCEPT !.times = rest]
<1>8. ring2.times = rest /\ ring2.max = ring.max
  BY DEF Ring
<1>9. RingOK(ring2, log, at)
  <2> HIDE DEF rest, ring2
  <2>1. Len(ring2.times) = m - d /\ m - d <= n /\ m - d <= ring2.max
    BY <1>1, <1>2, <1>3, <1>8
  <2> QED BY <1>3, <1>5, <1>6, <1>8, <2>1 DEF RingOK
<1> QED
  BY <1>7, <1>9

Granting(ring, now) == [ring EXCEPT !.times = Append(ring.times, now)]
Logging(log, now, at) == Append(log, [stamp |-> now, at |-> at])

(* Granting appends to the ring and to its log. *)
LEMMA GrantRing ==
    ASSUME NEW ring \in Ring, NEW log \in Log, NEW at \in Nat, NEW now \in Nat, now <= at,
           RingOK(ring, log, at), Len(ring.times) < ring.max, Spaced(ring.max, log),
           NEW ring2, ring2 = Granting(ring, now),
           NEW log2, log2 = Logging(log, now, at)
    PROVE  /\ ring2 \in Ring /\ log2 \in Log /\ ring2.max = ring.max
           /\ RingOK(ring2, log2, at)
           /\ Spaced(ring.max, log2)
<1> DEFINE n == Len(log)
           m == Len(ring.times)
           times == ring.times
<1>1. n \in Nat /\ m \in Nat /\ times \in Seq(Nat) /\ ring.max \in Nat \ {0}
  BY LenProperties DEF Ring, Log
<1>2. /\ Append(times, now) \in Seq(Nat) /\ Len(Append(times, now)) = m + 1
      /\ \A i \in 1..m : Append(times, now)[i] = times[i]
      /\ Append(times, now)[m + 1] = now
  BY <1>1, AppendProperties
<1>3. /\ log2 \in Log /\ Len(log2) = n + 1
      /\ \A i \in 1..n : log2[i] = log[i]
      /\ log2[n + 1] = [stamp |-> now, at |-> at]
  BY AppendProperties DEF Log, Logging
<1>4. /\ ring2 \in Ring /\ ring2.max = ring.max /\ ring2.times = Append(times, now)
  BY <1>2 DEF Ring, Granting
<1>5. /\ m <= n
      /\ \A i \in 1..m : times[i] = log[n - m + i].stamp
      /\ \A i \in 1..(n - m) : log[i].stamp + Window <= at
      /\ \A i \in 1..n : log[i].stamp <= log[i].at /\ log[i].at <= at
      /\ \A i, j \in 1..n : i <= j => log[i].at <= log[j].at
  BY DEF RingOK
<1>4a. at \in Nat
  OBVIOUS
<1>6. RingOK(ring2, log2, at)
  <2>1. m + 1 <= n + 1 /\ m + 1 <= ring.max
    BY <1>1, <1>5
  <2>2. \A i \in 1..(m + 1) : Append(times, now)[i] = log2[n + 1 - (m + 1) + i].stamp
    <3>1. SUFFICES ASSUME NEW i \in 1..(m + 1)
                   PROVE  Append(times, now)[i] = log2[n + 1 - (m + 1) + i].stamp
      OBVIOUS
    <3> DEFINE j == n + 1 - (m + 1) + i
    <3>1a. j = n - m + i /\ j \in Int
      BY <1>1
    <3> HIDE DEF j
    <3>2. CASE i = m + 1
      <4>1. j = n + 1
        <5> HIDE DEF n, m
        <5> QED BY <1>1, <3>1a, <3>2
      <4> QED BY <1>2, <1>3, <3>2, <4>1 DEF j
    <3>3. CASE i # m + 1
      <4>1. i \in 1..m /\ j \in 1..n
        <5> HIDE DEF n, m
        <5> QED BY <1>1, <1>5, <3>1, <3>1a, <3>3
      <4>2. log2[j] = log[j] /\ Append(times, now)[i] = times[i]
        BY <1>2, <1>3, <4>1
      <4>3. times[i] = log[j].stamp
        BY <1>5, <3>1a, <4>1
      <4> QED BY <4>2, <4>3 DEF j
    <3> QED BY <3>2, <3>3
  <2>a. \A i \in 1..(n - m) : i \in 1..n
    <3> HIDE DEF n, m
    <3> QED BY <1>1
  <2>b. \A i \in 1..(n + 1) : i \in 1..n \/ i = n + 1
    <3> HIDE DEF n
    <3> QED BY <1>1
  <2>3. \A i \in 1..(n - m) : log2[i].stamp + Window <= at
    <3> HIDE DEF n, m
    <3> QED BY <1>3, <1>5, <2>a
  <2>4. ASSUME NEW i \in 1..(n + 1)
        PROVE  log2[i].stamp <= log2[i].at /\ log2[i].at <= at
    <3>1. CASE i \in 1..n
      <4> HIDE DEF n
      <4> QED BY <1>3, <1>5, <3>1
    <3>2. CASE i = n + 1
      <4>1. log2[i].stamp = now /\ log2[i].at = at
        BY <1>3, <3>2
      <4> HIDE DEF n
      <4> QED BY <4>1, <1>4a
    <3> QED BY <2>b, <3>1, <3>2
  <2>5. ASSUME NEW i \in 1..(n + 1), NEW j \in 1..(n + 1), i <= j
        PROVE  log2[i].at <= log2[j].at
    <3>1. CASE i \in 1..n /\ j \in 1..n
      <4> HIDE DEF n
      <4> QED BY <1>3, <1>5, <2>5, <3>1
    <3>2. CASE j = n + 1
      <4>1. log2[j].at = at
        BY <1>3, <3>2
      <4>2. CASE i = n + 1
        BY <1>3, <4>1, <4>2, <1>4a
      <4>3. CASE i \in 1..n
        <5> HIDE DEF n
        <5> QED BY <1>3, <1>5, <4>1, <4>3
      <4> QED BY <2>b, <4>2, <4>3
    <3>3. CASE i = n + 1 /\ j \in 1..n
      <4> HIDE DEF n
      <4> QED BY <1>1, <2>5, <3>3
    <3> QED BY <2>b, <3>1, <3>2, <3>3
  <2>6. Len(ring2.times) = m + 1 /\ Len(log2) = n + 1
    BY <1>2, <1>3, <1>4
  <2>7. Len(log2) - Len(ring2.times) = n - m
    <3> DEFINE n2 == Len(log2)
               m2 == Len(ring2.times)
    <3>1. n2 = n + 1 /\ m2 = m + 1 /\ n \in Nat /\ m \in Nat
      BY <1>1, <2>6
    <3>2. n2 - m2 = n - m
      <4> HIDE DEF n, m, n2, m2
      <4> QED BY <3>1
    <3> QED BY <3>2
  <2>8. \A i \in 1..(m + 1) : ring2.times[i] = log2[n - m + i].stamp
    <3>1. \A i \in 1..(m + 1) : n + 1 - (m + 1) + i = n - m + i
      BY <1>1
    <3> HIDE DEF n, m, times
    <3> QED BY <1>4, <2>2, <3>1
  <2> HIDE DEF n, m, times
  <2> QED BY <1>4, <2>1, <2>3, <2>4, <2>5, <2>6, <2>7, <2>8 DEF RingOK
<1>7. Spaced(ring.max, log2)
  <2>1. SUFFICES ASSUME NEW i \in 1..(n + 1), i + ring.max <= n + 1
                 PROVE  log2[i + ring.max].at >= log2[i].stamp + Window
    BY <1>3 DEF Spaced
  <2>2. CASE i + ring.max <= n
    <3> DEFINE j == i + ring.max
    <3>1. i \in 1..n /\ j \in 1..n
      BY <1>1, <2>1, <2>2
    <3>2. log[j].at >= log[i].stamp + Window
      BY <2>2, <3>1 DEF Spaced
    <3> HIDE DEF n, j
    <3>3. log2[j].at >= log2[i].stamp + Window
      BY <1>3, <3>1, <3>2
    <3> QED BY <3>3 DEF j
  <2>3. CASE i + ring.max = n + 1
    <3>1. i \in 1..(n - m)
      <4>1. m < ring.max
        OBVIOUS
      <4> HIDE DEF n, m
      <4> QED BY <1>1, <2>3, <4>1
    <3>1a. i \in 1..n
      BY <1>1, <3>1
    <3>2. log2[i].stamp = log[i].stamp /\ log2[i + ring.max].at = at
      <4> HIDE DEF n
      <4> QED BY <1>3, <2>3, <3>1a
    <3>3. log[i].stamp \in Nat
      BY <3>1a, LogEntry
    <3>4. log[i].stamp + Window <= at
      BY <1>5, <3>1
    <3>5. log2[i].stamp + Window <= at
      BY <3>2, <3>4
    <3> DEFINE j == i + ring.max
    <3>6. log2[j].at = at
      BY <3>2
    <3>7. log2[j].at >= log2[i].stamp + Window
      <4> HIDE DEF j
      <4> QED BY <3>2, <3>3, <3>5, <3>6, WindowAssumption
    <3> QED BY <3>7
  <2>4. i + ring.max <= n \/ i + ring.max = n + 1
    <3>1. i \in Int /\ ring.max \in Int /\ n \in Int /\ i + ring.max <= n + 1
      BY <1>1, <2>1
    <3> QED BY <3>1, NextOrNot
  <2> QED BY <2>2, <2>3, <2>4
<1> QED BY <1>3, <1>4, <1>6, <1>7

-----------------------------------------------------------------------------
(* The inductive invariant.                                                *)

LEMMA InitInv == Init => IInv
<1> SUFFICES ASSUME Init PROVE IInv
  OBVIOUS
<1>1. RingIds = {}
  BY EmptySeq DEF Init, RingIds
<1>2. TypeOK
  BY <1>1, EmptySeq DEF Init, TypeOK, Idle
<1> QED BY <1>1, <1>2 DEF IInv, RingInv, Spacing

(* Steps that touch no ring and do not move the clock *)
LEMMA KeepRings ==
    ASSUME IInv, UNCHANGED <<clock, rings, granted>>
    PROVE  RingInv' /\ Spacing'
BY DEF IInv, RingInv, Spacing, RingIds

(* The steps of a handler outside the critical section of a ring keep the invariant. *)
LEMMA HandlerInv ==
    ASSUME IInv, NEW r \in Requests,
           \/ \E rpm \in Rpms : Enter(r, rpm)
           \/ Find(r) \/ FindAgain(r) \/ Stamp(r)
    PROVE  IInv'
<1>1. UNCHANGED <<clock, rings, granted, reg>>
  BY DEF Enter, Find, FindAgain, Stamp
<1>2. TypeOK'
  <2> DEFINE T == [pc : {"idle", "find", "create", "stamp", "allow"},
                   rpm : Nat, ring : RingIds \cup {NoRing}, now : Nat]
  <2>1. req[r] \in T /\ clock \in Nat /\ reg \in RingIds \cup {NoRing}
        /\ req[r].now <= clock
    BY DEF IInv, TypeOK
  <2>2. PICK q \in T : /\ req' = [req EXCEPT ![r] = q]
                       /\ q.now <= clock
                       /\ q.pc \in {"find", "create"} => q.rpm > 0
                       /\ q.pc \in {"stamp", "allow"} => q.ring \in RingIds
    <3>1. CASE \E rpm \in Rpms : Enter(r, rpm)
      <4>1. PICK rpm \in Rpms : Enter(r, rpm)
        BY <3>1
      <4> DEFINE q == [req[r] EXCEPT !.pc = "find", !.rpm = rpm]
      <4>2. q \in T /\ q.pc = "find" /\ q.rpm = rpm /\ q.now = req[r].now
        BY <2>1, RpmAssumption
      <4>3. req' = [req EXCEPT ![r] = q] /\ rpm > 0
        BY <4>1 DEF Enter
      <4>4. q.now <= clock /\ q.rpm > 0
        BY <2>1, <4>2, <4>3
      <4> HIDE DEF q
      <4> QED BY <4>2, <4>3, <4>4
    <3>2. CASE Find(r) /\ ~Registered(req[r].rpm)
      <4> DEFINE q == [req[r] EXCEPT !.pc = "create"]
      <4>1. q \in T /\ q.pc = "create" /\ q.rpm = req[r].rpm /\ q.now = req[r].now
        BY <2>1
      <4>2. req' = [req EXCEPT ![r] = q] /\ req[r].rpm > 0
        BY <3>2 DEF Find, IInv, TypeOK
      <4> QED BY <2>1, <4>1, <4>2
    <3>3. CASE (Find(r) \/ FindAgain(r)) /\ Registered(req[r].rpm)
      <4> DEFINE q == [req[r] EXCEPT !.pc = "stamp", !.ring = reg]
      <4>1. q \in T /\ q.pc = "stamp" /\ q.ring = reg /\ q.now = req[r].now
        BY <2>1
      <4>2. req' = [req EXCEPT ![r] = q] /\ reg \in RingIds
        BY <2>1, <3>3 DEF Find, FindAgain, Got, Registered
      <4> QED BY <2>1, <4>1, <4>2
    <3>4. CASE Stamp(r)
      <4> DEFINE q == [req[r] EXCEPT !.pc = "allow", !.now = clock]
      <4>1. q \in T /\ q.pc = "allow" /\ q.ring = req[r].ring /\ q.now = clock
        BY <2>1
      <4>2. req' = [req EXCEPT ![r] = q] /\ req[r].ring \in RingIds
        BY <3>4 DEF Stamp, IInv, TypeOK
      <4>3. q.now <= clock
        BY <2>1, <4>1
      <4> HIDE DEF q
      <4> QED BY <4>1, <4>2, <4>3
    <3> QED BY <3>1, <3>2, <3>3, <3>4 DEF FindAgain
  <2> QED BY <1>1, <2>2 DEF IInv, TypeOK, RingIds
<1> QED BY <1>1, <1>2, KeepRings DEF IInv

(* The removal of the ring of a key keeps the invariant. *)
LEMMA RemoveInv == IInv /\ Remove => IInv'
<1> SUFFICES ASSUME IInv, Remove PROVE IInv'
  OBVIOUS
<1>1. TypeOK'
  BY DEF IInv, TypeOK, Remove, RingIds
<1> QED BY <1>1, KeepRings DEF IInv, Remove

(* A ring that is sound stays so as time passes. *)
LEMMA RingLater ==
    ASSUME NEW ring \in Ring, NEW log \in Log, NEW now \in Nat, RingOK(ring, log, now)
    PROVE  RingOK(ring, log, now + 1)
<1> DEFINE n == Len(log)
           m == Len(ring.times)
<1>1. n \in Nat /\ m \in Nat /\ m <= n
  BY LenProperties DEF Ring, Log, RingOK
<1>2. \A i \in 1..n : log[i].stamp \in Nat /\ log[i].at \in Nat
  BY LogEntry
<1>3. \A i \in 1..n : log[i].at <= now + 1
  <2>1. \A i \in 1..n : log[i].at <= now
    BY DEF RingOK
  <2> HIDE DEF n
  <2> QED BY <1>2, <2>1
<1>4. \A i \in 1..(n - m) : log[i].stamp + Window <= now + 1
  <2>1. \A i \in 1..(n - m) : log[i].stamp + Window <= now
    BY DEF RingOK
  <2>2. \A i \in 1..(n - m) : i \in 1..n
    <3> HIDE DEF n, m
    <3> QED BY <1>1
  <2> HIDE DEF n, m
  <2> QED BY <1>2, <2>1, <2>2, WindowAssumption
<1> QED BY <1>3, <1>4 DEF RingOK

(* The clock keeps the invariant. *)
LEMMA TickInv == IInv /\ Tick => IInv'
<1> SUFFICES ASSUME IInv, Tick PROVE IInv'
  OBVIOUS
<1>1. TypeOK'
  BY DEF IInv, TypeOK, Tick, RingIds
<1>2. Spacing'
  BY DEF IInv, Spacing, Tick, RingIds
<1>3. ASSUME NEW g \in RingIds
      PROVE  RingOK(rings[g], granted[g], clock + 1)
  <2>1. rings[g] \in Ring /\ granted[g] \in Log /\ clock \in Nat
    BY ElementOfSeq, LenProperties DEF IInv, TypeOK, RingIds
  <2>2. RingOK(rings[g], granted[g], clock)
    BY DEF IInv, RingInv
  <2> QED BY <2>1, <2>2, RingLater
<1> QED BY <1>1, <1>2, <1>3 DEF IInv, RingInv, Tick, RingIds

-----------------------------------------------------------------------------
(* The steps that write rings.                                             *)

LEMMA RingFacts ==
    ASSUME IInv, NEW g \in RingIds
    PROVE  /\ rings[g] \in Ring /\ granted[g] \in Log
           /\ g \in 1..Len(rings) /\ g \in 1..Len(granted)
           /\ RingOK(rings[g], granted[g], clock)
           /\ Spaced(rings[g].max, granted[g])
BY ElementOfSeq, LenProperties DEF IInv, TypeOK, RingIds, RingInv, Spacing

(* The creation of a ring keeps the invariant. *)
LEMMA CreateInv ==
    ASSUME IInv, NEW r \in Requests, Create(r)
    PROVE  IInv'
<1> DEFINE n == Len(rings)
           ring == [max |-> req[r].rpm, times |-> <<>>]
<1>1. /\ n \in Nat /\ Len(granted) = n /\ RingIds = 1..n
      /\ rings \in Seq(Ring) /\ granted \in Seq(Log) /\ clock \in Nat
  BY LenProperties DEF IInv, TypeOK, RingIds
<1>2. ring \in Ring /\ ring.times = <<>> /\ <<>> \in Log
  BY EmptySeq DEF IInv, TypeOK, Ring, Log, Create
<1>3. /\ rings' = Append(rings, ring) /\ granted' = Append(granted, <<>>)
      /\ reg' = n + 1 /\ clock' = clock
      /\ req' = [req EXCEPT ![r] = [@ EXCEPT !.pc = "stamp", !.ring = n + 1]]
  BY DEF Create, Got
<1>4. /\ rings' \in Seq(Ring) /\ Len(rings') = n + 1
      /\ \A g \in 1..n : rings'[g] = rings[g]
      /\ rings'[n + 1] = ring
  BY <1>1, <1>2, <1>3, AppendProperties
<1>5. /\ granted' \in Seq(Log) /\ Len(granted') = n + 1
      /\ \A g \in 1..n : granted'[g] = granted[g]
      /\ granted'[n + 1] = <<>>
  BY <1>1, <1>2, <1>3, AppendProperties
<1>6. RingIds' = 1..(n + 1)
  BY <1>4, LenProperties DEF RingIds
<1>7. TypeOK'
  <2>1. \A q \in Requests : req[q].ring \in RingIds \cup {NoRing} =>
                            req[q].ring \in RingIds' \cup {NoRing}
    BY <1>1, <1>6
  <2>2. RingIds \subseteq RingIds' /\ n + 1 \in RingIds'
    BY <1>1, <1>6
  <2> DEFINE q == [req[r] EXCEPT !.pc = "stamp", !.ring = n + 1]
  <2>3. /\ q \in [pc : {"idle", "find", "create", "stamp", "allow"},
                  rpm : Nat, ring : RingIds' \cup {NoRing}, now : Nat]
        /\ q.pc = "stamp" /\ q.ring = n + 1 /\ q.now <= clock
    BY <2>2 DEF IInv, TypeOK
  <2>4. req' = [req EXCEPT ![r] = q]
    BY <1>3
  <2> HIDE DEF n, ring, q
  <2>5. req' \in [Requests -> [pc : {"idle", "find", "create", "stamp", "allow"},
                  rpm : Nat, ring : RingIds' \cup {NoRing}, now : Nat]]
    BY <2>1, <2>3, <2>4 DEF IInv, TypeOK
  <2>6. \A o \in Requests :
          /\ req'[o].now <= clock
          /\ req'[o].pc \in {"find", "create"} => req'[o].rpm > 0
          /\ req'[o].pc \in {"stamp", "allow"} => req'[o].ring \in RingIds'
    BY <2>2, <2>3, <2>4 DEF IInv, TypeOK
  <2> QED BY <1>1, <1>3, <1>4, <1>5, <2>2, <2>5, <2>6 DEF TypeOK
<1>8. RingOK(ring, <<>>, clock) /\ Spaced(ring.max, <<>>)
  BY <1>2, EmptySeq DEF RingOK, Spaced, Ring
<1>9. ASSUME NEW g \in RingIds'
      PROVE  RingOK(rings'[g], granted'[g], clock') /\ Spaced(rings'[g].max, granted'[g])
  <2>1. CASE g = n + 1
    BY <1>3, <1>4, <1>5, <1>8, <2>1
  <2>2. CASE g # n + 1
    <3>1. g \in 1..n
      BY <1>1, <1>6, <2>2
    <3> HIDE DEF n, ring
    <3> QED BY <1>1, <1>3, <1>4, <1>5, <3>1, RingFacts
  <2> QED BY <2>1, <2>2
<1> QED BY <1>7, <1>9 DEF IInv, RingInv, Spacing

(* What Grant and Deny do to the ring they hold *)
LEMMA AllowInv ==
    ASSUME IInv, NEW r \in Requests, Grant(r) \/ Deny(r)
    PROVE  IInv'
<1> DEFINE g == req[r].ring
           now == req[r].now
<1>1. /\ g \in RingIds /\ now \in Nat /\ now <= clock /\ clock \in Nat
      /\ req' = [req EXCEPT ![r] = Idle] /\ clock' = clock /\ reg' = reg
  BY DEF IInv, TypeOK, Grant, Deny
<1>2. /\ rings[g] \in Ring /\ granted[g] \in Log
      /\ g \in 1..Len(rings) /\ g \in 1..Len(granted)
      /\ RingOK(rings[g], granted[g], clock) /\ Spaced(rings[g].max, granted[g])
  BY <1>1, RingFacts
<1>3. \E ring \in Ring, log \in Log :
         /\ rings' = [rings EXCEPT ![g] = ring] /\ granted' = [granted EXCEPT ![g] = log]
         /\ ring.max = rings[g].max
         /\ RingOK(ring, log, clock) /\ Spaced(ring.max, log)
  <2>1. PICK d \in 0..Len(rings[g].times) :
           /\ Prunes(rings[g].times, now, d)
           /\ \/ /\ Len(rings[g].times) - d < rings[g].max
                 /\ rings' = [rings EXCEPT ![g].times =
                                 Append(Pruned(rings[g].times, d), now)]
                 /\ granted' = [granted EXCEPT ![g] =
                                   Append(@, [stamp |-> now, at |-> clock])]
              \/ /\ rings' = [rings EXCEPT ![g].times = Pruned(rings[g].times, d)]
                 /\ granted' = granted
    BY DEF Grant, Deny
  <2> DEFINE left == Pruned(rings[g].times, d)
             ring1 == [rings[g] EXCEPT !.times = left]
             ring2 == Granting(ring1, now)
             log2 == Logging(granted[g], now, clock)
  <2>2. ring1 \in Ring /\ RingOK(ring1, granted[g], clock)
    BY <1>1, <1>2, <2>1, PruneRing
  <2>3. ring1.max = rings[g].max /\ ring1.times = left
    BY <1>2 DEF Ring
  <2>4. Len(left) = Len(rings[g].times) - d
    BY <1>2, <2>1, PrunedProperties DEF Ring
  <2>5. CASE Len(left) < rings[g].max /\ rings' = [rings EXCEPT ![g] = ring2]
             /\ granted' = [granted EXCEPT ![g] = log2]
    <3>1. ring2 \in Ring /\ log2 \in Log /\ ring2.max = ring1.max
          /\ RingOK(ring2, log2, clock) /\ Spaced(ring1.max, log2)
      <4>1. Len(ring1.times) < ring1.max /\ Spaced(ring1.max, granted[g])
        BY <1>2, <2>3, <2>5
      <4> HIDE DEF left, ring1, g, now
      <4> QED BY <1>1, <1>2, <2>2, <4>1, GrantRing
    <3> HIDE DEF left, ring1, ring2, log2
    <3> QED BY <2>3, <2>5, <3>1
  <2>6. CASE rings' = [rings EXCEPT ![g] = ring1] /\ granted' = granted
    <3>1. granted' = [granted EXCEPT ![g] = granted[g]]
      BY <1>2, <2>6, LenProperties DEF IInv, TypeOK
    <3> HIDE DEF left, ring1
    <3> QED BY <1>2, <2>2, <2>3, <2>6, <3>1
  <2>7. ring2 = [rings[g] EXCEPT !.times = Append(left, now)]
    BY <1>2, <2>3 DEF Ring, Granting
  <2> QED BY <2>1, <2>4, <2>5, <2>6, <2>7 DEF Logging
<1>4. PICK ring \in Ring, log \in Log :
         /\ rings' = [rings EXCEPT ![g] = ring] /\ granted' = [granted EXCEPT ![g] = log]
         /\ ring.max = rings[g].max
         /\ RingOK(ring, log, clock) /\ Spaced(ring.max, log)
  BY <1>3
<1>5. /\ rings' \in Seq(Ring) /\ Len(rings') = Len(rings) /\ RingIds' = RingIds
      /\ granted' \in Seq(Log) /\ Len(granted') = Len(granted)
  <2>1. rings \in Seq(Ring) /\ granted \in Seq(Log)
    BY DEF IInv, TypeOK
  <2>2. rings' \in Seq(Ring) /\ Len(rings') = Len(rings)
    BY <1>2, <1>4, <2>1, ExceptSeq
  <2>3. granted' \in Seq(Log) /\ Len(granted') = Len(granted)
    BY <1>2, <1>4, <2>1, ExceptSeq
  <2> QED BY <2>2, <2>3 DEF RingIds
<1>6. TypeOK'
  <2>1. Idle \in [pc : {"idle", "find", "create", "stamp", "allow"},
                  rpm : Nat, ring : RingIds \cup {NoRing}, now : Nat]
        /\ Idle.now = 0 /\ Idle.pc = "idle"
    BY DEF Idle
  <2> QED BY <1>1, <1>5, <2>1 DEF IInv, TypeOK
<1>7. ASSUME NEW h \in RingIds
      PROVE  RingOK(rings'[h], granted'[h], clock') /\ Spaced(rings'[h].max, granted'[h])
  <2>1. /\ h \in DOMAIN rings /\ h \in DOMAIN granted
    BY RingFacts, LenProperties DEF IInv, TypeOK
  <2>2. CASE h = g
    BY <1>1, <1>4, <2>1, <2>2
  <2>3. CASE h # g
    BY <1>1, <1>4, <2>1, <2>3, RingFacts
  <2> QED BY <2>2, <2>3
<1> QED BY <1>5, <1>6, <1>7 DEF IInv, RingInv, Spacing

(* Every step keeps the invariant. *)
LEMMA NextInv == IInv /\ [Next]_vars => IInv'
<1> SUFFICES ASSUME IInv, [Next]_vars PROVE IInv'
  OBVIOUS
<1>1. CASE UNCHANGED vars
  BY <1>1 DEF vars, IInv, TypeOK, RingInv, Spacing, RingIds
<1>2. CASE Next
  BY <1>2, HandlerInv, CreateInv, AllowInv, RemoveInv, TickInv DEF Next
<1> QED BY <1>1, <1>2

(* With the types: the times in a ring are those of the latest requests it let through, in their   *)
(* order, never more than its limit, and the earlier ones are a window past (requestRing.go).      *)
THEOREM Inductive == Spec => []IInv
BY InitInv, NextInv, PTL DEF Spec

(* Of any limit + 1 requests one ring lets through, the last comes at      *)
(* least a window after the first sampled the time, for every number of    *)
(* handlers, every limit and window, and unbounded delays between a clock  *)
(* reading and the critical section that uses it.                          *)
THEOREM RingSpacing == Spec => []Spacing
BY Inductive, PTL DEF IInv

(* The requests of a log that sampled the time at t or later and were let   *)
(* through before t + Window.                                              *)
InWindow(log, t) == {i \in 1..Len(log) : log[i].stamp >= t /\ log[i].at < t + Window}

(* What is a window after a time is past the window of an earlier time. *)
LEMMA PastWindow ==
    ASSUME NEW t \in Int, NEW stamp \in Int, NEW at \in Int, NEW later \in Int,
           stamp >= t, at >= stamp + Window, at <= later, later < t + Window
    PROVE  FALSE
<1>1. at >= t + Window
  BY WindowAssumption
<1> QED BY <1>1, WindowAssumption

(* A spaced log has no more than the limit of them. *)
LEMMA FewInWindow ==
    ASSUME NEW ring \in Ring, NEW log \in Log, NEW now \in Nat, RingOK(ring, log, now),
           Spaced(ring.max, log), NEW t \in Int
    PROVE  Cardinality(InWindow(log, t)) <= ring.max
<1> DEFINE S == InWindow(log, t)
           n == Len(log)
           max == ring.max
<1>1. n \in Nat /\ max \in Nat \ {0} /\ S \in SUBSET Nat
  BY LenProperties DEF Ring, Log, InWindow
<1>2. CASE S = {}
  <2>1. Cardinality(S) = 0
    <3> HIDE DEF S
    <3> QED BY <1>2, FS_EmptySet
  <2>2. 0 <= max
    <3> HIDE DEF max
    <3> QED BY <1>1
  <2> QED BY <2>1, <2>2
<1>3. CASE S # {}
  <2>1. PICK a \in S : \A i \in S : a <= i
    BY <1>1, <1>3, LeastNat
  <2> DEFINE b == a + max
  <2>2. a \in 1..n /\ log[a].stamp >= t
    BY <2>1 DEF InWindow
  <2>3. ASSUME NEW j \in S, b <= j PROVE FALSE
    <3>1. j \in 1..n /\ log[j].at < t + Window
      BY <2>3 DEF InWindow
    <3>2. b \in 1..n /\ b <= n
      <4> HIDE DEF n, max
      <4> QED BY <1>1, <2>2, <2>3, <3>1
    <3>3. log[b].at >= log[a].stamp + Window
      BY <2>2, <3>2 DEF Spaced
    <3>4. log[b].at <= log[j].at
      BY <2>3, <3>1, <3>2 DEF RingOK
    <3>5. log[b].at \in Nat /\ log[j].at \in Nat /\ log[a].stamp \in Nat
      BY <2>2, <3>1, <3>2, LogEntry
    <3> HIDE DEF b
    <3> QED BY <2>2, <3>1, <3>3, <3>4, <3>5, PastWindow
  <2>4. S \subseteq a..(b - 1)
    <3>1. \A i \in S : a <= i /\ ~(b <= i) /\ i \in Int
      BY <1>1, <2>1, <2>3
    <3>2. a \in Int /\ b \in Int
      BY <1>1, <2>2
    <3> HIDE DEF S, b
    <3> QED BY <3>1, <3>2
  <2>5. a \in Int /\ b - 1 \in Int /\ ~(a > b - 1) /\ b - 1 - a + 1 = max
    <3> HIDE DEF n, max
    <3> QED BY <1>1, <2>2
  <2>6. IsFiniteSet(a..(b - 1)) /\ Cardinality(a..(b - 1)) = max
    <3> HIDE DEF b, max
    <3> QED BY <2>5, FS_Interval
  <2>7. Cardinality(S) <= Cardinality(a..(b - 1))
    <3> HIDE DEF S, b
    <3> QED BY <2>4, <2>6, FS_Subset
  <2> QED BY <2>6, <2>7
<1> QED BY <1>2, <1>3

(* What the limit of a key means (requests per minute): no window of time, wherever it starts, *)
(* holds more requests of one ring than its limit, from their clock reading to their grant.    *)
THEOREM LimitPerWindow ==
    Spec => [](\A g \in RingIds, t \in Int : Cardinality(InWindow(granted[g], t)) <= rings[g].max)
<1>1. IInv => \A g \in RingIds, t \in Int : Cardinality(InWindow(granted[g], t)) <= rings[g].max
  <2>1. SUFFICES ASSUME IInv, NEW g \in RingIds, NEW t \in Int
                 PROVE  Cardinality(InWindow(granted[g], t)) <= rings[g].max
    OBVIOUS
  <2>2. clock \in Nat
    BY <2>1 DEF IInv, TypeOK
  <2> QED BY <2>1, <2>2, RingFacts, FewInWindow
<1> QED BY <1>1, Inductive, PTL

(* A denial finds the ring full of requests within a window. *)
LEMMA DenyJustified ==
    ASSUME IInv, NEW r \in Requests, Deny(r)
    PROVE  JustifiesDenial(r)
<1> DEFINE g == req[r].ring
           now == req[r].now
           ring == rings[g]
           log == granted[g]
           times == ring.times
           n == Len(log)
           m == Len(times)
           max == ring.max
<1>1. g \in RingIds /\ now \in Nat
  BY DEF IInv, TypeOK, Deny
<1>2. ring \in Ring /\ log \in Log /\ RingOK(ring, log, clock)
  BY <1>1, RingFacts
<1>3. PICK d \in 0..m : Prunes(times, now, d) /\ m - d >= max
  BY DEF Deny
<1>4. n \in Nat /\ m \in Nat /\ max \in Nat \ {0} /\ d \in 0..m
  BY <1>2, <1>3, LenProperties DEF Ring, Log
<1>5. m <= n /\ m <= max
  BY <1>2 DEF RingOK
<1>6. d = 0 /\ m = max /\ 1 \in 1..m /\ n - m + 1 \in 1..n /\ d < m
  <2>1. m - d >= max
    BY <1>3
  <2> HIDE DEF m, n, max
  <2> QED BY <1>4, <1>5, <2>1
<1>7. times[1] > now - Window
  BY <1>3, <1>6 DEF Prunes
<1>8. times[1] = log[n - m + 1].stamp
  BY <1>2, <1>6 DEF RingOK
<1>9. /\ log[n - m + 1].stamp <= log[n - m + 1].at
      /\ \A i \in 1..n : n - m + 1 <= i => log[n - m + 1].at <= log[i].at
  BY <1>2, <1>6 DEF RingOK
<1>10. \A i \in 1..n : log[i].stamp \in Nat /\ log[i].at \in Nat
  BY <1>2, LogEntry
<1>11. ASSUME NEW i \in (n - max + 1)..n
       PROVE  log[i].at > now - Window
  <2> DEFINE k == n - m + 1
  <2>1. i \in 1..n /\ k <= i /\ k \in 1..n
    <3>1. i \in (n - max + 1)..n
      BY <1>11
    <3> HIDE DEF m, n, max
    <3> QED BY <1>4, <1>5, <1>6, <3>1
  <2>2. log[k].stamp > now - Window
    BY <1>7, <1>8
  <2>3. log[k].stamp <= log[k].at /\ log[k].at <= log[i].at
    BY <1>9, <2>1
  <2>4. log[k].stamp \in Nat /\ log[k].at \in Nat /\ log[i].at \in Nat
    BY <1>10, <2>1
  <2> HIDE DEF k, now, log
  <2> QED BY <1>1, <2>2, <2>3, <2>4, WindowAssumption
<1>12. n >= max
  BY <1>4, <1>5, <1>6
<1> QED
  BY <1>11, <1>12 DEF JustifiesDenial

(* A 429 is never answered unless the ring has let its limit through since *)
(* the start of the window that ends when the request sampled the time.    *)
THEOREM DenialsJustified == Spec => DenialJustified
<1>1. IInv /\ [Next]_vars => [\A r \in Requests : Deny(r) => JustifiesDenial(r)]_vars
  BY DenyJustified
<1> QED BY <1>1, Inductive, PTL DEF Spec, DenialJustified

(* A ring that is registered, and with it the record of its window, gives  *)
(* way only to a ring of another limit: who creates one looks again under  *)
(* the write lock.                                                         *)
THEOREM OnlyOtherLimitsReplace == Spec => ReplacedOnlyByOtherLimit
<1> DEFINE Keeps == reg # NoRing /\ reg' \notin {NoRing, reg} => rings'[reg'].max # rings[reg].max
<1>1. ASSUME IInv, NEW r \in Requests, Create(r) PROVE Keeps
  <2> DEFINE n == Len(rings)
             ring == [max |-> req[r].rpm, times |-> <<>>]
  <2>1. rings \in Seq(Ring) /\ ring \in Ring /\ ring.max = req[r].rpm
    BY <1>1, EmptySeq DEF IInv, TypeOK, Ring, Create
  <2>2. rings' = Append(rings, ring) /\ reg' = n + 1
    BY <1>1 DEF Create
  <2>3. rings'[n + 1] = ring
    <3> HIDE DEF ring
    <3> QED BY <2>1, <2>2, AppendProperties
  <2>4. reg # NoRing => rings[reg].max # req[r].rpm
    BY <1>1 DEF Create, Registered
  <2> QED BY <2>1, <2>2, <2>3, <2>4
<1>2. ASSUME NEW r \in Requests,
             \/ \E rpm \in Rpms : Enter(r, rpm)
             \/ Find(r) \/ FindAgain(r) \/ Stamp(r) \/ Grant(r) \/ Deny(r)
      PROVE  reg' = reg
  BY <1>2 DEF Enter, Find, FindAgain, Stamp, Grant, Deny
<1>3. IInv /\ [Next]_vars => [Keeps]_vars
  BY <1>1, <1>2 DEF Next, Remove, Tick
<1> QED BY <1>3, Inductive, PTL DEF Spec, ReplacedOnlyByOtherLimit
=============================================================================
