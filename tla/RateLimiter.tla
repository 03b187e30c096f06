---------------------------- MODULE RateLimiter ----------------------------
(***************************************************************************)
(* Per-key request limiting: RequestRing in src/internal/proxy/ratelimit.go *)
(* and the registry keyRequestRing in src/internal/proxy/proxy.go.         *)
(*                                                                         *)
(* The rings and the registry entry are those of one key: keys share       *)
(* nothing.  A handler looks the ring up (or creates it), samples the      *)
(* time, and only then takes the ring's mutex, so the times reach the ring *)
(* in any order and any amount late.  The ring it holds may meanwhile have *)
(* been removed from the registry, or replaced by one with another limit.  *)
(*                                                                         *)
(* granted is a history variable: for each ring the requests it let        *)
(* through, in the order of its critical sections, with the time each had  *)
(* sampled (stamp) and the time of the critical section (at).              *)
(***************************************************************************)
EXTENDS Integers, Sequences

CONSTANTS
    Requests,   \* handler goroutines
    Rpms,       \* limits a validated key record may carry; 0 is no limit
    Window,     \* the ring's window, one minute in the code
    NoRing,     \* the registry has no ring
    MaxClock,   \* bound: the clock stops here
    MaxRings    \* bound: the last of this many rings is never removed or replaced

ASSUME RpmAssumption == Rpms \subseteq Nat
ASSUME WindowAssumption == Window \in Nat \ {0}
ASSUME RingAssumption == NoRing \notin Nat

VARIABLES
    clock,    \* time.Now()
    rings,    \* every ring created so far: its limit and its recorded times
    reg,      \* keyRequestRing[key]: the number of a ring, or NoRing
    req,      \* the handlers
    granted   \* history, see above

vars == <<clock, rings, reg, req, granted>>

Idle == [pc |-> "idle", rpm |-> 0, ring |-> NoRing, now |-> 0]

Init ==
    /\ clock = 0
    /\ rings = <<>>
    /\ reg = NoRing
    /\ req = [r \in Requests |-> Idle]
    /\ granted = <<>>

-----------------------------------------------------------------------------
Registered(rpm) == reg # NoRing /\ rings[reg].max = rpm

(* Mutant of Enter: a limit of 0 gets a ring too *)
EnterUnlimited(r, rpm) ==
    /\ req[r].pc = "idle"
    /\ Registered(rpm) \/ Len(rings) < MaxRings
    /\ req' = [req EXCEPT ![r].pc = "find", ![r].rpm = rpm]
    /\ UNCHANGED <<clock, rings, reg, granted>>

(* A request whose key record carries a limit; a limit of 0 bypasses the   *)
(* rings, changes nothing, and is not a step.                              *)
Enter(r, rpm) ==
    /\ req[r].pc = "idle"
    /\ rpm > 0
    /\ Registered(rpm) \/ Len(rings) < MaxRings
    /\ req' = [req EXCEPT ![r].pc = "find", ![r].rpm = rpm]
    /\ UNCHANGED <<clock, rings, reg, granted>>

Got(r, ring) == req' = [req EXCEPT ![r].pc = "stamp", ![r].ring = ring]

(* GetOrCreateRequestRing under RLock *)
Find(r) ==
    /\ req[r].pc = "find"
    /\ IF Registered(req[r].rpm) THEN Got(r, reg)
       ELSE req' = [req EXCEPT ![r].pc = "create"]
    /\ UNCHANGED <<clock, rings, reg, granted>>

(* ... and under Lock: another handler may have created the ring since *)
FindAgain(r) ==
    /\ req[r].pc = "create"
    /\ Registered(req[r].rpm)
    /\ Got(r, reg)
    /\ UNCHANGED <<clock, rings, reg, granted>>

(* Mutant of Create: no second look under the write lock *)
CreateUnchecked(r) ==
    /\ req[r].pc = "create"
    /\ Len(rings) < MaxRings
    /\ rings' = Append(rings, [max |-> req[r].rpm, times |-> <<>>])
    /\ granted' = Append(granted, <<>>)
    /\ reg' = Len(rings) + 1
    /\ Got(r, Len(rings) + 1)
    /\ UNCHANGED clock

Create(r) ==
    /\ req[r].pc = "create"
    /\ ~Registered(req[r].rpm)
    /\ Len(rings) < MaxRings
    /\ rings' = Append(rings, [max |-> req[r].rpm, times |-> <<>>])
    /\ granted' = Append(granted, <<>>)
    /\ reg' = Len(rings) + 1
    /\ Got(r, Len(rings) + 1)
    /\ UNCHANGED clock

(* The argument of AllowAt(time.Now()) *)
Stamp(r) ==
    /\ req[r].pc = "stamp"
    /\ req' = [req EXCEPT ![r].pc = "allow", ![r].now = clock]
    /\ UNCHANGED <<clock, rings, reg, granted>>

(* Mutants of Prunes: the cutoff is one tick late, or must be passed *)
PrunesEarly(times, now, d) ==
    /\ d \in 0..Len(times)
    /\ \A i \in 1..d : times[i] <= now - Window + 1
    /\ d < Len(times) => times[d + 1] > now - Window + 1

PrunesLate(times, now, d) ==
    /\ d \in 0..Len(times)
    /\ \A i \in 1..d : times[i] < now - Window
    /\ d < Len(times) => times[d + 1] >= now - Window

(* pruneLocked drops d times: it stops at the first that is After(cutoff). *)
Prunes(times, now, d) ==
    /\ d \in 0..Len(times)
    /\ \A i \in 1..d : times[i] <= now - Window
    /\ d < Len(times) => times[d + 1] > now - Window

Pruned(times, d) == SubSeq(times, d + 1, Len(times))

(* Mutant of Grant: the limit is off by one *)
GrantOneMore(r) ==
    /\ req[r].pc = "allow"
    /\ LET g == req[r].ring  now == req[r].now  times == rings[g].times
       IN \E d \in 0..Len(times) :
             /\ Prunes(times, now, d)
             /\ Len(times) - d <= rings[g].max
             /\ rings' = [rings EXCEPT ![g].times = Append(Pruned(times, d), now)]
             /\ granted' = [granted EXCEPT ![g] = Append(@, [stamp |-> now, at |-> clock])]
    /\ req' = [req EXCEPT ![r] = Idle]
    /\ UNCHANGED <<clock, reg>>

Grant(r) ==
    /\ req[r].pc = "allow"
    /\ LET g == req[r].ring  now == req[r].now  times == rings[g].times
       IN \E d \in 0..Len(times) :
             /\ Prunes(times, now, d)
             /\ Len(times) - d < rings[g].max
             /\ rings' = [rings EXCEPT ![g].times = Append(Pruned(times, d), now)]
             /\ granted' = [granted EXCEPT ![g] = Append(@, [stamp |-> now, at |-> clock])]
    /\ req' = [req EXCEPT ![r] = Idle]
    /\ UNCHANGED <<clock, reg>>

(* The answer is 429, with the time until the oldest recorded one expires. *)
Deny(r) ==
    /\ req[r].pc = "allow"
    /\ LET g == req[r].ring  now == req[r].now  times == rings[g].times
       IN \E d \in 0..Len(times) :
             /\ Prunes(times, now, d)
             /\ Len(times) - d >= rings[g].max
             /\ rings' = [rings EXCEPT ![g].times = Pruned(times, d)]
    /\ req' = [req EXCEPT ![r] = Idle]
    /\ UNCHANGED <<clock, reg, granted>>

(* RemoveRequestRing: by a refusal, a refresh or an admin, at any time *)
Remove ==
    /\ reg # NoRing
    /\ Len(rings) < MaxRings
    /\ reg' = NoRing
    /\ UNCHANGED <<clock, rings, req, granted>>

Tick ==
    /\ clock < MaxClock
    /\ clock' = clock + 1
    /\ UNCHANGED <<rings, reg, req, granted>>

Next ==
    \/ \E r \in Requests : \/ \E rpm \in Rpms : Enter(r, rpm)
                           \/ Find(r) \/ FindAgain(r) \/ Create(r)
                           \/ Stamp(r) \/ Grant(r) \/ Deny(r)
    \/ Remove
    \/ Tick

Spec == Init /\ [][Next]_vars

-----------------------------------------------------------------------------
RingIds == DOMAIN rings

Ring == [max : Nat \ {0}, times : Seq(Nat)]
Log == Seq([stamp : Nat, at : Nat])

TypeOK ==
    /\ clock \in Nat
    /\ rings \in Seq(Ring)
    /\ reg \in RingIds \cup {NoRing}
    /\ req \in [Requests -> [pc : {"idle", "find", "create", "stamp", "allow"},
                             rpm : Nat, ring : RingIds \cup {NoRing}, now : Nat]]
    /\ \A r \in Requests :
          /\ req[r].now <= clock
          /\ req[r].pc \in {"find", "create"} => req[r].rpm > 0
          /\ req[r].pc \in {"stamp", "allow"} => req[r].ring \in RingIds
    /\ granted \in Seq(Log)
    /\ Len(granted) = Len(rings)

(* Of any max + 1 requests that one ring lets through, the last is let     *)
(* through a whole window or more after the first sampled the time: no     *)
(* burst exceeds the limit, however late and out of order handlers reach   *)
(* the mutex, and although pruning by a late clock reading drops times     *)
(* that an earlier reading still counts.                                   *)
Spaced(max, log) ==
    \A i \in 1..Len(log) :
        i + max <= Len(log) => log[i + max].at >= log[i].stamp + Window

Spacing == \A g \in RingIds : Spaced(rings[g].max, granted[g])

(* A request is turned away only if the ring let the limit through after   *)
(* the start of the window that ends when the request sampled the time.    *)
JustifiesDenial(r) ==
    LET g == req[r].ring  n == Len(granted[g])
    IN /\ n >= rings[g].max
       /\ \A i \in (n - rings[g].max + 1)..n :
             granted[g][i].at > req[r].now - Window

DenialJustified == [][\A r \in Requests : Deny(r) => JustifiesDenial(r)]_vars

(* Double-checked creation: a registered ring, and with it the record of   *)
(* the current window, gives way only to one with another limit.           *)
ReplacedOnlyByOtherLimit ==
    [][reg # NoRing /\ reg' \notin {NoRing, reg} =>
          rings'[reg'].max # rings[reg].max]_vars

(* What a ring remembers are the latest times it let through; the others   *)
(* left the window of some clock reading.  With the order of the critical  *)
(* sections this is inductive and implies the two properties above.        *)
RingOK(ring, log, now) ==
    LET n == Len(log)  m == Len(ring.times)
    IN /\ m <= n /\ m <= ring.max
       /\ \A i \in 1..m : ring.times[i] = log[n - m + i].stamp
       /\ \A i \in 1..(n - m) : log[i].stamp + Window <= now
       /\ \A i \in 1..n : log[i].stamp <= log[i].at /\ log[i].at <= now
       /\ \A i, j \in 1..n : i <= j => log[i].at <= log[j].at

RingInv == \A g \in RingIds : RingOK(rings[g], granted[g], clock)

(* The inductive invariant *)
IInv == TypeOK /\ RingInv /\ Spacing
=============================================================================
