------------------------------ MODULE Balancer ------------------------------
(* The balancer of a model group (internal/balancer/balancer.go): the state  *)
(* that the handlers share, and how each strategy chooses the first upstream *)
(* of a request. Next and Observe are one critical section each.             *)
EXTENDS Integers, SequencesExt

CONSTANTS
    Group, \* the upstreams of the model group, in the order of the file
    Word   \* the numbers of a uint64

Models == ToSet(Group)

(* A group without upstreams is answered 503 before anything else, and the *)
(* gateway does not start with one that has the same upstream twice        *)
(* (buildConfigSyncPlan).                                                  *)
ASSUME GroupAssumption == Group \in Seq(Models) /\ Group # <<>> /\ IsInjective(Group)
ASSUME WordAssumption == Word \in Nat /\ Word >= Len(Group)

VARIABLES
    index, \* how often an upstream was chosen in turn
    stats  \* lb.stats: what the latency strategy knows of an upstream

Place(m) == CHOOSE i \in DOMAIN Group : Group[i] = m

Unseen == [seen |-> FALSE, healthy |-> FALSE, latency |-> 0]

BalancerInit ==
    /\ index = 0
    /\ stats = [m \in Models |-> Unseen]

-----------------------------------------------------------------------------
(* mutant: a counter that does not wrap *)
NextInTurnForEver(m) ==
    /\ index' = index + 1
    /\ m = Group[(index' % Len(Group)) + 1]

(* RoundRobinBalancer.Next, and the fallback of the next two *)
NextInTurn(m) ==
    /\ index' = (index + 1) % Word
    /\ m = Group[(index' % Len(Group)) + 1]

(* Weights are numbers of the file, of any sign. *)
UpTo(weight, i) == SumFunctionOnSet([j \in DOMAIN Group |-> weight[Group[j]]], 1..i)
TotalWeight(weight) == UpTo(weight, Len(Group))

(* uint64(n) *)
Unsigned(n) == n % Word

(* mutant: a weight covers one number too many *)
CoversOneMore(weight, i, n) == Unsigned(UpTo(weight, i)) >= n

Covers(weight, i, n) == Unsigned(UpTo(weight, i)) > n

(* WeightedBalancer.Next *)
NextByWeight(weight, m) ==
    IF TotalWeight(weight) <= 0 THEN NextInTurn(m)
    ELSE /\ index' = (index + 1) % Word
         /\ m = Group[Min({i \in DOMAIN Group :
                               Covers(weight, i, index' % TotalWeight(weight))})]

(* mutant: whatever has a latency is healthy *)
OnceSeen == {m \in Models : stats[m].seen}

Healthy == {m \in Models : stats[m].seen /\ stats[m].healthy}

Fastest(m) ==
    /\ m \in Healthy
    /\ \A n \in Healthy :
          \/ stats[m].latency < stats[n].latency
          \/ stats[m].latency = stats[n].latency /\ Place(m) <= Place(n)

(* LatencyBalancer.Next: the first of the fastest that are healthy *)
NextByLatency(m) ==
    IF Healthy # {} THEN Fastest(m) /\ UNCHANGED index ELSE NextInTurn(m)

(* ClientStickyBalancer.Next, by the hash of the client's key *)
NextForClient(hash, m) ==
    /\ m = Group[(hash % Len(Group)) + 1]
    /\ UNCHANGED index

-----------------------------------------------------------------------------
(* A latency of 0 counts as a nanosecond. *)
Counted(latency) == IF latency = 0 THEN 1 ELSE latency

(* mutant: the first latency is smoothed too, into nothing *)
ObservedFromNothing(old, latency, healthy) ==
    [seen |-> TRUE, healthy |-> healthy,
     latency |-> (old.latency * 7 + Counted(latency)) \div 8]

Observed(old, latency, healthy) ==
    [seen |-> TRUE, healthy |-> healthy,
     latency |-> IF old.seen THEN (old.latency * 7 + Counted(latency)) \div 8
                 ELSE Counted(latency)]

(* LatencyBalancer.Observe; no other balancer is an Observer. *)
ObserveLatency(m, latency, success) ==
    stats' = [stats EXCEPT ![m] = Observed(@, latency, success)]
=============================================================================
