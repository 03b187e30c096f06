----------------------------- MODULE Selection ------------------------------
(* Concurrent handlers that choose upstreams by one balancer and report what *)
(* became of their attempts, under any of the four strategies.               *)
EXTENDS Balancer, FiniteSets

CONSTANTS
    Handlers,
    Hashes,    \* the hashes of the clients' keys
    Weights,   \* the weights that the file may give: functions of Models
    Latencies, \* how long an attempt may take, in nanoseconds
    None       \* no upstream

ASSUME WeightAssumption ==
    \A w \in Weights : w \in [Models -> Int] /\ TotalWeight(w) < Word
ASSUME LatencyAssumption == Latencies \subseteq Nat
ASSUME NoneAssumption == None \notin Models

Strategies == {"round-robin", "weighted", "latency", "client-sticky"}

VARIABLES
    strategy, \* of the group
    weight,   \* of each of its upstreams
    tried,    \* the upstream each handler tries
    turns,    \* history: how often each upstream was chosen since index was last 0
    last,     \* history: how the last reported attempt at an upstream ended
    all       \* history: the latencies that were reported of it

vars == <<index, stats, strategy, weight, tried, turns, last, all>>

Init ==
    /\ BalancerInit
    /\ strategy \in Strategies
    /\ weight \in Weights
    /\ tried = [h \in Handlers |-> None]
    /\ turns = [m \in Models |-> 0]
    /\ last = [m \in Models |-> "never"]
    /\ all = [m \in Models |-> {}]

(* balancer.New and Next *)
NextModel(m) ==
    \/ strategy = "round-robin" /\ NextInTurn(m)
    \/ strategy = "weighted" /\ NextByWeight(weight, m)
    \/ strategy = "latency" /\ NextByLatency(m)
    \/ strategy = "client-sticky" /\ \E hash \in Hashes : NextForClient(hash, m)

Select(h, m) ==
    /\ tried[h] = None
    /\ NextModel(m)
    /\ tried' = [tried EXCEPT ![h] = m]
    /\ turns' = IF index' = index THEN turns
                ELSE [n \in Models |-> (IF index' = 0 THEN 0 ELSE turns[n])
                                        + (IF n = m THEN 1 ELSE 0)]
    /\ UNCHANGED <<stats, strategy, weight, last, all>>

(* observeBalancer *)
Report(h, latency, success) ==
    LET m == tried[h]
    IN  /\ m # None
        /\ IF strategy = "latency"
           THEN /\ ObserveLatency(m, latency, success)
                /\ last' = [last EXCEPT ![m] = IF success THEN "ok" ELSE "failed"]
                /\ all' = [all EXCEPT ![m] = @ \cup {IF latency = 0 THEN 1 ELSE latency}]
           ELSE UNCHANGED <<stats, last, all>>
        /\ UNCHANGED <<index, strategy, weight, turns>>

(* The request is answered or given up. *)
Return(h) ==
    /\ \E l \in Latencies, success \in BOOLEAN : Report(h, l, success)
    /\ tried' = [tried EXCEPT ![h] = None]

(* An error that may not be retried is not reported. *)
ReturnUnreported(h) ==
    /\ tried[h] # None
    /\ tried' = [tried EXCEPT ![h] = None]
    /\ UNCHANGED <<index, stats, strategy, weight, turns, last, all>>

(* The request goes on with any upstream: which one is the business of Forwarding. *)
Retry(h) ==
    /\ \E l \in Latencies : Report(h, l, FALSE)
    /\ \E m \in Models : tried' = [tried EXCEPT ![h] = m]

Next ==
    \E h \in Handlers :
        (\E m \in Models : Select(h, m)) \/ Return(h) \/ ReturnUnreported(h) \/ Retry(h)

Spec == Init /\ [][Next]_vars

-----------------------------------------------------------------------------
(* The types of the variables; the counter stays within a uint64. *)
TypeOK ==
    /\ index \in 0..(Word - 1)
    /\ stats \in [Models -> [seen : BOOLEAN, healthy : BOOLEAN, latency : Nat]]
    /\ strategy \in Strategies
    /\ weight \in Weights
    /\ tried \in [Handlers -> Models \cup {None}]
    /\ turns \in [Models -> 0..Word]
    /\ last \in [Models -> {"never", "ok", "failed"}]
    /\ all \in [Models -> SUBSET (Nat \ {0})]

(* The turns of an upstream in a round, in which each has what is due to it. *)
Turns(m) == IF strategy = "weighted" /\ TotalWeight(weight) > 0 THEN weight[m] ELSE 1
Round == SumFunction([m \in Models |-> Turns(m)])

(* After each round of requests, whoever made them, every upstream was chosen first as often as   *)
(* is due to it: once in round robin, by its weight in the weighted strategy. A weight below zero *)
(* breaks the rounds; nothing in the program refuses one.                                         *)
FairRounds ==
    LET chosen == SumFunction(turns)
    IN  (\A m \in Models : Turns(m) >= 0) /\ chosen % Round = 0 =>
            \A m \in Models : turns[m] = (chosen \div Round) * Turns(m)

(* The smoothed latency stays within what was observed of the upstream: rounding down at each of *)
(* many steps does not make it drift, nor reach 0, to which every other would lose for ever.     *)
LatencyWithinObserved ==
    \A m \in Models : stats[m].seen =>
        /\ \E l \in all[m] : l <= stats[m].latency
        /\ \E l \in all[m] : stats[m].latency <= l

(* While the last that was heard of some upstream was a success, the latency strategy chooses none *)
(* first whose last report was a failure, or of which nothing was heard.                           *)
FirstChoiceWorks ==
    [][\A h \in Handlers, m \in Models :
           /\ strategy = "latency"
           /\ tried[h] = None
           /\ tried'[h] = m
           /\ \E n \in Models : last[n] = "ok"
           => last[m] = "ok"]_vars

-----------------------------------------------------------------------------
(* A round of numbers is cut into a stretch for each upstream, in the order of the file. *)
Offset(m) == UpTo([n \in Models |-> Turns(n)], Place(m) - 1)
Within(i, length) == IF i <= 0 THEN 0 ELSE IF i < length THEN i ELSE length

(* How many of the numbers below n fall into the stretches of m. *)
Drawn(m, n) == (n \div Round) * Turns(m) + Within((n % Round) - Offset(m), Turns(m))

(* The numbers that were drawn since index was last 0 are those up to index, from 0 or, before the *)
(* counter wraps for the first time, from 1; and each went to the upstream into whose stretch it   *)
(* falls.                                                                                          *)
TurnsTaken ==
    /\ \A m \in Models : turns[m] <= index + 1
    /\ \E first \in {0, 1} :
          /\ SumFunction(turns) = index + 1 - first
          /\ (\A m \in Models : Turns(m) >= 0) =>
                \A m \in Models : turns[m] = Drawn(m, index + 1) - Drawn(m, first)

(* Of the last report about an upstream stats keeps how it ended, whatever was heard before. *)
HeardLast == \A m \in Models : last[m] = "ok" <=> m \in Healthy

(* What is inductive of these (SelectionProofs). *)
IInv == TypeOK /\ TurnsTaken /\ HeardLast /\ LatencyWithinObserved
=============================================================================
