-------------------------- MODULE ForwardingProofs --------------------------
(***************************************************************************)
(* What holds of Forwarding for every group of upstreams, all retry_times, *)
(* any number of requests and all answers: a client gets one answer, no    *)
(* request is given up before every upstream has had all its attempts, and *)
(* what is billed is read of the answer that was passed on whole; and the  *)
(* retries come to an end.                                                 *)
(***************************************************************************)
EXTENDS Forwarding, SumTheorems

-----------------------------------------------------------------------------
(* The upstreams of a group.                                               *)

LEMMA GroupFacts ==
    /\ Len(Group) \in Nat \ {0} /\ DOMAIN Group = 1..Len(Group) /\ Models # {}
    /\ \A i \in 1..Len(Group) : Group[i] \in Models
    /\ \A i, j \in 1..Len(Group) : Group[i] = Group[j] => i = j
    /\ \A m \in Models : Place(m) \in 1..Len(Group) /\ Group[Place(m)] = m
    /\ Word \in Nat \ {0}
<1>1. Len(Group) \in Nat \ {0} /\ DOMAIN Group = 1..Len(Group)
  BY GroupAssumption
<1>2. \A i \in 1..Len(Group) : Group[i] \in Models
  BY <1>1 DEF Models, ToSet
<1>3. \A m \in Models : Place(m) \in 1..Len(Group) /\ Group[Place(m)] = m
  BY <1>1 DEF Models, ToSet, Place
<1>4. \A i, j \in 1..Len(Group) : Group[i] = Group[j] => i = j
  BY <1>1, GroupAssumption DEF IsInjective
<1>5. Group[1] \in Models
  BY <1>1, <1>2
<1> QED BY <1>1, <1>2, <1>3, <1>4, <1>5, WordAssumption

(* Every upstream may be tried at least once, and less often than the bound. *)
LEMMA Attempts ==
    ASSUME NEW m \in Models
    PROVE  perUpstreamAttempts(m) \in 1..(MaxTries - 1) /\ MaxTries \in Nat
<1>1. RetryTimes[m] \in Int
  BY RetryAssumption
<1> QED BY <1>1 DEF perUpstreamAttempts, MaxTries, maxPerUpstreamRetryTimes

(* The candidates are the upstreams of the group, each once, from the first in turn. *)
LEMMA CandidatesFacts ==
    ASSUME NEW m \in Models
    PROVE  /\ Candidates(m) \in Seq(Models) /\ Candidates(m) # <<>> /\ IsInjective(Candidates(m))
           /\ Len(Candidates(m)) = Len(Group)
           /\ ToSet(Candidates(m)) = Models
<1> DEFINE at(o) == ((Place(m) + o - 2) % Len(Group)) + 1
<1>1. PICK n \in Nat \ {0} : n = Len(Group)
  BY GroupFacts
<1>2. PICK p \in 1..n : n = Len(Group) /\ p = Place(m)
  BY <1>1, GroupFacts
<1>3. \A o \in 1..n : (p + o - 2) % n = IF p + o - 2 < n THEN p + o - 2 ELSE p + o - 2 - n
  OBVIOUS
<1>4. \A o : at(o) = ((p + o - 2) % n) + 1
  BY <1>2
<1>5. Candidates(m) = [o \in 1..n |-> Group[at(o)]]
  BY <1>2, GroupFacts DEF Candidates
<1> HIDE DEF at
<1>6. \A o \in 1..n : at(o) = IF p + o - 1 <= n THEN p + o - 1 ELSE p + o - 1 - n
  BY <1>3, <1>4
<1>7. \A o \in 1..n : at(o) \in 1..n
  BY <1>6
<1>8. \A o, q \in 1..n : at(o) = at(q) => o = q
  BY <1>6
<1>9. \A i \in 1..n : \E o \in 1..n : at(o) = i
  <2> TAKE i \in 1..n
  <2>1. CASE i >= p
    <3>1. PICK o \in 1..n : p + o - 1 = i
      <4>1. i - p + 1 \in 1..n /\ p + (i - p + 1) - 1 = i
        BY <2>1
      <4> QED BY <4>1
    <3>2. at(o) = i
      BY <1>6, <3>1
    <3> QED BY <3>2
  <2>2. CASE i < p
    <3>1. PICK o \in 1..n : p + o - 1 = i + n
      <4>1. i - p + 1 + n \in 1..n /\ p + (i - p + 1 + n) - 1 = i + n
        BY <2>2
      <4> QED BY <4>1
    <3>2. at(o) = i
      BY <1>6, <3>1
    <3> QED BY <3>2
  <2> QED BY <2>1, <2>2
<1>10. Candidates(m) \in [1..n -> Models]
  BY <1>2, <1>5, <1>7, GroupFacts
<1>11. Candidates(m) \in Seq(Models) /\ Len(Candidates(m)) = n /\ DOMAIN Candidates(m) = 1..n
  BY <1>10
<1>12. Candidates(m) # <<>>
  BY <1>11
<1>13. IsInjective(Candidates(m))
  <2>1. \A o, q \in 1..n : Candidates(m)[o] = Candidates(m)[q] => o = q
    <3>1. \A o \in 1..n : Candidates(m)[o] = Group[at(o)]
      BY <1>5
    <3>2. \A i, j \in 1..n : Group[i] = Group[j] => i = j
      BY <1>2, GroupFacts
    <3>3. ASSUME NEW o \in 1..n, NEW q \in 1..n, Candidates(m)[o] = Candidates(m)[q]
          PROVE  o = q
      <4>1. at(o) \in 1..n /\ at(q) \in 1..n /\ Group[at(o)] = Group[at(q)]
        BY <1>7, <3>1, <3>3
      <4>2. at(o) = at(q)
        BY <3>2, <4>1
      <4> QED BY <1>8, <4>2
    <3> QED BY <3>3
  <2> QED BY <1>11, <2>1 DEF IsInjective
<1>14. ToSet(Candidates(m)) = Models
  <2>1. ASSUME NEW k \in Models PROVE \E o \in 1..n : Candidates(m)[o] = k
    <3>1. Place(k) \in 1..n /\ Group[Place(k)] = k
      BY <1>2, GroupFacts
    <3>2. PICK o \in 1..n : at(o) = Place(k)
      BY <1>9, <3>1
    <3> QED BY <1>5, <3>1, <3>2
  <2> QED BY <1>10, <1>11, <2>1 DEF ToSet
<1> QED BY <1>2, <1>11, <1>12, <1>13, <1>14

(* What is left when the first of the candidates is given up. *)
LEMMA TailFacts ==
    ASSUME NEW c \in Seq(Models), Len(c) > 1, IsInjective(c)
    PROVE  /\ Tail(c) \in Seq(Models) /\ Tail(c) # <<>> /\ IsInjective(Tail(c))
           /\ Len(Tail(c)) = Len(c) - 1 /\ \A i \in 1..(Len(c) - 1) : Tail(c)[i] = c[i + 1]
           /\ \A m \in Models \ ToSet(Tail(c)) : m = c[1] \/ m \in Models \ ToSet(c)
<1>1. /\ Tail(c) \in Seq(Models) /\ Len(Tail(c)) = Len(c) - 1 /\ DOMAIN Tail(c) = 1..(Len(c) - 1)
      /\ \A i \in 1..(Len(c) - 1) : Tail(c)[i] = c[i + 1]
      /\ Len(c) \in Nat /\ DOMAIN c = 1..Len(c)
  OBVIOUS
<1>2. Tail(c) # <<>>
  <2>1. PICK d, l, n : d = Tail(c) /\ l = Len(d) /\ n = Len(c)
    OBVIOUS
  <2>2. n \in Nat /\ n > 1 /\ l = n - 1
    BY <1>1, <2>1
  <2>3. l # 0
    BY <2>2
  <2>4. d # <<>>
    BY <2>1, <2>3
  <2> QED BY <2>1, <2>4
<1>3. IsInjective(Tail(c))
  <2>1. \A i, j \in 1..(Len(c) - 1) : c[i + 1] = c[j + 1] => i = j
    BY <1>1 DEF IsInjective
  <2> QED BY <1>1, <2>1 DEF IsInjective
<1>4. ASSUME NEW m \in ToSet(c), m # c[1] PROVE m \in ToSet(Tail(c))
  <2>1. PICK i \in 1..Len(c) : c[i] = m
    BY <1>1 DEF ToSet
  <2>2. i - 1 \in 1..(Len(c) - 1) /\ (i - 1) + 1 = i
    BY <1>1, <1>4, <2>1
  <2>3. Tail(c)[i - 1] = m
    BY <1>1, <2>1, <2>2
  <2> QED BY <1>1, <2>2, <2>3 DEF ToSet
<1> QED BY <1>1, <1>2, <1>3, <1>4

-----------------------------------------------------------------------------
(* The balancer.                                                           *)

Shared ==
    /\ stats \in [Models -> [seen : BOOLEAN, healthy : BOOLEAN, latency : Nat]]
    /\ index \in 0..(Word - 1)
    /\ success \in [Models -> SUBSET Nat]

(* A choice leaves what the handlers share well formed. *)
LEMMA ChoiceShared ==
    ASSUME Shared, NEW m \in Models, NextByLatency(m), UNCHANGED <<stats, success>>
    PROVE  Shared'
<1>1. (index + 1) % Word \in 0..(Word - 1)
  <2>1. index + 1 \in Int /\ Word \in Nat \ {0}
    BY GroupFacts DEF Shared
  <2> QED BY <2>1
<1> QED BY <1>1 DEF Shared, NextByLatency, NextInTurn

(* So does an observation. *)
LEMMA ObserveShared ==
    ASSUME TypeOK, NEW r \in Requests, req[r].cands # <<>>, Observe(r)
    PROVE  Shared'
<1>1. CASE req[r].result = "final"
  BY <1>1 DEF Observe, balancer, Shared, TypeOK
<1>2. CASE req[r].result # "final"
  <2>1. PICK m \in Models : m = Upstream(r)
    <3>1. PICK c \in Seq(Models) : c = req[r].cands
      BY DEF TypeOK, Handler
    <3>2. Head(c) \in Models
      BY <3>1
    <3> QED BY <3>1, <3>2 DEF Upstream
  <2>2. PICK l \in Nat : l = req[r].latency
    BY DEF TypeOK, Handler
  <2>3. PICK s \in [seen : BOOLEAN, healthy : BOOLEAN, latency : Nat] : s = stats[m]
    BY DEF TypeOK
  <2>4. Counted(l) \in Nat
    BY DEF Counted
  <2>5. PICK k \in Nat : k = IF s.seen THEN (s.latency * 7 + Counted(l)) \div 8 ELSE Counted(l)
    <3>1. \A a, b \in Nat : (a * 7 + b) \div 8 \in Nat
      OBVIOUS
    <3> QED BY <2>4, <3>1
  <2>6. stats' = [stats EXCEPT ![m] = [seen |-> TRUE, healthy |-> req[r].result = "ok", latency |-> k]]
    BY <1>2, <2>1, <2>2, <2>3, <2>5 DEF Observe, ObserveLatency, Observed, TypeOK
  <2>7. stats' \in [Models -> [seen : BOOLEAN, healthy : BOOLEAN, latency : Nat]]
    <3>1. PICK e \in [seen : BOOLEAN, healthy : BOOLEAN, latency : Nat] : stats' = [stats EXCEPT ![m] = e]
      BY <2>6
    <3> QED BY <3>1 DEF TypeOK
  <2>8. success' \in [Models -> SUBSET Nat]
    <3>1. \/ success' = [success EXCEPT ![m] = success[m] \cup {Counted(l)}]
          \/ success' = success
      BY <1>2, <2>1, <2>2 DEF Observe, TypeOK
    <3>2. success[m] \cup {Counted(l)} \in SUBSET Nat
      BY <2>4 DEF TypeOK
    <3> QED BY <3>1, <3>2 DEF TypeOK
  <2> QED BY <1>2, <2>7, <2>8 DEF Observe, Shared, TypeOK
<1> QED BY <1>1, <1>2

-----------------------------------------------------------------------------
(* Handlers.                                                               *)

Lines == UNION {ToSet(a.lines) : a \in Answers}

AnswerType == [end : Ends, of : SUBSET Answers, lines : Seq(Lines), billed : Int \cup {NoSpend}]

Sound(h, t, n) == Sending(h, t) /\ Answering(h, n) /\ Billing(h)

(* The invariant: the types, and what it says of each handler. *)
LEMMA IInvParts ==
    /\ TypeOK <=> /\ req \in [Requests -> Handler] /\ tries \in [Requests -> [Models -> 0..MaxTries]]
                  /\ answers \in [Requests -> Nat] /\ Shared
    /\ IInv <=> TypeOK /\ \A r \in Requests : Sound(req[r], tries[r], answers[r])
BY DEF TypeOK, Shared, IInv, Sound

(* A step of one handler. *)
LEMMA Moves ==
    ASSUME IInv, Shared', NEW r \in Requests, NEW h \in Handler,
           NEW t \in [Models -> 0..MaxTries], NEW n \in Nat,
           req' = [req EXCEPT ![r] = h], tries' = [tries EXCEPT ![r] = t],
           answers' = [answers EXCEPT ![r] = n], Sound(h, t, n)
    PROVE  IInv'
<1>1. TypeOK /\ \A q \in Requests : Sound(req[q], tries[q], answers[q])
  BY IInvParts
<1>2. /\ req \in [Requests -> Handler] /\ tries \in [Requests -> [Models -> 0..MaxTries]]
      /\ answers \in [Requests -> Nat]
  BY <1>1 DEF TypeOK
<1>3. /\ req' \in [Requests -> Handler] /\ tries' \in [Requests -> [Models -> 0..MaxTries]]
      /\ answers' \in [Requests -> Nat]
  BY <1>2
<1>4. ASSUME NEW q \in Requests
      PROVE  Sound(req'[q], tries'[q], answers'[q])
  <2>1. CASE q = r
    BY <1>2, <2>1
  <2>2. CASE q # r
    <3>1. req'[q] = req[q] /\ tries'[q] = tries[q] /\ answers'[q] = answers[q]
      BY <1>2, <2>2
    <3> QED BY <1>1, <3>1
  <2> QED BY <2>1, <2>2
<1>5. TypeOK'
  BY <1>3 DEF TypeOK, Shared
<1> QED BY <1>4, <1>5 DEF IInv, Sound, Sending, Answering, Billing

(* The invariant holds at the start. *)
LEMMA IInvInit == Init => IInv
<1> SUFFICES ASSUME Init PROVE IInv
  OBVIOUS
<1>1. NoAnswer \in AnswerType
  BY DEF NoAnswer, AnswerType, Ends
<1>2. NewReq \in Handler
  BY <1>1 DEF NewReq, Handler, AnswerType, Lines, Results
<1>3. Shared
  BY GroupFacts DEF Init, BalancerInit, Shared, Unseen
<1>4. TypeOK
  <2>1. \A r \in Requests : \A m \in Models : 0 \in 0..MaxTries
    BY DEF MaxTries, maxPerUpstreamRetryTimes
  <2> QED BY <1>2, <1>3, <2>1 DEF Init, TypeOK, Shared
<1>5. ASSUME NEW r \in Requests
      PROVE  Sound(NewReq, [m \in Models |-> 0], 0)
  BY DEF Sound, Sending, Answering, Billing, NewReq, NoAnswer
<1> QED BY <1>4, <1>5, IInvParts DEF Init

(* The parts of the request that a step begins with. *)
LEMMA Current ==
    ASSUME IInv, NEW r \in Requests
    PROVE  /\ req[r] \in Handler /\ tries[r] \in [Models -> 0..MaxTries] /\ answers[r] \in Nat
           /\ Sending(req[r], tries[r]) /\ Answering(req[r], answers[r]) /\ Billing(req[r])
           /\ req[r].pc \in {"call", "observe"} =>
                 Upstream(r) \in Models /\ Upstream(r) = req[r].cands[1] /\ Len(req[r].cands) \in Nat \ {0}
<1>1. /\ req[r] \in Handler /\ tries[r] \in [Models -> 0..MaxTries] /\ answers[r] \in Nat
      /\ Sending(req[r], tries[r]) /\ Answering(req[r], answers[r]) /\ Billing(req[r])
  BY DEF IInv, TypeOK
<1>2. ASSUME req[r].pc \in {"call", "observe"}
      PROVE  Upstream(r) \in Models /\ Upstream(r) = req[r].cands[1] /\ Len(req[r].cands) \in Nat \ {0}
  <2>1. PICK c \in Seq(Models) : c = req[r].cands /\ c # <<>>
    BY <1>1, <1>2 DEF Handler, Sending
  <2>2. Head(c) \in Models /\ Head(c) = c[1] /\ Len(c) \in Nat \ {0}
    BY <2>1
  <2> QED BY <2>1, <2>2 DEF Upstream
<1> QED BY <1>1, <1>2

(* A request that begins has its candidates and no attempt. *)
LEMMA BeginStep ==
    ASSUME IInv, NEW r \in Requests, Begin(r)
    PROVE  IInv'
<1>1. PICK m \in Models : /\ NextByLatency(m)
                          /\ req' = [req EXCEPT ![r].pc = "call", ![r].cands = Candidates(m)]
  BY DEF Begin
<1>2. req[r] = NewReq /\ tries[r] \in [Models -> 0..MaxTries] /\ \A k \in Models : tries[r][k] = 0
  BY Current DEF Begin, Sending
<1>3. PICK c \in Seq(Models) :
         /\ c = Candidates(m) /\ c # <<>> /\ IsInjective(c) /\ ToSet(c) = Models
         /\ \A i \in 1..Len(c) : c[i] \in Models
  <2>1. \A c \in Seq(Models) : \A i \in 1..Len(c) : c[i] \in Models
    OBVIOUS
  <2> QED BY <2>1, CandidatesFacts
<1> DEFINE h == [pc |-> "call", cands |-> c, attempt |-> 1, result |-> "none", latency |-> 0,
                 answer |-> NoAnswer]
<1>4. h \in Handler
  BY DEF Handler, NoAnswer, Results, Ends
<1>5. req' = [req EXCEPT ![r] = h]
  <2>1. req[r] = [pc |-> "new", cands |-> <<>>, attempt |-> 1, result |-> "none", latency |-> 0,
                  answer |-> NoAnswer]
    BY <1>2 DEF NewReq
  <2>2. req \in [Requests -> Handler]
    BY DEF IInv, TypeOK
  <2> HIDE DEF NoAnswer
  <2> QED BY <1>1, <1>3, <2>1, <2>2
<1>6. Sending(h, tries[r])
  <2>1. c[1] \in Models
    <3>1. Len(c) \in Nat \ {0}
      BY <1>3
    <3> QED BY <1>3, <3>1
  <2>2. perUpstreamAttempts(c[1]) \in Nat \ {0}
    BY <2>1, Attempts
  <2>3. \A i \in 2..Len(c) : tries[r][c[i]] = 0
    BY <1>2, <1>3
  <2> QED BY <1>2, <1>3, <2>1, <2>2, <2>3 DEF Sending, NoAnswer
<1>7. Answering(h, answers[r]) /\ Billing(h)
  <2>1. Answering(NewReq, answers[r])
    BY <1>2, Current
  <2> QED BY <2>1 DEF Answering, Billing, NoAnswer, NewReq
<1>8. Shared'
  BY <1>1, ChoiceShared, IInvParts DEF Begin
<1>9. tries' = [tries EXCEPT ![r] = tries[r]] /\ answers' = [answers EXCEPT ![r] = answers[r]]
  BY DEF Begin, IInv, TypeOK
<1>10. answers[r] \in Nat
  BY Current
<1> HIDE DEF h
<1> QED BY <1>2, <1>4, <1>5, <1>6, <1>7, <1>8, <1>9, <1>10, Moves DEF Sound

(* An attempt counts, and may leave something of an answer with the client. *)
LEMMA CalledStep ==
    ASSUME IInv, NEW r \in Requests, NEW result \in {"ok", "final", "retry"},
           NEW answer \in AnswerType, Called(r, result, answer),
           answer.end \in {"none", "whole", "part"}, result = "retry" => answer.end = "none",
           \A h \in Handler : h.cands = req[r].cands /\ h.answer = answer => Billing(h)
    PROVE  IInv'
<1>1. PICK g \in Handler : g = req[r]
  BY Current
<1>2. PICK t \in [Models -> 0..MaxTries] : t = tries[r]
  BY Current
<1>3. g.pc = "call" /\ Sending(g, t) /\ Answering(g, answers[r])
  BY <1>1, <1>2, Current DEF Called
<1>4. PICK m \in Models : m = Upstream(r) /\ m = g.cands[1]
  BY <1>1, <1>3, Current
<1>5. PICK l \in Latencies : req' = [req EXCEPT ![r] =
          [req[r] EXCEPT !.pc = "observe", !.result = result, !.latency = l, !.answer = answer]]
  BY DEF Called
<1> DEFINE h == [g EXCEPT !.pc = "observe", !.result = result, !.latency = l, !.answer = answer]
           u == [t EXCEPT ![m] = t[m] + 1]
           n == IF answer.end = "none" THEN 0 ELSE 1
<1>6. /\ h \in Handler /\ h.pc = "observe" /\ h.result = result /\ h.answer = answer
      /\ h.cands = g.cands /\ h.attempt = g.attempt
  <2>1. l \in Nat /\ result \in Results
    BY LatencyAssumption DEF Results
  <2>2. h \in Handler
    BY <2>1 DEF Handler, AnswerType, Lines
  <2>3. h.pc = "observe" /\ h.result = result /\ h.answer = answer
    BY DEF Handler
  <2>4. h.cands = g.cands /\ h.attempt = g.attempt
    BY DEF Handler
  <2> QED BY <2>2, <2>3, <2>4
<1>7. req' = [req EXCEPT ![r] = h]
  BY <1>1, <1>5
<1> HIDE DEF h
<1>8. t[m] = g.attempt - 1 /\ g.attempt \in 1..perUpstreamAttempts(m) /\ t[m] < MaxTries /\ t[m] + 1 \in 0..MaxTries
  <2>1. perUpstreamAttempts(m) \in 1..(MaxTries - 1) /\ MaxTries \in Nat
    BY Attempts
  <2>2. t[m] = g.attempt - 1 /\ g.attempt \in 1..perUpstreamAttempts(m)
    BY <1>3, <1>4 DEF Sending
  <2> QED BY <2>1, <2>2
<1>9. u \in [Models -> 0..MaxTries] /\ tries' = [tries EXCEPT ![r] = u]
  <2>1. tries \in [Requests -> [Models -> 0..MaxTries]]
    BY DEF IInv, TypeOK
  <2>2. tries' = [tries EXCEPT ![r] = [tries[r] EXCEPT ![m] = IF tries[r][m] < MaxTries THEN tries[r][m] + 1 ELSE tries[r][m]]]
    <3>1. tries' = [tries EXCEPT ![r][Upstream(r)] = IF @ < MaxTries THEN @ + 1 ELSE @]
      BY DEF Called
    <3> QED BY <1>4, <2>1, <3>1
  <2> QED BY <1>2, <1>8, <2>2
<1>10. n \in Nat /\ answers' = [answers EXCEPT ![r] = n]
  <2>1. answers[r] = 0 /\ answers \in [Requests -> Nat]
    BY <1>3 DEF Answering, IInv, TypeOK
  <2>2. answers' = IF answer.end = "none" THEN answers ELSE [answers EXCEPT ![r] = answers[r] + 1]
    BY DEF Called
  <2>3. CASE answer.end = "none"
    BY <2>1, <2>2, <2>3
  <2>4. CASE answer.end # "none"
    BY <2>1, <2>2, <2>4
  <2> QED BY <2>3, <2>4
<1>11. Sending(h, u)
  <2>1. /\ g.cands # <<>> /\ IsInjective(g.cands)
        /\ \A k \in Models \ ToSet(g.cands) : t[k] = perUpstreamAttempts(k)
        /\ \A i \in 2..Len(g.cands) : t[g.cands[i]] = 0
    BY <1>3 DEF Sending
  <2>2. PICK c \in Seq(Models) : c = g.cands
    BY DEF Handler
  <2>3. Len(c) \in Nat \ {0} /\ DOMAIN c = 1..Len(c) /\ \A i \in 1..Len(c) : c[i] \in Models
    BY <2>1, <2>2
  <2>4. m \in ToSet(c)
    BY <1>4, <2>2, <2>3 DEF ToSet
  <2>5. \A i \in 2..Len(c) : c[i] # m
    <3>1. \A i \in 2..Len(c) : i \in 1..Len(c) /\ i # 1 /\ 1 \in 1..Len(c)
      BY <2>3
    <3> QED BY <1>4, <2>1, <2>2, <2>3, <3>1 DEF IsInjective
  <2>6. u[m] = g.attempt /\ \A k \in Models : k # m => u[k] = t[k]
    <3>1. g.attempt \in Nat
      BY DEF Handler
    <3> QED BY <1>8, <3>1
  <2>7. \A k \in Models \ ToSet(c) : u[k] = perUpstreamAttempts(k)
    BY <2>1, <2>2, <2>4, <2>6
  <2>8. \A i \in 2..Len(c) : u[c[i]] = 0
    <3>1. \A i \in 2..Len(c) : c[i] \in Models
      BY <2>3
    <3> QED BY <2>1, <2>2, <2>5, <2>6, <3>1
  <2> HIDE DEF u
  <2> QED BY <1>4, <1>6, <1>8, <2>1, <2>2, <2>6, <2>7, <2>8 DEF Sending
<1>12. Answering(h, n)
  BY <1>6 DEF Answering
<1>13. Billing(h)
  BY <1>1, <1>6
<1>14. Shared'
  BY IInvParts DEF Called, balancer, Shared
<1> HIDE DEF u, n
<1> QED BY <1>6, <1>7, <1>9, <1>10, <1>11, <1>12, <1>13, <1>14, Moves DEF Sound

(* An attempt that fails keeps the invariant. *)
LEMMA FailsStep == ASSUME IInv, NEW r \in Requests, Fails(r) PROVE IInv'
<1>1. NoAnswer \in AnswerType /\ NoAnswer.end = "none" /\ NoAnswer.billed = NoSpend
  BY DEF NoAnswer, AnswerType, Ends
<1>2. \A h \in Handler : h.answer = NoAnswer => Billing(h)
  BY <1>1 DEF Billing
<1> QED BY <1>1, <1>2, CalledStep DEF Fails

(* The lines of an answer. *)
LEMMA LinesType == ASSUME NEW a \in Answers PROVE a.lines \in Seq(Lines)
<1>1. a.lines \in Seq(ToSet(a.lines))
  BY AnswerAssumption
<1>2. ToSet(a.lines) \in SUBSET Lines
  BY DEF Lines
<1> QED BY <1>1, <1>2

(* The first of the candidates is asked, and it is what it is billed as. *)
LEMMA SucceedsStep == ASSUME IInv, NEW r \in Requests, Succeeds(r) PROVE IInv'
<1>1. PICK a \in Answers :
         Called(r, "ok", [end |-> "whole", of |-> {a}, lines |-> <<>>,
                          billed |-> SpendOf(BuildSpendPayload(a.whole))])
  BY DEF Succeeds
<1>2. PICK b \in Int \cup {NoSpend} : b = SpendOf(BuildSpendPayload(a.whole))
  BY AnswerAssumption
<1> DEFINE answer == [end |-> "whole", of |-> {a}, lines |-> <<>>, billed |-> b]
<1>3. /\ answer \in AnswerType /\ answer.end = "whole" /\ answer.of = {a} /\ answer.lines = <<>>
      /\ answer.billed = b
  BY DEF AnswerType, Ends
<1>4. Called(r, "ok", answer)
  BY <1>1, <1>2
<1> HIDE DEF answer
<1>5. \A h \in Handler : h.answer = answer => Billing(h)
  BY <1>2, <1>3 DEF Billing
<1> QED BY <1>3, <1>4, <1>5, CalledStep

(* A stream that was passed on to its end keeps the invariant. *)
LEMMA StreamEndsStep == ASSUME IInv, NEW r \in Requests, StreamEnds(r) PROVE IInv'
<1>1. PICK a \in Answers :
         Called(r, "ok", [end |-> "whole", of |-> {a}, lines |-> a.lines,
                          billed |-> SpendOfStream(r, a.lines)])
  BY DEF StreamEnds
<1>2. req[r].pc = "call"
  BY <1>1 DEF Called
<1>3. Upstream(r) = req[r].cands[1]
  BY <1>2, Current
<1>4. PICK b \in Int \cup {NoSpend} : b = SpendOf(StreamPayload(a.lines, Upstream(r) \in Anthropic))
  <2>1. (Upstream(r) \in Anthropic) \in BOOLEAN
    OBVIOUS
  <2>2. SpendOf(StreamPayload(a.lines, Upstream(r) \in Anthropic)) \in Int \cup {NoSpend}
    BY <2>1, AnswerAssumption, Zenon
  <2> QED BY <2>2
<1> DEFINE answer == [end |-> "whole", of |-> {a}, lines |-> a.lines, billed |-> b]
<1>5. /\ answer \in AnswerType /\ answer.end = "whole" /\ answer.of = {a} /\ answer.lines = a.lines
      /\ answer.billed = b
  BY LinesType DEF AnswerType, Ends
<1>6. Called(r, "ok", answer)
  BY <1>1, <1>4 DEF SpendOfStream
<1> HIDE DEF answer
<1>7. ASSUME NEW h \in Handler, h.cands = req[r].cands, h.answer = answer
      PROVE  Billing(h)
  <2>1. h.answer.billed = SpendOf(StreamPayload(a.lines, h.cands[1] \in Anthropic))
    BY <1>3, <1>4, <1>5, <1>7
  <2> QED BY <1>5, <1>7, <2>1 DEF Billing
<1> QED BY <1>5, <1>6, <1>7, CalledStep

(* A stream that breaks off keeps the invariant. *)
LEMMA StreamBreaksStep == ASSUME IInv, NEW r \in Requests, StreamBreaks(r) PROVE IInv'
<1>1. PICK a \in Answers : \E part \in Broken(a) : Called(r, "final", part)
  BY DEF StreamBreaks
<1>2. PICK part \in Broken(a) : Called(r, "final", part)
  BY <1>1
<1>3. part \in AnswerType /\ part.end \in {"none", "part"} /\ part.billed = NoSpend
  <2>1. CASE part = NoAnswer
    BY <2>1 DEF NoAnswer, AnswerType, Ends
  <2>2. CASE part # NoAnswer
    <3>1. PICK n \in 0..Len(a.lines) :
             part = [end |-> "part", of |-> {a}, lines |-> SubSeq(a.lines, 1, n), billed |-> NoSpend]
      BY <2>2 DEF Broken
    <3>2. PICK l \in Seq(Lines) : l = a.lines
      BY LinesType
    <3>3. SubSeq(l, 1, n) \in Seq(Lines)
      BY <3>2
    <3> QED BY <3>1, <3>2, <3>3 DEF AnswerType, Ends
  <2> QED BY <2>1, <2>2
<1>4. \A h \in Handler : h.answer = part => Billing(h)
  BY <1>3 DEF Billing
<1> QED BY <1>2, <1>3, <1>4, CalledStep

(* What a step leaves of the handler when it changes neither cands nor the answer. *)
LEMMA UnpreparedStep == ASSUME IInv, NEW r \in Requests, Unprepared(r) PROVE IInv'
<1>1. PICK g \in Handler : g = req[r]
  BY Current
<1> DEFINE h == [g EXCEPT !.pc = "observe", !.result = "final", !.latency = 0]
<1>2. /\ h \in Handler /\ h.pc = "observe" /\ h.result = "final" /\ h.answer = g.answer
      /\ h.cands = g.cands /\ h.attempt = g.attempt
  BY DEF Handler, Results
<1>3. req' = [req EXCEPT ![r] = h]
  <2>1. req \in [Requests -> Handler]
    BY DEF IInv, TypeOK
  <2> QED BY <1>1, <2>1 DEF Unprepared
<1> HIDE DEF h
<1>4. Sending(g, tries[r]) /\ Answering(g, answers[r]) /\ Billing(g) /\ g.pc = "call"
  BY <1>1, Current DEF Unprepared
<1>5. Sending(h, tries[r])
  BY <1>2, <1>4 DEF Sending
<1>6. Answering(h, answers[r]) /\ Billing(h)
  BY <1>2, <1>4 DEF Answering, Billing
<1>7. tries' = [tries EXCEPT ![r] = tries[r]] /\ answers' = [answers EXCEPT ![r] = answers[r]]
  BY DEF Unprepared, IInv, TypeOK
<1>8. Shared'
  BY IInvParts DEF Unprepared, balancer, Shared
<1> QED BY <1>2, <1>3, <1>5, <1>6, <1>7, <1>8, Current, Moves DEF Sound

(* Another attempt at the same upstream keeps the invariant. *)
LEMMA RetrySameStep == ASSUME IInv, NEW r \in Requests, RetrySame(r) PROVE IInv'
<1>1. PICK g \in Handler : g = req[r]
  BY Current
<1>2. /\ Sending(g, tries[r]) /\ Answering(g, answers[r]) /\ Billing(g)
      /\ g.pc = "observe" /\ g.result = "retry" /\ g.cands # <<>>
  BY <1>1, Current DEF RetrySame, Sending
<1>3. PICK m \in Models : m = Upstream(r) /\ m = g.cands[1]
  BY <1>1, <1>2, Current
<1>4. /\ g.attempt \in 1..perUpstreamAttempts(m) /\ tries[r][m] = g.attempt
      /\ ~(g.attempt >= perUpstreamAttempts(m)) /\ perUpstreamAttempts(m) \in Nat
  BY <1>1, <1>2, <1>3, Attempts DEF Sending, RetrySame, OutOfAttempts
<1>5. g.attempt + 1 \in 1..perUpstreamAttempts(m) /\ tries[r][m] = (g.attempt + 1) - 1 /\ g.attempt + 1 \in Nat
  BY <1>4
<1> DEFINE h == [g EXCEPT !.pc = "call", !.attempt = g.attempt + 1]
<1>6. /\ h \in Handler /\ h.pc = "call" /\ h.answer = g.answer
      /\ h.cands = g.cands /\ h.attempt = g.attempt + 1
  BY <1>5 DEF Handler
<1>7. req' = [req EXCEPT ![r] = h]
  <2>1. req \in [Requests -> Handler]
    BY DEF IInv, TypeOK
  <2>2. req' = [req EXCEPT ![r].pc = "call", ![r].attempt = @ + 1]
    BY DEF RetrySame
  <2> QED BY <1>1, <2>1, <2>2
<1> HIDE DEF h
<1>8. Sending(h, tries[r])
  BY <1>2, <1>3, <1>5, <1>6 DEF Sending
<1>9. Answering(h, answers[r]) /\ Billing(h)
  BY <1>2, <1>6 DEF Answering, Billing
<1>10. tries' = [tries EXCEPT ![r] = tries[r]] /\ answers' = [answers EXCEPT ![r] = answers[r]]
  BY DEF RetrySame, IInv, TypeOK
<1>11. Shared'
  BY <1>1, <1>2, ObserveShared DEF RetrySame, IInv
<1> QED BY <1>6, <1>7, <1>8, <1>9, <1>10, <1>11, Current, Moves DEF Sound

(* An attempt at the next upstream keeps the invariant. *)
LEMMA RetryOtherStep == ASSUME IInv, NEW r \in Requests, RetryOther(r) PROVE IInv'
<1>1. PICK g \in Handler : g = req[r]
  BY Current
<1>2. /\ Sending(g, tries[r]) /\ Answering(g, answers[r]) /\ Billing(g)
      /\ g.pc = "observe" /\ g.result = "retry" /\ g.cands # <<>> /\ Len(g.cands) > 1
  BY <1>1, Current DEF RetryOther, Sending
<1>3. PICK m \in Models : m = Upstream(r) /\ m = g.cands[1]
  BY <1>1, <1>2, Current
<1>4. PICK t \in [Models -> 0..MaxTries] : t = tries[r]
  BY Current
<1>5. t[m] = perUpstreamAttempts(m)
  <2>1. /\ g.attempt \in 1..perUpstreamAttempts(m) /\ t[m] = g.attempt
        /\ g.attempt >= perUpstreamAttempts(m) /\ perUpstreamAttempts(m) \in Nat
    BY <1>1, <1>2, <1>3, <1>4, Attempts DEF Sending, RetryOther, OutOfAttempts
  <2> QED BY <2>1
<1>6. PICK c \in Seq(Models) : c = g.cands /\ Len(c) > 1 /\ IsInjective(c)
  BY <1>2 DEF Handler, Sending
<1>7. PICK d \in Seq(Models) :
         /\ d = Tail(c) /\ d # <<>> /\ IsInjective(d) /\ Len(d) = Len(c) - 1
         /\ \A i \in 1..(Len(c) - 1) : d[i] = c[i + 1]
         /\ \A k \in Models \ ToSet(d) : k = c[1] \/ k \in Models \ ToSet(c)
  BY <1>6, TailFacts
<1> DEFINE h == [g EXCEPT !.pc = "call", !.attempt = 1, !.cands = d]
<1>8. /\ h \in Handler /\ h.pc = "call" /\ h.answer = g.answer
      /\ h.cands = d /\ h.attempt = 1
  BY DEF Handler
<1>9. req' = [req EXCEPT ![r] = h]
  <2>1. req \in [Requests -> Handler]
    BY DEF IInv, TypeOK
  <2>2. req' = [req EXCEPT ![r].pc = "call", ![r].attempt = 1, ![r].cands = Tail(@)]
    BY DEF RetryOther
  <2> QED BY <1>1, <1>6, <1>7, <2>1, <2>2
<1> HIDE DEF h
<1>10. Sending(h, t)
  <2>1. /\ \A k \in Models \ ToSet(c) : t[k] = perUpstreamAttempts(k)
        /\ \A i \in 2..Len(c) : t[c[i]] = 0
    BY <1>2, <1>4, <1>6 DEF Sending
  <2>2. Len(c) \in Nat /\ 1 \in 1..(Len(c) - 1) /\ 2 \in 2..Len(c)
    BY <1>6
  <2>3. d[1] \in Models /\ t[d[1]] = 0
    <3>1. d[1] = c[1 + 1] /\ 1 + 1 = 2
      BY <1>7, <2>2
    <3>2. d[1] \in Models
      BY <1>7
    <3> QED BY <2>1, <2>2, <3>1, <3>2
  <2>4. 1 \in 1..perUpstreamAttempts(d[1])
    BY <2>3, Attempts
  <2>5. \A i \in 2..Len(d) : t[d[i]] = 0
    <3>1. \A i \in 2..Len(d) : i \in 1..(Len(c) - 1) /\ i + 1 \in 2..Len(c)
      BY <1>7, <2>2
    <3> QED BY <1>7, <2>1, <3>1
  <2>6. \A k \in Models \ ToSet(d) : t[k] = perUpstreamAttempts(k)
    BY <1>3, <1>5, <1>6, <1>7, <2>1
  <2>7. h.answer.end = "none"
    BY <1>2, <1>8 DEF Answering
  <2>8. h.pc = "call" /\ h.cands # <<>> /\ IsInjective(h.cands)
    BY <1>7, <1>8
  <2>9. h.attempt \in 1..perUpstreamAttempts(h.cands[1]) /\ t[h.cands[1]] = h.attempt - 1
    BY <1>8, <2>3, <2>4
  <2>10. /\ \A k \in Models \ ToSet(h.cands) : t[k] = perUpstreamAttempts(k)
         /\ \A i \in 2..Len(h.cands) : t[h.cands[i]] = 0
    BY <1>8, <2>5, <2>6
  <2> QED BY <2>7, <2>8, <2>9, <2>10 DEF Sending
<1>11. Answering(h, answers[r]) /\ Billing(h)
  <2>1. g.answer.end = "none"
    BY <1>2 DEF Answering
  <2> QED BY <1>2, <1>8, <2>1 DEF Answering, Billing
<1>12. tries' = [tries EXCEPT ![r] = t] /\ answers' = [answers EXCEPT ![r] = answers[r]]
  BY <1>4 DEF RetryOther, IInv, TypeOK
<1>13. Shared'
  BY <1>1, <1>2, ObserveShared DEF RetryOther, IInv
<1> QED BY <1>8, <1>9, <1>10, <1>11, <1>12, <1>13, Current, Moves DEF Sound

(* The end of a request, which sends an error unless something was sent. *)
LEMMA AnswerStep ==
    ASSUME IInv, NEW r \in Requests, NEW error \in {"error", "exhausted"}, Answer(r, error),
           req[r].pc = "observe", UNCHANGED tries, Shared',
           error = "exhausted" => \A m \in Models : tries[r][m] = perUpstreamAttempts(m)
    PROVE  IInv'
<1>1. PICK g \in Handler : g = req[r]
  BY Current
<1>2. Sending(g, tries[r]) /\ Answering(g, answers[r]) /\ Billing(g) /\ answers[r] \in Nat
  BY <1>1, Current
<1>3. req \in [Requests -> Handler] /\ answers \in [Requests -> Nat]
  BY DEF IInv, TypeOK
<1>4. tries' = [tries EXCEPT ![r] = tries[r]]
  BY DEF IInv, TypeOK
<1>5. CASE g.answer.end # "none"
  <2> DEFINE h == [g EXCEPT !.pc = "done"]
  <2>1. h \in Handler /\ h.pc = "done" /\ h.answer = g.answer /\ h.cands = g.cands
    BY DEF Handler
  <2>2. req' = [req EXCEPT ![r] = h] /\ answers' = [answers EXCEPT ![r] = answers[r]]
    BY <1>1, <1>3, <1>5 DEF Answer
  <2> HIDE DEF h
  <2>3. Sending(h, tries[r]) /\ Answering(h, answers[r]) /\ Billing(h)
    BY <1>2, <1>5, <2>1 DEF Sending, Answering, Billing
  <2> QED BY <1>2, <1>4, <2>1, <2>2, <2>3, Current, Moves DEF Sound
<1>6. CASE g.answer.end = "none"
  <2>1. PICK a \in AnswerType : a = g.answer
    BY DEF Handler, AnswerType, Lines
  <2> DEFINE b == [a EXCEPT !.end = error]
             h == [g EXCEPT !.pc = "done", !.answer = b]
  <2>2. b \in AnswerType /\ b.end = error /\ b.billed = a.billed
    BY DEF AnswerType, Ends
  <2>3. req' = [req EXCEPT ![r] = h]
    <3>1. req' = [req EXCEPT ![r].pc = "done", ![r].answer.end = error]
      BY <1>1, <1>6 DEF Answer
    <3> QED BY <1>1, <1>3, <2>1, <3>1
  <2> HIDE DEF b
  <2>4. h \in Handler /\ h.pc = "done" /\ h.answer = b /\ h.cands = g.cands
    BY <2>2 DEF Handler, AnswerType, Lines
  <2> HIDE DEF h
  <2>5. answers[r] = 0 /\ answers' = [answers EXCEPT ![r] = 1]
    <3>1. answers[r] = 0
      BY <1>2, <1>6 DEF Answering
    <3>2. answers' = [answers EXCEPT ![r] = answers[r] + 1]
      BY <1>1, <1>6 DEF Answer
    <3> QED BY <3>1, <3>2
  <2>6. Sending(h, tries[r]) /\ Answering(h, 1) /\ Billing(h)
    BY <1>2, <1>6, <2>1, <2>2, <2>4 DEF Sending, Answering, Billing
  <2> QED BY <1>2, <1>4, <2>3, <2>4, <2>5, <2>6, Current, Moves DEF Sound
<1> QED BY <1>5, <1>6

(* A handler that returns keeps the invariant. *)
LEMMA ReturnStep == ASSUME IInv, NEW r \in Requests, Return(r) PROVE IInv'
<1>1. req[r].pc = "observe" /\ Observe(r) /\ Answer(r, "error") /\ UNCHANGED tries
  BY DEF Return
<1>2. req[r].cands # <<>>
  BY <1>1, Current DEF Sending
<1>3. Shared'
  BY <1>1, <1>2, ObserveShared DEF IInv
<1> QED BY <1>1, <1>3, AnswerStep

(* A handler that gives up keeps the invariant. *)
LEMMA GiveUpStep == ASSUME IInv, NEW r \in Requests, GiveUp(r) PROVE IInv'
<1>1. /\ req[r].pc = "observe" /\ req[r].result = "retry" /\ Observe(r) /\ Answer(r, "exhausted")
      /\ UNCHANGED tries /\ OutOfAttempts(r) /\ Len(req[r].cands) = 1
  BY DEF GiveUp
<1>2. PICK g \in Handler : g = req[r] /\ g.cands # <<>> /\ Sending(g, tries[r])
  BY <1>1, Current DEF Sending
<1>3. Shared'
  BY <1>1, <1>2, ObserveShared DEF IInv
<1>4. PICK m \in Models : m = Upstream(r) /\ m = g.cands[1]
  BY <1>1, <1>2, Current
<1>5. tries[r][m] = perUpstreamAttempts(m)
  <2>1. /\ g.attempt \in 1..perUpstreamAttempts(m) /\ tries[r][m] = g.attempt
        /\ g.attempt >= perUpstreamAttempts(m) /\ perUpstreamAttempts(m) \in Nat
    BY <1>1, <1>2, <1>4, Attempts DEF Sending, OutOfAttempts
  <2> QED BY <2>1
<1>6. \A k \in Models \ ToSet(g.cands) : tries[r][k] = perUpstreamAttempts(k)
  BY <1>1, <1>2 DEF Sending
<1>7. ToSet(g.cands) = {m}
  <2>1. PICK c \in Seq(Models) : c = g.cands /\ Len(c) = 1
    BY <1>1, <1>2 DEF Handler
  <2>2. DOMAIN c = {1} /\ c[1] = m
    BY <1>4, <2>1
  <2> QED BY <2>1, <2>2 DEF ToSet
<1>8. \A k \in Models : tries[r][k] = perUpstreamAttempts(k)
  BY <1>5, <1>6, <1>7
<1> QED BY <1>1, <1>3, <1>8, AnswerStep

(* Every step keeps the invariant. *)
LEMMA IInvStep == IInv /\ [Next]_vars => IInv'
<1>1. ASSUME IInv, NEW r \in Requests, Step(r) PROVE IInv'
  BY <1>1, BeginStep, UnpreparedStep, FailsStep, SucceedsStep, StreamEndsStep, StreamBreaksStep,
     ReturnStep, RetrySameStep, RetryOtherStep, GiveUpStep DEF Step
<1>2. ASSUME IInv, UNCHANGED vars PROVE IInv'
  BY <1>2 DEF vars, IInv, TypeOK, Sending, Answering, Billing
<1> QED BY <1>1, <1>2 DEF Next

-----------------------------------------------------------------------------
(* Streams, line by line.                                                  *)

(* The recursion of FoldLeft for a stream: `it' is a function on C that    *)
(* obeys it.                                                               *)
Read(lines, own, it, s) ==
    IF s = {} THEN Nothing ELSE parseSpendStreamLine(it[s \ {Max(s)}], lines[Max(s)], own)
ReadIs(lines, own, C, it) == it = [s \in C |-> Read(lines, own, it, s)]

(* A set of numbers up to some number has a greatest. *)
LEMMA Greatest ==
    ASSUME NEW n \in Nat, NEW s \in SUBSET (1..n), s # {}
    PROVE  Max(s) \in s /\ \A x \in s : Max(s) >= x
<1> DEFINE T == {m \in Nat : \A x \in s : x <= m}
<1>1. \A x \in s : x \in Nat /\ x >= 1 /\ x <= n
  OBVIOUS
<1>2. n \in T /\ T \in SUBSET Nat
  BY <1>1
<1>3. PICK m \in T : \A k \in T : m <= k
  <2> HIDE DEF T
  <2> QED BY <1>2, LeastNat
<1>4. m \in Nat /\ \A x \in s : x <= m
  OBVIOUS
<1>5. m \in s
  <2>1. SUFFICES ASSUME m \notin s PROVE FALSE
    OBVIOUS
  <2>2. \A x \in s : x <= m - 1
    BY <1>1, <1>4, <2>1
  <2>3. m - 1 \in Nat
    <3>1. PICK x \in s : x \in Nat /\ x >= 1 /\ x <= m
      BY <1>1, <1>4
    <3> QED BY <1>4, <3>1
  <2>4. m - 1 \in T /\ ~(m <= m - 1)
    BY <1>4, <2>2, <2>3
  <2> QED BY <1>3, <2>4
<1>6. \E x \in s : \A y \in s : x >= y
  BY <1>1, <1>4, <1>5
<1> QED BY <1>6 DEF Max

(* Lines can be read one by one. *)
LEMMA ReadExists ==
    ASSUME NEW lines, NEW own, NEW N \in Nat
    PROVE  \E it : ReadIs(lines, own, SUBSET (1..N), it)
<1> DEFINE Small(n) == {s \in SUBSET (1..N) : Cardinality(s) <= n}
           Bad == {n \in Nat : ~\E it : ReadIs(lines, own, Small(n), it)}
<1>1. IsFiniteSet(1..N) /\ Cardinality(1..N) \in Nat
  BY FS_Interval, FS_CardinalityType
<1>2. \A s \in SUBSET (1..N) : IsFiniteSet(s) /\ Cardinality(s) \in Nat /\ Cardinality(s) <= Cardinality(1..N)
  BY <1>1, FS_Subset, FS_CardinalityType
<1>3. \A s \in SUBSET (1..N) : s # {} =>
         /\ s \ {Max(s)} \in SUBSET (1..N)
         /\ Cardinality(s \ {Max(s)}) = Cardinality(s) - 1
  BY <1>2, Greatest, FS_RemoveElement
<1>4. ASSUME Bad # {} PROVE FALSE
  <2>1. PICK n \in Bad : \A m \in Bad : n <= m
    <3>1. Bad \in SUBSET Nat
      OBVIOUS
    <3> HIDE DEF Bad
    <3> QED BY <1>4, <3>1, LeastNat
  <2>2. CASE n = 0
    <3> DEFINE it == [s \in Small(0) |-> Nothing]
    <3>1. \A s \in Small(0) : s = {}
      BY <1>2, FS_EmptySet
    <3>2. ReadIs(lines, own, Small(0), it)
      BY <3>1 DEF ReadIs, Read
    <3> QED BY <2>1, <2>2, <3>2
  <2>3. CASE n # 0
    <3>1. n - 1 \in Nat /\ n - 1 \notin Bad
      <4>1. n \in Nat
        OBVIOUS
      <4> HIDE DEF Bad
      <4> QED BY <2>1, <2>3, <4>1
    <3>2. PICK old : ReadIs(lines, own, Small(n - 1), old)
      BY <3>1
    <3> DEFINE it == [s \in Small(n) |-> Read(lines, own, old, s)]
    <3>3. Small(n - 1) \subseteq Small(n)
      BY <1>2, <3>1
    <3>4. \A s \in Small(n - 1) : it[s] = old[s]
      BY <3>2, <3>3 DEF ReadIs
    <3>5. \A s \in Small(n) : s # {} => s \ {Max(s)} \in Small(n - 1)
      BY <1>2, <1>3
    <3>6. \A s \in Small(n) : Read(lines, own, it, s) = Read(lines, own, old, s)
      <4> HIDE DEF it, Small
      <4> QED BY <3>4, <3>5 DEF Read
    <3>7. ReadIs(lines, own, Small(n), it)
      BY <3>6 DEF ReadIs
    <3> QED BY <2>1, <3>7
  <2> QED BY <2>2, <2>3
<1>5. Small(Cardinality(1..N)) = SUBSET (1..N)
  BY <1>2
<1> QED BY <1>1, <1>4, <1>5

(* A stream is read from its first line to its last. *)
Reading(lines, own, N, read) ==
    /\ read[0] = Nothing
    /\ \A n \in 1..N : read[n] = parseSpendStreamLine(read[n - 1], lines[n], own)
    /\ StreamPayload(lines, own) = read[N]

(* A stream is read line by line, from the first to the last. *)
LEMMA StreamIsRead ==
    ASSUME NEW lines, NEW own, NEW N \in Nat, DOMAIN lines = 1..N
    PROVE  \E read : Reading(lines, own, N, read)
<1> DEFINE it == CHOOSE it : ReadIs(lines, own, SUBSET (1..N), it)
           read == [n \in 0..N |-> it[1..n]]
<1>1. StreamPayload(lines, own) = it[1..N]
  BY DEF StreamPayload, FoldLeft, MapThenFoldSet, ReadIs, Read
<1>2. ReadIs(lines, own, SUBSET (1..N), it)
  BY ReadExists
<1>3. \A s \in SUBSET (1..N) : it[s] = Read(lines, own, it, s)
  BY <1>2 DEF ReadIs
<1> HIDE DEF it
<1>4. read[0] = Nothing
  <2>1. 1..0 = {} /\ 0 \in 0..N
    OBVIOUS
  <2> QED BY <1>3, <2>1 DEF Read
<1>5. ASSUME NEW n \in 1..N
      PROVE  read[n] = parseSpendStreamLine(read[n - 1], lines[n], own)
  <2>1. (1..n) \ {n} = 1..(n - 1) /\ 1..n # {} /\ 1..n \in SUBSET (1..N) /\ n \in 0..N /\ n - 1 \in 0..N
    OBVIOUS
  <2>2. Max(1..n) = n
    <3>1. Max(1..n) \in 1..n /\ \A x \in 1..n : Max(1..n) >= x
      BY <2>1, Greatest
    <3>2. n \in 1..n
      OBVIOUS
    <3> QED BY <3>1, <3>2
  <2>3. it[1..n] = parseSpendStreamLine(it[1..(n - 1)], lines[n], own)
    BY <1>3, <2>1, <2>2 DEF Read
  <2> QED BY <2>1, <2>3
<1>6. read[N] = it[1..N]
  OBVIOUS
<1> HIDE DEF read
<1> QED BY <1>1, <1>4, <1>5, <1>6 DEF Reading

-----------------------------------------------------------------------------
(* What is read of a line of an answer.                                    *)

(* The state of a reader. *)
Tokens(p, c, t) == [prompt |-> p, completion |-> c, total |-> t]
Payload(id, found, tokens) == [id |-> id, found |-> found, tokens |-> tokens]
Used(id, tokens) == Payload(id, TRUE, tokens)

Named(read, id) == [read EXCEPT !.id = id]

(* A payload with another id. *)
LEMMA NamedPayload ==
    ASSUME NEW id, NEW found, NEW tokens, NEW other
    PROVE  Named(Payload(id, found, tokens), other) = Payload(other, found, tokens)
<1>1. PICK h : h = [Payload(id, found, tokens) EXCEPT !.id = other]
  OBVIOUS
<1>2. h \in [id : {other}, found : {found}, tokens : {tokens}]
  BY <1>1 DEF Payload
<1>3. h = Payload(other, found, tokens)
  BY <1>2 DEF Payload
<1> QED BY <1>1, <1>3 DEF Named

(* A payload with the usage of a line. *)
LEMMA MergedPayload ==
    ASSUME NEW id, NEW found, NEW tokens, NEW json, NEW field, field \in DOMAIN json
    PROVE  mergeUsage(Payload(id, found, tokens), json, field) =
              Used(id, normalizedTokenUsage(json[field], tokens))
<1>1. PICK u : u = normalizedTokenUsage(json[field], tokens)
  OBVIOUS
<1>2. PICK h : h = [Payload(id, found, tokens) EXCEPT !.found = TRUE, !.tokens = u]
  OBVIOUS
<1>3. h \in [id : {id}, found : {TRUE}, tokens : {u}]
  BY <1>2 DEF Payload
<1>4. h = Payload(id, TRUE, u)
  BY <1>3 DEF Payload
<1>5. Payload(id, found, tokens).tokens = tokens
  BY DEF Payload
<1>6. mergeUsage(Payload(id, found, tokens), json, field) = h
  BY <1>1, <1>2, <1>5 DEF mergeUsage
<1> QED BY <1>1, <1>4, <1>6 DEF Used

(* Counts under the names of OpenAI, of Anthropic, and of a delta. *)
LEMMA OpenAICounts ==
    ASSUME NEW p, NEW c, NEW base
    PROVE  normalizedTokenUsage(OpenAIUsage(p, c), base) = Tokens(p, c, p + c)
BY DEF normalizedTokenUsage, OpenAIUsage, WithField, Tokens

(* The counts of a whole answer of Anthropic. *)
LEMMA AnthropicCounts ==
    ASSUME NEW p, NEW c, NEW base
    PROVE  normalizedTokenUsage([input_tokens |-> p, output_tokens |-> c], base) = Tokens(p, c, p + c)
BY DEF normalizedTokenUsage, WithField, Tokens

(* A line with the tokens of the prompt replaces these alone. *)
LEMMA InputCounts ==
    ASSUME NEW p, NEW q, NEW c, NEW t
    PROVE  normalizedTokenUsage([input_tokens |-> p], Tokens(q, c, t)) = Tokens(p, c, p + c)
BY DEF normalizedTokenUsage, WithField, Tokens

(* A line with the tokens of the completion replaces these alone. *)
LEMMA OutputCounts ==
    ASSUME NEW p, NEW c, NEW t, NEW d
    PROVE  normalizedTokenUsage([output_tokens |-> d], Tokens(p, c, t)) = Tokens(p, d, p + d)
BY DEF normalizedTokenUsage, WithField, Tokens

(* A line of a stream: its name for the answer, and its usage. *)
AtStart(json) == WithField(json, "type", "") = "message_start"

Field(json, own) == IF own /\ AtStart(json) THEN "messageUsage" ELSE "usage"

(* Where a line has its usage: in its message if it starts a stream, else at its top. *)
LEMMA FieldIs ==
    ASSUME NEW json, NEW own
    PROVE  /\ Field(json, own) \in {"messageUsage", "usage"}
           /\ own /\ AtStart(json) => Field(json, own) = "messageUsage"
           /\ ~AtStart(json) => Field(json, own) = "usage"
BY Zenon DEF Field

(* A line gives the payload its id and its usage. *)
LEMMA ReadLine ==
    ASSUME NEW id, NEW found, NEW tokens, NEW json, NEW own, NEW name,
           WithField(json, "ID", WithField(json, "messageID", id)) = name
    PROVE  parseSpendStreamLine(Payload(id, found, tokens), json, own) =
              mergeUsage(Payload(name, found, tokens), json, Field(json, own))
<1> PICK read : read = Payload(id, found, tokens)
  OBVIOUS
<1>1. read.id = id
  BY DEF Payload
<1>2. PICK named : named = Named(read, WithField(json, "ID", WithField(json, "messageID", read.id)))
  OBVIOUS
<1>3. named = Payload(name, found, tokens)
  BY <1>1, <1>2, NamedPayload
<1>4. parseSpendStreamLine(read, json, own) = mergeUsage(named, json, Field(json, own))
  BY <1>2, Zenon DEF parseSpendStreamLine, AtStart, Named, Field
<1> QED BY <1>3, <1>4, Zenon

(* A line without usage leaves the counts, one with usage sets them. *)
LEMMA ReadNoUsage ==
    ASSUME NEW id, NEW found, NEW tokens, NEW json, NEW own, NEW name,
           WithField(json, "ID", WithField(json, "messageID", id)) = name,
           "usage" \notin DOMAIN json, "messageUsage" \notin DOMAIN json
    PROVE  parseSpendStreamLine(Payload(id, found, tokens), json, own) = Payload(name, found, tokens)
<1>1. parseSpendStreamLine(Payload(id, found, tokens), json, own) =
         mergeUsage(Payload(name, found, tokens), json, Field(json, own))
  BY ReadLine
<1>2. Field(json, own) \notin DOMAIN json
  BY FieldIs, Zenon
<1> QED BY <1>1, <1>2, Zenon DEF mergeUsage

(* A line with a usage at its top. *)
LEMMA ReadUsage ==
    ASSUME NEW id, NEW found, NEW tokens, NEW json, NEW own, NEW name,
           WithField(json, "ID", WithField(json, "messageID", id)) = name,
           ~AtStart(json), "usage" \in DOMAIN json
    PROVE  parseSpendStreamLine(Payload(id, found, tokens), json, own) =
              Used(name, normalizedTokenUsage(json["usage"], tokens))
<1>1. parseSpendStreamLine(Payload(id, found, tokens), json, own) =
         mergeUsage(Payload(name, found, tokens), json, Field(json, own))
  BY ReadLine
<1>2. Field(json, own) = "usage"
  BY FieldIs, Zenon
<1>3. mergeUsage(Payload(name, found, tokens), json, "usage") =
         Used(name, normalizedTokenUsage(json["usage"], tokens))
  BY MergedPayload
<1> QED BY <1>1, <1>2, <1>3, Zenon

(* The line that starts a stream of Anthropic. *)
LEMMA ReadStart ==
    ASSUME NEW id, NEW found, NEW tokens, NEW start, NEW own,
           NEW json, DOMAIN json = {"type", "messageID", "messageUsage"},
           json["messageID"] = "id", json["messageUsage"] = start,
           Field(json, own) = "messageUsage"
    PROVE  parseSpendStreamLine(Payload(id, found, tokens), json, own) =
              Used("id", normalizedTokenUsage(start, tokens))
<1>1. /\ "ID" \notin DOMAIN json /\ "messageID" \in DOMAIN json /\ "messageUsage" \in DOMAIN json
  OBVIOUS
<1>2. WithField(json, "ID", WithField(json, "messageID", id)) = "id"
  BY <1>1 DEF WithField
<1>3. parseSpendStreamLine(Payload(id, found, tokens), json, own) =
         mergeUsage(Payload("id", found, tokens), json, Field(json, own))
  BY <1>2, ReadLine
<1>4. mergeUsage(Payload("id", found, tokens), json, "messageUsage") =
         Used("id", normalizedTokenUsage(json["messageUsage"], tokens))
  BY <1>1, MergedPayload
<1> QED BY <1>3, <1>4, Zenon

(* The lines that the answers are made of. *)
LEMMA ReadData ==
    ASSUME NEW id, NEW found, NEW tokens, NEW own, NEW json,
           \/ json = <<>>
           \/ json = [type |-> "content_block_delta"]
    PROVE  parseSpendStreamLine(Payload(id, found, tokens), json, own) = Payload(id, found, tokens)
<1>1. DOMAIN json \subseteq {"type"}
  OBVIOUS
<1>2. WithField(json, "ID", WithField(json, "messageID", id)) = id
  BY <1>1 DEF WithField
<1> QED BY <1>1, <1>2, ReadNoUsage

(* A line with an id and no usage. *)
LEMMA ReadID ==
    ASSUME NEW id, NEW found, NEW tokens, NEW own, NEW json, DOMAIN json = {"ID"}, json["ID"] = "id"
    PROVE  parseSpendStreamLine(Payload(id, found, tokens), json, own) = Payload("id", found, tokens)
<1>1. WithField(json, "ID", WithField(json, "messageID", id)) = "id"
  BY DEF WithField
<1> QED BY <1>1, ReadNoUsage

(* The line of a stream of OpenAI that has the usage. *)
LEMMA ReadOpenAI ==
    ASSUME NEW id, NEW found, NEW tokens, NEW own, NEW p, NEW c,
           NEW json, json = [ID |-> "id", usage |-> OpenAIUsage(p, c)]
    PROVE  parseSpendStreamLine(Payload(id, found, tokens), json, own) =
              Used("id", Tokens(p, c, p + c))
<1>1. DOMAIN json = {"ID", "usage"} /\ json["ID"] = "id" /\ json["usage"] = OpenAIUsage(p, c)
  OBVIOUS
<1>2. WithField(json, "ID", WithField(json, "messageID", id)) = "id"
  BY <1>1 DEF WithField
<1>3. "usage" \in DOMAIN json /\ ~AtStart(json)
  BY <1>1 DEF AtStart, WithField
<1>4. parseSpendStreamLine(Payload(id, found, tokens), json, own) =
         Used("id", normalizedTokenUsage(json["usage"], tokens))
  BY <1>2, <1>3, ReadUsage
<1> QED BY <1>1, <1>4, OpenAICounts

(* The line of a stream of Anthropic that has the tokens of the completion. *)
LEMMA ReadDelta ==
    ASSUME NEW id, NEW found, NEW own, NEW p, NEW c, NEW t, NEW d,
           NEW json, json = [type |-> "message_delta", usage |-> [output_tokens |-> d]]
    PROVE  parseSpendStreamLine(Payload(id, found, Tokens(p, c, t)), json, own) =
              Used(id, Tokens(p, d, p + d))
<1>1. /\ DOMAIN json = {"type", "usage"}
      /\ json["type"] = "message_delta" /\ json["usage"] = [output_tokens |-> d]
  OBVIOUS
<1>2. WithField(json, "ID", WithField(json, "messageID", id)) = id
  BY <1>1 DEF WithField
<1>3. "usage" \in DOMAIN json /\ ~AtStart(json)
  BY <1>1 DEF AtStart, WithField
<1>4. parseSpendStreamLine(Payload(id, found, Tokens(p, c, t)), json, own) =
         Used(id, normalizedTokenUsage(json["usage"], Tokens(p, c, t)))
  BY <1>2, <1>3, ReadUsage
<1> QED BY <1>1, <1>4, OutputCounts

(* Before the first line there are no tokens. *)
LEMMA ReadNothing == \E name, found : Nothing = Payload(name, found, Tokens(0, 0, 0))
<1>1. Nothing = Payload(Nothing.id, Nothing.found, Tokens(0, 0, 0))
  BY DEF Nothing, Payload, Tokens
<1> QED BY <1>1

(* A payload in which a usage was found. *)
LEMMA UsedIs == \E yes : \A id, tokens : Used(id, tokens) = Payload(id, yes, tokens)
<1>1. \A id, tokens : Used(id, tokens) = Payload(id, Used(0, 0).found, tokens)
  BY DEF Used, Payload
<1> QED BY <1>1

(* Short streams. *)
LEMMA ReadThree ==
    ASSUME NEW lines, DOMAIN lines = 1..3, NEW own
    PROVE  \E r1, r2 :
              /\ r1 = parseSpendStreamLine(Nothing, lines[1], own)
              /\ r2 = parseSpendStreamLine(r1, lines[2], own)
              /\ StreamPayload(lines, own) = parseSpendStreamLine(r2, lines[3], own)
<1>1. 3 \in Nat
  OBVIOUS
<1>2. PICK read : Reading(lines, own, 3, read)
  BY <1>1, StreamIsRead, Zenon
<1>3. /\ read[1] = parseSpendStreamLine(read[0], lines[1], own)
      /\ read[2] = parseSpendStreamLine(read[1], lines[2], own)
      /\ read[3] = parseSpendStreamLine(read[2], lines[3], own)
  <2>1. 1 \in 1..3 /\ 2 \in 1..3 /\ 3 \in 1..3
        /\ 1 - 1 = 0 /\ 2 - 1 = 1 /\ 3 - 1 = 2
    OBVIOUS
  <2> QED BY <1>2, <2>1 DEF Reading
<1> QED BY <1>2, <1>3 DEF Reading

(* A stream of four lines, read. *)
LEMMA ReadFour ==
    ASSUME NEW lines, DOMAIN lines = 1..4, NEW own
    PROVE  \E r1, r2, r3 :
              /\ r1 = parseSpendStreamLine(Nothing, lines[1], own)
              /\ r2 = parseSpendStreamLine(r1, lines[2], own)
              /\ r3 = parseSpendStreamLine(r2, lines[3], own)
              /\ StreamPayload(lines, own) = parseSpendStreamLine(r3, lines[4], own)
<1>1. 4 \in Nat
  OBVIOUS
<1>2. PICK read : Reading(lines, own, 4, read)
  BY <1>1, StreamIsRead, Zenon
<1>3. /\ read[1] = parseSpendStreamLine(read[0], lines[1], own)
      /\ read[2] = parseSpendStreamLine(read[1], lines[2], own)
      /\ read[3] = parseSpendStreamLine(read[2], lines[3], own)
      /\ read[4] = parseSpendStreamLine(read[3], lines[4], own)
  <2>1. 1 \in 1..4 /\ 2 \in 1..4 /\ 3 \in 1..4 /\ 4 \in 1..4
        /\ 1 - 1 = 0 /\ 2 - 1 = 1 /\ 3 - 1 = 2 /\ 4 - 1 = 3
    OBVIOUS
  <2> QED BY <1>2, <2>1 DEF Reading
<1> QED BY <1>2, <1>3 DEF Reading

(* A stream of five lines, read. *)
LEMMA ReadFive ==
    ASSUME NEW lines, DOMAIN lines = 1..5, NEW own
    PROVE  \E r1, r2, r3, r4 :
              /\ r1 = parseSpendStreamLine(Nothing, lines[1], own)
              /\ r2 = parseSpendStreamLine(r1, lines[2], own)
              /\ r3 = parseSpendStreamLine(r2, lines[3], own)
              /\ r4 = parseSpendStreamLine(r3, lines[4], own)
              /\ StreamPayload(lines, own) = parseSpendStreamLine(r4, lines[5], own)
<1>1. 5 \in Nat
  OBVIOUS
<1>2. PICK read : Reading(lines, own, 5, read)
  BY <1>1, StreamIsRead, Zenon
<1>3. /\ read[1] = parseSpendStreamLine(read[0], lines[1], own)
      /\ read[2] = parseSpendStreamLine(read[1], lines[2], own)
      /\ read[3] = parseSpendStreamLine(read[2], lines[3], own)
      /\ read[4] = parseSpendStreamLine(read[3], lines[4], own)
      /\ read[5] = parseSpendStreamLine(read[4], lines[5], own)
  <2>1. 1 \in 1..5 /\ 2 \in 1..5 /\ 3 \in 1..5 /\ 4 \in 1..5 /\ 5 \in 1..5
        /\ 1 - 1 = 0 /\ 2 - 1 = 1 /\ 3 - 1 = 2 /\ 4 - 1 = 3 /\ 5 - 1 = 4
    OBVIOUS
  <2> QED BY <1>2, <2>1 DEF Reading
<1> QED BY <1>2, <1>3 DEF Reading

(* The lines of a stream, put together. *)
LEMMA JoinedNone ==
    ASSUME NEW s, NEW x, NEW y, NEW before, before = <<>>,
           NEW lines, lines = <<s>> \o before \o <<x, y>>
    PROVE  DOMAIN lines = 1..3 /\ lines[1] = s /\ lines[2] = x /\ lines[3] = y
<1>1. <<s>> \o <<>> = <<s>>
  OBVIOUS
<1>2. lines = <<s>> \o <<x, y>>
  BY <1>1
<1> QED BY <1>2

(* The same with a line more in the middle. *)
LEMMA JoinedOne ==
    ASSUME NEW s, NEW x, NEW y, NEW w, NEW before, before = <<w>>,
           NEW lines, lines = <<s>> \o before \o <<x, y>>
    PROVE  DOMAIN lines = 1..4 /\ lines[1] = s /\ lines[2] = w /\ lines[3] = x /\ lines[4] = y
<1>1. PICK sw : sw = <<s>> \o <<w>>
  OBVIOUS
<1>2. DOMAIN sw = 1..2 /\ sw[1] = s /\ sw[2] = w /\ Len(sw) = 2
  BY <1>1
<1>3. lines = sw \o <<x, y>>
  BY <1>1
<1> QED BY <1>2, <1>3

(* The same with a line more at the start. *)
LEMMA JoinedPair ==
    ASSUME NEW s, NEW t, NEW x, NEW y, NEW before, before = <<>>,
           NEW lines, lines = <<s, t>> \o before \o <<x, y>>
    PROVE  DOMAIN lines = 1..4 /\ lines[1] = s /\ lines[2] = t /\ lines[3] = x /\ lines[4] = y
<1>1. <<s, t>> \o <<>> = <<s, t>>
  OBVIOUS
<1>2. lines = <<s, t>> \o <<x, y>>
  BY <1>1
<1> QED BY <1>2

(* The same with both. *)
LEMMA JoinedThree ==
    ASSUME NEW s, NEW t, NEW x, NEW y, NEW w, NEW before, before = <<w>>,
           NEW lines, lines = <<s, t>> \o before \o <<x, y>>
    PROVE  /\ DOMAIN lines = 1..5 /\ lines[1] = s /\ lines[2] = t
           /\ lines[3] = w /\ lines[4] = x /\ lines[5] = y
<1>1. PICK sw : sw = <<s, t>> \o <<w>>
  OBVIOUS
<1>2. DOMAIN sw = 1..3 /\ sw[1] = s /\ sw[2] = t /\ sw[3] = w /\ Len(sw) = 3
  BY <1>1
<1>3. lines = sw \o <<x, y>>
  BY <1>1
<1> QED BY <1>2, <1>3

(* An answer of OpenAI, through either adapter. *)
LEMMA OpenAIRead ==
    ASSUME NEW p, NEW c, NEW own, NEW a \in OpenAIAnswers(p, c)
    PROVE  StreamPayload(a.lines, own) = Used("id", Tokens(p, c, p + c))
<1> DEFINE Hello == [ID |-> "id"]
           Chunk(d) == [ID |-> "id", usage |-> OpenAIUsage(p, d)]
<1>1. PICK before \in {<<>>} \cup {<<Chunk(d)>> : d \in 0..c} :
         a.lines = <<Hello>> \o before \o <<Chunk(c), <<>> >>
  <2>1. PICK before \in {<<>>} \cup {<<Chunk(d)>> : d \in 0..c} :
           a = [format |-> "openai", prompt |-> p, completion |-> c,
                whole |-> [ID |-> "id", usage |-> OpenAIUsage(p, c)],
                lines |-> <<Hello>> \o before \o <<Chunk(c), <<>> >>]
    BY Zenon DEF OpenAIAnswers
  <2> QED BY <2>1
<1>2. PICK name, found : Nothing = Payload(name, found, Tokens(0, 0, 0))
  BY ReadNothing
<1>3. ASSUME NEW json, json = Hello
      PROVE  parseSpendStreamLine(Nothing, json, own) = Payload("id", found, Tokens(0, 0, 0))
  <2>1. DOMAIN json = {"ID"} /\ json["ID"] = "id"
    BY <1>3
  <2> QED BY <1>2, <2>1, ReadID
<1>4. ASSUME NEW f, NEW t, NEW json, NEW d, json = Chunk(d)
      PROVE  parseSpendStreamLine(Payload("id", f, t), json, own) = Used("id", Tokens(p, d, p + d))
  BY <1>4, ReadOpenAI
<1>5. \A t, json, d : json = Chunk(d) =>
         parseSpendStreamLine(Used("id", t), json, own) = Used("id", Tokens(p, d, p + d))
  BY <1>4 DEF Used
<1>6. \A t, json : json = <<>> => parseSpendStreamLine(Used("id", t), json, own) = Used("id", t)
  BY ReadData DEF Used
<1> HIDE DEF Hello, Chunk
<1>7. CASE before = <<>>
  <2>1. DOMAIN a.lines = 1..3 /\ a.lines[1] = Hello /\ a.lines[2] = Chunk(c) /\ a.lines[3] = <<>>
    BY <1>1, <1>7, JoinedNone
  <2>2. PICK r1, r2 : /\ r1 = parseSpendStreamLine(Nothing, a.lines[1], own)
                      /\ r2 = parseSpendStreamLine(r1, a.lines[2], own)
                      /\ StreamPayload(a.lines, own) = parseSpendStreamLine(r2, a.lines[3], own)
    BY <2>1, ReadThree
  <2> QED BY <1>3, <1>4, <1>6, <2>1, <2>2
<1>8. CASE before # <<>>
  <2>1. PICK d : before = <<Chunk(d)>>
    BY <1>1, <1>8
  <2>2. DOMAIN a.lines = 1..4 /\ a.lines[1] = Hello /\ a.lines[2] = Chunk(d) /\ a.lines[3] = Chunk(c)
        /\ a.lines[4] = <<>>
    BY <1>1, <2>1, JoinedOne
  <2>3. PICK r1, r2, r3 :
           /\ r1 = parseSpendStreamLine(Nothing, a.lines[1], own)
           /\ r2 = parseSpendStreamLine(r1, a.lines[2], own)
           /\ r3 = parseSpendStreamLine(r2, a.lines[3], own)
           /\ StreamPayload(a.lines, own) = parseSpendStreamLine(r3, a.lines[4], own)
    BY <2>2, ReadFour
  <2>4. r2 = Used("id", Tokens(p, d, p + d))
    BY <1>3, <1>4, <2>2, <2>3
  <2>5. r3 = Used("id", Tokens(p, c, p + c))
    BY <1>5, <2>2, <2>3, <2>4
  <2> QED BY <1>6, <2>2, <2>3, <2>5
<1> QED BY <1>7, <1>8

(* One of Anthropic, through its own. *)
LEMMA AnthropicRead ==
    ASSUME NEW p, NEW c, NEW own, NEW a \in AnthropicAnswers(p, c)
    PROVE  /\ a.lines # <<>>
           /\ own => StreamPayload(a.lines, own) = Used("id", Tokens(p, c, p + c))
<1> DEFINE Start(m) == [type |-> "message_start", messageID |-> "id", messageUsage |-> m]
           Content == [type |-> "content_block_delta"]
           Delta(d) == [type |-> "message_delta", usage |-> [output_tokens |-> d]]
           Starts == {[input_tokens |-> p]} \cup {[input_tokens |-> p, output_tokens |-> d] : d \in 0..c}
           Befores == {<<>>} \cup {<<Delta(d)>> : d \in 0..c}
<1>1. PICK start \in Starts, before \in Befores :
         a.lines = <<Start(start), Content>> \o before \o <<Delta(c), <<>> >>
  <2> DEFINE Form(start, before) ==
                [format |-> "anthropic", prompt |-> p, completion |-> c,
                 whole |-> [ID |-> "id", type |-> "message",
                            usage |-> [input_tokens |-> p, output_tokens |-> c]],
                 lines |-> <<Start(start), Content>> \o before \o <<Delta(c), <<>> >>]
  <2>1. a \in {Form(start, before) : start \in Starts, before \in Befores}
    <3>1. AnthropicAnswers(p, c) = {Form(start, before) : start \in Starts, before \in Befores}
      BY DEF AnthropicAnswers
    <3> HIDE DEF Form, Starts, Befores
    <3> QED BY <3>1
  <2>2. PICK start \in Starts, before \in Befores : a = Form(start, before)
    <3> HIDE DEF Form, Starts, Befores
    <3> QED BY <2>1
  <2> QED BY <2>2
<1>2. PICK name, found : Nothing = Payload(name, found, Tokens(0, 0, 0))
  BY ReadNothing
<1>3. \E q, t : normalizedTokenUsage(start, Tokens(0, 0, 0)) = Tokens(p, q, t)
  <2>1. CASE start = [input_tokens |-> p]
    BY <2>1, InputCounts
  <2>2. CASE start # [input_tokens |-> p]
    <3>1. PICK d : start = [input_tokens |-> p, output_tokens |-> d]
      BY <2>2
    <3> QED BY <3>1, AnthropicCounts
  <2> QED BY <2>1, <2>2
<1>4. PICK q, t : normalizedTokenUsage(start, Tokens(0, 0, 0)) = Tokens(p, q, t)
  BY <1>3
<1>5. ASSUME NEW json, json = Start(start)
      PROVE  own => parseSpendStreamLine(Nothing, json, own) = Used("id", Tokens(p, q, t))
  <2>1. own => parseSpendStreamLine(Payload(name, found, Tokens(0, 0, 0)), json, own) =
                  Used("id", normalizedTokenUsage(start, Tokens(0, 0, 0)))
    <3>1. /\ DOMAIN json = {"type", "messageID", "messageUsage"}
          /\ json["type"] = "message_start" /\ json["messageID"] = "id" /\ json["messageUsage"] = start
      BY <1>5
    <3> HIDE DEF Start
    <3>2. AtStart(json)
      BY <3>1 DEF AtStart, WithField
    <3>3. own => Field(json, own) = "messageUsage"
      BY <3>2, FieldIs, Zenon
    <3>4. Field(json, own) = "messageUsage" =>
             parseSpendStreamLine(Payload(name, found, Tokens(0, 0, 0)), json, own) =
                Used("id", normalizedTokenUsage(start, Tokens(0, 0, 0)))
      BY <3>1, ReadStart
    <3> QED BY <3>3, <3>4, Zenon
  <2> QED BY <1>2, <1>4, <2>1, Zenon
<1>6. \A u, json : json = Content \/ json = <<>> =>
         parseSpendStreamLine(Used("id", u), json, own) = Used("id", u)
  BY ReadData DEF Used
<1>7. \A e, v, d :
         parseSpendStreamLine(Used("id", Tokens(p, e, v)), Delta(d), own) = Used("id", Tokens(p, d, p + d))
  <2>1. ASSUME NEW f, NEW e, NEW v, NEW json, NEW d, json = Delta(d)
        PROVE  parseSpendStreamLine(Payload("id", f, Tokens(p, e, v)), json, own) =
                  Used("id", Tokens(p, d, p + d))
    BY <2>1, ReadDelta
  <2>2. PICK yes : \A id, tokens : Used(id, tokens) = Payload(id, yes, tokens)
    BY UsedIs
  <2> HIDE DEF Delta
  <2> QED BY <2>1, <2>2
<1> HIDE DEF Start, Content, Delta
<1>8. CASE before = <<>>
  <2>1. /\ DOMAIN a.lines = 1..4 /\ a.lines[1] = Start(start) /\ a.lines[2] = Content
        /\ a.lines[3] = Delta(c) /\ a.lines[4] = <<>>
    BY <1>1, <1>8, JoinedPair
  <2>2. PICK r1, r2, r3 :
           /\ r1 = parseSpendStreamLine(Nothing, a.lines[1], own)
           /\ r2 = parseSpendStreamLine(r1, a.lines[2], own)
           /\ r3 = parseSpendStreamLine(r2, a.lines[3], own)
           /\ StreamPayload(a.lines, own) = parseSpendStreamLine(r3, a.lines[4], own)
    BY <2>1, ReadFour
  <2>3. own => r1 = Used("id", Tokens(p, q, t))
    BY <1>5, <2>1, <2>2, Zenon
  <2>4. own => r2 = Used("id", Tokens(p, q, t))
    BY <1>6, <2>1, <2>2, <2>3, Zenon
  <2>5. own => r3 = Used("id", Tokens(p, c, p + c))
    <3>1. parseSpendStreamLine(Used("id", Tokens(p, q, t)), Delta(c), own) =
             Used("id", Tokens(p, c, p + c))
      BY <1>7
    <3> QED BY <2>1, <2>2, <2>4, <3>1, Zenon
  <2>6. own => StreamPayload(a.lines, own) = Used("id", Tokens(p, c, p + c))
    BY <1>6, <2>1, <2>2, <2>5, Zenon
  <2>7. a.lines # <<>>
    BY <2>1
  <2> QED BY <2>6, <2>7
<1>9. CASE before # <<>>
  <2>1. PICK d : before = <<Delta(d)>>
    BY <1>1, <1>9
  <2>2. /\ DOMAIN a.lines = 1..5 /\ a.lines[1] = Start(start) /\ a.lines[2] = Content
        /\ a.lines[3] = Delta(d) /\ a.lines[4] = Delta(c) /\ a.lines[5] = <<>>
    BY <1>1, <2>1, JoinedThree
  <2>3. PICK r1, r2, r3, r4 :
           /\ r1 = parseSpendStreamLine(Nothing, a.lines[1], own)
           /\ r2 = parseSpendStreamLine(r1, a.lines[2], own)
           /\ r3 = parseSpendStreamLine(r2, a.lines[3], own)
           /\ r4 = parseSpendStreamLine(r3, a.lines[4], own)
           /\ StreamPayload(a.lines, own) = parseSpendStreamLine(r4, a.lines[5], own)
    BY <2>2, ReadFive
  <2>4. own => r1 = Used("id", Tokens(p, q, t))
    BY <1>5, <2>2, <2>3, Zenon
  <2>5. own => r2 = Used("id", Tokens(p, q, t))
    BY <1>6, <2>2, <2>3, <2>4, Zenon
  <2>6. own => r3 = Used("id", Tokens(p, d, p + d))
    <3>1. parseSpendStreamLine(Used("id", Tokens(p, q, t)), Delta(d), own) =
             Used("id", Tokens(p, d, p + d))
      BY <1>7
    <3> QED BY <2>2, <2>3, <2>5, <3>1, Zenon
  <2>7. own => r4 = Used("id", Tokens(p, c, p + c))
    <3>1. parseSpendStreamLine(Used("id", Tokens(p, d, p + d)), Delta(c), own) =
             Used("id", Tokens(p, c, p + c))
      BY <1>7
    <3> QED BY <2>2, <2>3, <2>6, <3>1, Zenon
  <2>8. own => StreamPayload(a.lines, own) = Used("id", Tokens(p, c, p + c))
    BY <1>6, <2>2, <2>3, <2>7, Zenon
  <2>9. a.lines # <<>>
    BY <2>2
  <2> QED BY <2>8, <2>9
<1> QED BY <1>8, <1>9

(* Both, whole. *)
LEMMA BuildIs ==
    ASSUME NEW json, "messageID" \notin DOMAIN json, "messageUsage" \notin DOMAIN json,
           "ID" \in DOMAIN json, json["ID"] = "id", "usage" \in DOMAIN json
    PROVE  \E t : BuildSpendPayload(json) = Used("id", normalizedTokenUsage(json["usage"], t))
<1>1. PICK name, found : Nothing = Payload(name, found, Tokens(0, 0, 0))
  BY ReadNothing
<1>2. WithField(json, "messageID", WithField(json, "ID", "")) = "id"
  BY DEF WithField
<1>3. Named(Payload(name, found, Tokens(0, 0, 0)), "id") = Payload("id", found, Tokens(0, 0, 0))
  BY NamedPayload
<1>4. BuildSpendPayload(json) = mergeUsage(Payload("id", found, Tokens(0, 0, 0)), json, "usage")
  BY <1>1, <1>2, <1>3, Zenon DEF BuildSpendPayload, Named
<1>5. mergeUsage(Payload("id", found, Tokens(0, 0, 0)), json, "usage") =
         Used("id", normalizedTokenUsage(json["usage"], Tokens(0, 0, 0)))
  BY MergedPayload
<1> QED BY <1>4, <1>5

(* The usage of an answer of OpenAI that is read as a whole. *)
LEMMA OpenAIWhole ==
    ASSUME NEW p, NEW c, NEW a \in OpenAIAnswers(p, c)
    PROVE  BuildSpendPayload(a.whole) = Used("id", Tokens(p, c, p + c))
<1>1. a.whole = [ID |-> "id", usage |-> OpenAIUsage(p, c)]
  BY DEF OpenAIAnswers
<1>2. DOMAIN a.whole = {"ID", "usage"} /\ a.whole["ID"] = "id" /\ a.whole["usage"] = OpenAIUsage(p, c)
  BY <1>1
<1>3. PICK t : BuildSpendPayload(a.whole) = Used("id", normalizedTokenUsage(a.whole["usage"], t))
  BY <1>2, BuildIs
<1> QED BY <1>2, <1>3, OpenAICounts

(* The usage of an answer of Anthropic that is read as a whole. *)
LEMMA AnthropicWhole ==
    ASSUME NEW p, NEW c, NEW a \in AnthropicAnswers(p, c)
    PROVE  /\ a.format = "anthropic"
           /\ BuildSpendPayload(a.whole) = Used("id", Tokens(p, c, p + c))
<1> DEFINE Form(start, before) ==
              [format |-> "anthropic", prompt |-> p, completion |-> c,
               whole |-> [ID |-> "id", type |-> "message",
                          usage |-> [input_tokens |-> p, output_tokens |-> c]],
               lines |-> <<[type |-> "message_start", messageID |-> "id", messageUsage |-> start],
                           [type |-> "content_block_delta"]>> \o before \o
                         <<[type |-> "message_delta", usage |-> [output_tokens |-> c]], <<>> >>]
           Starts == {[input_tokens |-> p]} \cup {[input_tokens |-> p, output_tokens |-> d] : d \in 0..c}
           Befores == {<<>>} \cup {<<[type |-> "message_delta", usage |-> [output_tokens |-> d]]>> : d \in 0..c}
<1>1. /\ a.format = "anthropic"
      /\ a.whole = [ID |-> "id", type |-> "message", usage |-> [input_tokens |-> p, output_tokens |-> c]]
  <2>1. AnthropicAnswers(p, c) = {Form(start, before) : start \in Starts, before \in Befores}
    BY DEF AnthropicAnswers
  <2>2. PICK start \in Starts, before \in Befores : a = Form(start, before)
    <3> HIDE DEF Form, Starts, Befores
    <3> QED BY <2>1
  <2> QED BY <2>2
<1>2. /\ DOMAIN a.whole = {"ID", "type", "usage"} /\ a.whole["ID"] = "id"
      /\ a.whole["usage"] = [input_tokens |-> p, output_tokens |-> c]
  BY <1>1
<1>3. PICK t : BuildSpendPayload(a.whole) = Used("id", normalizedTokenUsage(a.whole["usage"], t))
  BY <1>2, BuildIs
<1> QED BY <1>1, <1>2, <1>3, AnthropicCounts

(* What an answer costs. *)
LEMMA SpendUsed ==
    ASSUME NEW p \in Nat, NEW c \in Nat, NEW a, a.prompt = p, a.completion = c
    PROVE  SpendOf(Used("id", Tokens(p, c, p + c))) = Due(a)
<1> PICK payload : payload = Used("id", Tokens(p, c, p + c))
  OBVIOUS
<1>1. payload.found /\ payload.tokens = Tokens(p, c, p + c)
  BY DEF Used, Payload
<1> PICK tokens : tokens = Tokens(p, c, p + c)
  OBVIOUS
<1>2. /\ DOMAIN tokens = {"prompt", "completion", "total"}
      /\ tokens["prompt"] = p /\ tokens["completion"] = c /\ tokens["total"] = p + c
      /\ tokens.prompt = p /\ tokens.completion = c
  BY DEF Tokens
<1>3. (\A count \in DOMAIN tokens : tokens[count] <= 0) <=> p + c = 0
  BY <1>2
<1> QED BY <1>1, <1>2, <1>3 DEF SpendOf, Due

(* A payload in which no usage was found is not billed. *)
LEMMA SpendNone ==
    ASSUME NEW name, NEW tokens, NEW found, found = Nothing.found
    PROVE  SpendOf(Payload(name, found, tokens)) = NoSpend
<1>1. Nothing.found = FALSE
  BY DEF Nothing
<1>2. Payload(name, found, tokens).found = found
  BY DEF Payload
<1> QED BY <1>1, <1>2 DEF SpendOf

(* Nor is one that has only an id. *)
LEMMA NamedNothing ==
    \E name, found : /\ Nothing = Payload(name, found, Tokens(0, 0, 0))
                     /\ \A other : Named(Nothing, other) = Payload(other, found, Tokens(0, 0, 0))
<1>1. PICK name, found : Nothing = Payload(name, found, Tokens(0, 0, 0))
  BY ReadNothing
<1>2. ASSUME NEW other
      PROVE  Named(Nothing, other) = Payload(other, found, Tokens(0, 0, 0))
  <2>1. Named(Payload(name, found, Tokens(0, 0, 0)), other) = Payload(other, found, Tokens(0, 0, 0))
    BY NamedPayload
  <2> QED BY <1>1, <2>1, Zenon
<1> QED BY <1>1, <1>2, Zenon

(* An answer without a usage is not billed, whole or streamed. *)
LEMMA SilentRead ==
    ASSUME NEW a, SilentAnswer(a), a.lines \in Seq(ToSet(a.lines)), NEW own
    PROVE  SpendOf(BuildSpendPayload(a.whole)) = NoSpend /\ SpendOf(StreamPayload(a.lines, own)) = NoSpend
<1> DEFINE lines == a.lines
           N == Len(lines)
<1>1. PICK name, found : /\ Nothing = Payload(name, found, Tokens(0, 0, 0))
                        /\ \A other : Named(Nothing, other) = Payload(other, found, Tokens(0, 0, 0))
  BY NamedNothing
<1>2. found = Nothing.found
  BY <1>1 DEF Payload
<1>3. SpendOf(BuildSpendPayload(a.whole)) = NoSpend
  <2> PICK json : json = a.whole
    OBVIOUS
  <2> PICK other : other = WithField(json, "messageID", WithField(json, "ID", ""))
    OBVIOUS
  <2>1. "usage" \notin DOMAIN json /\ "messageUsage" \notin DOMAIN json
    BY DEF SilentAnswer, WithoutUsage
  <2>2. BuildSpendPayload(json) = mergeUsage(Named(Nothing, other), json, "usage")
    BY <2>1, Zenon DEF BuildSpendPayload, Named
  <2>3. BuildSpendPayload(json) = Named(Nothing, other)
    BY <2>1, <2>2, Zenon DEF mergeUsage
  <2>4. Named(Nothing, other) = Payload(other, found, Tokens(0, 0, 0))
    BY <1>1, Zenon
  <2> QED BY <1>2, <2>3, <2>4, SpendNone
<1>4. N \in Nat /\ DOMAIN lines = 1..N /\ \A n \in 1..N : lines[n] \in ToSet(lines)
  BY DEF ToSet
<1>5. PICK read : Reading(lines, own, N, read)
  BY <1>4, StreamIsRead, Zenon
<1> DEFINE Bad == {n \in Nat : n <= N /\ ~\E id : read[n] = Payload(id, found, Tokens(0, 0, 0))}
<1>6. Bad = {}
  <2>1. SUFFICES ASSUME Bad # {} PROVE FALSE
    OBVIOUS
  <2>2. PICK n \in Bad : \A m \in Bad : n <= m
    <3>1. Bad \in SUBSET Nat
      OBVIOUS
    <3> HIDE DEF Bad
    <3> QED BY <2>1, <3>1, LeastNat
  <2>3. n # 0
    BY <1>1, <1>5 DEF Reading
  <2>4. n - 1 \in Nat /\ n - 1 \notin Bad /\ n - 1 <= N /\ n \in 1..N
    <3>1. n \in Nat /\ n <= N /\ N \in Nat
      BY <1>4
    <3> HIDE DEF Bad, N
    <3> QED BY <2>2, <2>3, <3>1
  <2>5. PICK id : read[n - 1] = Payload(id, found, Tokens(0, 0, 0))
    BY <2>4
  <2> PICK json : json = lines[n]
    OBVIOUS
  <2> PICK other : other = WithField(json, "ID", WithField(json, "messageID", id))
    OBVIOUS
  <2>6. "usage" \notin DOMAIN json /\ "messageUsage" \notin DOMAIN json
    BY <1>4, <2>4 DEF SilentAnswer, WithoutUsage
  <2>7. parseSpendStreamLine(Payload(id, found, Tokens(0, 0, 0)), json, own) =
           Payload(other, found, Tokens(0, 0, 0))
    BY <2>6, ReadNoUsage
  <2>8. read[n] = parseSpendStreamLine(read[n - 1], lines[n], own)
    BY <1>5, <2>4 DEF Reading
  <2>9. read[n] = Payload(other, found, Tokens(0, 0, 0))
    BY <2>5, <2>7, <2>8
  <2> QED BY <2>2, <2>9
<1>7. PICK id : read[N] = Payload(id, found, Tokens(0, 0, 0))
  BY <1>4, <1>6
<1>8. StreamPayload(lines, own) = read[N]
  BY <1>5 DEF Reading
<1> QED BY <1>2, <1>3, <1>7, <1>8, SpendNone

(* What a handler bills for an answer. *)
LEMMA AnswerCost ==
    ASSUME NEW a \in Answers, Provided(a), NEW own
    PROVE  /\ SpendOf(BuildSpendPayload(a.whole)) = Due(a)
           /\ \/ SpendOf(StreamPayload(a.lines, own)) = Due(a)
              \/ ~own /\ a.format = "anthropic" /\ a.lines # <<>>
<1>1. CASE SilentAnswer(a)
  <2>1. Due(a) = NoSpend
    BY <1>1 DEF Due, SilentAnswer
  <2>2. a.lines \in Seq(ToSet(a.lines))
    BY AnswerAssumption
  <2> QED BY <1>1, <2>1, <2>2, SilentRead
<1> DEFINE p == a.prompt
           c == a.completion
<1>2. CASE p \in Nat /\ c \in Nat /\ a \in OpenAIAnswers(p, c)
  <2>1. StreamPayload(a.lines, own) = Used("id", Tokens(p, c, p + c))
    BY <1>2, OpenAIRead
  <2>2. BuildSpendPayload(a.whole) = Used("id", Tokens(p, c, p + c))
    BY <1>2, OpenAIWhole
  <2>3. SpendOf(Used("id", Tokens(p, c, p + c))) = Due(a)
    BY <1>2, SpendUsed
  <2> QED BY <2>1, <2>2, <2>3, Zenon
<1>3. CASE p \in Nat /\ c \in Nat /\ a \in AnthropicAnswers(p, c)
  <2>1. own => StreamPayload(a.lines, own) = Used("id", Tokens(p, c, p + c))
    BY <1>3, AnthropicRead, Zenon
  <2>2. BuildSpendPayload(a.whole) = Used("id", Tokens(p, c, p + c))
    BY <1>3, AnthropicWhole
  <2>3. SpendOf(Used("id", Tokens(p, c, p + c))) = Due(a)
    BY <1>3, SpendUsed
  <2>4. a.format = "anthropic" /\ a.lines # <<>>
    BY <1>3, AnthropicRead, AnthropicWhole, Zenon
  <2> QED BY <2>1, <2>2, <2>3, <2>4, Zenon
<1> QED BY <1>1, <1>2, <1>3 DEF Provided

-----------------------------------------------------------------------------
(* The theorems.                                                           *)

(* The inductive invariant: the upstreams that a handler does not list any more have had all *)
(* their attempts, and it goes on only as long as the client has got nothing.               *)
THEOREM Inductive == Spec => []IInv
BY IInvInit, IInvStep, PTL DEF Spec

(* The types of the handlers, the balancer and the history. *)
THEOREM TypeCorrect == Spec => []TypeOK
<1>1. IInv => TypeOK
  BY DEF IInv
<1> QED BY <1>1, Inductive, PTL

(* No client is sent a second answer, nor one after a part of another, and none is left without. *)
THEOREM AnsweredOnce == Spec => []OneAnswer
<1>1. IInv => OneAnswer
  BY DEF IInv, Answering, OneAnswer
<1> QED BY <1>1, Inductive, PTL

(* A request is given up as exhausted only after every upstream of the group has failed all of *)
(* its attempts, wherever the balancer began.                                                  *)
THEOREM ExhaustedByAll == Spec => []ExhaustionIsTotal
<1>1. IInv => ExhaustionIsTotal
  BY DEF IInv, Sending, ExhaustionIsTotal
<1> QED BY <1>1, Inductive, PTL

(* An answer costs the same whole or streamed, for counts of any size: what                 *)
(* parseSpendStreamLine adds up, line by line, is what buildSpendPayloadFromEnvelope reads. *)
THEOREM StreamedSame == Spec => []StreamedAsWhole
<1>1. ASSUME NEW m \in Models, NEW p \in Counts, NEW c \in Counts, NEW a \in OpenAIAnswers(p, c)
      PROVE  StreamPayload(a.lines, m \in Anthropic) = BuildSpendPayload(a.whole)
  <2>1. StreamPayload(a.lines, m \in Anthropic) = Used("id", Tokens(p, c, p + c))
    BY OpenAIRead, Zenon
  <2> QED BY <2>1, OpenAIWhole, Zenon
<1>2. ASSUME NEW m \in Models, NEW p \in Counts, NEW c \in Counts, m \in Anthropic,
             NEW a \in AnthropicAnswers(p, c)
      PROVE  StreamPayload(a.lines, m \in Anthropic) = BuildSpendPayload(a.whole)
  <2>1. StreamPayload(a.lines, m \in Anthropic) = Used("id", Tokens(p, c, p + c))
    BY <1>2, AnthropicRead, Zenon
  <2> QED BY <2>1, AnthropicWhole, Zenon
<1>3. StreamedAsWhole
  BY <1>1, <1>2, Zenon DEF StreamedAsWhole
<1> QED BY <1>3, PTL

(* Only the upstream whose answer reached the client whole is billed, and for what that     *)
(* answer used, if all answers are like those of the tests, for counts of any size: a line  *)
(* of a stream adds to what the earlier ones said, and forwardOnce hands over nothing of a  *)
(* stream that breaks off.                                                                  *)
THEOREM BilledForUse ==
    ASSUME \A a \in Answers : Provided(a)
    PROVE  Spec => []BilledOnce
<1>1. ASSUME IInv, NEW r \in Requests, req[r].answer.end = "whole", NEW a \in req[r].answer.of
      PROVE  Misread(r) \/ req[r].answer.billed = Due(a)
  <2> DEFINE h == req[r]
  <2>1. PICK b \in Answers :
           /\ h.answer.of = {b}
           /\ \/ /\ h.answer.lines = <<>>
                 /\ h.answer.billed = SpendOf(BuildSpendPayload(b.whole))
              \/ /\ h.answer.lines = b.lines
                 /\ h.answer.billed = SpendOf(StreamPayload(b.lines, h.cands[1] \in Anthropic))
    BY <1>1 DEF IInv, Billing
  <2>2. a = b
    BY <1>1, <2>1
  <2>3. /\ SpendOf(BuildSpendPayload(a.whole)) = Due(a)
        /\ \/ SpendOf(StreamPayload(a.lines, h.cands[1] \in Anthropic)) = Due(a)
           \/ h.cands[1] \notin Anthropic /\ a.format = "anthropic" /\ a.lines # <<>>
    <3>1. a \in Answers /\ Provided(a)
      BY <2>2
    <3> HIDE DEF h
    <3> QED BY <3>1, AnswerCost, Zenon
  <2>4. Upstream(r) = h.cands[1]
    BY DEF Upstream
  <2>5. h.answer.lines = <<>> \/ h.answer.lines = a.lines
    BY <2>1, <2>2
  <2>6. CASE h.answer.billed = SpendOf(BuildSpendPayload(a.whole))
    BY <2>3, <2>6
  <2>7. CASE /\ h.answer.lines = a.lines
             /\ h.answer.billed = SpendOf(StreamPayload(a.lines, h.cands[1] \in Anthropic))
    <3>1. CASE h.cands[1] \notin Anthropic /\ a.format = "anthropic" /\ a.lines # <<>>
      BY <2>4, <2>7, <3>1, <1>1 DEF Misread
    <3> QED BY <2>3, <2>7, <3>1
  <2> QED BY <2>1, <2>2, <2>6, <2>7
<1>2. IInv => BilledOnce
  <2>1. ASSUME IInv, NEW r \in Requests, req[r].answer.end # "whole"
        PROVE  req[r].answer.billed = NoSpend
    BY <2>1 DEF IInv, Billing
  <2> QED BY <1>1, <2>1 DEF BilledOnce
<1> QED BY <1>2, Inductive, PTL

-----------------------------------------------------------------------------
(* How much is done for a request.                                         *)

(* The attempts of a step are those of forwardOnce; no other step counts.  *)
Attempted(r) == \E result, answer : Called(r, result, answer)

(* What else a handler does is between two attempts. *)
LEMMA StepKinds ==
    ASSUME NEW r \in Requests, Step(r)
    PROVE  \/ Attempted(r)
           \/ /\ UNCHANGED tries
              /\ Begin(r) \/ Unprepared(r) \/ Return(r) \/ RetrySame(r) \/ RetryOther(r) \/ GiveUp(r)
<1>1. CASE Fails(r)
  BY <1>1 DEF Fails, Attempted
<1>2. CASE Succeeds(r)
  BY <1>2 DEF Succeeds, Attempted
<1>3. CASE StreamEnds(r)
  BY <1>3 DEF StreamEnds, Attempted
<1>4. CASE StreamBreaks(r)
  BY <1>4 DEF StreamBreaks, Attempted
<1>5. CASE Begin(r) \/ Unprepared(r) \/ Return(r) \/ RetrySame(r) \/ RetryOther(r) \/ GiveUp(r)
  BY <1>5 DEF Begin, Unprepared, Return, RetrySame, RetryOther, GiveUp
<1> QED BY <1>1, <1>2, <1>3, <1>4, <1>5 DEF Step

TriesWithinDue == \A r \in Requests, m \in Models : tries[r][m] <= perUpstreamAttempts(m)

(* An attempt is one of those that are due to its upstream. *)
LEMMA TriesStep ==
    ASSUME IInv, TriesWithinDue, NEW r \in Requests, Step(r)
    PROVE  TriesWithinDue'
<1>1. CASE UNCHANGED tries
  BY <1>1 DEF TriesWithinDue
<1>2. CASE Attempted(r)
  <2>1. PICK m \in Models : m = Upstream(r) /\ m = req[r].cands[1]
    BY <1>2, Current DEF Attempted, Called
  <2>2. req[r].attempt \in 1..perUpstreamAttempts(m) /\ tries[r][m] = req[r].attempt - 1
    BY <1>2, <2>1, Current DEF Attempted, Called, Sending
  <2>3. perUpstreamAttempts(m) \in 1..(MaxTries - 1) /\ MaxTries \in Nat
    BY Attempts
  <2>4. tries' = [tries EXCEPT ![r][m] = IF @ < MaxTries THEN @ + 1 ELSE @]
    BY <1>2, <2>1 DEF Attempted, Called
  <2>5. tries \in [Requests -> [Models -> 0..MaxTries]]
    BY DEF IInv, TypeOK
  <2>6. tries'[r][m] <= perUpstreamAttempts(m)
    <3>1. tries'[r][m] = IF tries[r][m] < MaxTries THEN tries[r][m] + 1 ELSE tries[r][m]
      BY <2>4, <2>5
    <3> QED BY <2>2, <2>3, <3>1
  <2>7. \A q \in Requests, k \in Models : (q = r /\ k = m) \/ tries'[q][k] = tries[q][k]
    BY <2>4, <2>5
  <2> QED BY <2>6, <2>7 DEF TriesWithinDue
<1> QED BY <1>1, <1>2, StepKinds

(* Whatever the upstreams do, none is sent a request more often than its retry_times allow, *)
(* capped by maxPerUpstreamRetryTimes: neither the turn through the group nor a retry of    *)
(* another upstream comes back to one that had its attempts.                                *)
THEOREM NoneTriedTooOften == Spec => []TriesWithinDue
<1>1. Init => TriesWithinDue
  <2>1. ASSUME NEW m \in Models PROVE 0 <= perUpstreamAttempts(m)
    BY Attempts
  <2> QED BY <2>1 DEF Init, TriesWithinDue
<1>2. IInv /\ TriesWithinDue /\ [Next]_vars => TriesWithinDue'
  <2>1. ASSUME TriesWithinDue, UNCHANGED vars PROVE TriesWithinDue'
    BY <2>1 DEF vars, TriesWithinDue
  <2> QED BY <2>1, TriesStep DEF Next
<1> QED BY <1>1, <1>2, Inductive, PTL DEF Spec

(* The most attempts that may follow the one a handler h is at, and the    *)
(* most steps that it takes: two for an attempt, its outcome and the       *)
(* report of its latency, and the choice of the upstreams.  An upstream is *)
(* tried 4 times at most, once and maxPerUpstreamRetryTimes again.         *)
AttemptsLeft(h) == (Len(h.cands) - 1) * 4 + 4 - h.attempt

StepsLeft(h) ==
    IF h.pc = "new" THEN 8 * Len(Group) + 1
    ELSE IF h.pc = "call" THEN 2 * AttemptsLeft(h) + 2
    ELSE IF h.pc = "observe" THEN 2 * AttemptsLeft(h) + 1
    ELSE 0

(* A handler that has an upstream has attempts left or is at the last. *)
LEMMA AttemptsLeftFacts ==
    ASSUME IInv, NEW r \in Requests, req[r].pc \in {"call", "observe"}
    PROVE  /\ Len(req[r].cands) \in Nat \ {0} /\ req[r].attempt \in 1..4
           /\ AttemptsLeft(req[r]) \in Nat
<1>1. PICK n \in Nat \ {0} : n = Len(req[r].cands)
  BY Current
<1>2. PICK m \in Models : m = req[r].cands[1]
  BY Current
<1>3. req[r].attempt \in 1..perUpstreamAttempts(m)
  BY <1>2, Current DEF Sending
<1>4. perUpstreamAttempts(m) \in 1..4
  <2>1. perUpstreamAttempts(m) \in 1..(MaxTries - 1) /\ MaxTries = 5
    BY Attempts DEF MaxTries, maxPerUpstreamRetryTimes
  <2> QED BY <2>1
<1>5. PICK a \in 1..4 : a = req[r].attempt
  BY <1>3, <1>4
<1>6. (n - 1) * 4 + 4 - a \in Nat
  OBVIOUS
<1> QED BY <1>1, <1>5, <1>6 DEF AttemptsLeft

(* The steps that are left are a number. *)
LEMMA StepsLeftType ==
    ASSUME IInv, NEW r \in Requests
    PROVE  StepsLeft(req[r]) \in Nat
<1>1. PICK n \in Nat : n = Len(Group)
  <2>1. Len(Group) \in Nat
    BY GroupFacts
  <2> QED BY <2>1
<1>2. CASE req[r].pc \in {"call", "observe"}
  <2>1. PICK a \in Nat : a = AttemptsLeft(req[r])
    BY <1>2, AttemptsLeftFacts
  <2> QED BY <1>2, <2>1 DEF StepsLeft
<1>3. CASE req[r].pc \notin {"call", "observe"}
  BY <1>1, <1>3 DEF StepsLeft
<1> QED BY <1>2, <1>3

(* After an attempt, or when none could be prepared, its outcome is looked at. *)
LEMMA NowObserving ==
    ASSUME IInv, NEW r \in Requests, Attempted(r) \/ Unprepared(r)
    PROVE  /\ req[r].pc = "call" /\ req'[r].pc = "observe"
           /\ req'[r].cands = req[r].cands /\ req'[r].attempt = req[r].attempt
           /\ \A q \in Requests \ {r} : req'[q] = req[q]
<1>1. req \in [Requests -> Handler]
  BY DEF IInv, TypeOK
<1>2. PICK g \in Handler : g = req[r]
  BY <1>1
<1>3. CASE Attempted(r)
  <2>1. PICK result, answer : Called(r, result, answer)
    BY <1>3 DEF Attempted
  <2>2. PICK l \in Latencies : req' = [req EXCEPT ![r] =
          [req[r] EXCEPT !.pc = "observe", !.result = result, !.latency = l, !.answer = answer]]
    <3>1. \E l \in Latencies : req' = [req EXCEPT ![r] =
            [@ EXCEPT !.pc = "observe", !.result = result, !.latency = l, !.answer = answer]]
      BY <2>1, Zenon DEF Called
    <3>2. PICK l \in Latencies : req' = [req EXCEPT ![r] =
            [@ EXCEPT !.pc = "observe", !.result = result, !.latency = l, !.answer = answer]]
      BY <3>1, Zenon
    <3>3. req' = [req EXCEPT ![r] =
            [req[r] EXCEPT !.pc = "observe", !.result = result, !.latency = l, !.answer = answer]]
      BY <3>2
    <3> QED BY <3>3, Zenon
  <2>3. req[r].pc = "call"
    BY <2>1 DEF Called
  <2> DEFINE h == [g EXCEPT !.pc = "observe", !.result = result, !.latency = l, !.answer = answer]
  <2>4. h.pc = "observe" /\ h.cands = g.cands /\ h.attempt = g.attempt
    BY DEF Handler
  <2>5. req' = [req EXCEPT ![r] = h]
    BY <1>2, <2>2
  <2> HIDE DEF h
  <2> QED BY <1>1, <1>2, <2>3, <2>4, <2>5
<1>4. CASE Unprepared(r)
  <2>1. req[r].pc = "call"
    BY <1>4 DEF Unprepared
  <2> DEFINE h == [g EXCEPT !.pc = "observe", !.result = "final", !.latency = 0]
  <2>2. h.pc = "observe" /\ h.cands = g.cands /\ h.attempt = g.attempt
    BY DEF Handler
  <2>3. req' = [req EXCEPT ![r] = h]
    BY <1>1, <1>2, <1>4 DEF Unprepared
  <2> HIDE DEF h
  <2> QED BY <1>1, <1>2, <2>1, <2>2, <2>3
<1> QED BY <1>3, <1>4

(* Every step of a handler leaves it fewer. *)
LEMMA FewerLeft ==
    ASSUME IInv, NEW r \in Requests, Step(r)
    PROVE  StepsLeft(req'[r]) < StepsLeft(req[r]) /\ \A q \in Requests \ {r} : req'[q] = req[q]
<1>1. req \in [Requests -> Handler]
  BY DEF IInv, TypeOK
<1>2. PICK g \in Handler : g = req[r]
  BY <1>1
<1>3. CASE Begin(r)
  <2>1. PICK m \in Models : req' = [req EXCEPT ![r].pc = "call", ![r].cands = Candidates(m)]
    BY <1>3 DEF Begin
  <2>2. g = NewReq /\ g.pc = "new" /\ g.attempt = 1
    BY <1>2, <1>3, Current DEF Begin, Sending, NewReq
  <2>3. PICK n \in Nat : n = Len(Group) /\ n = Len(Candidates(m))
    <3>1. Len(Group) \in Nat
      BY GroupFacts
    <3>2. Len(Candidates(m)) = Len(Group)
      BY CandidatesFacts
    <3> QED BY <3>1, <3>2
  <2>4. req'[r] = [g EXCEPT !.pc = "call", !.cands = Candidates(m)]
    BY <1>1, <1>2, <2>1
  <2>5. /\ req'[r].pc = "call" /\ req'[r].cands = Candidates(m) /\ req'[r].attempt = 1
    BY <2>2, <2>4 DEF Handler
  <2>6. AttemptsLeft(req'[r]) = (n - 1) * 4 + 4 - 1
    BY <2>3, <2>5 DEF AttemptsLeft
  <2>7. StepsLeft(req'[r]) = 2 * ((n - 1) * 4 + 4 - 1) + 2 /\ StepsLeft(req[r]) = 8 * n + 1
    BY <1>2, <2>2, <2>3, <2>5, <2>6 DEF StepsLeft
  <2>8. 2 * ((n - 1) * 4 + 4 - 1) + 2 < 8 * n + 1
    OBVIOUS
  <2>9. StepsLeft(req'[r]) < StepsLeft(req[r])
    BY <2>7, <2>8
  <2> QED BY <1>1, <2>1, <2>9
<1>4. CASE Attempted(r) \/ Unprepared(r)
  <2>1. /\ g.pc = "call" /\ req'[r].pc = "observe"
        /\ req'[r].cands = g.cands /\ req'[r].attempt = g.attempt
    BY <1>2, <1>4, NowObserving
  <2>2. \A q \in Requests \ {r} : req'[q] = req[q]
    BY <1>4, NowObserving
  <2>3. PICK a \in Nat : a = AttemptsLeft(g) /\ a = AttemptsLeft(req'[r])
    BY <1>2, <2>1, AttemptsLeftFacts DEF AttemptsLeft
  <2>4. StepsLeft(req'[r]) = 2 * a + 1 /\ StepsLeft(req[r]) = 2 * a + 2
    BY <1>2, <2>1, <2>3 DEF StepsLeft
  <2>5. StepsLeft(req'[r]) < StepsLeft(req[r])
    BY <2>4
  <2> QED BY <2>2, <2>5
<1>5. CASE Return(r) \/ GiveUp(r)
  <2>1. g.pc = "observe" /\ req'[r].pc = "done" /\ \A q \in Requests \ {r} : req'[q] = req[q]
    BY <1>1, <1>2, <1>5 DEF Return, GiveUp, Answer, Handler
  <2>2. PICK a \in Nat : a = AttemptsLeft(g)
    BY <1>2, <2>1, AttemptsLeftFacts
  <2>3. StepsLeft(req'[r]) = 0 /\ StepsLeft(req[r]) = 2 * a + 1
    BY <1>2, <2>1, <2>2 DEF StepsLeft
  <2>4. StepsLeft(req'[r]) < StepsLeft(req[r])
    BY <2>3
  <2> QED BY <2>1, <2>4
<1>6. CASE RetrySame(r)
  <2>1. /\ g.pc = "observe" /\ req'[r].pc = "call" /\ req'[r].cands = g.cands
        /\ req'[r].attempt = g.attempt + 1
    BY <1>1, <1>2, <1>6 DEF RetrySame, Handler
  <2>2. \A q \in Requests \ {r} : req'[q] = req[q]
    BY <1>1, <1>6 DEF RetrySame
  <2>3. PICK n \in Nat \ {0}, a \in 1..4 : n = Len(g.cands) /\ a = g.attempt
    BY <1>2, <2>1, AttemptsLeftFacts
  <2>4. /\ AttemptsLeft(g) = (n - 1) * 4 + 4 - a
        /\ AttemptsLeft(req'[r]) = (n - 1) * 4 + 4 - (a + 1)
    BY <2>1, <2>3 DEF AttemptsLeft
  <2>5. /\ StepsLeft(req[r]) = 2 * ((n - 1) * 4 + 4 - a) + 1
        /\ StepsLeft(req'[r]) = 2 * ((n - 1) * 4 + 4 - (a + 1)) + 2
    BY <1>2, <2>1, <2>4 DEF StepsLeft
  <2>6. 2 * ((n - 1) * 4 + 4 - (a + 1)) + 2 < 2 * ((n - 1) * 4 + 4 - a) + 1
    OBVIOUS
  <2> QED BY <2>2, <2>5, <2>6
<1>7. CASE RetryOther(r)
  <2>1. /\ g.pc = "observe" /\ req'[r].pc = "call" /\ req'[r].cands = Tail(g.cands)
        /\ req'[r].attempt = 1 /\ Len(g.cands) > 1
    BY <1>1, <1>2, <1>7 DEF RetryOther, Handler
  <2>2. \A q \in Requests \ {r} : req'[q] = req[q]
    BY <1>1, <1>7 DEF RetryOther
  <2>3. PICK n \in Nat \ {0}, a \in 1..4 : n = Len(g.cands) /\ a = g.attempt
    BY <1>2, <2>1, AttemptsLeftFacts
  <2>4. Len(Tail(g.cands)) = n - 1
    <3>1. PICK c \in Seq(Models) : c = g.cands
      BY DEF Handler
    <3> QED BY <2>1, <2>3, <3>1
  <2>5. /\ AttemptsLeft(g) = (n - 1) * 4 + 4 - a
        /\ AttemptsLeft(req'[r]) = (n - 1 - 1) * 4 + 4 - 1
    BY <2>1, <2>3, <2>4 DEF AttemptsLeft
  <2>6. /\ StepsLeft(req[r]) = 2 * ((n - 1) * 4 + 4 - a) + 1
        /\ StepsLeft(req'[r]) = 2 * ((n - 1 - 1) * 4 + 4 - 1) + 2
    BY <1>2, <2>1, <2>5 DEF StepsLeft
  <2>7. 2 * ((n - 1 - 1) * 4 + 4 - 1) + 2 < 2 * ((n - 1) * 4 + 4 - a) + 1
    OBVIOUS
  <2> QED BY <2>2, <2>6, <2>7
<1> QED BY <1>3, <1>4, <1>5, <1>6, <1>7, StepKinds

(* The retries come to an end however the upstreams fail and the handlers interleave: each  *)
(* step leaves one handler fewer, of 8 for each upstream and one, and the others as many.   *)
(* With the fairness of FairSpec that is why EveryRequestAnswered holds for every group.    *)
THEOREM EffortFalls ==
    Spec => [](\A r \in Requests : StepsLeft(req[r]) \in Nat) /\
            [][\E r \in Requests : /\ StepsLeft(req'[r]) < StepsLeft(req[r])
                                   /\ \A q \in Requests \ {r} : req'[q] = req[q]]_vars
<1> DEFINE Typed == \A r \in Requests : StepsLeft(req[r]) \in Nat
           Falls == \E r \in Requests : /\ StepsLeft(req'[r]) < StepsLeft(req[r])
                                        /\ \A q \in Requests \ {r} : req'[q] = req[q]
<1>1. IInv => Typed
  BY StepsLeftType
<1>2. IInv /\ [Next]_vars => [Falls]_vars
  <2>1. ASSUME IInv, Next PROVE Falls
    BY <2>1, FewerLeft DEF Next
  <2> QED BY <2>1
<1> QED BY <1>1, <1>2, Inductive, PTL DEF Spec
=============================================================================
