-------------------------- MODULE SelectionProofs ---------------------------
(***************************************************************************)
(* What holds of Selection for every group of upstreams, all weights and   *)
(* latencies, any number of handlers and a counter of any width: shares    *)
(* are exact after each round, the smoothed latency stays within what was  *)
(* observed, and an upstream that last failed is not chosen first while    *)
(* there is one that last worked.                                          *)
(***************************************************************************)
EXTENDS Selection, SumTheorems

-----------------------------------------------------------------------------
(* Division with remainder.                                                *)

LEMMA DivMod ==
    ASSUME NEW n \in Int, NEW d \in Nat \ {0}
    PROVE  /\ n \div d \in Int /\ n % d \in 0..(d - 1)
           /\ n = d * (n \div d) + (n % d)
           /\ n >= 0 => n \div d \in Nat
<1>1. n \div d \in Int /\ n % d \in 0..(d - 1) /\ n = d * (n \div d) + (n % d)
  OBVIOUS
<1>2. ASSUME n >= 0 PROVE n \div d >= 0
  BY <1>2
<1> QED BY <1>1, <1>2

(* A quotient and a remainder are the only ones. *)
LEMMA QuotientUnique ==
    ASSUME NEW d \in Nat \ {0}, NEW p \in Int, NEW q \in Int,
           NEW r \in 0..(d - 1), NEW s \in 0..(d - 1), d * q + r = d * p + s
    PROVE  q = p /\ r = s
OBVIOUS

(* The next number is at the next place of the round, or begins another. *)
LEMMA NextQuotient ==
    ASSUME NEW n \in Nat, NEW d \in Nat \ {0}
    PROVE  IF (n % d) + 1 = d THEN (n + 1) \div d = (n \div d) + 1 /\ (n + 1) % d = 0
           ELSE (n + 1) \div d = n \div d /\ (n + 1) % d = (n % d) + 1
OBVIOUS

(* Whole rounds do not move the place in the round. *)
LEMMA WholeRounds ==
    ASSUME NEW n \in Nat, NEW d \in Nat \ {0}, NEW c \in Int, c % d = 0
    PROVE  (n + c) \div d = (n \div d) + (c \div d) /\ (n + c) % d = n % d
<1>0. PICK q \in Int, a \in Int : q = c \div d /\ a = n + c /\ a = n + d * q
  <2>1. c \div d \in Int /\ c = d * (c \div d) + (c % d)
    BY DivMod
  <2> QED BY <2>1
<1>1. n = d * (n \div d) + (n % d) /\ a = d * (a \div d) + (a % d)
  BY DivMod
<1>2. n \div d \in Int /\ a \div d \in Int /\ n % d \in 0..(d - 1) /\ a % d \in 0..(d - 1)
  BY DivMod
<1>3. (n \div d) + q \in Int
  BY <1>2
<1>4. d * (a \div d) + (a % d) = d * ((n \div d) + q) + (n % d)
  BY <1>0, <1>1, <1>2
<1>5. a \div d = (n \div d) + q /\ a % d = n % d
  <2>1. PICK x \in Int, y \in Int : x = a \div d /\ y = (n \div d) + q
    BY <1>2, <1>3
  <2>2. PICK r \in 0..(d - 1), s \in 0..(d - 1) : r = a % d /\ s = n % d
    BY <1>2
  <2>3. d * x + r = d * y + s
    BY <1>4, <2>1, <2>2
  <2>4. x = y /\ r = s
    BY <2>3, QuotientUnique
  <2> QED BY <2>1, <2>2, <2>4
<1> QED BY <1>0, <1>5

-----------------------------------------------------------------------------
(* The upstreams and their weights in the order of the file.               *)

LEMMA GroupFacts ==
    /\ Len(Group) \in Nat \ {0} /\ DOMAIN Group = 1..Len(Group) /\ IsFiniteSet(Models)
    /\ \A i \in 1..Len(Group) : Group[i] \in Models /\ Place(Group[i]) = i
    /\ \A m \in Models : Place(m) \in 1..Len(Group) /\ Group[Place(m)] = m
    /\ Word \in Nat \ {0} /\ Word >= Len(Group)
<1>1. Len(Group) \in Nat \ {0} /\ DOMAIN Group = 1..Len(Group)
  BY GroupAssumption
<1>2. \A i \in 1..Len(Group) : Group[i] \in Models
  BY <1>1 DEF Models, ToSet
<1>3. \A m \in Models : Place(m) \in 1..Len(Group) /\ Group[Place(m)] = m
  BY <1>1 DEF Models, ToSet, Place
<1>4. \A i \in 1..Len(Group) : Place(Group[i]) = i
  BY <1>1, <1>2, <1>3, GroupAssumption DEF IsInjective
<1>5. IsFiniteSet(Models)
  <2>1. IsFiniteSet(1..Len(Group))
    BY <1>1, FS_Interval
  <2>2. [i \in 1..Len(Group) |-> Group[i]] \in Surjection(1..Len(Group), Models)
    BY <1>2, <1>3 DEF Surjection
  <2> QED BY <2>1, <2>2, FS_Surjection
<1> QED BY <1>1, <1>2, <1>3, <1>4, <1>5, WordAssumption

(* The weights added up along the group: never less further on. *)
LEMMA UpToFacts ==
    ASSUME NEW w \in [Models -> Nat]
    PROVE  /\ UpTo(w, 0) = 0
           /\ \A i \in 0..Len(Group) : UpTo(w, i) \in Nat
           /\ \A i \in 1..Len(Group) : UpTo(w, i) = w[Group[i]] + UpTo(w, i - 1)
           /\ \A i, j \in 0..Len(Group) : i <= j => UpTo(w, i) <= UpTo(w, j)
<1> DEFINE f == [j \in DOMAIN Group |-> w[Group[j]]]
           S(J) == SumFunctionOnSet(f, J)
<1>1. \A i : UpTo(w, i) = S(1..i)
  BY DEF UpTo
<1>2. \A i \in 1..Len(Group) : f[i] = w[Group[i]] /\ f[i] \in Nat
  BY GroupFacts
<1> HIDE DEF f
<1>3. \A i \in 0..Len(Group) : IsFiniteSet(1..i) /\ \A j \in 1..i : j \in 1..Len(Group)
  BY FS_Interval, GroupFacts
<1>4. S({}) = 0
  BY SumEmpty
<1>5. \A i \in 0..Len(Group) : S(1..i) \in Nat
  <2> TAKE i \in 0..Len(Group)
  <2> QED BY <1>2, <1>3, SumType
<1>6. ASSUME NEW i \in 1..Len(Group)
      PROVE  S(1..i) = f[i] + S(1..(i - 1))
  <2>1. (1..i) \ {i} = 1..(i - 1) /\ i \in 1..i /\ i \in 0..Len(Group)
    BY GroupFacts
  <2>2. S(1..i) = f[i] + S((1..i) \ {i})
    <3>1. PICK A, a : A = 1..i /\ a = i
      OBVIOUS
    <3>2. IsFiniteSet(A) /\ (\A x \in A : f[x] \in Nat) /\ a \in A
      BY <1>2, <1>3, <2>1, <3>1
    <3>3. S(A) = f[a] + S(A \ {a})
      BY <3>2, SumRemove
    <3> QED BY <3>1, <3>3
  <2> QED BY <2>1, <2>2
<1>7. ASSUME NEW i \in 0..Len(Group), NEW j \in 0..Len(Group), i <= j
      PROVE  S(1..i) <= S(1..j)
  <2>1. 1..j = (1..i) \cup ((i + 1)..j) /\ (1..i) \cap ((i + 1)..j) = {}
    BY <1>7, GroupFacts
  <2>2. IsFiniteSet(1..i) /\ IsFiniteSet((i + 1)..j)
    BY FS_Interval, GroupFacts
  <2>3. \A x \in (1..i) \cup ((i + 1)..j) : f[x] \in Nat
    BY <1>2, <1>3, <2>1
  <2>4. S(1..j) = S(1..i) + S((i + 1)..j)
    <3>1. PICK A, B : A = 1..i /\ B = (i + 1)..j
      OBVIOUS
    <3>2. S(A \cup B) = S(A) + S(B)
      BY <2>1, <2>2, <2>3, <3>1, SumUnion
    <3> QED BY <2>1, <3>1, <3>2
  <2>5. S((i + 1)..j) \in Nat
    BY <2>2, <2>3, SumType
  <2> QED BY <1>5, <2>4, <2>5
<1> HIDE DEF S
<1>8. 1..0 = {}
  OBVIOUS
<1> QED BY <1>1, <1>2, <1>4, <1>5, <1>6, <1>7, <1>8

(* What is summed along the file is the sum over the upstreams. *)
LEMMA TotalIsSum ==
    ASSUME NEW w \in [Models -> Nat]
    PROVE  SumFunction(w) = TotalWeight(w)
<1> DEFINE First(i) == {Group[j] : j \in 1..i}
           Bad == {i \in 0..Len(Group) : UpTo(w, i) # SumFunctionOnSet(w, First(i))}
<1>1. ASSUME Bad # {} PROVE FALSE
  <2>1. Bad \in SUBSET Nat
    BY GroupFacts
  <2>2. PICK i \in Bad : \A j \in Bad : i <= j
    <3> HIDE DEF Bad
    <3> QED BY <1>1, <2>1, LeastNat
  <2>3. i \in 0..Len(Group) /\ UpTo(w, i) # SumFunctionOnSet(w, First(i))
    OBVIOUS
  <2>4. i # 0
    <3>1. First(0) = {}
      OBVIOUS
    <3> QED BY <2>3, <3>1, SumEmpty, UpToFacts
  <2>5. i \in 1..Len(Group) /\ i - 1 \in 0..Len(Group) /\ i - 1 \notin Bad
    <3>1. i \in 1..Len(Group) /\ i - 1 \in 0..Len(Group) /\ ~(i <= i - 1)
      BY <2>3, <2>4, GroupFacts
    <3> QED BY <2>2, <3>1
  <2>6. UpTo(w, i - 1) = SumFunctionOnSet(w, First(i - 1))
    BY <2>5
  <2>7. /\ Group[i] \in First(i) /\ First(i) \ {Group[i]} = First(i - 1)
        /\ First(i) \in SUBSET Models
    <3>1. \A j \in 1..Len(Group) : Group[j] = Group[i] => j = i
      BY <2>5, GroupFacts
    <3>2. i \in 1..i /\ 1..(i - 1) = (1..i) \ {i} /\ \A j \in 1..i : j \in 1..Len(Group)
      BY <2>5, GroupFacts
    <3>3. First(i) \in SUBSET Models
      BY <3>2, GroupFacts
    <3>4. First(i) \ {Group[i]} = First(i - 1)
      BY <3>1, <3>2
    <3> QED BY <3>2, <3>3, <3>4
  <2>8. IsFiniteSet(First(i)) /\ \A m \in First(i) : w[m] \in Nat
    BY <2>7, GroupFacts, FS_Subset
  <2> HIDE DEF First
  <2>9. SumFunctionOnSet(w, First(i)) = w[Group[i]] + SumFunctionOnSet(w, First(i) \ {Group[i]})
    BY <2>7, <2>8, SumRemove
  <2> QED BY <2>3, <2>5, <2>6, <2>7, <2>9, UpToFacts
<1>2. First(Len(Group)) = Models
  BY GroupFacts DEF Models, ToSet
<1>3. Len(Group) \in 0..Len(Group)
  BY GroupFacts
<1>4. UpTo(w, Len(Group)) = SumFunctionOnSet(w, First(Len(Group)))
  BY <1>1, <1>3
<1> QED BY <1>2, <1>4 DEF TotalWeight, SumFunction

(* Any weights of the file have a total. *)
LEMMA TotalType ==
    ASSUME NEW w \in [Models -> Int]
    PROVE  TotalWeight(w) \in Int
<1> DEFINE f == [j \in DOMAIN Group |-> w[Group[j]]]
<1>1. IsFiniteSet(1..Len(Group)) /\ \A i \in 1..Len(Group) : f[i] \in Int
  BY GroupFacts, FS_Interval
<1>2. SumFunctionOnSet(f, 1..Len(Group)) \in Int
  <2> HIDE DEF f
  <2> QED BY <1>1, SumInteger
<1> QED BY <1>2 DEF TotalWeight, UpTo

(* Where each weighs 1, as many weigh i as come first. *)
LEMMA UpToOnes ==
    ASSUME NEW w \in [Models -> {1}]
    PROVE  \A i \in 0..Len(Group) : UpTo(w, i) = i
<1> DEFINE Bad == {i \in 0..Len(Group) : UpTo(w, i) # i}
<1>1. w \in [Models -> Nat]
  OBVIOUS
<1>2. ASSUME Bad # {} PROVE FALSE
  <2>1. Bad \in SUBSET Nat
    BY GroupFacts
  <2>2. PICK i \in Bad : \A j \in Bad : i <= j
    <3> HIDE DEF Bad
    <3> QED BY <1>2, <2>1, LeastNat
  <2>3. i \in 0..Len(Group) /\ UpTo(w, i) # i
    OBVIOUS
  <2>4. i # 0
    BY <1>1, <2>3, UpToFacts
  <2>5. i \in 1..Len(Group) /\ i - 1 \in 0..Len(Group) /\ ~(i <= i - 1)
    BY <2>3, <2>4, GroupFacts
  <2>6. UpTo(w, i - 1) = i - 1
    BY <2>2, <2>5
  <2>7. UpTo(w, i) = 1 + UpTo(w, i - 1)
    <3>1. UpTo(w, i) = w[Group[i]] + UpTo(w, i - 1)
      BY <1>1, <2>5, UpToFacts
    <3>2. Group[i] \in Models
      BY <2>5, GroupFacts
    <3> QED BY <3>1, <3>2
  <2> QED BY <2>3, <2>6, <2>7
<1> QED BY <1>2

-----------------------------------------------------------------------------
(* Rounds.                                                                 *)

NoDebt == \A m \in Models : Turns(m) >= 0

Due == [m \in Models |-> Turns(m)]

(* The number i of a round is in the stretch of m. *)
Owns(m, i) == Offset(m) <= i /\ i < Offset(m) + Turns(m)

(* The turns of an upstream are a number. *)
LEMMA TurnsType ==
    ASSUME TypeOK
    PROVE  /\ weight \in [Models -> Int] /\ TotalWeight(weight) \in Int /\ TotalWeight(weight) < Word
           /\ \A m \in Models : Turns(m) \in Int
<1>1. weight \in [Models -> Int] /\ TotalWeight(weight) < Word
  BY WeightAssumption DEF TypeOK
<1> QED BY <1>1, TotalType DEF Turns

(* The stretches fill the round and do not overlap. *)
LEMMA Stretches ==
    ASSUME TypeOK, NoDebt
    PROVE  /\ Due \in [Models -> Nat] /\ Round \in Nat \ {0}
           /\ Round = UpTo(Due, Len(Group))
           /\ Round <= Word
           /\ strategy = "weighted" /\ TotalWeight(weight) > 0 =>
                 Due = weight /\ Round = TotalWeight(weight)
           /\ ~(strategy = "weighted" /\ TotalWeight(weight) > 0) =>
                 Due \in [Models -> {1}] /\ Round = Len(Group)
           /\ \A m \in Models :
                 /\ Turns(m) \in Nat /\ Offset(m) \in Nat
                 /\ Offset(m) = UpTo(Due, Place(m) - 1)
                 /\ Offset(m) + Turns(m) = UpTo(Due, Place(m))
                 /\ Offset(m) + Turns(m) <= Round
           /\ \A m, n \in Models, i \in Nat : Owns(m, i) /\ Owns(n, i) => m = n
<1>1. Due \in [Models -> Nat] /\ \A m \in Models : Turns(m) \in Nat /\ Due[m] = Turns(m)
  BY TurnsType DEF Due, NoDebt
<1>2. Round = TotalWeight(Due) /\ Round = UpTo(Due, Len(Group)) /\ Round \in Nat
  <2>1. Round = SumFunction(Due)
    BY DEF Round, Due
  <2>2. Len(Group) \in 0..Len(Group)
    BY GroupFacts
  <2> QED BY <1>1, <2>1, <2>2, TotalIsSum, UpToFacts DEF TotalWeight
<1>3. ASSUME strategy = "weighted" /\ TotalWeight(weight) > 0
      PROVE  Due = weight /\ Round = TotalWeight(weight) /\ Round > 0 /\ Round <= Word
  <2>1. Due = weight
    BY <1>3, TurnsType DEF Due, Turns
  <2>2. Round = TotalWeight(weight)
    BY <1>2, <2>1
  <2>3. TotalWeight(weight) \in Int /\ TotalWeight(weight) > 0 /\ TotalWeight(weight) < Word
    BY <1>3, TurnsType
  <2> QED BY <2>1, <2>2, <2>3, GroupFacts
<1>4. ASSUME ~(strategy = "weighted" /\ TotalWeight(weight) > 0)
      PROVE  Due \in [Models -> {1}] /\ Round = Len(Group) /\ Round > 0 /\ Round <= Word
  <2>1. Due \in [Models -> {1}]
    BY <1>4 DEF Due, Turns
  <2>2. Len(Group) \in 0..Len(Group) /\ Len(Group) > 0 /\ Len(Group) <= Word
    BY GroupFacts
  <2> QED BY <1>2, <2>1, <2>2, UpToOnes
<1>5. \A m \in Models : Offset(m) = UpTo(Due, Place(m) - 1)
  BY DEF Offset, Due
<1>6. ASSUME NEW m \in Models
      PROVE  /\ Offset(m) \in Nat /\ Offset(m) + Turns(m) = UpTo(Due, Place(m))
             /\ Offset(m) + Turns(m) <= Round
  <2>1. Place(m) \in 1..Len(Group) /\ Group[Place(m)] = m
    BY GroupFacts
  <2>2. /\ Place(m) - 1 \in 0..Len(Group) /\ Place(m) \in 0..Len(Group)
        /\ Len(Group) \in 0..Len(Group) /\ Place(m) <= Len(Group)
    BY <2>1, GroupFacts
  <2>3. UpTo(Due, Place(m)) = Due[m] + UpTo(Due, Place(m) - 1)
    BY <1>1, <2>1, UpToFacts
  <2>4. UpTo(Due, Place(m) - 1) \in Nat /\ UpTo(Due, Place(m)) <= UpTo(Due, Len(Group))
    BY <1>1, <2>2, UpToFacts
  <2> QED BY <1>1, <1>2, <1>5, <2>3, <2>4
<1>7. ASSUME NEW m \in Models, NEW n \in Models, NEW i \in Nat, Owns(m, i), Owns(n, i)
      PROVE  m = n
  <2>1. ASSUME NEW a \in Models, NEW b \in Models, Owns(a, i), Owns(b, i), Place(a) < Place(b)
        PROVE  FALSE
    <3>1. Place(a) \in 0..Len(Group) /\ Place(b) - 1 \in 0..Len(Group) /\ Place(a) <= Place(b) - 1
      BY <2>1, GroupFacts
    <3>2. UpTo(Due, Place(a)) <= UpTo(Due, Place(b) - 1)
      BY <1>1, <3>1, UpToFacts
    <3>3. i < UpTo(Due, Place(a)) /\ UpTo(Due, Place(b) - 1) <= i
      BY <1>5, <1>6, <2>1 DEF Owns
    <3>4. UpTo(Due, Place(a)) \in Nat /\ UpTo(Due, Place(b) - 1) \in Nat
      BY <1>1, <3>1, UpToFacts
    <3> QED BY <3>2, <3>3, <3>4
  <2>2. ~(Place(m) < Place(n)) /\ ~(Place(n) < Place(m))
    BY <1>7, <2>1
  <2>3. Place(m) = Place(n)
    BY <2>2, GroupFacts
  <2> QED BY <2>3, GroupFacts
<1> QED BY <1>1, <1>2, <1>3, <1>4, <1>5, <1>6, <1>7

(* A number goes to the upstream that owns it. *)
LEMMA OwnerIsChosen ==
    ASSUME TypeOK, NoDebt, NEW m \in Models,
           \/ strategy # "weighted" /\ NextInTurn(m)
           \/ strategy = "weighted" /\ NextByWeight(weight, m)
    PROVE  index' = (index + 1) % Word /\ Owns(m, index' % Round)
<1>1. index' = (index + 1) % Word /\ index' \in Nat
  BY GroupFacts DEF NextInTurn, NextByWeight, TypeOK
<1>2. CASE ~(strategy = "weighted" /\ TotalWeight(weight) > 0)
  <2>1. m = Group[(index' % Len(Group)) + 1]
    BY <1>2, TurnsType DEF NextInTurn, NextByWeight
  <2>2. PICK i \in 0..(Len(Group) - 1) : i = index' % Len(Group)
    <3>1. index' \in Int /\ Len(Group) \in Nat \ {0}
      BY <1>1, GroupFacts
    <3>2. index' % Len(Group) \in 0..(Len(Group) - 1)
      BY <3>1, DivMod
    <3> QED BY <3>2
  <2>3. Place(m) = i + 1 /\ Place(m) - 1 = i /\ i \in 0..Len(Group) /\ i + 1 \in 0..Len(Group)
    BY <2>1, <2>2, GroupFacts
  <2>4. Offset(m) = i /\ Offset(m) + Turns(m) = i + 1 /\ Round = Len(Group)
    BY <1>2, <2>3, Stretches, UpToOnes
  <2> QED BY <1>1, <2>2, <2>4 DEF Owns
<1>3. CASE strategy = "weighted" /\ TotalWeight(weight) > 0
  <2>1. /\ Due = weight /\ Round = TotalWeight(weight) /\ Round \in Nat \ {0} /\ Round < Word
        /\ Due \in [Models -> Nat] /\ Round = UpTo(Due, Len(Group))
    BY <1>3, Stretches, TurnsType
  <2>2. PICK k \in 0..(Round - 1) : k = index' % Round
    <3>1. index' \in Int
      BY <1>1
    <3>2. index' % Round \in 0..(Round - 1)
      BY <2>1, <3>1, DivMod
    <3> QED BY <3>2
  <2>3. \A i \in 0..Len(Group) : UpTo(weight, i) \in Nat /\ UpTo(weight, i) < Word
    <3>1. Len(Group) \in 0..Len(Group) /\ \A i \in 0..Len(Group) : i <= Len(Group)
      BY GroupFacts
    <3>2. \A i \in 0..Len(Group) : UpTo(weight, i) \in Nat /\ UpTo(weight, i) <= UpTo(weight, Len(Group))
      BY <2>1, <3>1, UpToFacts
    <3> QED BY <2>1, <3>2, GroupFacts
  <2>4. \A i \in 0..Len(Group) : Covers(weight, i, k) <=> UpTo(weight, i) > k
    <3>1. \A u \in Nat : u < Word => u % Word = u
      BY GroupFacts
    <3> QED BY <2>3, <3>1 DEF Covers, Unsigned
  <2> DEFINE I == {i \in 1..Len(Group) : Covers(weight, i, k)}
  <2>5. m = Group[Min(I)]
    BY <1>3, <2>1, <2>2, GroupFacts DEF NextByWeight
  <2>6. I \in SUBSET Nat /\ Len(Group) \in I
    BY <2>1, <2>4, GroupFacts
  <2>7. Min(I) \in I /\ \A j \in I : Min(I) <= j
    <3> HIDE DEF I
    <3>1. \E i \in I : \A j \in I : i <= j
      BY <2>6, LeastNat
    <3> QED BY <3>1 DEF Min
  <2>8. PICK i \in 1..Len(Group) : i = Min(I)
    BY <2>7
  <2>9. UpTo(weight, i) > k /\ UpTo(weight, i - 1) <= k
    <3>1. Covers(weight, i, k) /\ i \in 0..Len(Group) /\ i - 1 \in 0..Len(Group)
      BY <2>7, <2>8, GroupFacts
    <3>2. CASE i = 1
      BY <2>1, <2>4, <3>1, <3>2, UpToFacts
    <3>3. CASE i # 1
      <4>1. i - 1 \in 1..Len(Group) /\ ~(i <= i - 1)
        BY <3>3, GroupFacts
      <4>2. i - 1 \notin I
        BY <2>7, <2>8, <4>1
      <4>3. ~(UpTo(weight, i - 1) > k)
        BY <2>4, <3>1, <4>1, <4>2
      <4> QED BY <2>3, <2>4, <3>1, <4>3
    <3> QED BY <3>2, <3>3
  <2>10. Place(m) = i
    BY <2>5, <2>8, GroupFacts
  <2>11. Offset(m) <= k /\ k < Offset(m) + Turns(m)
    BY <2>1, <2>9, <2>10, Stretches
  <2> QED BY <1>1, <2>2, <2>11 DEF Owns
<1> QED BY <1>2, <1>3

(* How often an upstream was drawn is a number. *)
LEMMA DrawnType ==
    ASSUME TypeOK, NoDebt, NEW i \in Nat, NEW n \in Models
    PROVE  Drawn(n, i) \in Int
<1>1. i \in Int /\ Round \in Nat \ {0} /\ Offset(n) \in Nat /\ Turns(n) \in Nat
  BY Stretches
<1>2. i \div Round \in Int /\ i % Round \in 0..(Round - 1)
  BY <1>1, DivMod
<1>3. (i \div Round) * Turns(n) \in Int /\ Within((i % Round) - Offset(n), Turns(n)) \in Int
  BY <1>1, <1>2 DEF Within
<1> QED BY <1>3 DEF Drawn

(* One more number is one more turn for its owner, and for no other. *)
LEMMA OneMoreDrawn ==
    ASSUME TypeOK, NoDebt, NEW m \in Models, NEW i \in Nat, NEW n \in Models, Owns(m, i % Round)
    PROVE  /\ Drawn(n, i) \in Int /\ Drawn(n, i + 1) \in Int
           /\ Drawn(n, i + 1) = Drawn(n, i) + (IF n = m THEN 1 ELSE 0)
<1>1. PICK R \in Nat \ {0} : R = Round
  BY Stretches
<1>2. PICK a \in Nat, t \in Nat : a = Offset(n) /\ t = Turns(n) /\ a + t <= R
  BY <1>1, Stretches
<1>3. PICK q \in Nat, r \in 0..(R - 1) : q = i \div R /\ r = i % R
  <2>1. i \in Int /\ i >= 0
    OBVIOUS
  <2>2. i \div R \in Nat /\ i % R \in 0..(R - 1)
    BY <2>1, DivMod
  <2> QED BY <2>2
<1>4. PICK p \in Nat, s \in 0..(R - 1) : p = (i + 1) \div R /\ s = (i + 1) % R
  <2>1. i + 1 \in Int /\ i + 1 >= 0
    OBVIOUS
  <2>2. (i + 1) \div R \in Nat /\ (i + 1) % R \in 0..(R - 1)
    BY <2>1, DivMod
  <2> QED BY <2>2
<1>5. IF r + 1 = R THEN p = q + 1 /\ s = 0 ELSE p = q /\ s = r + 1
  BY <1>3, <1>4, NextQuotient
<1>6. n = m <=> a <= r /\ r < a + t
  <2>1. Owns(n, r) <=> a <= r /\ r < a + t
    BY <1>2 DEF Owns
  <2>2. Owns(m, r) /\ r \in Nat
    BY <1>1, <1>3
  <2> QED BY <2>1, <2>2, Stretches
<1>7. Drawn(n, i) = q * t + Within(r - a, t) /\ Drawn(n, i + 1) = p * t + Within(s - a, t)
  BY <1>1, <1>2, <1>3, <1>4 DEF Drawn
<1>8. PICK qt \in Int : qt = q * t
  OBVIOUS
<1>9. (q + 1) * t = qt + t
  BY <1>8
<1>10. p * t = IF r + 1 = R THEN qt + t ELSE qt
  BY <1>5, <1>8, <1>9
<1>11. CASE r + 1 = R
  <2>1. p * t = qt + t /\ s = 0
    BY <1>5, <1>10, <1>11
  <2>2. Within(s - a, t) = 0
    BY <1>2, <2>1 DEF Within
  <2>3. Within(r - a, t) = IF n = m THEN t - 1 ELSE t
    BY <1>2, <1>6, <1>11 DEF Within
  <2> QED BY <1>7, <1>8, <2>1, <2>2, <2>3
<1>12. CASE r + 1 # R
  <2>1. p * t = qt /\ s = r + 1
    BY <1>5, <1>10, <1>12
  <2>2. Within(r - a, t) \in Int
    BY DEF Within
  <2>3. Within(s - a, t) = Within(r - a, t) + IF n = m THEN 1 ELSE 0
    BY <1>6, <2>1 DEF Within
  <2> QED BY <1>7, <1>8, <2>1, <2>2, <2>3
<1> QED BY <1>11, <1>12

-----------------------------------------------------------------------------
(* The invariant.                                                          *)

LEMMA IInvInit == Init => IInv
<1> SUFFICES ASSUME Init PROVE IInv
  OBVIOUS
<1>1. TypeOK
  BY GroupFacts DEF Init, BalancerInit, TypeOK, Unseen
<1>2. TurnsTaken
  <2>1. \A m \in Models : turns[m] <= index + 1
    BY DEF Init, BalancerInit
  <2>2. SumFunction(turns) = 0
    <3>1. DOMAIN turns = Models /\ \A m \in Models : turns[m] = 0
      BY DEF Init
    <3> QED BY <3>1, GroupFacts, SumZero DEF SumFunction
  <2>3. ASSUME NoDebt, NEW m \in Models
        PROVE  turns[m] = Drawn(m, index + 1) - Drawn(m, 1)
    <3>1. Drawn(m, 1) \in Int
      BY <1>1, <2>3, DrawnType
    <3>2. index + 1 = 1 /\ turns[m] = 0
      BY DEF Init, BalancerInit
    <3> QED BY <3>1, <3>2
  <2>4. 1 \in {0, 1} /\ SumFunction(turns) = index + 1 - 1
    BY <2>2 DEF Init, BalancerInit
  <2> QED BY <2>1, <2>3, <2>4 DEF TurnsTaken, NoDebt
<1>3. HeardLast /\ LatencyWithinObserved
  BY DEF Init, BalancerInit, HeardLast, Healthy, Unseen, LatencyWithinObserved
<1> QED BY <1>1, <1>2, <1>3 DEF IInv

(* Nothing that a round depends on changes. *)
LEMMA RoundsStay ==
    ASSUME strategy' = strategy, weight' = weight
    PROVE  /\ Round' = Round
           /\ \A m \in Models : Turns(m)' = Turns(m) /\ Offset(m)' = Offset(m)
           /\ NoDebt' = NoDebt
BY DEF Round, Turns, Offset, NoDebt

(* A handler chooses by the counter, by the latencies or by the client. *)
LEMMA SelectCases ==
    ASSUME TypeOK, NEW h \in Handlers, NEW m \in Models, Select(h, m)
    PROVE  \/ index' = index /\ turns' = turns
           \/ /\ index' = (index + 1) % Word
              /\ turns' = [n \in Models |-> (IF index' = 0 THEN 0 ELSE turns[n])
                                                + (IF n = m THEN 1 ELSE 0)]
              /\ NoDebt => Owns(m, index' % Round)
<1>1. CASE index' = index
  BY <1>1 DEF Select
<1>2. CASE index' # index
  <2>1. turns' = [n \in Models |-> (IF index' = 0 THEN 0 ELSE turns[n]) + (IF n = m THEN 1 ELSE 0)]
    BY <1>2 DEF Select
  <2>2. \/ strategy # "weighted" /\ NextInTurn(m)
        \/ strategy = "weighted" /\ NextByWeight(weight, m)
    BY <1>2 DEF Select, NextModel, NextByLatency, NextForClient, TypeOK, Strategies
  <2>3. index' = (index + 1) % Word
    BY <2>2 DEF NextInTurn, NextByWeight
  <2> QED BY <2>1, <2>2, <2>3, OwnerIsChosen
<1> QED BY <1>1, <1>2

(* Counting one more turn counts one more in the sum. *)
LEMMA OneMoreTurn ==
    ASSUME NEW f \in [Models -> Nat], NEW g \in [Models -> Nat], NEW m \in Models,
           g = [n \in Models |-> f[n] + (IF n = m THEN 1 ELSE 0)]
    PROVE  SumFunction(g) = SumFunction(f) + 1
<1>1. IsFiniteSet(Models) /\ IsFiniteSet(Models \ {m}) /\ DOMAIN f = Models /\ DOMAIN g = Models
  BY GroupFacts, FS_Subset
<1>2. SumFunctionOnSet(f, Models) = f[m] + SumFunctionOnSet(f, Models \ {m})
  BY <1>1, SumRemove
<1>3. SumFunctionOnSet(g, Models) = g[m] + SumFunctionOnSet(g, Models \ {m})
  BY <1>1, SumRemove
<1>4. SumFunctionOnSet(g, Models \ {m}) = SumFunctionOnSet(f, Models \ {m})
  <2>1. \A n \in Models \ {m} : g[n] = f[n]
    OBVIOUS
  <2> QED BY <1>1, <2>1, SumSame
<1>5. SumFunctionOnSet(f, Models \ {m}) \in Nat
  <2>1. \A n \in Models \ {m} : f[n] \in Nat
    OBVIOUS
  <2> QED BY <1>1, <2>1, SumType
<1>6. g[m] = f[m] + 1 /\ f[m] \in Nat
  OBVIOUS
<1> QED BY <1>1, <1>2, <1>3, <1>4, <1>5, <1>6 DEF SumFunction

(* The turns of a step in which the counter moves. *)
LEMMA TurnTaken ==
    ASSUME TypeOK, TurnsTaken, NEW m \in Models, strategy' = strategy, weight' = weight,
           index' = (index + 1) % Word,
           turns' = [n \in Models |-> (IF index' = 0 THEN 0 ELSE turns[n])
                                          + (IF n = m THEN 1 ELSE 0)],
           NoDebt => Owns(m, index' % Round)
    PROVE  TurnsTaken' /\ turns' \in [Models -> 0..Word]
<1>1. PICK first \in {0, 1} :
          /\ SumFunction(turns) = index + 1 - first
          /\ NoDebt => \A n \in Models : turns[n] = Drawn(n, index + 1) - Drawn(n, first)
  BY DEF TurnsTaken, NoDebt
<1>2. PICK i \in 0..(Word - 1) : i = index'
  <2>1. index + 1 \in Int /\ Word \in Nat \ {0}
    BY GroupFacts DEF TypeOK
  <2>2. (index + 1) % Word \in 0..(Word - 1)
    BY <2>1, DivMod
  <2> QED BY <2>2
<1>3. turns \in [Models -> Nat] /\ index \in Nat /\ Word \in Nat \ {0} /\ index < Word
  BY GroupFacts DEF TypeOK
<1>4. i = IF index + 1 = Word THEN 0 ELSE index + 1
  <2>1. index + 1 < Word => (index + 1) % Word = index + 1
    BY <1>3
  <2>2. Word % Word = 0
    BY <1>3
  <2> QED BY <1>2, <1>3, <2>1, <2>2
<1> DEFINE base == IF i = 0 THEN 0 ELSE first
           before == [n \in Models |-> IF i = 0 THEN 0 ELSE turns[n]]
<1>5. before \in [Models -> Nat] /\ SumFunction(before) = i - base
  <2>1. CASE i = 0
    <3>1. DOMAIN before = Models /\ \A n \in Models : before[n] = 0
      BY <2>1
    <3>2. SumFunction(before) = 0
      <4> HIDE DEF before
      <4> QED BY <3>1, GroupFacts, SumZero DEF SumFunction
    <3> QED BY <2>1, <3>2
  <2>2. CASE i # 0
    <3>1. before = turns
      BY <1>3, <2>2
    <3> QED BY <1>1, <1>3, <1>4, <2>2, <3>1
  <2> QED BY <2>1, <2>2
<1>6. turns' = [n \in Models |-> before[n] + (IF n = m THEN 1 ELSE 0)] /\ turns' \in [Models -> Nat]
  BY <1>2, <1>3
<1>7. SumFunction(turns') = i - base + 1
  <2> HIDE DEF before
  <2>1. PICK g \in [Models -> Nat] : g = turns'
    BY <1>6
  <2>2. SumFunction(g) = SumFunction(before) + 1
    BY <1>5, <1>6, <2>1, OneMoreTurn
  <2>3. i - base \in Int
    BY <1>1
  <2> QED BY <1>5, <2>1, <2>2, <2>3
<1>8. \A n \in Models : before[n] <= i
  BY <1>3, <1>4 DEF TurnsTaken
<1>9. \A n \in Models : turns'[n] <= i + 1 /\ turns'[n] \in Nat
  BY <1>5, <1>6, <1>8
<1>10. turns' \in [Models -> 0..Word]
  BY <1>3, <1>4, <1>6, <1>9
<1>11. ASSUME NoDebt, NEW n \in Models
       PROVE  turns'[n] = Drawn(n, i + 1) - Drawn(n, base)
  <2>1. /\ Drawn(n, i + 1) = Drawn(n, i) + (IF n = m THEN 1 ELSE 0)
        /\ Drawn(n, i) \in Int /\ Drawn(n, i + 1) \in Int
    <3>1. Owns(m, i % Round)
      BY <1>2, <1>11
    <3> QED BY <1>11, <3>1, OneMoreDrawn
  <2>2. before[n] = Drawn(n, i) - Drawn(n, base)
    <3>1. CASE i = 0
      BY <2>1, <3>1
    <3>2. CASE i # 0
      BY <1>1, <1>3, <1>4, <1>11, <3>2
    <3> QED BY <3>1, <3>2
  <2>3. Drawn(n, base) \in Int
    <3>1. base \in Nat
      BY <1>1
    <3> QED BY <1>11, <3>1, DrawnType
  <2>4. turns'[n] = before[n] + (IF n = m THEN 1 ELSE 0)
    BY <1>6
  <2> HIDE DEF base, before
  <2> QED BY <2>1, <2>2, <2>3, <2>4
<1>12. \A n \in Models : /\ Drawn(n, index + 1)' = Drawn(n, i + 1)
                         /\ \A b \in {0, 1} : Drawn(n, b)' = Drawn(n, b)
  BY <1>2, RoundsStay DEF Drawn
<1>13. base \in {0, 1}
  BY <1>1
<1> HIDE DEF base, before
<1>14. SumFunction(turns') = index' + 1 - base
  BY <1>2, <1>7, <1>13
<1>15. NoDebt' => \A n \in Models : turns'[n] = Drawn(n, index + 1)' - Drawn(n, base)'
  BY <1>11, <1>12, <1>13, RoundsStay
<1>16. \A n \in Models : turns'[n] <= index' + 1
  BY <1>2, <1>9
<1> QED BY <1>10, <1>13, <1>14, <1>15, <1>16 DEF TurnsTaken, NoDebt

(* A report of the upstream m, by a latency that counts as c. *)
Reported(m, c, success) ==
    /\ stats' = [stats EXCEPT ![m] =
           [seen |-> TRUE, healthy |-> success,
            latency |-> IF stats[m].seen THEN (stats[m].latency * 7 + c) \div 8 ELSE c]]
    /\ last' = [last EXCEPT ![m] = IF success THEN "ok" ELSE "failed"]
    /\ all' = [all EXCEPT ![m] = all[m] \cup {c}]

(* What a report changes. *)
LEMMA ReportEffect ==
    ASSUME TypeOK, NEW h \in Handlers, NEW latency \in Latencies, NEW success \in BOOLEAN,
           Report(h, latency, success)
    PROVE  \/ UNCHANGED <<stats, last, all>>
           \/ \E m \in Models, c \in Nat \ {0} : Reported(m, c, success)
<1>1. CASE strategy # "latency"
  BY <1>1 DEF Report
<1>2. CASE strategy = "latency"
  <2>1. PICK m \in Models : m = tried[h]
    BY <1>2 DEF Report, TypeOK
  <2>2. PICK c \in Nat \ {0} : c = IF latency = 0 THEN 1 ELSE latency
    BY LatencyAssumption
  <2>3. /\ last' = [last EXCEPT ![m] = IF success THEN "ok" ELSE "failed"]
        /\ all' = [all EXCEPT ![m] = all[m] \cup {c}]
    BY <1>2, <2>1, <2>2 DEF Report, TypeOK
  <2>4. stats' = [stats EXCEPT ![m] =
                        [seen |-> TRUE, healthy |-> success,
                         latency |-> IF stats[m].seen THEN (stats[m].latency * 7 + c) \div 8 ELSE c]]
    BY <1>2, <2>1, <2>2 DEF Report, ObserveLatency, Observed, Counted, TypeOK
  <2> QED BY <2>3, <2>4 DEF Reported
<1> QED BY <1>1, <1>2

(* Smoothing stays between what was smoothed. *)
LEMMA SmoothingStays ==
    ASSUME NEW old \in Nat, NEW c \in Nat \ {0}, NEW b \in Nat
    PROVE  /\ (old * 7 + c) \div 8 \in Nat
           /\ b <= old /\ b <= c => b <= (old * 7 + c) \div 8
           /\ old <= b /\ c <= b => (old * 7 + c) \div 8 <= b
OBVIOUS

(* What is observed of an answer keeps the statistics to what was heard. *)
LEMMA ReportKeeps ==
    ASSUME TypeOK, HeardLast, LatencyWithinObserved,
           NEW h \in Handlers, NEW latency \in Latencies, NEW success \in BOOLEAN,
           Report(h, latency, success)
    PROVE  /\ stats' \in [Models -> [seen : BOOLEAN, healthy : BOOLEAN, latency : Nat]]
           /\ last' \in [Models -> {"never", "ok", "failed"}]
           /\ all' \in [Models -> SUBSET (Nat \ {0})]
           /\ HeardLast' /\ LatencyWithinObserved'
<1>1. CASE UNCHANGED <<stats, last, all>>
  BY <1>1 DEF TypeOK, HeardLast, Healthy, LatencyWithinObserved
<1>2. CASE ~UNCHANGED <<stats, last, all>>
  <2>0. PICK m \in Models, c \in Nat \ {0} : Reported(m, c, success)
    BY <1>2, ReportEffect
  <2>1. /\ stats' = [stats EXCEPT ![m] =
               [seen |-> TRUE, healthy |-> success,
                latency |-> IF stats[m].seen THEN (stats[m].latency * 7 + c) \div 8 ELSE c]]
        /\ last' = [last EXCEPT ![m] = IF success THEN "ok" ELSE "failed"]
        /\ all' = [all EXCEPT ![m] = all[m] \cup {c}]
    BY <2>0 DEF Reported
  <2>2. PICK s \in [seen : BOOLEAN, healthy : BOOLEAN, latency : Nat] : s = stats[m]
    BY DEF TypeOK
  <2>3. PICK l \in Nat : l = IF s.seen THEN (s.latency * 7 + c) \div 8 ELSE c
    BY SmoothingStays
  <2> DEFINE new == [seen |-> TRUE, healthy |-> success, latency |-> l]
  <2>4. /\ stats' = [stats EXCEPT ![m] = new]
        /\ new \in [seen : BOOLEAN, healthy : BOOLEAN, latency : Nat]
    BY <2>1, <2>2, <2>3
  <2>5. stats' \in [Models -> [seen : BOOLEAN, healthy : BOOLEAN, latency : Nat]]
    <3> HIDE DEF new
    <3> QED BY <2>4 DEF TypeOK
  <2>6. last' \in [Models -> {"never", "ok", "failed"}]
    BY <2>1 DEF TypeOK
  <2>7. all[m] \cup {c} \in SUBSET (Nat \ {0}) /\ all' \in [Models -> SUBSET (Nat \ {0})]
    <3>1. all[m] \cup {c} \in SUBSET (Nat \ {0})
      BY DEF TypeOK
    <3> QED BY <2>1, <3>1 DEF TypeOK
  <2>8. ASSUME NEW n \in Models
        PROVE  IF n = m THEN stats'[n] = new /\ last'[n] = (IF success THEN "ok" ELSE "failed")
                             /\ all'[n] = all[m] \cup {c}
               ELSE stats'[n] = stats[n] /\ last'[n] = last[n] /\ all'[n] = all[n]
    <3> HIDE DEF new
    <3> QED BY <2>1, <2>4 DEF TypeOK
  <2>9. HeardLast'
    <3>1. ASSUME NEW n \in Models
          PROVE  last'[n] = "ok" <=> stats'[n].seen /\ stats'[n].healthy
      <4>1. CASE n = m
        BY <2>8, <4>1
      <4>2. CASE n # m
        BY <2>8, <4>2 DEF HeardLast, Healthy
      <4> QED BY <4>1, <4>2
    <3> QED BY <3>1 DEF HeardLast, Healthy
  <2>10. LatencyWithinObserved'
    <3>1. ASSUME NEW n \in Models, stats'[n].seen
          PROVE  /\ \E k \in all'[n] : k <= stats'[n].latency
                 /\ \E k \in all'[n] : stats'[n].latency <= k
      <4>1. CASE n # m
        BY <2>8, <3>1, <4>1 DEF LatencyWithinObserved
      <4>2. CASE n = m /\ ~s.seen
        BY <2>3, <2>8, <4>2
      <4>3. CASE n = m /\ s.seen
        <5>1. PICK lo \in all[m], hi \in all[m] : lo <= s.latency /\ s.latency <= hi
          BY <2>2, <4>3 DEF LatencyWithinObserved
        <5>2. lo \in Nat /\ hi \in Nat /\ s.latency \in Nat
          BY DEF TypeOK
        <5>3. PICK a \in {lo, c} : a <= s.latency /\ a <= c
          BY <5>1, <5>2
        <5>4. PICK b \in {hi, c} : s.latency <= b /\ c <= b
          BY <5>1, <5>2
        <5>5. a \in Nat /\ b \in Nat /\ a \in all[m] \cup {c} /\ b \in all[m] \cup {c}
          BY <5>2
        <5>6. l = (s.latency * 7 + c) \div 8
          BY <2>3, <4>3
        <5>7. a <= l /\ l <= b
          BY <5>2, <5>3, <5>4, <5>5, <5>6, SmoothingStays
        <5>8. stats'[n].latency = l /\ all'[n] = all[m] \cup {c}
          BY <2>8, <4>3
        <5> QED BY <5>5, <5>7, <5>8
      <4> QED BY <4>1, <4>2, <4>3
    <3> QED BY <3>1 DEF LatencyWithinObserved
  <2> QED BY <2>5, <2>6, <2>7, <2>9, <2>10
<1> QED BY <1>1, <1>2

(* Every step keeps the invariant. *)
LEMMA IInvStep == IInv /\ [Next]_vars => IInv'
<1> SUFFICES ASSUME IInv, [Next]_vars PROVE IInv'
  OBVIOUS
<1> USE DEF IInv
<1>1. ASSUME NEW h \in Handlers, NEW m \in Models, Select(h, m) PROVE IInv'
  <2>1. UNCHANGED <<stats, strategy, weight, last, all>> /\ tried' = [tried EXCEPT ![h] = m]
    BY <1>1 DEF Select
  <2>2. TurnsTaken' /\ turns' \in [Models -> 0..Word]
    <3>1. CASE index' = index /\ turns' = turns
      <4>1. /\ \A n \in Models : turns'[n] <= index' + 1
            /\ turns' \in [Models -> 0..Word]
        BY <3>1 DEF TurnsTaken, TypeOK
      <4>2. \A n \in Models, i \in Int : Drawn(n, i)' = Drawn(n, i)
        BY <2>1, RoundsStay DEF Drawn
      <4>3. \A n \in Models : Drawn(n, index + 1)' = Drawn(n, index + 1)
        BY <2>1, <3>1, RoundsStay DEF Drawn
      <4>4. PICK first \in {0, 1} :
               /\ SumFunction(turns) = index + 1 - first
               /\ NoDebt => \A n \in Models : turns[n] = Drawn(n, index + 1) - Drawn(n, first)
        BY DEF TurnsTaken, NoDebt
      <4>5. first \in Int
        OBVIOUS
      <4>6. NoDebt' => \A n \in Models : turns'[n] = Drawn(n, index + 1)' - Drawn(n, first)'
        BY <2>1, <3>1, <4>2, <4>3, <4>4, <4>5, RoundsStay
      <4> QED BY <3>1, <4>1, <4>4, <4>6 DEF TurnsTaken, NoDebt
    <3>2. CASE /\ index' = (index + 1) % Word
               /\ turns' = [n \in Models |-> (IF index' = 0 THEN 0 ELSE turns[n])
                                                + (IF n = m THEN 1 ELSE 0)]
               /\ NoDebt => Owns(m, index' % Round)
      BY <2>1, <3>2, TurnTaken
    <3> QED BY <1>1, <3>1, <3>2, SelectCases
  <2>3. index' \in 0..(Word - 1)
    <3>1. index + 1 \in Int /\ Word \in Nat \ {0}
      BY GroupFacts DEF TypeOK
    <3>2. (index + 1) % Word \in 0..(Word - 1)
      BY <3>1, DivMod
    <3> QED BY <1>1, <3>2, SelectCases DEF TypeOK
  <2>4. TypeOK'
    BY <2>1, <2>2, <2>3 DEF TypeOK
  <2>5. HeardLast' /\ LatencyWithinObserved'
    BY <2>1 DEF HeardLast, Healthy, LatencyWithinObserved
  <2> QED BY <2>2, <2>4, <2>5
<1>2. ASSUME UNCHANGED <<index, strategy, weight, turns>>
      PROVE  TurnsTaken'
  <2>1. \A n \in Models, i \in Int : Drawn(n, i)' = Drawn(n, i)
    BY <1>2, RoundsStay DEF Drawn
  <2>2. \A n \in Models : Drawn(n, index + 1)' = Drawn(n, index + 1)
    BY <1>2, RoundsStay DEF Drawn
  <2>3. PICK first \in {0, 1} :
           /\ SumFunction(turns) = index + 1 - first
           /\ NoDebt => \A n \in Models : turns[n] = Drawn(n, index + 1) - Drawn(n, first)
    BY DEF TurnsTaken, NoDebt
  <2>4. first \in Int
    OBVIOUS
  <2>5. NoDebt' => \A n \in Models : turns'[n] = Drawn(n, index + 1)' - Drawn(n, first)'
    BY <1>2, <2>1, <2>2, <2>3, <2>4, RoundsStay
  <2>6. \A n \in Models : turns'[n] <= index' + 1
    BY <1>2 DEF TurnsTaken
  <2> QED BY <1>2, <2>3, <2>5, <2>6 DEF TurnsTaken, NoDebt
<1>3. ASSUME NEW h \in Handlers, NEW l \in Latencies, NEW s \in BOOLEAN, Report(h, l, s),
             tried' \in [Handlers -> Models \cup {None}]
      PROVE  IInv'
  <2>1. UNCHANGED <<index, strategy, weight, turns>>
    BY <1>3 DEF Report
  <2>2. TypeOK'
    BY <1>3, <2>1, ReportKeeps DEF TypeOK
  <2> QED BY <1>2, <1>3, <2>1, <2>2, ReportKeeps
<1>4. ASSUME NEW h \in Handlers, Return(h) PROVE IInv'
  <2>1. tried' \in [Handlers -> Models \cup {None}]
    BY <1>4 DEF Return, TypeOK
  <2> QED BY <1>3, <1>4, <2>1 DEF Return
<1>5. ASSUME NEW h \in Handlers, ReturnUnreported(h) PROVE IInv'
  <2>1. UNCHANGED <<index, stats, strategy, weight, turns, last, all>>
    BY <1>5 DEF ReturnUnreported
  <2>2. TypeOK'
    BY <1>5, <2>1 DEF ReturnUnreported, TypeOK
  <2>3. HeardLast' /\ LatencyWithinObserved'
    BY <2>1 DEF HeardLast, Healthy, LatencyWithinObserved
  <2> QED BY <1>2, <2>1, <2>2, <2>3
<1>6. ASSUME NEW h \in Handlers, Retry(h) PROVE IInv'
  <2>1. tried' \in [Handlers -> Models \cup {None}]
    BY <1>6 DEF Retry, TypeOK
  <2> QED BY <1>3, <1>6, <2>1 DEF Retry
<1>7. ASSUME UNCHANGED vars PROVE IInv'
  <2>1. TypeOK'
    BY <1>7 DEF vars, TypeOK
  <2>2. HeardLast' /\ LatencyWithinObserved'
    BY <1>7 DEF vars, HeardLast, Healthy, LatencyWithinObserved
  <2> QED BY <1>2, <1>7, <2>1, <2>2 DEF vars
<1> QED BY <1>1, <1>4, <1>5, <1>6, <1>7 DEF Next

-----------------------------------------------------------------------------
(* The theorems.                                                           *)

(* The counter, the turns and what was heard of each upstream agree in every reachable state. *)
THEOREM Inductive == Spec => []IInv
BY IInvInit, IInvStep, PTL DEF Spec

(* The smoothed latency of an upstream stays between the least and the greatest that was *)
(* observed of it, however the reports of the handlers are ordered.                       *)
THEOREM LatencyBetweenObserved == Spec => []LatencyWithinObserved
<1>1. IInv => LatencyWithinObserved
  BY DEF IInv
<1> QED BY <1>1, Inductive, PTL

(* After each round every upstream was chosen as often as is due to it. *)
THEOREM RoundsAreFair == Spec => []FairRounds
<1>1. ASSUME IInv PROVE FairRounds
  <2>1. SUFFICES ASSUME NoDebt, SumFunction(turns) % Round = 0, NEW m \in Models
                 PROVE  turns[m] = (SumFunction(turns) \div Round) * Turns(m)
    BY DEF FairRounds, NoDebt
  <2>2. TypeOK /\ TurnsTaken
    BY <1>1 DEF IInv
  <2>3. PICK first \in {0, 1} :
           /\ SumFunction(turns) = index + 1 - first
           /\ turns[m] = Drawn(m, index + 1) - Drawn(m, first)
    BY <2>1, <2>2 DEF TurnsTaken, NoDebt
  <2>4. PICK R \in Nat \ {0} : R = Round
    BY <2>1, <2>2, Stretches
  <2>5. PICK t \in Nat, a \in Nat : t = Turns(m) /\ a = Offset(m)
    BY <2>1, <2>2, Stretches
  <2>6. PICK c \in Int : c = SumFunction(turns) /\ index + 1 = first + c
    BY <2>2, <2>3 DEF TypeOK
  <2>7. PICK q \in Int : q = c \div R
    BY DivMod
  <2>8. c % R = 0 /\ first \in Nat
    BY <2>1, <2>4, <2>6
  <2>9. (index + 1) \div R = (first \div R) + q /\ (index + 1) % R = first % R
    <3>1. (first + c) \div R = (first \div R) + (c \div R) /\ (first + c) % R = first % R
      BY <2>8, WholeRounds
    <3> QED BY <2>6, <2>7, <3>1
  <2>10. PICK p \in Int, r \in Int : p = first \div R /\ r = first % R
    <3>1. first \in Int
      OBVIOUS
    <3>2. first \div R \in Int /\ first % R \in Int
      BY <3>1, DivMod
    <3> QED BY <3>2
  <2>11. Drawn(m, first) = p * t + Within(r - a, t)
    BY <2>4, <2>5, <2>10 DEF Drawn
  <2>12. Drawn(m, index + 1) = (p + q) * t + Within(r - a, t)
    BY <2>4, <2>5, <2>9, <2>10 DEF Drawn
  <2>13. PICK w \in Int : w = Within(r - a, t)
    BY DEF Within
  <2>14. (p + q) * t = p * t + q * t /\ p * t \in Int /\ q * t \in Int
    OBVIOUS
  <2>15. turns[m] = q * t
    BY <2>3, <2>11, <2>12, <2>13, <2>14
  <2> QED BY <2>4, <2>5, <2>6, <2>7, <2>15
<1> QED BY <1>1, Inductive, PTL

(* No handler chooses first an upstream whose last report was a failure, or of which nothing was *)
(* heard, while the last report of another was a success.                                        *)
THEOREM FirstChoicesWork == Spec => FirstChoiceWorks
<1>1. ASSUME IInv, [Next]_vars, NEW h \in Handlers, NEW m \in Models,
             strategy = "latency", tried[h] = None, tried'[h] = m,
             NEW n \in Models, last[n] = "ok"
      PROVE  last[m] = "ok"
  <2>1. m # None /\ HeardLast /\ tried \in [Handlers -> Models \cup {None}]
    BY <1>1, NoneAssumption DEF IInv, TypeOK
  <2>2. ASSUME NEW g \in Handlers, NEW k \in Models, Select(g, k)
        PROVE  last[m] = "ok"
    <3>1. tried' = [tried EXCEPT ![g] = k]
      BY <2>2 DEF Select
    <3>2. g = h /\ k = m
      BY <1>1, <2>1, <3>1
    <3>3. NextByLatency(m)
      BY <1>1, <2>2, <3>2 DEF Select, NextModel
    <3>4. n \in Healthy
      BY <1>1, <2>1 DEF HeardLast
    <3>5. m \in Healthy
      BY <3>3, <3>4 DEF NextByLatency, Fastest
    <3> QED BY <2>1, <3>5 DEF HeardLast
  <2>3. ASSUME NEW g \in Handlers, tried[g] # None, NEW k \in Models \cup {None},
               tried' = [tried EXCEPT ![g] = k]
        PROVE  FALSE
    BY <1>1, <2>1, <2>3
  <2>4. ASSUME NEW g \in Handlers, Return(g) \/ ReturnUnreported(g) \/ Retry(g)
        PROVE  FALSE
    BY <2>3, <2>4 DEF Return, ReturnUnreported, Retry, Report
  <2>5. ~UNCHANGED vars
    BY <1>1, <2>1 DEF vars
  <2> QED BY <1>1, <2>2, <2>4, <2>5 DEF Next
<1>2. IInv /\ [Next]_vars =>
         [\A h \in Handlers, m \in Models :
             /\ strategy = "latency"
             /\ tried[h] = None
             /\ tried'[h] = m
             /\ \E n \in Models : last[n] = "ok"
             => last[m] = "ok"]_vars
  BY <1>1
<1> QED BY <1>2, Inductive, PTL DEF Spec, FirstChoiceWorks
=============================================================================
