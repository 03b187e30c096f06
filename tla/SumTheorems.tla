----------------------------- MODULE SumTheorems -----------------------------
(***************************************************************************)
(* What SumFunctionOnSet of the module Functions yields for a finite set   *)
(* of indices: it is defined by a recursion that takes out a chosen        *)
(* element, and here it is shown to be the sum.  Induction is by a minimal *)
(* counterexample, which needs no operator for a parameter.                *)
(***************************************************************************)
EXTENDS Integers, FiniteSets, Functions, FiniteSetTheorems, WellFoundedInduction, TLAPS

(* Every set of naturals that is not empty has a least element. *)
LEMMA LeastNat ==
    ASSUME NEW T \in SUBSET Nat, T # {}
    PROVE  \E n \in T : \A m \in T : n <= m
<1> DEFINE R == {p \in Nat \X Nat : p[1] < p[2]}
<1>1. IsWellFoundedOn(R, Nat)
  BY NatLessThanWellFounded, Zenon DEF OpToRel
<1>2. \A x, y \in Nat : y < x => <<y, x>> \in R
  OBVIOUS
<1> HIDE DEF R
<1>3. PICK x \in T : \A y \in T : ~(<<y, x>> \in R)
  BY <1>1, WFMin
<1>4. \A y \in T : ~(y < x)
  BY <1>2, <1>3
<1>5. \A y \in T : x <= y
  BY <1>4
<1> QED BY <1>5

(* A set of subsets of a finite set that is not empty has one of which no  *)
(* element can be taken out: what induction over finite sets rests on.     *)
LEMMA MinimalSet ==
    ASSUME NEW S, IsFiniteSet(S), NEW C \in SUBSET (SUBSET S), C # {}
    PROVE  \E s \in C : \A x \in s : s \ {x} \notin C
<1> DEFINE T == {Cardinality(s) : s \in C}
<1>1. \A s \in C : IsFiniteSet(s)
  BY FS_Subset
<1>2. T \in SUBSET Nat /\ T # {}
  BY <1>1, FS_CardinalityType
<1>3. PICK n \in T : \A m \in T : n <= m
  <2> HIDE DEF T
  <2> QED BY <1>2, LeastNat
<1>4. PICK s \in C : \A t \in C : Cardinality(s) <= Cardinality(t)
  BY <1>3
<1>5. \A x \in s : Cardinality(s) \in Nat /\ Cardinality(s \ {x}) = Cardinality(s) - 1
  BY <1>1, FS_RemoveElement, FS_CardinalityType
<1>6. \A x \in s : s \ {x} \notin C
  BY <1>4, <1>5
<1> QED BY <1>6

(* The recursion of MapThenFoldSet, for a sum: `it' is a function on C     *)
(* that obeys it.                                                          *)
OneOf(s) == CHOOSE x \in s : TRUE
Summed(f, it, s) == IF s = {} THEN 0 ELSE f[OneOf(s)] + it[s \ {OneOf(s)}]
SumIs(f, C, it) == it = [s \in C |-> Summed(f, it, s)]

(* Taking out the chosen element leaves a smaller set. *)
LEMMA SmallerSet ==
    ASSUME NEW s, IsFiniteSet(s), s # {}
    PROVE  /\ OneOf(s) \in s /\ IsFiniteSet(s \ {OneOf(s)})
           /\ Cardinality(s) \in Nat \ {0}
           /\ Cardinality(s \ {OneOf(s)}) = Cardinality(s) - 1
<1>1. OneOf(s) \in s
  BY DEF OneOf
<1> QED BY <1>1, FS_RemoveElement, FS_CardinalityType, FS_EmptySet

(* What the recursion defines exists: first for the subsets up to a size. *)
LEMMA SumExists ==
    ASSUME NEW f, NEW S, IsFiniteSet(S)
    PROVE  \E it : SumIs(f, SUBSET S, it)
<1> DEFINE UpTo(n) == {s \in SUBSET S : Cardinality(s) <= n}
           Bad == {n \in Nat : ~\E it : SumIs(f, UpTo(n), it)}
<1>0. \A s \in SUBSET S : IsFiniteSet(s) /\ Cardinality(s) \in Nat /\ Cardinality(s) <= Cardinality(S)
  BY FS_Subset, FS_CardinalityType
<1>1. ASSUME Bad # {} PROVE FALSE
  <2>1. PICK n \in Bad : \A m \in Bad : n <= m
    <3>1. Bad \in SUBSET Nat
      OBVIOUS
    <3> HIDE DEF Bad
    <3> QED BY <1>1, <3>1, LeastNat
  <2>2. CASE n = 0
    <3> DEFINE it == [s \in UpTo(0) |-> 0]
    <3>1. \A s \in UpTo(0) : s = {}
      BY <1>0, FS_EmptySet
    <3>2. SumIs(f, UpTo(0), it)
      BY <3>1 DEF SumIs, Summed
    <3> QED BY <2>1, <2>2, <3>2
  <2>3. CASE n # 0
    <3>1. n - 1 \in Nat /\ n - 1 \notin Bad
      <4>1. n \in Nat
        OBVIOUS
      <4> HIDE DEF Bad
      <4> QED BY <2>1, <2>3, <4>1
    <3>2. PICK old : SumIs(f, UpTo(n - 1), old)
      BY <3>1
    <3> DEFINE it == [s \in UpTo(n) |-> Summed(f, old, s)]
    <3>3. UpTo(n - 1) \subseteq UpTo(n)
      BY <1>0, <3>1
    <3>4. \A s \in UpTo(n - 1) : it[s] = old[s]
      BY <3>2, <3>3 DEF SumIs
    <3>5. \A s \in UpTo(n) : s # {} => s \ {OneOf(s)} \in UpTo(n - 1)
      BY <1>0, SmallerSet
    <3>6. \A s \in UpTo(n) : Summed(f, it, s) = Summed(f, old, s)
      <4> HIDE DEF it, UpTo
      <4> QED BY <3>4, <3>5 DEF Summed
    <3>7. SumIs(f, UpTo(n), it)
      BY <3>6 DEF SumIs
    <3> QED BY <2>1, <3>7
  <2> QED BY <2>2, <2>3
<1>2. Cardinality(S) \in Nat /\ UpTo(Cardinality(S)) = SUBSET S
  BY <1>0, FS_CardinalityType
<1> QED BY <1>1, <1>2

(* The sum is that function's value. *)
LEMMA SumEq ==
    ASSUME NEW f, NEW S, IsFiniteSet(S)
    PROVE  \E it : SumIs(f, SUBSET S, it) /\ SumFunctionOnSet(f, S) = it[S]
<1> DEFINE it == CHOOSE it : SumIs(f, SUBSET S, it)
<1>1. SumFunctionOnSet(f, S) = it[S]
  BY DEF SumFunctionOnSet, FoldFunctionOnSet, MapThenFoldSet, SumIs, Summed, OneOf
<1>2. SumIs(f, SUBSET S, it)
  BY SumExists
<1> QED BY <1>1, <1>2

(* It does not matter which set the recursion is defined for. *)
LEMMA SumUnique ==
    ASSUME NEW f, NEW S, IsFiniteSet(S), NEW T \in SUBSET S, NEW it, NEW jt,
           SumIs(f, SUBSET S, it), SumIs(f, SUBSET T, jt)
    PROVE  it[T] = jt[T]
<1> DEFINE C == {s \in SUBSET T : it[s] # jt[s]}
<1>1. ASSUME C # {} PROVE FALSE
  <2>1. PICK s \in C : \A x \in s : s \ {x} \notin C
    BY <1>1, FS_Subset, MinimalSet
  <2>2. s \in SUBSET T /\ it[s] = Summed(f, it, s) /\ jt[s] = Summed(f, jt, s) /\ it[s] # jt[s]
    BY DEF SumIs
  <2>3. s # {}
    BY <2>2 DEF Summed
  <2>4. OneOf(s) \in s
    BY <2>3 DEF OneOf
  <2>5. it[s \ {OneOf(s)}] = jt[s \ {OneOf(s)}]
    BY <2>1, <2>2, <2>4
  <2> QED BY <2>2, <2>3, <2>5 DEF Summed
<1> QED BY <1>1

(* So the sum obeys the recursion, whatever set it is taken over. *)
LEMMA SumStep ==
    ASSUME NEW f, NEW S, IsFiniteSet(S)
    PROVE  SumFunctionOnSet(f, S) =
               IF S = {} THEN 0 ELSE f[OneOf(S)] + SumFunctionOnSet(f, S \ {OneOf(S)})
<1>1. PICK it : SumIs(f, SUBSET S, it) /\ SumFunctionOnSet(f, S) = it[S]
  BY SumEq
<1>2. IsFiniteSet(S \ {OneOf(S)})
  BY FS_Subset
<1>3. PICK jt : /\ SumIs(f, SUBSET (S \ {OneOf(S)}), jt)
                /\ SumFunctionOnSet(f, S \ {OneOf(S)}) = jt[S \ {OneOf(S)}]
  BY <1>2, SumEq
<1>4. it[S \ {OneOf(S)}] = jt[S \ {OneOf(S)}]
  BY <1>1, <1>3, SumUnique
<1>5. it[S] = Summed(f, it, S)
  BY <1>1 DEF SumIs
<1> QED BY <1>1, <1>3, <1>4, <1>5 DEF Summed

(* The sum over no element. *)
LEMMA SumEmpty == ASSUME NEW f PROVE SumFunctionOnSet(f, {}) = 0
BY SumStep, FS_EmptySet

(* A set with 0 and the sums of its elements has the sums over all indices. *)
LEMMA SumClosed ==
    ASSUME NEW f, NEW S, IsFiniteSet(S), NEW V, 0 \in V, \A a, b \in V : a + b \in V,
           \A x \in S : f[x] \in V
    PROVE  SumFunctionOnSet(f, S) \in V
<1> DEFINE Sum(s) == SumFunctionOnSet(f, s)
           C == {s \in SUBSET S : Sum(s) \notin V}
<1>1. \A s \in SUBSET S : Sum(s) = IF s = {} THEN 0 ELSE f[OneOf(s)] + Sum(s \ {OneOf(s)})
  BY FS_Subset, SumStep
<1> HIDE DEF Sum
<1>2. ASSUME C # {} PROVE FALSE
  <2>1. PICK s \in C : \A x \in s : s \ {x} \notin C
    BY <1>2, MinimalSet
  <2>2. s \in SUBSET S /\ s # {}
    <3>1. s \in SUBSET S /\ Sum(s) \notin V
      OBVIOUS
    <3>2. Sum({}) = 0
      BY <1>1
    <3> QED BY <3>1, <3>2
  <2>3. OneOf(s) \in s
    BY <2>2 DEF OneOf
  <2>4. Sum(s \ {OneOf(s)}) \in V /\ f[OneOf(s)] \in V
    BY <2>1, <2>2, <2>3
  <2>5. Sum(s) \in V
    BY <1>1, <2>2, <2>4
  <2> QED BY <2>5
<1> QED BY <1>2 DEF Sum

(* Natural numbers add up to a natural number. *)
LEMMA SumType ==
    ASSUME NEW f, NEW S, IsFiniteSet(S), \A x \in S : f[x] \in Nat
    PROVE  SumFunctionOnSet(f, S) \in Nat
<1>1. 0 \in Nat /\ \A a, b \in Nat : a + b \in Nat
  OBVIOUS
<1> QED BY <1>1, SumClosed

(* Integers add up to an integer. *)
LEMMA SumInteger ==
    ASSUME NEW f, NEW S, IsFiniteSet(S), \A x \in S : f[x] \in Int
    PROVE  SumFunctionOnSet(f, S) \in Int
<1>1. 0 \in Int /\ \A a, b \in Int : a + b \in Int
  OBVIOUS
<1> QED BY <1>1, SumClosed

(* Zeros add up to zero. *)
LEMMA SumZero ==
    ASSUME NEW f, NEW S, IsFiniteSet(S), \A x \in S : f[x] = 0
    PROVE  SumFunctionOnSet(f, S) = 0
<1>1. 0 \in {0} /\ \A a, b \in {0} : a + b \in {0}
  OBVIOUS
<1>2. \A x \in S : f[x] \in {0}
  OBVIOUS
<1>3. SumFunctionOnSet(f, S) \in {0}
  BY <1>1, <1>2, SumClosed
<1> QED BY <1>3

(* Only the values at the indices count. *)
LEMMA SumSame ==
    ASSUME NEW f, NEW g, NEW S, IsFiniteSet(S), \A x \in S : f[x] = g[x]
    PROVE  SumFunctionOnSet(f, S) = SumFunctionOnSet(g, S)
<1> DEFINE F(s) == SumFunctionOnSet(f, s)
           G(s) == SumFunctionOnSet(g, s)
           C == {s \in SUBSET S : F(s) # G(s)}
<1>1. \A s \in SUBSET S : F(s) = IF s = {} THEN 0 ELSE f[OneOf(s)] + F(s \ {OneOf(s)})
  BY FS_Subset, SumStep
<1>2. \A s \in SUBSET S : G(s) = IF s = {} THEN 0 ELSE g[OneOf(s)] + G(s \ {OneOf(s)})
  BY FS_Subset, SumStep
<1> HIDE DEF F, G
<1>3. ASSUME C # {} PROVE FALSE
  <2>1. PICK s \in C : \A x \in s : s \ {x} \notin C
    BY <1>3, MinimalSet
  <2>2. s \in SUBSET S /\ s # {} /\ F(s) # G(s)
    BY <1>1, <1>2
  <2>3. OneOf(s) \in s
    BY <2>2 DEF OneOf
  <2>4. F(s \ {OneOf(s)}) = G(s \ {OneOf(s)}) /\ f[OneOf(s)] = g[OneOf(s)]
    BY <2>1, <2>2, <2>3
  <2> QED BY <1>1, <1>2, <2>2, <2>4
<1> QED BY <1>3 DEF F, G

(* Any index may be taken out, not only the chosen one. *)
LEMMA SumRemove ==
    ASSUME NEW f, NEW S, IsFiniteSet(S), \A x \in S : f[x] \in Nat, NEW a \in S
    PROVE  SumFunctionOnSet(f, S) = f[a] + SumFunctionOnSet(f, S \ {a})
<1> DEFINE Sum(s) == SumFunctionOnSet(f, s)
           C == {s \in SUBSET S : \E x \in s : Sum(s) # f[x] + Sum(s \ {x})}
<1>1. \A s \in SUBSET S : Sum(s) = IF s = {} THEN 0 ELSE f[OneOf(s)] + Sum(s \ {OneOf(s)})
  BY FS_Subset, SumStep
<1>2. \A s \in SUBSET S : Sum(s) \in Nat
  BY FS_Subset, SumType
<1> HIDE DEF Sum
<1>3. ASSUME C # {} PROVE FALSE
  <2>1. PICK s \in C : \A x \in s : s \ {x} \notin C
    BY <1>3, MinimalSet
  <2>2. PICK x \in s : Sum(s) # f[x] + Sum(s \ {x})
    OBVIOUS
  <2>3. s \in SUBSET S /\ s # {}
    BY <2>2
  <2>4. PICK c \in s : Sum(s) = f[c] + Sum(s \ {c})
    BY <1>1, <2>3 DEF OneOf
  <2>5. c # x
    BY <2>2, <2>4
  <2>6. Sum(s \ {c}) = f[x] + Sum((s \ {c}) \ {x}) /\ Sum(s \ {x}) = f[c] + Sum((s \ {x}) \ {c})
    BY <2>1, <2>2, <2>3, <2>4, <2>5
  <2>7. (s \ {c}) \ {x} = (s \ {x}) \ {c}
    OBVIOUS
  <2>8. PICK n : n = Sum((s \ {x}) \ {c})
    OBVIOUS
  <2>9. f[x] \in Nat /\ f[c] \in Nat /\ n \in Nat
    BY <1>2, <2>2, <2>3, <2>4, <2>8
  <2>10. Sum(s) = f[c] + (f[x] + n) /\ Sum(s) # f[x] + (f[c] + n)
    BY <2>2, <2>4, <2>6, <2>7, <2>8
  <2> QED BY <2>9, <2>10
<1>4. S \notin C
  BY <1>3
<1> QED BY <1>4 DEF Sum

(* Sums over disjoint sets of indices add up. *)
LEMMA SumUnion ==
    ASSUME NEW f, NEW S, NEW T, IsFiniteSet(S), IsFiniteSet(T), S \cap T = {},
           \A x \in S \cup T : f[x] \in Nat
    PROVE  SumFunctionOnSet(f, S \cup T) = SumFunctionOnSet(f, S) + SumFunctionOnSet(f, T)
<1> DEFINE Sum(s) == SumFunctionOnSet(f, s)
           C == {s \in SUBSET S : Sum(s \cup T) # Sum(s) + Sum(T)}
<1>1. IsFiniteSet(S \cup T)
  BY FS_Union
<1>2. \A s \in SUBSET (S \cup T) : IsFiniteSet(s)
  BY <1>1, FS_Subset
<1>3. \A s \in SUBSET (S \cup T) : Sum(s) \in Nat /\ \A a \in s : Sum(s) = f[a] + Sum(s \ {a})
  <2>1. TAKE s \in SUBSET (S \cup T)
  <2>2. IsFiniteSet(s) /\ \A x \in s : f[x] \in Nat
    BY <1>2
  <2> QED BY <2>2, SumType, SumRemove
<1>4. Sum({}) = 0
  BY SumEmpty
<1> HIDE DEF Sum
<1>5. ASSUME C # {} PROVE FALSE
  <2>1. PICK s \in C : \A x \in s : s \ {x} \notin C
    BY <1>5, MinimalSet
  <2>2. s \in SUBSET S /\ Sum(s \cup T) # Sum(s) + Sum(T)
    OBVIOUS
  <2>3. s # {}
    <3>1. {} \cup T = T /\ Sum(T) \in Nat
      BY <1>3
    <3> QED BY <1>4, <2>2, <3>1
  <2>4. PICK a \in s : TRUE
    BY <2>3
  <2>5. (s \cup T) \ {a} = (s \ {a}) \cup T
    BY <2>2
  <2>6. Sum((s \ {a}) \cup T) = Sum(s \ {a}) + Sum(T)
    BY <2>1, <2>2
  <2>7. Sum(s) = f[a] + Sum(s \ {a}) /\ Sum(s \cup T) = f[a] + Sum((s \ {a}) \cup T)
    BY <1>3, <2>2, <2>5
  <2>8. PICK n, m : n = Sum(s \ {a}) /\ m = Sum(T)
    OBVIOUS
  <2>9. f[a] \in Nat /\ n \in Nat /\ m \in Nat
    BY <1>3, <2>2, <2>8
  <2>10. f[a] + (n + m) # (f[a] + n) + m
    BY <2>2, <2>6, <2>7, <2>8
  <2> QED BY <2>9, <2>10
<1>6. S \notin C
  BY <1>5
<1> QED BY <1>6 DEF Sum
=============================================================================
