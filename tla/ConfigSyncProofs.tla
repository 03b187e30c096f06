--------------------------- MODULE ConfigSyncProofs ---------------------------
(* Theorems about ConfigSync, for any number of replicas, names and files:   *)
(* the inductive invariant, what a commit makes of the tables, and that      *)
(* replicas with the same file do not run into a deadlock.                   *)
EXTENDS ConfigSync, SumTheorems, SequenceTheorems

-----------------------------------------------------------------------------
(* Rows and files.                                                           *)

(* Names of groups and of endpoints are told apart, and both are rows. *)
LEMMA RowFacts ==
    /\ GroupRows \cap EndpointRows = {} /\ GroupRows \subseteq Rows /\ EndpointRows \subseteq Rows
    /\ \A w \in EndpointRows : /\ w[1] \in Groups /\ w[2] \in Endpoints /\ w = <<w[1], w[2]>>
                               /\ <<w[1]>> \in GroupRows
    /\ \A g \in Groups : <<g>> \in GroupRows
    /\ \A g \in Groups, e \in Endpoints : <<g, e>> \in EndpointRows
<1>1. \A w \in EndpointRows : \E g \in Groups, e \in Endpoints : w = <<g, e>>
  BY DEF EndpointRows
<1>2. \A w \in GroupRows : \E g \in Groups : w = <<g>>
  BY DEF GroupRows
<1>3. \A w \in EndpointRows : w \notin GroupRows
  <2>1. ASSUME NEW w, NEW g, NEW h, NEW e, w = <<g>>, w = <<h, e>> PROVE FALSE
    <3>1. Len(w) = 1 /\ Len(w) = 2
      BY <2>1
    <3> QED BY <3>1
  <2> QED BY <1>1, <1>2, <2>1
<1>4. \A w \in EndpointRows : w[1] \in Groups /\ w[2] \in Endpoints /\ w = <<w[1], w[2]>>
  BY <1>1
<1>5. \A g \in Groups : <<g>> \in GroupRows
  BY DEF GroupRows
<1>6. \A g \in Groups, e \in Endpoints : <<g, e>> \in EndpointRows
  BY DEF EndpointRows
<1> QED BY <1>3, <1>4, <1>5, <1>6 DEF Rows

(* There are finitely many of them. *)
LEMMA FiniteRows == IsFiniteSet(GroupRows) /\ IsFiniteSet(EndpointRows)
<1>1. IsFiniteSet(GroupRows)
  <2> DEFINE name == [g \in Groups |-> <<g>>]
  <2>1. name \in Surjection(Groups, GroupRows)
    BY DEF Surjection, GroupRows
  <2> QED BY <2>1, NameAssumption, FS_Surjection
<1>2. EndpointRows = Groups \X Endpoints
  BY DEF EndpointRows
<1> QED BY <1>1, <1>2, NameAssumption, FS_Product

(* The recursion of FlattenSeq: `it' is a function on 1..n that obeys it. *)
Flat(seqs, it, i) == IF i = 1 THEN seqs[i] ELSE it[i - 1] \o seqs[i]
FlatIs(seqs, n, it) == it = [i \in 1..n |-> Flat(seqs, it, i)]

(* FlattenSeq has a value: by the least length for which there were none. *)
LEMMA FlatExists ==
    ASSUME NEW seqs, NEW N \in Nat
    PROVE  \E it : FlatIs(seqs, N, it)
<1> DEFINE Bad == {n \in Nat : ~\E it : FlatIs(seqs, n, it)}
<1>1. ASSUME Bad # {} PROVE FALSE
  <2>1. PICK n \in Bad : \A m \in Bad : n <= m
    <3>1. Bad \in SUBSET Nat
      OBVIOUS
    <3> HIDE DEF Bad
    <3> QED BY <1>1, <3>1, LeastNat
  <2>2. CASE n = 0
    <3>1. 1..n = {}
      BY <2>2
    <3>2. FlatIs(seqs, n, [i \in 1..n |-> 0])
      BY <3>1 DEF FlatIs
    <3> QED BY <2>1, <3>2
  <2>3. CASE n # 0
    <3>1. n \in Nat /\ n - 1 \in Nat /\ n - 1 \notin Bad
      <4>1. n \in Nat
        OBVIOUS
      <4> HIDE DEF Bad
      <4> QED BY <2>1, <2>3, <4>1
    <3>2. PICK old : FlatIs(seqs, n - 1, old)
      BY <3>1
    <3> DEFINE it == [i \in 1..n |-> Flat(seqs, old, i)]
    <3>3. \A i \in 1..(n - 1) : it[i] = old[i]
      BY <3>1, <3>2 DEF FlatIs
    <3>4. \A i \in 1..n : i = 1 \/ i - 1 \in 1..(n - 1)
      BY <3>1
    <3>5. \A i \in 1..n : Flat(seqs, it, i) = Flat(seqs, old, i)
      <4> HIDE DEF it
      <4> QED BY <3>3, <3>4 DEF Flat
    <3>6. FlatIs(seqs, n, it)
      BY <3>5 DEF FlatIs
    <3> QED BY <2>1, <3>6
  <2> QED BY <2>2, <2>3
<1> QED BY <1>1

(* Sequences put together one after the other are a sequence of the same elements. *)
LEMMA FlattenType ==
    ASSUME NEW S, NEW seqs \in Seq(Seq(S))
    PROVE  FlattenSeq(seqs) \in Seq(S)
<1> DEFINE N == Len(seqs)
           it == CHOOSE it : FlatIs(seqs, N, it)
           Bad == {n \in Nat : n \in 1..N /\ it[n] \notin Seq(S)}
<1>1. N \in Nat /\ DOMAIN seqs = 1..N /\ \A i \in 1..N : seqs[i] \in Seq(S)
  OBVIOUS
<1>2. CASE N = 0
  <2>1. seqs = <<>>
    BY <1>2
  <2>2. FlattenSeq(seqs) = seqs
    BY <1>2 DEF FlattenSeq
  <2>3. <<>> \in Seq(S)
    OBVIOUS
  <2> QED BY <2>1, <2>2, <2>3, Zenon
<1>3. CASE N # 0
  <2>1. FlattenSeq(seqs) = it[N]
    BY <1>3 DEF FlattenSeq, FlatIs, Flat
  <2>2. FlatIs(seqs, N, it)
    BY <1>1, FlatExists
  <2>3. \A i \in 1..N : it[i] = Flat(seqs, it, i)
    BY <2>2 DEF FlatIs
  <2> HIDE DEF it
  <2>4. ASSUME Bad # {} PROVE FALSE
    <3>1. PICK n \in Bad : \A m \in Bad : n <= m
      <4>1. Bad \in SUBSET Nat
        OBVIOUS
      <4> HIDE DEF Bad
      <4> QED BY <2>4, <4>1, LeastNat
    <3>2. n \in 1..N /\ it[n] \notin Seq(S) /\ n # 1
      BY <1>1, <2>3 DEF Flat
    <3>3. n - 1 \in 1..N /\ n - 1 \in Nat /\ n - 1 \notin Bad
      <4>1. n - 1 \in 1..N /\ n - 1 \in Nat /\ ~(n <= n - 1)
        BY <1>1, <3>2
      <4> HIDE DEF Bad
      <4> QED BY <3>1, <4>1
    <3>4. it[n - 1] \in Seq(S) /\ seqs[n] \in Seq(S)
      BY <1>1, <3>2, <3>3
    <3>5. it[n] = it[n - 1] \o seqs[n]
      BY <2>3, <3>2 DEF Flat
    <3>6. it[n - 1] \o seqs[n] \in Seq(S)
      BY <3>4, ConcatProperties
    <3> QED BY <3>2, <3>5, <3>6
  <2>5. N \in 1..N /\ N \in Nat
    BY <1>1, <1>3
  <2> QED BY <2>1, <2>4, <2>5
<1> QED BY <1>2, <1>3

InFiles == Files \cup {<<>>}

(* The rows of a file: its groups in order, and endpoints of these groups. *)
LEMMA FileFacts ==
    ASSUME NEW f \in InFiles
    PROVE  /\ DOMAIN f = 1..Len(f) /\ Len(f) \in Nat
           /\ GroupsOf(f) \in Seq(GroupRows) /\ Len(GroupsOf(f)) = Len(f)
           /\ \A i \in 1..Len(f) : GroupsOf(f)[i] = <<f[i].group>>
           /\ EndpointsOf(f) \in Seq({w \in EndpointRows : <<w[1]>> \in ToSet(GroupsOf(f))})
<1>1. f \in Seq([group : Groups, models : Seq(Endpoints)])
  <2>1. <<>> \in Seq([group : Groups, models : Seq(Endpoints)])
    OBVIOUS
  <2> QED BY <2>1, FileAssumption, Zenon DEF InFiles
<1> DEFINE n == Len(f)
<1>2. n \in Nat /\ DOMAIN f = 1..n
  BY <1>1
<1>3. \A i \in 1..n : f[i].group \in Groups /\ f[i].models \in Seq(Endpoints)
  <2>1. \A i \in 1..n : f[i] \in [group : Groups, models : Seq(Endpoints)]
    BY <1>1, ElementOfSeq, Zenon
  <2> QED BY <2>1
<1> HIDE DEF n
<1>4. GroupsOf(f) = [i \in 1..n |-> <<f[i].group>>]
  BY <1>2 DEF GroupsOf
<1>5. GroupsOf(f) \in Seq(GroupRows) /\ Len(GroupsOf(f)) = n
  BY <1>2, <1>3, <1>4, RowFacts
<1> DEFINE S == {w \in EndpointRows : <<w[1]>> \in ToSet(GroupsOf(f))}
           Models(i) == [j \in DOMAIN f[i].models |-> <<f[i].group, f[i].models[j]>>]
<1>6. ASSUME NEW i \in 1..n PROVE Models(i) \in Seq(S)
  <2>1. <<f[i].group>> \in ToSet(GroupsOf(f))
    BY <1>4 DEF ToSet
  <2> DEFINE k == Len(f[i].models)
             g == f[i].group
  <2>2. k \in Nat /\ DOMAIN f[i].models = 1..k /\ \A j \in 1..k : f[i].models[j] \in Endpoints
    BY <1>3
  <2>3. g \in Groups
    BY <1>3
  <2> HIDE DEF k, g
  <2>4. \A e \in Endpoints : <<g, e>> \in EndpointRows /\ <<g, e>>[1] = g
    BY <2>3, RowFacts
  <2>5. \A e \in Endpoints : <<g, e>> \in S
    <3>1. <<g>> \in ToSet(GroupsOf(f))
      BY <2>1 DEF g
    <3> QED BY <2>4, <3>1
  <2> HIDE DEF S
  <2>6. Models(i) = [j \in 1..k |-> <<g, f[i].models[j]>>]
    BY <2>2 DEF g
  <2>7. \A j \in 1..k : <<g, f[i].models[j]>> \in S
    BY <2>2, <2>5
  <2> QED BY <2>2, <2>6, <2>7
<1> HIDE DEF S, Models
<1>7. [i \in 1..n |-> Models(i)] \in Seq(Seq(S))
  BY <1>2, <1>6
<1>8. EndpointsOf(f) = FlattenSeq([i \in 1..n |-> Models(i)])
  BY <1>2 DEF EndpointsOf, Models
<1>9. EndpointsOf(f) \in Seq(S)
  BY <1>7, <1>8, FlattenType
<1> QED BY <1>2, <1>4, <1>5, <1>9 DEF n, S

(* What an order of a finite set enumerates. *)
LEMMA OrderFacts ==
    ASSUME NEW S, IsFiniteSet(S), NEW q \in SetToSeqs(S)
    PROVE  /\ q \in Seq(S)
           /\ \A i, j \in DOMAIN q : i # j => q[i] # q[j]
           /\ \A w \in S : \E i \in DOMAIN q : q[i] = w
<1> DEFINE n == Cardinality(S)
<1>1. n \in Nat
  BY FS_CardinalityType
<1>2. q \in [1..n -> S] /\ \A i, j \in 1..n : i # j => q[i] # q[j]
  BY DEF SetToSeqs
<1>3. Cardinality(1..n) = n
  BY <1>1, FS_Interval
<1> HIDE DEF n
<1>4. q \in Injection(1..n, S)
  BY <1>2 DEF Injection, IsInjective
<1>5. q \in Surjection(1..n, S)
  BY <1>3, <1>4, FS_Injection DEF n
<1>6. \A w \in S : \E i \in 1..n : q[i] = w
  BY <1>5 DEF Surjection
<1> QED BY <1>1, <1>2, <1>6

(* What a file upserts, and in which order. *)
LEMMA UpsertFacts ==
    ASSUME NEW f \in InFiles, ~Refused(f), NEW u \in UpsertOrders(f)
    PROVE  /\ u \in Seq(Rows)
           /\ ToSet(u) = Desired(f)
           /\ \A i, j \in DOMAIN u : i # j => u[i] # u[j]
           /\ \A i \in DOMAIN u : u[i] \in EndpointRows => \E k \in 1..(i - 1) : u[k] = <<u[i][1]>>
           /\ f # <<>> => u # <<>> /\ u[1] = <<f[1].group>>
<1> DEFINE gs == GroupsOf(f)
           es == EndpointsOf(f)
           m == Len(gs)
           n == Len(es)
           S == {w \in EndpointRows : <<w[1]>> \in ToSet(GroupsOf(f))}
<1>1. u = gs \o es
  BY DEF UpsertOrders
<1>2. gs \in Seq(Rows) /\ es \in Seq(Rows)
  <2>1. gs \in Seq(GroupRows) /\ es \in Seq(S)
    BY FileFacts
  <2>2. GroupRows \subseteq Rows /\ S \subseteq Rows
    BY RowFacts
  <2> HIDE DEF gs, es, S
  <2> QED BY <2>1, <2>2
<1>3. /\ DOMAIN gs = 1..m /\ \A i \in 1..m : gs[i] \in GroupRows
      /\ DOMAIN es = 1..n /\ \A i \in 1..n : es[i] \in S
  <2>1. gs \in Seq(GroupRows) /\ es \in Seq(S)
    BY FileFacts
  <2> HIDE DEF gs, es, S
  <2> QED BY <2>1
<1>4. /\ \A i, j \in 1..m : gs[i] = gs[j] => i = j
      /\ \A i, j \in 1..n : es[i] = es[j] => i = j
  BY <1>3 DEF Refused, IsInjective
<1>5. ToSet(gs) = {gs[i] : i \in 1..m} /\ ToSet(es) = {es[i] : i \in 1..n}
  BY <1>3 DEF ToSet
<1>6. Desired(f) = ToSet(gs) \cup ToSet(es)
  BY DEF Desired
<1>7. S \subseteq EndpointRows /\ \A w \in S : \E k \in 1..m : gs[k] = <<w[1]>>
  BY <1>5
<1>8. m \in Nat /\ n \in Nat
  BY <1>2
<1>9. f # <<>> => m # 0 /\ gs[1] = <<f[1].group>>
  <2>1. Len(f) \in Nat /\ DOMAIN f = 1..Len(f) /\ m = Len(f)
        /\ \A i \in 1..Len(f) : gs[i] = <<f[i].group>>
    BY FileFacts
  <2>2. f \in Seq([group : Groups, models : Seq(Endpoints)])
    <3>1. <<>> \in Seq([group : Groups, models : Seq(Endpoints)])
      OBVIOUS
    <3> QED BY <3>1, FileAssumption, Zenon DEF InFiles
  <2>3. f # <<>> => Len(f) # 0
    BY <2>2
  <2> HIDE DEF gs, m
  <2> QED BY <2>1, <2>3
<1> HIDE DEF gs, es, m, n, S
<1>10. /\ u \in Seq(Rows) /\ DOMAIN u = 1..(m + n)
       /\ \A i \in 1..m : i \in 1..(m + n) /\ u[i] = gs[i]
       /\ \A i \in 1..(m + n) : ~(i <= m) => i - m \in 1..n /\ u[i] = es[i - m]
       /\ \A i \in 1..n : m + i \in 1..(m + n) /\ u[m + i] = es[i]
  <2>1. m = Len(gs) /\ n = Len(es)
    BY DEF m, n
  <2>2. /\ gs \o es \in Seq(Rows) /\ Len(gs \o es) = m + n
        /\ \A i \in 1..(m + n) : (gs \o es)[i] = IF i <= m THEN gs[i] ELSE es[i - m]
    BY <1>2, <2>1, ConcatProperties
  <2>3. DOMAIN u = 1..(m + n) /\ u \in Seq(Rows)
    BY <1>1, <2>2
  <2>4. \A i \in 1..(m + n) : u[i] = IF i <= m THEN gs[i] ELSE es[i - m]
    BY <1>1, <2>2
  <2>5. \A i \in 1..n : m + i \in 1..(m + n) /\ ~(m + i <= m) /\ (m + i) - m = i
    BY <1>8
  <2>6. \A i \in 1..m : i \in 1..(m + n) /\ i <= m
    BY <1>8
  <2>7. \A i \in 1..(m + n) : ~(i <= m) => i - m \in 1..n
    BY <1>8
  <2> QED BY <2>3, <2>4, <2>5, <2>6, <2>7
<1>11. \A i \in 1..(m + n) : \/ i \in 1..m /\ u[i] = gs[i] /\ u[i] \in GroupRows
                             \/ ~(i <= m) /\ i - m \in 1..n /\ u[i] = es[i - m] /\ u[i] \in S
  <2>1. \A i \in 1..(m + n) : i <= m => i \in 1..m
    BY <1>8
  <2> QED BY <1>3, <1>10, <2>1
<1>12. ToSet(u) = Desired(f)
  <2>1. ToSet(u) = {u[i] : i \in 1..(m + n)}
    BY <1>10 DEF ToSet
  <2>2. \A w \in ToSet(u) : w \in ToSet(gs) \cup ToSet(es)
    BY <1>5, <1>11, <2>1
  <2>3. \A w \in ToSet(gs) \cup ToSet(es) : w \in ToSet(u)
    BY <1>5, <1>10, <2>1
  <2> QED BY <1>6, <2>2, <2>3
<1>13. ASSUME NEW i \in 1..(m + n), NEW j \in 1..(m + n), u[i] = u[j] PROVE i = j
  <2>1. CASE i \in 1..m /\ j \in 1..m /\ u[i] = gs[i] /\ u[j] = gs[j]
    BY <1>4, <1>13, <2>1
  <2>2. CASE i - m \in 1..n /\ j - m \in 1..n /\ u[i] = es[i - m] /\ u[j] = es[j - m]
    <3>1. i - m = j - m
      BY <1>4, <1>13, <2>2
    <3> QED BY <1>8, <3>1
  <2> QED BY <1>7, <1>11, <1>13, <2>1, <2>2, RowFacts
<1>14. ASSUME NEW i \in 1..(m + n), u[i] \in EndpointRows
       PROVE  \E k \in 1..(i - 1) : u[k] = <<u[i][1]>>
  <2>1. ~(i <= m) /\ u[i] \in S
    BY <1>11, <1>14, RowFacts
  <2>2. PICK k \in 1..m : gs[k] = <<u[i][1]>>
    BY <1>7, <2>1
  <2>3. k \in 1..(i - 1) /\ u[k] = gs[k]
    BY <1>8, <1>10, <2>1
  <2> QED BY <2>2, <2>3
<1>15. f # <<>> => u # <<>> /\ u[1] = <<f[1].group>>
  <2>1. ASSUME f # <<>> PROVE 1 \in 1..m
    BY <1>8, <1>9, <2>1
  <2>2. ASSUME f # <<>> PROVE DOMAIN u # {}
    BY <1>10, <2>1, <2>2
  <2>3. <<>> \in Seq(Rows) /\ DOMAIN <<>> = {}
    OBVIOUS
  <2>4. f # <<>> => u # <<>>
    BY <2>2, <2>3, Zenon
  <2> QED BY <1>9, <1>10, <2>1, <2>4
<1> QED BY <1>10, <1>12, <1>13, <1>14, <1>15

(* What is disabled, in any order. *)
LEMMA DisableFacts ==
    ASSUME NEW f \in InFiles, NEW s \in [Rows -> Values], NEW d \in DisableOrders(f, s)
    PROVE  /\ d \in Seq(Rows)
           /\ ToSet(d) = StaleEndpoints(f, s) \cup StaleGroups(f, s)
           /\ \A i, j \in DOMAIN d : i # j => d[i] # d[j]
<1> DEFINE SE == StaleEndpoints(f, s)
           SG == StaleGroups(f, s)
<1>1. PICK es \in SetToSeqs(SE), gs \in SetToSeqs(SG) : d = es \o gs
  BY DEF DisableOrders
<1>2. SE \subseteq EndpointRows /\ SG \subseteq GroupRows
  BY DEF StaleEndpoints, StaleGroups
<1>3. IsFiniteSet(SE) /\ IsFiniteSet(SG) /\ SE \cap SG = {} /\ SE \subseteq Rows /\ SG \subseteq Rows
  BY <1>2, FiniteRows, FS_Subset, RowFacts
<1> DEFINE m == Len(es)
           n == Len(gs)
<1> HIDE DEF SE, SG
<1>4. /\ es \in Seq(SE) /\ m \in Nat /\ DOMAIN es = 1..m
      /\ \A i, j \in 1..m : i # j => es[i] # es[j]
      /\ \A w \in SE : \E i \in 1..m : es[i] = w
      /\ \A i \in 1..m : es[i] \in SE
  <2>1. es \in Seq(SE)
    BY <1>3, OrderFacts
  <2>2. m \in Nat /\ DOMAIN es = 1..m /\ \A i \in 1..m : es[i] \in SE
    BY <2>1
  <2>3. /\ \A i, j \in DOMAIN es : i # j => es[i] # es[j]
        /\ \A w \in SE : \E i \in DOMAIN es : es[i] = w
    BY <1>3, OrderFacts
  <2> HIDE DEF m
  <2> QED BY <2>1, <2>2, <2>3
<1>5. /\ gs \in Seq(SG) /\ n \in Nat /\ DOMAIN gs = 1..n
      /\ \A i, j \in 1..n : i # j => gs[i] # gs[j]
      /\ \A w \in SG : \E i \in 1..n : gs[i] = w
      /\ \A i \in 1..n : gs[i] \in SG
  <2>1. gs \in Seq(SG)
    BY <1>3, OrderFacts
  <2>2. n \in Nat /\ DOMAIN gs = 1..n /\ \A i \in 1..n : gs[i] \in SG
    BY <2>1
  <2>3. /\ \A i, j \in DOMAIN gs : i # j => gs[i] # gs[j]
        /\ \A w \in SG : \E i \in DOMAIN gs : gs[i] = w
    BY <1>3, OrderFacts
  <2> HIDE DEF n
  <2> QED BY <2>1, <2>2, <2>3
<1>6. es \in Seq(Rows) /\ gs \in Seq(Rows)
  BY <1>3, <1>4, <1>5
<1>7. m = Len(es) /\ n = Len(gs)
  OBVIOUS
<1> HIDE DEF m, n
<1>8. /\ d \in Seq(Rows) /\ DOMAIN d = 1..(m + n)
      /\ \A i \in 1..(m + n) : d[i] = IF i <= m THEN es[i] ELSE gs[i - m]
  <2>1. /\ es \o gs \in Seq(Rows) /\ Len(es \o gs) = m + n
        /\ \A i \in 1..(m + n) : (es \o gs)[i] = IF i <= m THEN es[i] ELSE gs[i - m]
    BY <1>6, <1>7, ConcatProperties
  <2> QED BY <1>1, <2>1
<1>9. \A i \in 1..(m + n) : \/ i \in 1..m /\ d[i] = es[i] /\ d[i] \in SE
                            \/ i - m \in 1..n /\ d[i] = gs[i - m] /\ d[i] \in SG
  <2>1. \A i \in 1..(m + n) : (i <= m /\ i \in 1..m) \/ (~(i <= m) /\ i - m \in 1..n)
    BY <1>4, <1>5
  <2> QED BY <1>4, <1>5, <1>8, <2>1
<1>10. /\ \A i \in 1..m : i \in 1..(m + n) /\ d[i] = es[i]
       /\ \A i \in 1..n : m + i \in 1..(m + n) /\ d[m + i] = gs[i]
  <2>1. \A i \in 1..m : i \in 1..(m + n) /\ i <= m
    BY <1>4, <1>5
  <2>2. \A i \in 1..n : m + i \in 1..(m + n) /\ ~(m + i <= m) /\ (m + i) - m = i
    BY <1>4, <1>5
  <2> QED BY <1>8, <2>1, <2>2
<1>11. ToSet(d) = SE \cup SG
  <2>1. ToSet(d) = {d[i] : i \in 1..(m + n)}
    BY <1>8 DEF ToSet
  <2>2. \A w \in ToSet(d) : w \in SE \cup SG
    BY <1>9, <2>1
  <2>3. ASSUME NEW w \in SE PROVE w \in ToSet(d)
    <3>1. PICK i \in 1..m : es[i] = w
      BY <1>4
    <3> QED BY <1>10, <2>1, <3>1
  <2>4. ASSUME NEW w \in SG PROVE w \in ToSet(d)
    <3>1. PICK i \in 1..n : gs[i] = w
      BY <1>5
    <3> QED BY <1>10, <2>1, <3>1
  <2> QED BY <2>2, <2>3, <2>4
<1>12. ASSUME NEW i \in 1..(m + n), NEW j \in 1..(m + n), d[i] = d[j] PROVE i = j
  <2>1. CASE i \in 1..m /\ j \in 1..m /\ d[i] = es[i] /\ d[j] = es[j]
    BY <1>4, <1>12, <2>1
  <2>2. CASE i - m \in 1..n /\ j - m \in 1..n /\ d[i] = gs[i - m] /\ d[j] = gs[j - m]
    <3>1. i - m = j - m
      BY <1>5, <1>12, <2>2
    <3> QED BY <1>4, <3>1
  <2> QED BY <1>3, <1>9, <1>12, <2>1, <2>2
<1> QED BY <1>8, <1>11, <1>12 DEF SE, SG

Statements == [op : {"insert", "update", "disable"}, row : Rows]

(* The statements of a plan. *)
LEMMA PlanFacts ==
    ASSUME NEW f \in InFiles, ~Refused(f), NEW s \in [Rows -> Values], NEW plan \in Plans(f, s)
    PROVE  /\ plan \in Seq(Statements)
           /\ {plan[i].row : i \in DOMAIN plan} =
                 Desired(f) \cup StaleEndpoints(f, s) \cup StaleGroups(f, s)
           /\ \A i \in DOMAIN plan :
                 /\ plan[i].op # "disable" =>
                       /\ plan[i].row \in Desired(f)
                       /\ plan[i].op = "insert" <=> s[plan[i].row] = "absent"
                       /\ plan[i].row \in EndpointRows =>
                             \E k \in 1..(i - 1) : /\ plan[k].op # "disable"
                                                  /\ plan[k].row = <<plan[i].row[1]>>
                 /\ plan[i].op = "disable" =>
                       /\ plan[i].row \in StaleEndpoints(f, s) \cup StaleGroups(f, s)
                       /\ \A j \in DOMAIN plan : plan[j].op # "disable" => j < i
                 /\ \A j \in DOMAIN plan :
                       i < j /\ plan[i].row = plan[j].row =>
                          plan[i].op # "disable" /\ plan[j].op = "disable"
           /\ \A w \in Desired(f) : \E i \in DOMAIN plan : plan[i].op # "disable" /\ plan[i].row = w
           /\ f # <<>> => plan # <<>> /\ plan[1].row = <<f[1].group>>
<1> DEFINE Planning(u, d) == ForAll(u, LAMBDA w : Upsert(w, s)) \o ForAll(d, Disable)
<1>a. Plans(f, s) = {Planning(u, d) : u \in UpsertOrders(f), d \in DisableOrders(f, s)}
  BY DEF Plans
<1> HIDE DEF Planning
<1>1. PICK u \in UpsertOrders(f), d \in DisableOrders(f, s) : plan = Planning(u, d)
  BY <1>a
<1> DEFINE m == Len(u)
           n == Len(d)
           stale == StaleEndpoints(f, s) \cup StaleGroups(f, s)
           up == ForAll(u, LAMBDA w : Upsert(w, s))
           down == ForAll(d, Disable)
<1>2. /\ u \in Seq(Rows)
      /\ ToSet(u) = Desired(f)
      /\ \A i, j \in DOMAIN u : i # j => u[i] # u[j]
      /\ \A i \in DOMAIN u : u[i] \in EndpointRows => \E k \in 1..(i - 1) : u[k] = <<u[i][1]>>
      /\ f # <<>> => u # <<>> /\ u[1] = <<f[1].group>>
  BY UpsertFacts
<1>3. /\ d \in Seq(Rows) /\ ToSet(d) = stale
      /\ \A i, j \in DOMAIN d : i # j => d[i] # d[j]
  BY DisableFacts
<1>4. /\ m \in Nat /\ n \in Nat /\ DOMAIN u = 1..m /\ DOMAIN d = 1..n
      /\ \A i \in 1..m : u[i] \in Rows
      /\ \A i \in 1..n : d[i] \in Rows
  BY <1>2, <1>3
<1>5. /\ up = [i \in 1..m |-> [op |-> IF s[u[i]] = "absent" THEN "insert" ELSE "update", row |-> u[i]]]
      /\ down = [i \in 1..n |-> [op |-> "disable", row |-> d[i]]]
  BY <1>4 DEF ForAll, Upsert, Disable
<1> HIDE DEF m, n, up, down, stale
<1>6. /\ \A i \in 1..m : /\ up[i].row = u[i] /\ up[i].op # "disable"
                         /\ up[i].op = "insert" <=> s[u[i]] = "absent"
                         /\ up[i] \in Statements
      /\ \A i \in 1..n : down[i].row = d[i] /\ down[i].op = "disable" /\ down[i] \in Statements
  BY <1>4, <1>5 DEF Statements
<1>7. up \in Seq(Statements) /\ down \in Seq(Statements) /\ Len(up) = m /\ Len(down) = n
  BY <1>4, <1>5, <1>6
<1>8. /\ plan \in Seq(Statements) /\ DOMAIN plan = 1..(m + n)
      /\ \A i \in 1..(m + n) : plan[i] = IF i <= m THEN up[i] ELSE down[i - m]
  <2>1. /\ up \o down \in Seq(Statements) /\ Len(up \o down) = m + n
        /\ \A i \in 1..(m + n) : (up \o down)[i] = IF i <= m THEN up[i] ELSE down[i - m]
    BY <1>7, ConcatProperties
  <2>2. plan = up \o down
    BY <1>1 DEF up, down, Planning
  <2> QED BY <2>1, <2>2
<1>9. /\ \A i \in 1..m : i \in 1..(m + n) /\ plan[i] = up[i]
      /\ \A i \in 1..n : m + i \in 1..(m + n) /\ plan[m + i] = down[i]
  <2>1. \A i \in 1..m : i \in 1..(m + n) /\ i <= m
    BY <1>4
  <2>2. \A i \in 1..n : m + i \in 1..(m + n) /\ ~(m + i <= m) /\ (m + i) - m = i
    BY <1>4
  <2> QED BY <1>8, <2>1, <2>2
<1>10. \A i \in 1..(m + n) :
          \/ i \in 1..m /\ plan[i].row = u[i] /\ plan[i].op # "disable"
             /\ (plan[i].op = "insert" <=> s[u[i]] = "absent")
          \/ ~(i <= m) /\ i - m \in 1..n /\ plan[i].row = d[i - m] /\ plan[i].op = "disable"
  <2>1. \A i \in 1..(m + n) : (i <= m /\ i \in 1..m) \/ (~(i <= m) /\ i - m \in 1..n)
    BY <1>4
  <2> QED BY <1>6, <1>8, <2>1
<1>11. /\ Desired(f) = {u[i] : i \in 1..m}
       /\ stale = {d[i] : i \in 1..n}
  BY <1>2, <1>3, <1>4 DEF ToSet
<1>12. {plan[i].row : i \in DOMAIN plan} = Desired(f) \cup stale
  <2>1. \A i \in 1..(m + n) : plan[i].row \in Desired(f) \cup stale
    BY <1>10, <1>11
  <2>2. \A i \in 1..m : u[i] \in {plan[k].row : k \in 1..(m + n)}
    BY <1>6, <1>9
  <2>3. \A i \in 1..n : d[i] \in {plan[k].row : k \in 1..(m + n)}
    BY <1>6, <1>9
  <2> QED BY <1>8, <1>11, <2>1, <2>2, <2>3
<1>13. ASSUME NEW i \in 1..(m + n), plan[i].op # "disable"
       PROVE  /\ plan[i].row \in Desired(f)
              /\ plan[i].op = "insert" <=> s[plan[i].row] = "absent"
              /\ plan[i].row \in EndpointRows =>
                     \E k \in 1..(i - 1) : /\ plan[k].op # "disable"
                                          /\ plan[k].row = <<plan[i].row[1]>>
  <2>1. i \in 1..m /\ plan[i].row = u[i] /\ (plan[i].op = "insert" <=> s[u[i]] = "absent")
    BY <1>10, <1>13
  <2>2. ASSUME u[i] \in EndpointRows
        PROVE  \E k \in 1..(i - 1) : plan[k].op # "disable" /\ plan[k].row = <<u[i][1]>>
    <3>1. PICK k \in 1..(i - 1) : u[k] = <<u[i][1]>>
      BY <1>2, <1>4, <2>1, <2>2
    <3>2. k \in 1..m
      BY <1>4, <2>1
    <3> QED BY <1>6, <1>9, <3>1, <3>2
  <2> QED BY <1>11, <2>1, <2>2
<1>14. ASSUME NEW i \in 1..(m + n), plan[i].op = "disable"
       PROVE  /\ plan[i].row \in stale
              /\ \A j \in 1..(m + n) : plan[j].op # "disable" => j < i
  <2>1. ~(i <= m) /\ plan[i].row \in stale
    BY <1>10, <1>11, <1>14
  <2>2. \A j \in 1..(m + n) : plan[j].op # "disable" => j <= m
    BY <1>4, <1>10
  <2> QED BY <1>4, <2>1, <2>2
<1>15. ASSUME NEW i \in 1..(m + n), NEW j \in 1..(m + n), i < j, plan[i].row = plan[j].row
       PROVE  plan[i].op # "disable" /\ plan[j].op = "disable"
  <2>1. CASE i \in 1..m /\ j \in 1..m /\ plan[i].row = u[i] /\ plan[j].row = u[j]
    <3>1. i # j /\ i \in DOMAIN u /\ j \in DOMAIN u
      BY <1>4, <1>15, <2>1
    <3>2. u[i] # u[j]
      BY <1>2, <3>1
    <3> QED BY <1>15, <2>1, <3>2
  <2>2. CASE i - m \in 1..n /\ j - m \in 1..n /\ plan[i].row = d[i - m] /\ plan[j].row = d[j - m]
    <3>1. i - m = j - m
      BY <1>3, <1>4, <1>15, <2>2
    <3> QED BY <1>4, <1>15, <3>1
  <2>3. CASE ~(i <= m) /\ j \in 1..m
    BY <1>4, <1>15, <2>3
  <2> QED BY <1>10, <2>1, <2>2, <2>3
<1>16. f # <<>> => plan # <<>> /\ plan[1].row = <<f[1].group>>
  <2>1. SUFFICES ASSUME f # <<>> PROVE plan # <<>> /\ plan[1].row = <<f[1].group>>
    OBVIOUS
  <2>2. 1 \in 1..m /\ u[1] = <<f[1].group>>
    <3>1. m # 0
      BY <1>2, <2>1 DEF m
    <3> QED BY <1>2, <1>4, <2>1, <3>1
  <2>3. plan[1].row = u[1] /\ 1 \in DOMAIN plan
    BY <1>6, <1>8, <1>9, <2>2
  <2>4. plan # <<>>
    <3>1. DOMAIN <<>> = {}
      OBVIOUS
    <3> QED BY <2>3, <3>1
  <2> QED BY <2>2, <2>3, <2>4
<1>17. \A w \in Desired(f) : \E i \in DOMAIN plan : plan[i].op # "disable" /\ plan[i].row = w
  <2>1. \A w \in Desired(f) : \E i \in 1..m : u[i] = w
    BY <1>11
  <2>2. \A i \in 1..m : i \in DOMAIN plan /\ plan[i].op # "disable" /\ plan[i].row = u[i]
    BY <1>6, <1>8, <1>9
  <2> QED BY <2>1, <2>2
<1> QED BY <1>8, <1>12, <1>13, <1>14, <1>15, <1>16, <1>17 DEF stale

-----------------------------------------------------------------------------
(* The invariant, taken apart: what it says of one replica, as an operator of *)
(* the replica's part of the state, so that it carries over to a step that    *)
(* leaves that part alone.                                                    *)

BlockedOf(t, b, i) == \E k \in 1..(i - 1) : t[k].op = "insert" /\ b[t[k].row] # "absent"
RowsOf(t) == {t[i].row : i \in DOMAIN t}
ToWrite(f, s) == Desired(f) \cup StaleEndpoints(f, s) \cup StaleGroups(f, s)
OnPlanOf(f, s, t, w, b) ==
    /\ DOMAIN w \cup RowsOf(t) = ToWrite(f, s)
    /\ \A x \in DOMAIN w : w[x] = IF x \in Desired(f) THEN "enabled" ELSE "disabled"
    /\ \A i \in DOMAIN t :
           /\ t[i].op # "disable" => t[i].row \in Desired(f)
           /\ t[i].op = "disable" /\ t[i].row \in Desired(f) => BlockedOf(t, b, i)
           /\ \A j \in DOMAIN t : i < j /\ t[i].row = t[j].row => BlockedOf(t, b, i)
FirstOf(f, t, w) ==
    f # <<>> => IF DOMAIN w = {} THEN t # <<>> /\ t[1].row = <<f[1].group>>
                ELSE <<f[1].group>> \in DOMAIN w
SettledOf(f, s, n, b, rows) ==
    n \subseteq {f} => \A x \in rows \ Desired(f) : b[x] = "enabled" => s[x] = "enabled"

Mine(p, f, s, t, w, n, b) ==
    /\ p \in {"stopped", "readGroups", "readEndpoints", "apply", "running"}
    /\ f \in InFiles
    /\ s \in [Rows -> Values]
    /\ t \in Seq(Statements)
    /\ w \in [DOMAIN w -> Values \ {"absent"}]
    /\ DOMAIN w \subseteq Rows \ RowsOf(t)
    /\ n \in SUBSET InFiles
    /\ \A x \in Rows : s[x] # "absent" => b[x] # "absent"
    /\ p = "apply" => OnPlanOf(f, s, t, w, b) /\ FirstOf(f, t, w) /\ SettledOf(f, s, n, b, Rows)
    /\ p # "apply" => DOMAIN w = {} /\ t = <<>>
    /\ p = "readEndpoints" => SettledOf(f, s, n, b, GroupRows)

MineOf(r) == Mine(pc[r], file[r], seen[r], todo[r], writes[r], since[r], db)

(* The tables, and who has locked what. *)
Grouped(b) == \A g \in Groups, e \in Endpoints : b[<<g, e>>] # "absent" => b[<<g>>] # "absent"
Apart(w) == \A r, s \in Replicas : r # s => DOMAIN w[r] \cap DOMAIN w[s] = {}

Shapes ==
    /\ db \in [Rows -> Values]
    /\ DOMAIN pc = Replicas /\ pc = [r \in Replicas |-> pc[r]]
    /\ DOMAIN file = Replicas /\ file = [r \in Replicas |-> file[r]]
    /\ DOMAIN seen = Replicas /\ seen = [r \in Replicas |-> seen[r]]
    /\ DOMAIN todo = Replicas /\ todo = [r \in Replicas |-> todo[r]]
    /\ DOMAIN since = Replicas /\ since = [r \in Replicas |-> since[r]]
    /\ DOMAIN writes = Replicas
    /\ syncs \in 0..MaxSyncs

Parts == Shapes /\ Grouped(db) /\ Apart(writes) /\ \A r \in Replicas : MineOf(r)

(* The invariant, taken apart. *)
LEMMA TakenApart == IInv <=> Parts
<1>1. ASSUME NEW r \in Replicas
      PROVE  /\ OnPlan(r) <=> OnPlanOf(file[r], seen[r], todo[r], writes[r], db)
             /\ FirstGroupFirst(r) <=> FirstOf(file[r], todo[r], writes[r])
             /\ \A rows : Settled(r, rows) <=> SettledOf(file[r], seen[r], since[r], db, rows)
  <2>1. \A i : Blocked(r, i) <=> BlockedOf(todo[r], db, i)
    BY DEF Blocked, BlockedOf
  <2>2. Left(r) = RowsOf(todo[r]) /\ Planned(r) = ToWrite(file[r], seen[r])
    BY DEF Left, RowsOf, Planned, ToWrite
  <2>3. OnPlan(r) <=> OnPlanOf(file[r], seen[r], todo[r], writes[r], db)
    BY <2>1, <2>2 DEF OnPlan, OnPlanOf
  <2>4. FirstGroupFirst(r) <=> FirstOf(file[r], todo[r], writes[r])
    BY DEF FirstGroupFirst, FirstOf
  <2>5. \A rows : Settled(r, rows) <=> SettledOf(file[r], seen[r], since[r], db, rows)
    BY DEF Settled, SettledOf
  <2> QED BY <2>3, <2>4, <2>5
<1>2. ASSUME IInv PROVE Shapes /\ Grouped(db) /\ Apart(writes)
  BY <1>2 DEF IInv, TypeOK, Shapes, Grouped, Apart
<1>3. ASSUME IInv, NEW r \in Replicas PROVE MineOf(r)
  BY <1>1, <1>3 DEF IInv, TypeOK, MineOf, Mine, InFiles, Statements, RowsOf
<1>4. ASSUME Shapes, Grouped(db), Apart(writes), \A r \in Replicas : MineOf(r) PROVE TypeOK
  BY <1>4 DEF Shapes, TypeOK, MineOf, Mine, InFiles, Statements, RowsOf
<1>5. ASSUME Shapes, Grouped(db), Apart(writes), \A r \in Replicas : MineOf(r) PROVE IInv
  BY <1>1, <1>4, <1>5 DEF IInv, MineOf, Mine, Grouped, Apart
<1> QED BY <1>2, <1>3, <1>5 DEF Parts

(* The same, part by part. *)
LEMMA Taken ==
    IInv <=> Shapes /\ Grouped(db) /\ Apart(writes) /\ \A r \in Replicas : MineOf(r)
BY TakenApart DEF Parts

(* The same after a step. *)
LEMMA TakenPrime == Parts' => IInv'
BY TakenApart, PTL

(* A step of one replica that leaves the tables and the others alone. *)
Alone(r) ==
    /\ db' = db
    /\ \A s \in Replicas \ {r} :
           /\ pc'[s] = pc[s] /\ file'[s] = file[s] /\ seen'[s] = seen[s]
           /\ todo'[s] = todo[s] /\ writes'[s] = writes[s] /\ since'[s] = since[s]

(* Such a step keeps the invariant if it keeps what it says of the one replica. *)
LEMMA AloneKeeps ==
    ASSUME IInv, NEW r \in Replicas, Alone(r), Shapes', MineOf(r)',
           \A s \in Replicas \ {r} : DOMAIN writes'[r] \cap DOMAIN writes[s] = {}
    PROVE  IInv'
<1>1. Grouped(db') /\ \A s \in Replicas : MineOf(s)
  BY Taken DEF Alone
<1>2. \A s \in Replicas : MineOf(s)'
  BY <1>1 DEF MineOf, Alone
<1>3. Apart(writes')
  BY Taken DEF Alone, Apart
<1>4. Parts'
  BY <1>1, <1>2, <1>3 DEF Parts
<1> QED BY <1>4, TakenPrime

(* The invariant holds at the start. *)
LEMMA InitInv == Init => IInv
<1>1. SUFFICES ASSUME Init PROVE Shapes /\ Grouped(db) /\ Apart(writes) /\ \A r \in Replicas : MineOf(r)
  BY Taken
<1>2. DOMAIN NoWrites = {} /\ NoWrites \in [DOMAIN NoWrites -> Values \ {"absent"}]
  BY DEF NoWrites
<1>3. Shapes
  BY <1>1, BoundAssumption DEF Init, Shapes, Values
<1>4. Grouped(db)
  BY <1>1, RowFacts DEF Init, Grouped
<1>5. Apart(writes)
  BY <1>1, <1>2 DEF Init, Apart
<1>6. ASSUME NEW r \in Replicas PROVE MineOf(r)
  <2>1. <<>> \in Seq(Statements) /\ DOMAIN <<>> = {}
    OBVIOUS
  <2>2. /\ pc[r] = "stopped" /\ file[r] = <<>> /\ seen[r] = [w \in Rows |-> "absent"]
        /\ todo[r] = <<>> /\ writes[r] = NoWrites /\ since[r] = {}
    BY <1>1 DEF Init
  <2>3. RowsOf(todo[r]) = {}
    BY <2>1, <2>2 DEF RowsOf
  <2> QED BY <1>2, <2>1, <2>2, <2>3 DEF MineOf, Mine, InFiles, Values
<1> QED BY <1>3, <1>4, <1>5, <1>6

-----------------------------------------------------------------------------
(* The steps.                                                                *)

(* Whatever ends a transaction without effect. *)
LEMMA RollBackStep ==
    ASSUME IInv, NEW r \in Replicas, RollBack(r)
    PROVE  IInv'
<1>1. DOMAIN NoWrites = {} /\ NoWrites \in [DOMAIN NoWrites -> Values \ {"absent"}]
  BY DEF NoWrites
<1>2. Shapes /\ MineOf(r)
  BY Taken
<1>3. Alone(r) /\ Shapes'
  BY <1>2 DEF RollBack, Alone, Shapes
<1>4. pc'[r] = "stopped" /\ todo'[r] = <<>> /\ writes'[r] = NoWrites
      /\ file'[r] = file[r] /\ seen'[r] = seen[r] /\ since'[r] = since[r] /\ db' = db
  BY <1>2 DEF RollBack, Shapes
<1>5. <<>> \in Seq(Statements) /\ DOMAIN <<>> = {} /\ RowsOf(<<>>) = {}
  BY DEF RowsOf
<1>6. MineOf(r)'
  BY <1>1, <1>2, <1>4, <1>5 DEF MineOf, Mine
<1> QED BY <1>1, <1>3, <1>4, <1>6, AloneKeeps

(* A start keeps the invariant. *)
LEMMA StartStep ==
    ASSUME IInv, NEW r \in Replicas, Start(r)
    PROVE  IInv'
<1>1. Shapes /\ MineOf(r) /\ Apart(writes)
  BY Taken
<1>2. Alone(r)
  BY <1>1 DEF Start, Alone, Shapes
<1>3. Shapes'
  <2>1. syncs' \in 0..MaxSyncs
    BY <1>1, BoundAssumption DEF Start, Shapes
  <2> QED BY <1>1, <2>1 DEF Start, Shapes
<1>4. /\ pc'[r] = "readGroups" /\ file'[r] \in Files /\ since'[r] = {} /\ pc[r] # "apply"
      /\ todo'[r] = todo[r] /\ writes'[r] = writes[r] /\ seen'[r] = seen[r] /\ db' = db
  BY <1>1 DEF Start, Shapes
<1>5. MineOf(r)'
  BY <1>1, <1>4 DEF MineOf, Mine, InFiles
<1>6. DOMAIN writes'[r] = {}
  BY <1>1, <1>4 DEF MineOf, Mine
<1> QED BY <1>2, <1>3, <1>5, <1>6, AloneKeeps

(* The first read keeps the invariant. *)
LEMMA ReadGroupsStep ==
    ASSUME IInv, NEW r \in Replicas, ReadGroups(r)
    PROVE  IInv'
<1>1. Shapes /\ MineOf(r)
  BY Taken
<1>2. Alone(r) /\ Shapes'
  BY <1>1 DEF ReadGroups, Alone, Shapes
<1> DEFINE s == [w \in Rows |-> IF w \in GroupRows THEN db[w] ELSE "absent"]
<1>3. /\ pc'[r] = "readEndpoints" /\ file'[r] = file[r] /\ since'[r] = {} /\ pc[r] = "readGroups"
      /\ todo'[r] = todo[r] /\ writes'[r] = writes[r] /\ seen'[r] = s /\ db' = db
  BY <1>1 DEF ReadGroups, Shapes
<1>4. s \in [Rows -> Values] /\ \A x \in Rows : s[x] # "absent" => db[x] # "absent"
  BY <1>1 DEF Shapes, Values
<1>5. \A x \in GroupRows : s[x] = db[x]
  BY RowFacts
<1> HIDE DEF s
<1>6. MineOf(r)'
  BY <1>1, <1>3, <1>4, <1>5 DEF MineOf, Mine, SettledOf
<1>7. DOMAIN writes'[r] = {}
  BY <1>1, <1>3 DEF MineOf, Mine
<1> QED BY <1>2, <1>6, <1>7, AloneKeeps

(* A row that a plan would write twice, or disable although the file has it: before its upsert the *)
(* plan inserts its group, which was not there when the groups were read and is there now.         *)
LEMMA NeverTwice ==
    ASSUME NEW f \in InFiles, ~Refused(f), NEW s \in [Rows -> Values], NEW plan \in Plans(f, s),
           NEW b, Grouped(b), \A x \in EndpointRows : s[x] # "absent" => b[x] # "absent",
           NEW i \in DOMAIN plan, plan[i].op # "disable",
           plan[i].row \in StaleEndpoints(f, s) \cup StaleGroups(f, s)
    PROVE  BlockedOf(plan, b, i)
<1> DEFINE w == plan[i].row
<1>1. w \in Desired(f)
  BY PlanFacts
<1>2. w \in EndpointRows /\ s[w] = "enabled" /\ s[<<w[1]>>] = "absent"
  BY <1>1 DEF StaleEndpoints, StaleGroups
<1>3. b[<<w[1]>>] # "absent"
  BY <1>2, RowFacts DEF Grouped
<1>4. PICK k \in 1..(i - 1) : plan[k].op # "disable" /\ plan[k].row = <<w[1]>>
  <2>1. w \in EndpointRows =>
           \E k \in 1..(i - 1) : plan[k].op # "disable" /\ plan[k].row = <<w[1]>>
    BY PlanFacts
  <2> HIDE DEF w
  <2> QED BY <1>2, <2>1
<1>5. k \in DOMAIN plan
  <2>1. plan \in Seq(Statements)
    BY PlanFacts
  <2> QED BY <2>1
<1>6. plan[k].op = "insert"
  <2>1. plan[k].op # "disable" => (plan[k].op = "insert" <=> s[plan[k].row] = "absent")
    BY <1>5, PlanFacts
  <2> HIDE DEF w
  <2> QED BY <1>2, <1>4, <2>1
<1> QED BY <1>3, <1>4, <1>6 DEF BlockedOf

(* The second read, and the plan, keep the invariant. *)
LEMMA ReadEndpointsStep ==
    ASSUME IInv, NEW r \in Replicas, ReadEndpoints(r)
    PROVE  IInv'
<1> DEFINE f == file[r]
           s == [w \in Rows |-> IF w \in GroupRows THEN seen[r][w] ELSE db[w]]
           stale == StaleEndpoints(f, s) \cup StaleGroups(f, s)
<1>1. Shapes /\ MineOf(r) /\ Grouped(db)
  BY Taken
<1>2. Alone(r) /\ Shapes'
  BY <1>1 DEF ReadEndpoints, Alone, Shapes
<1>3. PICK plan \in Plans(f, s) : todo' = [todo EXCEPT ![r] = plan]
  BY DEF ReadEndpoints
<1>4. /\ pc'[r] = "apply" /\ file'[r] = f /\ since'[r] = since[r] /\ pc[r] = "readEndpoints"
      /\ todo'[r] = plan /\ writes'[r] = writes[r] /\ seen'[r] = s /\ db' = db /\ ~Refused(f)
  BY <1>1, <1>3 DEF ReadEndpoints, Shapes
<1>5. /\ f \in InFiles /\ seen[r] \in [Rows -> Values] /\ DOMAIN writes[r] = {}
      /\ SettledOf(f, seen[r], since[r], db, GroupRows)
      /\ \A x \in Rows : seen[r][x] # "absent" => db[x] # "absent"
  BY <1>1, <1>4 DEF MineOf, Mine
<1>6. /\ s \in [Rows -> Values]
      /\ \A x \in Rows : s[x] # "absent" => db[x] # "absent"
      /\ \A x \in Rows : IF x \in GroupRows THEN s[x] = seen[r][x] ELSE s[x] = db[x]
  BY <1>1, <1>5 DEF Shapes
<1> HIDE DEF s, f
<1>7. \A x \in EndpointRows : s[x] # "absent" => db[x] # "absent"
  BY <1>6, RowFacts
<1>8. plan \in Seq(Statements)
  BY <1>4, <1>5, <1>6, PlanFacts
<1>9. ASSUME NEW i \in DOMAIN plan, plan[i].op # "disable", plan[i].row \in stale
      PROVE  BlockedOf(plan, db, i)
  BY <1>1, <1>4, <1>5, <1>6, <1>7, <1>9, NeverTwice
<1>10. ASSUME NEW i \in DOMAIN plan, plan[i].op = "disable", plan[i].row \in Desired(f)
       PROVE  BlockedOf(plan, db, i)
  <2>1. plan[i].row \in stale /\ \A j \in DOMAIN plan : plan[j].op # "disable" => j < i
    BY <1>4, <1>5, <1>6, <1>10, PlanFacts
  <2>5. \A w \in Desired(f) : \E j \in DOMAIN plan : plan[j].op # "disable" /\ plan[j].row = w
    BY <1>4, <1>5, <1>6, PlanFacts
  <2>2. PICK j \in DOMAIN plan : plan[j].op # "disable" /\ plan[j].row = plan[i].row
    BY <1>10, <2>5
  <2>3. BlockedOf(plan, db, j) /\ j < i
    BY <1>9, <2>1, <2>2
  <2>4. i \in Int /\ j \in Int
    BY <1>8
  <2> QED BY <2>3, <2>4 DEF BlockedOf
<1>11. ASSUME NEW i \in DOMAIN plan, NEW j \in DOMAIN plan, i < j, plan[i].row = plan[j].row
       PROVE  BlockedOf(plan, db, i)
  <2>1. plan[i].op # "disable" /\ plan[j].op = "disable"
    BY <1>4, <1>5, <1>6, <1>11, PlanFacts
  <2>2. plan[j].row \in stale
    BY <1>4, <1>5, <1>6, <2>1, PlanFacts
  <2> QED BY <1>9, <1>11, <2>1, <2>2
<1>12. OnPlanOf(f, s, plan, writes[r], db)
  <2>1. DOMAIN writes[r] \cup RowsOf(plan) = ToWrite(f, s)
    BY <1>4, <1>5, <1>6, PlanFacts DEF RowsOf, ToWrite
  <2>2. \A i \in DOMAIN plan : plan[i].op # "disable" => plan[i].row \in Desired(f)
    BY <1>4, <1>5, <1>6, PlanFacts
  <2> QED BY <1>5, <1>10, <1>11, <2>1, <2>2 DEF OnPlanOf
<1>13. FirstOf(f, plan, writes[r])
  BY <1>4, <1>5, <1>6, PlanFacts DEF FirstOf
<1>14. SettledOf(f, s, since[r], db, Rows)
  BY <1>5, <1>6 DEF SettledOf
<1>15. MineOf(r)'
  <2>1. DOMAIN writes[r] \subseteq Rows \ RowsOf(plan)
    BY <1>5
  <2> QED BY <1>1, <1>4, <1>5, <1>6, <1>8, <1>12, <1>13, <1>14, <2>1 DEF MineOf, Mine
<1>16. DOMAIN writes'[r] = {}
  BY <1>4, <1>5
<1> QED BY <1>2, <1>15, <1>16, AloneKeeps

(* What one statement leaves of a transaction's statements. *)
LEMMA TailFacts ==
    ASSUME NEW S, NEW t \in Seq(S), t # <<>>
    PROVE  /\ Tail(t) \in Seq(S) /\ 1 \in DOMAIN t /\ Head(t) = t[1] /\ t[1] \in S
           /\ \A i \in DOMAIN Tail(t) :
                 i \in Nat /\ 1 <= i /\ i + 1 \in DOMAIN t /\ Tail(t)[i] = t[i + 1]
           /\ \A i \in DOMAIN t : i = 1 \/ (i - 1 \in DOMAIN Tail(t) /\ Tail(t)[i - 1] = t[i])
<1>1. Len(t) \in Nat /\ Len(t) # 0 /\ DOMAIN t = 1..Len(t)
  OBVIOUS
<1>2. /\ Tail(t) \in Seq(S) /\ Len(Tail(t)) = Len(t) - 1 /\ Head(t) = t[1]
      /\ \A i \in 1..(Len(t) - 1) : Tail(t)[i] = t[i + 1]
  OBVIOUS
<1>3. DOMAIN Tail(t) = 1..(Len(t) - 1) /\ 1 \in DOMAIN t /\ t[1] \in S
  BY <1>1, <1>2
<1>4. \A i \in 1..(Len(t) - 1) : i \in Nat /\ 1 <= i /\ i + 1 \in 1..Len(t)
  BY <1>1
<1>5. \A i \in 1..Len(t) : i = 1 \/ (i - 1 \in 1..(Len(t) - 1) /\ (i - 1) + 1 = i)
  BY <1>1
<1> QED BY <1>1, <1>2, <1>3, <1>4, <1>5

(* A statement that is executed: an update, an insert of a row that is not there, or a disable. *)
LEMMA WriteStep ==
    ASSUME IInv, NEW r \in Replicas, NEW op, NEW value, Write(r, op, value),
           value = IF op = "disable" THEN "disabled" ELSE "enabled",
           op = "insert" => db[Head(todo[r]).row] = "absent"
    PROVE  IInv'
<1> DEFINE f == file[r]
           s == seen[r]
           t == todo[r]
           w == writes[r]
           h == t[1].row
           v == [x \in DOMAIN w \cup {h} |-> IF x = h THEN value ELSE w[x]]
<1>1. Shapes /\ MineOf(r) /\ Apart(writes)
  BY Taken
<1>2. t # <<>> /\ Holders(r) = {} /\ pc[r] = "apply"
  BY DEF Write
<1>3. t \in Seq(Statements)
  BY <1>1 DEF MineOf, Mine
<1> DEFINE u == Tail(t)
<1>4. /\ u \in Seq(Statements) /\ 1 \in DOMAIN t /\ Head(t) = t[1] /\ t[1] \in Statements
      /\ \A i \in DOMAIN u : i \in Nat /\ 1 <= i /\ i + 1 \in DOMAIN t /\ u[i] = t[i + 1]
      /\ \A i \in DOMAIN t : i = 1 \/ (i - 1 \in DOMAIN u /\ u[i - 1] = t[i])
  <2> HIDE DEF t
  <2> QED BY <1>2, <1>3, TailFacts
<1>5. Alone(r) /\ Shapes'
  BY <1>1 DEF Write, Alone, Shapes
<1>6. /\ pc'[r] = pc[r] /\ file'[r] = f /\ seen'[r] = s /\ todo'[r] = u /\ since'[r] = since[r]
      /\ writes'[r] = v /\ db' = db
  BY <1>1, <1>4 DEF Write, Shapes
<1>7. /\ OnPlanOf(f, s, t, w, db) /\ FirstOf(f, t, w) /\ SettledOf(f, s, since[r], db, Rows)
      /\ w \in [DOMAIN w -> Values \ {"absent"}]
      /\ DOMAIN w \subseteq Rows \ RowsOf(t)
      /\ \A x \in Rows : s[x] # "absent" => db[x] # "absent"
      /\ f \in InFiles /\ s \in [Rows -> Values] /\ since[r] \in SUBSET InFiles
  BY <1>1, <1>2 DEF MineOf, Mine
<1>8. op = t[1].op /\ h \in Rows /\ t[1].op \in {"insert", "update", "disable"}
      /\ (op = "insert" => db[h] = "absent")
  BY <1>4 DEF Write, Statements
<1> HIDE DEF f, s, t, w, h, u
<1>9. ~BlockedOf(t, db, 1)
  BY DEF BlockedOf
<1>10. value = (IF h \in Desired(f) THEN "enabled" ELSE "disabled")
  BY <1>4, <1>7, <1>8, <1>9 DEF OnPlanOf, h
<1>11. RowsOf(t) = {h} \cup RowsOf(u) /\ h \notin RowsOf(u)
  <2>1. \A x \in RowsOf(t) : x \in {h} \cup RowsOf(u)
    BY <1>4 DEF RowsOf, h
  <2>2. \A x \in {h} \cup RowsOf(u) : x \in RowsOf(t)
    BY <1>4 DEF RowsOf, h
  <2>3. ASSUME NEW i \in DOMAIN u, u[i].row = h PROVE FALSE
    <3>1. 1 < i + 1 /\ i + 1 \in DOMAIN t /\ t[1].row = t[i + 1].row
      BY <1>4, <2>3 DEF h
    <3> QED BY <1>4, <1>7, <1>9, <3>1 DEF OnPlanOf
  <2> QED BY <2>1, <2>2, <2>3 DEF RowsOf
<1>12. DOMAIN v = DOMAIN w \cup {h} /\ v \in [DOMAIN v -> Values \ {"absent"}]
  BY <1>7, <1>10 DEF Values
<1>13. DOMAIN v \subseteq Rows \ RowsOf(u)
  BY <1>7, <1>8, <1>11, <1>12
<1>14. ASSUME NEW i \in DOMAIN u, BlockedOf(t, db, i + 1) PROVE BlockedOf(u, db, i)
  <2>1. PICK k \in 1..((i + 1) - 1) : t[k].op = "insert" /\ db[t[k].row] # "absent"
    BY <1>14 DEF BlockedOf
  <2>2. k # 1
    BY <1>8, <2>1 DEF h
  <2>3. i \in Nat /\ i + 1 \in DOMAIN t
    BY <1>4
  <2>4. k \in DOMAIN t
    BY <1>3, <2>1, <2>3
  <2>5. k - 1 \in 1..(i - 1) /\ u[k - 1] = t[k]
    BY <1>4, <2>1, <2>2, <2>3, <2>4
  <2> QED BY <2>1, <2>5 DEF BlockedOf
<1>15. OnPlanOf(f, s, u, v, db)
  <2>1. DOMAIN v \cup RowsOf(u) = ToWrite(f, s)
    BY <1>7, <1>11, <1>12 DEF OnPlanOf
  <2>2. \A x \in DOMAIN v : v[x] = IF x \in Desired(f) THEN "enabled" ELSE "disabled"
    BY <1>7, <1>10 DEF OnPlanOf
  <2> HIDE DEF v
  <2>3. ASSUME NEW i \in DOMAIN u
        PROVE  /\ u[i].op # "disable" => u[i].row \in Desired(f)
               /\ u[i].op = "disable" /\ u[i].row \in Desired(f) => BlockedOf(u, db, i)
    <3>1. i + 1 \in DOMAIN t /\ u[i] = t[i + 1]
      BY <1>4
    <3> QED BY <1>7, <1>14, <3>1 DEF OnPlanOf
  <2>4. ASSUME NEW i \in DOMAIN u, NEW j \in DOMAIN u, i < j, u[i].row = u[j].row
        PROVE  BlockedOf(u, db, i)
    <3>1. /\ i + 1 \in DOMAIN t /\ u[i] = t[i + 1] /\ j + 1 \in DOMAIN t /\ u[j] = t[j + 1]
          /\ i + 1 < j + 1
      BY <1>4, <2>4
    <3> QED BY <1>7, <1>14, <2>4, <3>1 DEF OnPlanOf
  <2> QED BY <2>1, <2>2, <2>3, <2>4 DEF OnPlanOf
<1>16. FirstOf(f, u, v)
  BY <1>7, <1>12 DEF FirstOf, h
<1>17. MineOf(r)'
  <2> HIDE DEF v
  <2>1. Mine(pc[r], f, s, u, v, since[r], db)
    BY <1>2, <1>4, <1>7, <1>12, <1>13, <1>15, <1>16 DEF Mine
  <2> QED BY <1>6, <2>1 DEF MineOf
<1>18. \A q \in Replicas \ {r} : DOMAIN writes'[r] \cap DOMAIN writes[q] = {}
  <2>1. \A q \in Replicas \ {r} : h \notin DOMAIN writes[q]
    BY <1>2, <1>4 DEF Holders, h, t
  <2> HIDE DEF v
  <2> QED BY <1>1, <1>6, <1>12, <2>1 DEF Apart, w
<1> QED BY <1>5, <1>17, <1>18, AloneKeeps

(* A commit: what r has written is all that it planned to. *)
LEMMA Whole ==
    ASSUME IInv, NEW r \in Replicas, Commit(r)
    PROVE  /\ DOMAIN writes[r] = ToWrite(file[r], seen[r]) /\ DOMAIN writes[r] \subseteq Rows
           /\ \A x \in Rows : db'[x] = IF x \in DOMAIN writes[r] THEN writes[r][x] ELSE db[x]
           /\ \A x \in DOMAIN writes[r] :
                 writes[r][x] = IF x \in Desired(file[r]) THEN "enabled" ELSE "disabled"
           /\ SettledOf(file[r], seen[r], since[r], db, Rows)
<1>1. MineOf(r)
  BY Taken
<1>2. pc[r] = "apply" /\ todo[r] = <<>>
  BY DEF Commit
<1>3. RowsOf(<<>>) = {}
  BY DEF RowsOf
<1>4. OnPlanOf(file[r], seen[r], todo[r], writes[r], db) /\ DOMAIN writes[r] \subseteq Rows
      /\ SettledOf(file[r], seen[r], since[r], db, Rows)
  BY <1>1, <1>2 DEF MineOf, Mine
<1>5. \A x \in Rows : db'[x] = IF x \in DOMAIN writes[r] THEN writes[r][x] ELSE db[x]
  BY DEF Commit
<1> QED BY <1>2, <1>3, <1>4, <1>5 DEF OnPlanOf

(* A commit keeps the invariant: the others have locked no row of it. *)
LEMMA CommitStep ==
    ASSUME IInv, NEW r \in Replicas, Commit(r)
    PROVE  IInv'
<1> DEFINE f == file[r]
           w == writes[r]
<1>1. Shapes /\ Grouped(db) /\ Apart(writes) /\ \A q \in Replicas : MineOf(q)
  BY Taken
<1>2. /\ DOMAIN w = ToWrite(f, seen[r]) /\ DOMAIN w \subseteq Rows
      /\ \A x \in Rows : db'[x] = IF x \in DOMAIN w THEN w[x] ELSE db[x]
      /\ \A x \in DOMAIN w : w[x] = IF x \in Desired(f) THEN "enabled" ELSE "disabled"
  BY Whole
<1>3. /\ f \in InFiles /\ seen[r] \in [Rows -> Values] /\ w \in [DOMAIN w -> Values \ {"absent"}]
      /\ \A x \in Rows : seen[r][x] # "absent" => db[x] # "absent"
  BY <1>1 DEF MineOf, Mine
<1>4. DOMAIN NoWrites = {} /\ NoWrites \in [DOMAIN NoWrites -> Values \ {"absent"}]
  BY DEF NoWrites
<1>5. Shapes'
  <2>1. db' \in [Rows -> Values]
    BY <1>1, <1>3 DEF Commit, Shapes
  <2> QED BY <1>1, <2>1 DEF Commit, Shapes
<1>6. \A x \in Rows : db[x] # "absent" => db'[x] # "absent"
  BY <1>2
<1>7. Grouped(db')
  <2>1. SUFFICES ASSUME NEW g \in Groups, NEW e \in Endpoints, db'[<<g, e>>] # "absent"
                 PROVE  db'[<<g>>] # "absent"
    BY DEF Grouped
  <2>2. <<g, e>> \in EndpointRows /\ <<g, e>> \notin GroupRows /\ <<g>> \in GroupRows
        /\ <<g, e>> \in Rows /\ <<g>> \in Rows
    BY RowFacts
  <2>3. CASE db[<<g, e>>] # "absent"
    BY <1>1, <1>6, <2>2, <2>3 DEF Grouped
  <2>4. CASE db[<<g, e>>] = "absent"
    <3>1. <<g, e>> \in ToWrite(f, seen[r])
      BY <1>2, <2>1, <2>2, <2>4
    <3>2. seen[r][<<g, e>>] # "enabled"
      BY <1>3, <2>2, <2>4
    <3>3. <<g, e>> \in Desired(f)
      BY <2>2, <3>1, <3>2 DEF ToWrite, StaleEndpoints, StaleGroups
    <3>4. <<g>> \in Desired(f)
      <4>1. /\ \A x \in ToSet(GroupsOf(f)) : x \in GroupRows
            /\ \A x \in ToSet(EndpointsOf(f)) : <<x[1]>> \in ToSet(GroupsOf(f))
        <5> DEFINE gs == GroupsOf(f)
                   es == EndpointsOf(f)
                   S == {x \in EndpointRows : <<x[1]>> \in ToSet(gs)}
        <5>1. gs \in Seq(GroupRows) /\ es \in Seq(S)
          BY <1>3, FileFacts
        <5> HIDE DEF gs, es, S
        <5>2. (\A i \in DOMAIN gs : gs[i] \in GroupRows) /\ (\A i \in DOMAIN es : es[i] \in S)
          BY <5>1
        <5>3. (\A x \in ToSet(gs) : x \in GroupRows) /\ (\A x \in ToSet(es) : x \in S)
          BY <5>2 DEF ToSet
        <5> QED BY <5>3 DEF gs, es, S
      <4>2. <<g, e>>[1] = g
        OBVIOUS
      <4> QED BY <2>2, <3>3, <4>1, <4>2 DEF Desired
    <3>5. <<g>> \in DOMAIN w
      BY <1>2, <3>4 DEF ToWrite
    <3> QED BY <1>2, <2>2, <3>4, <3>5
  <2> QED BY <2>3, <2>4
<1>8. Apart(writes')
  BY <1>1, <1>4 DEF Commit, Apart, Shapes
<1>9. MineOf(r)'
  <2>1. /\ pc'[r] = "running" /\ file'[r] = f /\ seen'[r] = seen[r] /\ todo'[r] = <<>>
        /\ writes'[r] = NoWrites /\ since'[r] = since[r]
    BY <1>1 DEF Commit, Shapes
  <2>2. <<>> \in Seq(Statements) /\ RowsOf(<<>>) = {}
    BY DEF RowsOf
  <2>3. since[r] \in SUBSET InFiles
    BY <1>1 DEF MineOf, Mine
  <2> QED BY <1>3, <1>4, <1>6, <2>1, <2>2, <2>3 DEF MineOf, Mine
<1>10. ASSUME NEW q \in Replicas \ {r} PROVE MineOf(q)'
  <2>1. /\ pc'[q] = pc[q] /\ file'[q] = file[q] /\ seen'[q] = seen[q] /\ todo'[q] = todo[q]
        /\ writes'[q] = writes[q] /\ since'[q] = since[q] \cup {f}
    BY <1>1 DEF Commit, Shapes
  <2>2. Mine(pc[q], file[q], seen[q], todo[q], writes[q], since[q], db)
    BY <1>1 DEF MineOf
  <2>3. ASSUME NEW i, BlockedOf(todo[q], db, i), i - 1 \in Int,
               \A k \in 1..(i - 1) : todo[q][k].row \in Rows
        PROVE  BlockedOf(todo[q], db', i)
    BY <1>6, <2>3 DEF BlockedOf
  <2>4. ASSUME NEW i \in DOMAIN todo[q], BlockedOf(todo[q], db, i)
        PROVE  BlockedOf(todo[q], db', i)
    <3>1. todo[q] \in Seq(Statements)
      BY <2>2 DEF Mine
    <3>2. i - 1 \in Int /\ \A k \in 1..(i - 1) : k \in DOMAIN todo[q]
      BY <3>1
    <3>3. \A k \in DOMAIN todo[q] : todo[q][k].row \in Rows
      <4>1. \A k \in DOMAIN todo[q] : todo[q][k] \in Statements
        BY <3>1
      <4> QED BY <4>1 DEF Statements
    <3> QED BY <2>3, <2>4, <3>2, <3>3
  <2>5. ASSUME NEW rows, rows \subseteq Rows,
               SettledOf(file[q], seen[q], since[q], db, rows)
        PROVE  SettledOf(file[q], seen[q], since[q] \cup {f}, db', rows)
    <3>1. SUFFICES ASSUME since[q] \cup {f} \subseteq {file[q]},
                          NEW x \in rows \ Desired(file[q]), db'[x] = "enabled"
                   PROVE  seen[q][x] = "enabled"
      BY DEF SettledOf
    <3>2. f = file[q] /\ since[q] \subseteq {file[q]} /\ x \in Rows
      BY <2>5, <3>1
    <3>3. x \notin DOMAIN w
      BY <1>2, <3>1, <3>2
    <3>4. db[x] = "enabled"
      BY <1>2, <3>1, <3>2, <3>3
    <3> QED BY <2>5, <3>1, <3>2, <3>4 DEF SettledOf
  <2>6. since[q] \cup {f} \in SUBSET InFiles
    BY <1>3, <2>2 DEF Mine
  <2>7. OnPlanOf(file[q], seen[q], todo[q], writes[q], db)
           => OnPlanOf(file[q], seen[q], todo[q], writes[q], db')
    BY <2>4 DEF OnPlanOf
  <2> HIDE DEF f
  <2>8. Mine(pc[q], file[q], seen[q], todo[q], writes[q], since[q] \cup {f}, db')
    BY <1>6, <2>2, <2>5, <2>6, <2>7, RowFacts DEF Mine
  <2> QED BY <2>1, <2>8 DEF MineOf
<1>11. Parts'
  BY <1>5, <1>7, <1>8, <1>9, <1>10 DEF Parts
<1> QED BY <1>11, TakenPrime

(* One step for each disjunct of Next. *)
LEMMA IInvStep == IInv /\ [Next]_vars => IInv'
<1> SUFFICES ASSUME IInv, [Next]_vars PROVE IInv'
  OBVIOUS
<1>1. CASE UNCHANGED vars
  <2>1. Parts
    BY TakenApart
  <2>2. Parts'
    BY <1>1, <2>1 DEF vars, Parts, Shapes, MineOf
  <2> QED BY <2>2, TakenPrime
<1>2. ASSUME NEW r \in Replicas, Start(r) \/ Step(r) \/ Fail(r) PROVE IInv'
  <2>1. CASE Start(r)
    BY <2>1, StartStep
  <2>2. CASE ReadGroups(r)
    BY <2>2, ReadGroupsStep
  <2>3. CASE ReadEndpoints(r)
    BY <2>3, ReadEndpointsStep
  <2>4. CASE RefuseFile(r)
    BY <2>4, RollBackStep DEF RefuseFile
  <2>5. CASE Update(r)
    BY <2>5, WriteStep DEF Update
  <2>6. CASE Insert(r)
    BY <2>6, WriteStep DEF Insert
  <2>7. CASE DisableStale(r)
    BY <2>7, WriteStep DEF DisableStale
  <2>8. CASE Duplicate(r)
    BY <2>8, RollBackStep DEF Duplicate
  <2>9. CASE Commit(r)
    BY <2>9, CommitStep
  <2>10. CASE AbortDeadlocked(r)
    BY <2>10, RollBackStep DEF AbortDeadlocked
  <2>11. CASE Fail(r)
    BY <2>11, RollBackStep DEF Fail
  <2> QED BY <1>2, <2>1, <2>2, <2>3, <2>4, <2>5, <2>6, <2>7, <2>8, <2>9, <2>10, <2>11 DEF Step
<1> QED BY <1>1, <1>2 DEF Next

-----------------------------------------------------------------------------
(* The theorems.                                                             *)

(* What each transaction wrote, and has left to write, is what its file and what it read call for, *)
(* whatever the others did: the rows it would write twice lie behind an insert that fails          *)
(* (cmd/config_sync.go).                                                                           *)
THEOREM Inductive == Spec => []IInv
BY InitInv, IInvStep, PTL DEF Spec

(* The variables keep to their types, and no transaction writes a row twice. *)
THEOREM TypeCorrect == Spec => []TypeOK
<1>1. IInv => TypeOK
  BY DEF IInv
<1> QED BY <1>1, Inductive, PTL

(* Gateways that start with the same file, if it has a group, never wait for each other in a circle: *)
(* who has locked a row has locked the first group of the file before it.                            *)
THEOREM NoDeadlock == Spec => []SameFileNoDeadlock
<1>1. ASSUME IInv, NEW rs \in SUBSET Replicas, Deadlocked(rs),
             \A r, s \in rs : file[r] = file[s], \A r \in rs : file[r] # <<>>
      PROVE  FALSE
  <2>1. Apart(writes) /\ \A r \in Replicas : MineOf(r)
    BY <1>1, Taken
  <2>2. ASSUME NEW r \in rs
        PROVE  \E s \in rs \ {r} : DOMAIN writes[s] # {}
    BY <1>1 DEF Deadlocked, Holders
  <2>3. ASSUME NEW s \in rs, DOMAIN writes[s] # {}
        PROVE  <<file[s][1].group>> \in DOMAIN writes[s]
    <3>1. pc[s] = "apply" /\ FirstOf(file[s], todo[s], writes[s])
      BY <2>1, <2>3 DEF MineOf, Mine
    <3> QED BY <1>1, <2>3, <3>1 DEF FirstOf
  <2>4. PICK r \in rs : TRUE
    BY <1>1 DEF Deadlocked
  <2>5. PICK s \in rs : DOMAIN writes[s] # {}
    BY <2>2, <2>4
  <2>6. PICK q \in rs : q # s /\ DOMAIN writes[q] # {}
    BY <2>2, <2>5
  <2>7. file[s] = file[q]
    BY <1>1
  <2>8. <<file[s][1].group>> \in DOMAIN writes[s] \cap DOMAIN writes[q]
    BY <2>3, <2>5, <2>6, <2>7
  <2> QED BY <2>1, <2>6, <2>8 DEF Apart
<1>2. IInv => SameFileNoDeadlock
  BY <1>1 DEF SameFileNoDeadlock
<1> QED BY <1>2, Inductive, PTL

(* No transaction waits for one that has ended: a commit and every roll-back give up their rows. *)
LEMMA HoldersLive ==
    ASSUME IInv, NEW r \in Replicas
    PROVE  Holders(r) \subseteq InTransaction
<1>1. ASSUME NEW s \in Holders(r) PROVE s \in InTransaction
  <2>1. s \in Replicas /\ DOMAIN writes[s] # {}
    BY <1>1 DEF Holders
  <2>2. MineOf(s)
    BY <2>1, Taken
  <2>3. pc[s] = "apply"
    BY <2>1, <2>2 DEF MineOf, Mine
  <2> QED BY <2>1, <2>3 DEF InTransaction
<1> QED BY <1>1

(* While gateways synchronise, one of them does not wait for a row, or they wait for each other in *)
(* a circle; and if all have the same file, and a group in it, one of them does not wait: only     *)
(* gateways with different files, or none, need the database to abort one of them.                 *)
THEOREM SomeoneGoesOn ==
    Spec => [](InTransaction # {} =>
                  \/ \E r \in InTransaction : Holders(r) = {}
                  \/ /\ Deadlocked(InTransaction)
                     /\ \/ \E r, s \in InTransaction : file[r] # file[s]
                        \/ \E r \in InTransaction : file[r] = <<>>)
<1> DEFINE Waiting == InTransaction # {} /\ \A r \in InTransaction : Holders(r) # {}
           Unlike == \/ \E r, s \in InTransaction : file[r] # file[s]
                     \/ \E r \in InTransaction : file[r] = <<>>
<1>1. ASSUME IInv, SameFileNoDeadlock, Waiting
      PROVE  Deadlocked(InTransaction) /\ Unlike
  <2>1. InTransaction \in SUBSET Replicas
    BY DEF InTransaction
  <2>2. ASSUME NEW r \in InTransaction PROVE Holders(r) \cap InTransaction # {}
    BY <1>1, <2>1, <2>2, HoldersLive
  <2>3. Deadlocked(InTransaction)
    BY <1>1, <2>2 DEF Deadlocked
  <2> QED BY <1>1, <2>1, <2>3 DEF SameFileNoDeadlock
<1>2. IInv /\ SameFileNoDeadlock =>
         (InTransaction # {} =>
             \/ \E r \in InTransaction : Holders(r) = {}
             \/ Deadlocked(InTransaction) /\ Unlike)
  BY <1>1
<1> QED BY <1>2, Inductive, NoDeadlock, PTL

(* A transaction's commit is the only step that ends it as the start of a running gateway. *)
LEMMA RunningIsCommit ==
    ASSUME IInv, [Next]_vars, NEW r \in Replicas, pc[r] = "apply", pc'[r] = "running"
    PROVE  Commit(r)
<1>1. Shapes
  BY Taken
<1>2. PICK q \in Replicas : Start(q) \/ Step(q) \/ Fail(q)
  BY DEF Next, vars
<1>3. CASE RollBack(q)
  BY <1>1, <1>3 DEF RollBack, Shapes
<1>4. CASE Start(q) \/ ReadGroups(q) \/ ReadEndpoints(q)
  BY <1>1, <1>4 DEF Start, ReadGroups, ReadEndpoints, Shapes
<1>5. CASE Update(q) \/ Insert(q) \/ DisableStale(q)
  BY <1>5 DEF Update, Insert, DisableStale, Write
<1>6. CASE Commit(q)
  BY <1>1, <1>6 DEF Commit, Shapes
<1> QED BY <1>2, <1>3, <1>4, <1>5, <1>6
      DEF Step, RefuseFile, Duplicate, AbortDeadlocked, Fail

(* The start of a gateway leaves every group and endpoint of its file enabled, whatever gateways *)
(* with other files committed meanwhile.                                                         *)
THEOREM StartEnables == Spec => CommitEnablesFile
<1>1. ASSUME IInv, [Next]_vars, NEW r \in Replicas, pc[r] = "apply", pc'[r] = "running"
      PROVE  Desired(file[r]) \subseteq Enabled'
  <2>1. Commit(r)
    BY <1>1, RunningIsCommit
  <2> QED BY <1>1, <2>1, Whole DEF ToWrite, Enabled
<1>2. IInv /\ [Next]_vars =>
          [\A r \in Replicas :
               pc[r] = "apply" /\ pc'[r] = "running" => Desired(file[r]) \subseteq Enabled']_vars
  BY <1>1
<1> QED BY <1>2, Inductive, PTL DEF Spec, CommitEnablesFile

(* If no gateway with another file committed since it began to read, it leaves nothing else enabled. *)
THEOREM StartMirrors == Spec => CommitMirrorsFile
<1>1. ASSUME IInv, [Next]_vars, NEW r \in Replicas, pc[r] = "apply", pc'[r] = "running",
             since[r] \subseteq {file[r]}
      PROVE  Enabled' = Desired(file[r])
  <2> DEFINE f == file[r]
             s == seen[r]
             w == writes[r]
  <2>1. Commit(r)
    BY <1>1, RunningIsCommit
  <2>2. /\ DOMAIN w = ToWrite(f, s) /\ DOMAIN w \subseteq Rows
        /\ \A x \in Rows : db'[x] = IF x \in DOMAIN w THEN w[x] ELSE db[x]
        /\ \A x \in DOMAIN w : w[x] = IF x \in Desired(f) THEN "enabled" ELSE "disabled"
        /\ \A x \in Rows \ Desired(f) : db[x] = "enabled" => s[x] = "enabled"
    BY <1>1, <2>1, Whole DEF SettledOf
  <2> HIDE DEF f, s, w
  <2>3. Desired(f) \subseteq Enabled'
    BY <2>2 DEF ToWrite, Enabled
  <2>4. ASSUME NEW x \in Rows, db'[x] = "enabled", x \notin Desired(f) PROVE FALSE
    <3>1. x \notin DOMAIN w
      BY <2>2, <2>4
    <3>2. s[x] = "enabled"
      BY <2>2, <2>4, <3>1
    <3>3. x \in ToWrite(f, s)
      BY <2>4, <3>2 DEF ToWrite, StaleGroups, StaleEndpoints, Rows
    <3> QED BY <2>2, <3>1, <3>3
  <2>5. Enabled' \subseteq Desired(f)
    BY <2>4 DEF Enabled
  <2> QED BY <2>3, <2>5 DEF f
<1>2. IInv /\ [Next]_vars =>
          [\A r \in Replicas :
               pc[r] = "apply" /\ pc'[r] = "running" /\ since[r] \subseteq {file[r]} =>
                   Enabled' = Desired(file[r])]_vars
  BY <1>1
<1> QED BY <1>2, Inductive, PTL DEF Spec, CommitMirrorsFile
=============================================================================
