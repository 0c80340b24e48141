-------------------------- MODULE HashRings_proofs --------------------------
(***************************************************************************)
(* Theorems about the hash rings of tutorial/04-consistent-hash, for every *)
(* set of nodes, every weight, every number of hashes and every way they   *)
(* collide on the ring with virtual nodes.                                 *)
(***************************************************************************)
EXTENDS HashRings, FiniteSetTheorems, NaturalsInduction, WellFoundedInduction,
        SequenceTheorems, TLAPS

(***************************************************************************)
(* A set of numbers that has a member has a least one.                     *)
(***************************************************************************)
LEMMA MinIsLeast ==
    ASSUME NEW S \in SUBSET Nat, S # {}
    PROVE  Min(S) \in S /\ \A y \in S : Min(S) =< y
<1>1. PICK x \in S : \A y \in S : ~(<<y, x>> \in OpToRel(<, Nat))
    BY WFMin, NatLessThanWellFounded
<1>2. \A y \in S : ~(y < x)
    BY <1>1 DEF OpToRel
<1>3. \A y \in S : x =< y
    BY <1>2
<1> QED BY <1>3 DEF Min

LEMMA MinIs ==
    ASSUME NEW S \in SUBSET Nat, NEW x \in S, \A y \in S : x =< y
    PROVE  Min(S) = x
<1>1. Min(S) \in S /\ Min(S) =< x
    BY MinIsLeast
<1>2. Min(S) \in Nat /\ x \in Nat /\ x =< Min(S)
    BY <1>1
<1> QED BY <1>1, <1>2

(***************************************************************************)
(* What sort.Slice gives: every position of the set, in increasing order.  *)
(***************************************************************************)
Increasing(s) == \A i, j \in 1 .. Len(s) : i < j => s[i] < s[j]

LEMMA SortLemma ==
    ASSUME NEW S \in SUBSET Nat, IsFiniteSet(S)
    PROVE  /\ Sort(S) \in Seq(S) /\ Len(Sort(S)) = Cardinality(S)
           /\ Increasing(Sort(S))
           /\ \A p \in S : \E i \in 1 .. Len(Sort(S)) : Sort(S)[i] = p
<1> DEFINE N == Cardinality(S)
           Below(p) == {q \in S : q < p}
           rank == [p \in S |-> Cardinality(Below(p)) + 1]
<1>1. N \in Nat
    BY FS_CardinalityType
<1>2. ASSUME NEW p \in S
      PROVE  Cardinality(Below(p)) \in Nat /\ Cardinality(Below(p)) < N /\ IsFiniteSet(Below(p))
  <2>1. Below(p) \in SUBSET S /\ p \notin Below(p)
      OBVIOUS
  <2>2. /\ IsFiniteSet(Below(p)) /\ Cardinality(Below(p)) =< N
        /\ N = Cardinality(Below(p)) => S = Below(p)
    <3> HIDE DEF Below
    <3> QED BY <2>1, FS_Subset
  <2>3. Cardinality(Below(p)) \in Nat
    <3> HIDE DEF Below
    <3> QED BY <2>2, FS_CardinalityType
  <2> HIDE DEF Below, N
  <2> QED BY <1>1, <2>1, <2>2, <2>3
<1>3. ASSUME NEW p \in S, NEW q \in S, p < q
      PROVE  Cardinality(Below(p)) < Cardinality(Below(q))
  <2>1. Below(p) \in SUBSET Below(q) /\ p \in Below(q) /\ p \notin Below(p)
    <3>1. p \in Nat /\ q \in Nat /\ \A x \in S : x \in Nat
        OBVIOUS
    <3>2. \A x \in S : x < p => x < q
        BY <1>3, <3>1
    <3>3. \A x \in Below(p) : x \in Below(q)
        BY <3>2
    <3>4. p \in Below(q)
        BY <1>3
    <3>5. p \notin Below(p)
        BY <3>1
    <3> QED BY <3>3, <3>4, <3>5
  <2>2. /\ Cardinality(Below(p)) \in Nat /\ Cardinality(Below(q)) \in Nat
        /\ IsFiniteSet(Below(q))
      BY <1>2
  <2>3. /\ Cardinality(Below(p)) =< Cardinality(Below(q))
        /\ Cardinality(Below(q)) = Cardinality(Below(p)) => Below(q) = Below(p)
    <3> HIDE DEF Below
    <3> QED BY <2>1, <2>2, FS_Subset
  <2> HIDE DEF Below
  <2> QED BY <2>1, <2>2, <2>3
<1>4. rank \in [S -> 1 .. N]
  <2>1. \A p \in S : Cardinality(Below(p)) + 1 \in 1 .. N
    <3> HIDE DEF Below, N
    <3> QED BY <1>1, <1>2
  <2> HIDE DEF Below, N
  <2> QED BY <2>1
<1>5. \A p, q \in S : rank[p] = rank[q] => p = q
  <2> SUFFICES ASSUME NEW p \in S, NEW q \in S, p # q PROVE rank[p] # rank[q]
      OBVIOUS
  <2>1. Cardinality(Below(p)) \in Nat /\ Cardinality(Below(q)) \in Nat
      BY <1>2
  <2>2. p < q \/ q < p
    <3>1. p \in Nat /\ q \in Nat
        OBVIOUS
    <3> QED BY <3>1
  <2>3. Cardinality(Below(p)) # Cardinality(Below(q))
    <3>1. CASE p < q
      <4>1. Cardinality(Below(p)) < Cardinality(Below(q))
          BY <1>3, <3>1
      <4> HIDE DEF Below
      <4> QED BY <2>1, <4>1
    <3>2. CASE q < p
      <4>1. Cardinality(Below(q)) < Cardinality(Below(p))
          BY <1>3, <3>2
      <4> HIDE DEF Below
      <4> QED BY <2>1, <4>1
    <3> QED BY <2>2, <3>1, <3>2
  <2>4. rank[p] = Cardinality(Below(p)) + 1 /\ rank[q] = Cardinality(Below(q)) + 1
      OBVIOUS
  <2> HIDE DEF Below, rank
  <2> QED BY <2>1, <2>3, <2>4
<1>6. \A i \in 1 .. N : \E p \in S : rank[p] = i
  <2>1. rank \in Injection(S, 1 .. N)
    <3> HIDE DEF rank
    <3> QED BY <1>4, <1>5 DEF Injection, IsInjective
  <2>2. IsFiniteSet(1 .. N) /\ Cardinality(1 .. N) = N
    <3> HIDE DEF N
    <3>1. 1 \in Int /\ N \in Int
        BY <1>1
    <3>2. Cardinality(1 .. N) = IF 1 > N THEN 0 ELSE N - 1 + 1
        BY <3>1, FS_Interval
    <3>3. IsFiniteSet(1 .. N)
        BY <3>1, FS_Interval
    <3> QED BY <1>1, <3>2, <3>3
  <2>3. rank \in Surjection(S, 1 .. N)
    <3> HIDE DEF rank
    <3> QED BY <2>1, <2>2, FS_Injection
  <2> HIDE DEF rank
  <2> QED BY <2>3 DEF Surjection
<1>7. ASSUME NEW i \in 1 .. N
      PROVE  Sort(S)[i] \in S /\ rank[Sort(S)[i]] = i
  <2>1. Sort(S)[i] = CHOOSE p \in S : Cardinality(Below(p)) = i - 1
      BY <1>7 DEF Sort
  <2>2. PICK p \in S : rank[p] = i
      BY <1>6
  <2>3. Cardinality(Below(p)) = i - 1
    <3>1. rank[p] = Cardinality(Below(p)) + 1
        OBVIOUS
    <3>2. Cardinality(Below(p)) \in Nat /\ i \in Nat
        BY <1>1, <1>2
    <3> HIDE DEF rank, Below
    <3> QED BY <2>2, <3>1, <3>2
  <2>4. Sort(S)[i] \in S /\ Cardinality(Below(Sort(S)[i])) = i - 1
    <3> HIDE DEF Below
    <3> QED BY <2>1, <2>3
  <2>5. rank[Sort(S)[i]] = Cardinality(Below(Sort(S)[i])) + 1
      BY <2>4
  <2>6. i \in Nat
      BY <1>1
  <2> HIDE DEF rank, Below
  <2> QED BY <2>4, <2>5, <2>6
<1>8. /\ Sort(S) \in Seq(S) /\ Len(Sort(S)) = N
  <2> DEFINE e(i) == CHOOSE p \in S : Cardinality({q \in S : q < p}) = i - 1
  <2>1. Sort(S) = [i \in 1 .. N |-> e(i)]
      BY DEF Sort
  <2>2. PICK f : f = Sort(S)
      OBVIOUS
  <2>3. f = [i \in 1 .. N |-> e(i)] /\ \A i \in 1 .. N : f[i] \in S
      BY <1>7, <2>1, <2>2
  <2> HIDE DEF N, e
  <2>4. f \in [1 .. N -> S]
      BY <2>3
  <2>5. f \in Seq(S) /\ Len(f) = N
      BY <1>1, <2>4
  <2> QED BY <2>2, <2>5
<1>9. Increasing(Sort(S))
  <2> SUFFICES ASSUME NEW i \in 1 .. N, NEW j \in 1 .. N, i < j PROVE Sort(S)[i] < Sort(S)[j]
      BY <1>8 DEF Increasing
  <2>1. Sort(S)[i] \in S /\ Sort(S)[j] \in S /\ rank[Sort(S)[i]] = i /\ rank[Sort(S)[j]] = j
      BY <1>7
  <2>2. PICK p \in S, q \in S : p = Sort(S)[i] /\ q = Sort(S)[j]
      BY <2>1
  <2>3. /\ rank[p] = Cardinality(Below(p)) + 1 /\ rank[q] = Cardinality(Below(q)) + 1
        /\ Cardinality(Below(p)) \in Nat /\ Cardinality(Below(q)) \in Nat
      BY <1>2
  <2>4. p \in Nat /\ q \in Nat /\ i \in Nat /\ j \in Nat
      BY <1>1
  <2>5. Cardinality(Below(p)) < Cardinality(Below(q))
    <3> HIDE DEF rank, Below
    <3> QED BY <2>1, <2>2, <2>3, <2>4
  <2>6. q < p => Cardinality(Below(q)) < Cardinality(Below(p))
      BY <1>3
  <2>7. p # q /\ ~(q < p)
    <3> HIDE DEF Below
    <3> QED BY <2>3, <2>5, <2>6
  <2> QED BY <2>2, <2>4, <2>7
<1>10. ASSUME NEW p \in S PROVE \E i \in 1 .. N : Sort(S)[i] = p
  <2>1. rank[p] \in 1 .. N
    <3> HIDE DEF rank
    <3> QED BY <1>4
  <2>2. Sort(S)[rank[p]] \in S /\ rank[Sort(S)[rank[p]]] = rank[p]
    <3> HIDE DEF rank
    <3> QED BY <1>7, <2>1
  <2>3. Sort(S)[rank[p]] = p
    <3> HIDE DEF rank
    <3> QED BY <1>5, <2>2
  <2> QED BY <2>1, <2>3
<1> QED BY <1>8, <1>9, <1>10

-----------------------------------------------------------------------------
(***************************************************************************)
(* The inductive invariant: the sorted list names the positions of the     *)
(* ring, each once; a node of the basic ring is at its own hash.           *)
(***************************************************************************)
IsRing(ring) == DOMAIN ring \subseteq Position /\ ring \in [DOMAIN ring -> Node]

Lists(list, ring) ==
    /\ list \in Seq(DOMAIN ring) /\ Increasing(list)
    /\ \A p \in DOMAIN ring : \E i \in 1 .. Len(list) : list[i] = p

RingInv ==
    /\ kind \in RingKind /\ hashes \in Hashes[kind]
    /\ IsRing(nodes) /\ Lists(sorted, nodes)
    /\ kind = "basic" => \A h \in DOMAIN nodes : h = nodeHash(nodes[h])

LEMMA PositionLemma ==
    /\ Position \subseteq Nat /\ IsFiniteSet(Position)
    /\ \A S \in SUBSET Position : S \in SUBSET Nat /\ IsFiniteSet(S) /\ Cardinality(S) \in Nat
<1>1. Position \subseteq Nat
    BY SizeAssumption DEF Position
<1>2. IsFiniteSet(Position)
    BY SizeAssumption, FS_Interval DEF Position
<1>3. \A S \in SUBSET Position : IsFiniteSet(S) /\ Cardinality(S) \in Nat
    BY <1>2, FS_Subset, FS_CardinalityType
<1> QED BY <1>1, <1>2, <1>3

LEMMA RangeOfList == \A ring, list : Lists(list, ring) => Range(list) = DOMAIN ring
<1> SUFFICES ASSUME NEW ring, NEW list, Lists(list, ring) PROVE Range(list) = DOMAIN ring
    OBVIOUS
<1>1. DOMAIN list = 1 .. Len(list) /\ \A i \in 1 .. Len(list) : list[i] \in DOMAIN ring
    BY DEF Lists
<1>2. \A p \in DOMAIN ring : \E i \in 1 .. Len(list) : list[i] = p
    BY DEF Lists
<1> QED BY <1>1, <1>2 DEF Range

LEMMA SortedRing == \A ring : IsRing(ring) => Lists(Sort(DOMAIN ring), ring)
<1> SUFFICES ASSUME NEW ring, IsRing(ring) PROVE Lists(Sort(DOMAIN ring), ring)
    OBVIOUS
<1>1. DOMAIN ring \in SUBSET Nat /\ IsFiniteSet(DOMAIN ring)
    BY PositionLemma DEF IsRing
<1> QED BY <1>1, SortLemma DEF Lists

(***************************************************************************)
(* Removing a node from the basic ring cuts its hash out of the list.      *)
(***************************************************************************)
LEMMA RemoveLemma ==
    ASSUME NEW ring, NEW list, IsRing(ring), Lists(list, ring), NEW h \in DOMAIN ring
    PROVE  /\ IsRing(Without(ring, h))
           /\ Lists(RemoveAt(list, CHOOSE i \in 1 .. Len(list) : list[i] = h), Without(ring, h))
<1> DEFINE D == DOMAIN ring \ {h}
<1>1. PICK x : x = CHOOSE i \in 1 .. Len(list) : list[i] = h
    OBVIOUS
<1>2. x \in 1 .. Len(list) /\ list[x] = h
    BY <1>1 DEF Lists
<1>3. DOMAIN Without(ring, h) = D /\ \A p \in D : Without(ring, h)[p] = ring[p]
    BY DEF Without
<1>4. IsRing(Without(ring, h))
  <2>1. Without(ring, h) = [p \in D |-> ring[p]] /\ D \subseteq Position /\ \A p \in D : ring[p] \in Node
      BY DEF Without, IsRing
  <2> QED BY <1>3, <2>1 DEF IsRing
<1>5. list \in Seq(DOMAIN ring) /\ Len(list) \in Nat /\ Increasing(list)
    BY DEF Lists
<1>6. \A i \in 1 .. Len(list) : list[i] \in Nat /\ list[i] \in DOMAIN ring
    BY <1>5, PositionLemma DEF IsRing
<1>7. \A i \in 1 .. Len(list) : i # x => list[i] # h
  <2> SUFFICES ASSUME NEW i \in 1 .. Len(list), i # x PROVE list[i] # h
      OBVIOUS
  <2>1. i < x \/ x < i
      BY <1>2, <1>5
  <2>2. list[i] < list[x] \/ list[x] < list[i]
      BY <1>2, <1>5, <2>1 DEF Increasing
  <2> QED BY <1>2, <1>6, <2>2
<1> DEFINE r == RemoveAt(list, x)
           f(i) == IF i < x THEN i ELSE i + 1
           a == SubSeq(list, 1, x - 1)
           b == SubSeq(list, x + 1, Len(list))
<1>8. Len(a) = x - 1 /\ a \in Seq(DOMAIN ring) /\ \A i \in 1 .. x - 1 : a[i] = list[i]
    BY <1>2, <1>5
<1>9. /\ Len(b) = Len(list) - x /\ b \in Seq(DOMAIN ring)
      /\ \A i \in 1 .. Len(list) - x : b[i] = list[i + x]
    BY <1>2, <1>5
<1>10. r = a \o b
    BY DEF RemoveAt
<1> HIDE DEF a, b, r
<1>11. /\ r \in Seq(DOMAIN ring) /\ Len(r) = Len(list) - 1
       /\ \A i \in 1 .. Len(r) : r[i] = list[f(i)] /\ f(i) \in 1 .. Len(list) /\ f(i) # x
  <2>1. r \in Seq(DOMAIN ring) /\ Len(r) = Len(a) + Len(b)
    <3>1. a \in Seq(DOMAIN ring) /\ b \in Seq(DOMAIN ring)
        BY <1>8, <1>9
    <3> QED BY <1>10, <3>1, ConcatProperties
  <2>2. Len(r) = Len(list) - 1
      BY <1>2, <1>5, <1>8, <1>9, <2>1
  <2>3. ASSUME NEW i \in 1 .. Len(r)
        PROVE  r[i] = list[f(i)] /\ f(i) \in 1 .. Len(list) /\ f(i) # x
    <3>1. CASE i < x
        BY <1>2, <1>5, <1>8, <1>9, <1>10, <2>2, <3>1
    <3>2. CASE ~(i < x)
      <4>1. i - (x - 1) \in 1 .. Len(list) - x /\ i \in Nat /\ x \in Nat
          BY <1>2, <1>5, <2>2, <3>2
      <4>2. r[i] = b[i - (x - 1)]
          BY <1>8, <1>9, <1>10, <3>2, <4>1
      <4>3. b[i - (x - 1)] = list[i - (x - 1) + x]
          BY <1>9, <4>1
      <4>4. i - (x - 1) + x = i + 1
          BY <4>1
      <4> QED BY <1>5, <2>2, <3>2, <4>1, <4>2, <4>3, <4>4
    <3> QED BY <3>1, <3>2
  <2> QED BY <2>1, <2>2, <2>3
<1>12. r \in Seq(D)
  <2>1. \A i \in 1 .. Len(r) : r[i] \in D
      BY <1>6, <1>7, <1>11
  <2> QED BY <1>11, <2>1
<1>13. Increasing(r)
  <2> SUFFICES ASSUME NEW i \in 1 .. Len(r), NEW j \in 1 .. Len(r), i < j PROVE r[i] < r[j]
      BY DEF Increasing
  <2>1. f(i) < f(j)
      BY <1>2, <1>5, <1>11
  <2>2. /\ r[i] = list[f(i)] /\ f(i) \in 1 .. Len(list)
        /\ r[j] = list[f(j)] /\ f(j) \in 1 .. Len(list)
      BY <1>11
  <2> HIDE DEF f
  <2> QED BY <1>5, <2>1, <2>2 DEF Increasing
<1>14. ASSUME NEW p \in D PROVE \E i \in 1 .. Len(r) : r[i] = p
  <2>1. PICK j \in 1 .. Len(list) : list[j] = p
      BY DEF Lists
  <2>2. j # x
      BY <1>2, <2>1
  <2>3. PICK i \in 1 .. Len(r) : f(i) = j
    <3>1. CASE j < x
      <4>1. j \in 1 .. Len(r) /\ f(j) = j
          BY <1>2, <1>5, <1>11, <3>1
      <4> QED BY <4>1
    <3>2. CASE ~(j < x)
      <4>1. j - 1 \in 1 .. Len(r) /\ f(j - 1) = j
          BY <1>2, <1>5, <1>11, <2>2, <3>2
      <4> QED BY <4>1
    <3> QED BY <3>1, <3>2
  <2> QED BY <1>11, <2>1, <2>3
<1>15. Lists(r, Without(ring, h))
    BY <1>3, <1>12, <1>13, <1>14 DEF Lists
<1> QED BY <1>1, <1>4, <1>15 DEF r

-----------------------------------------------------------------------------
(***************************************************************************)
(* Adding a node to the ring with virtual nodes.                           *)
(***************************************************************************)
LEMMA CountLemma == \A n \in Node : virtualNodeCount(n) \in Nat
<1> SUFFICES ASSUME NEW n \in Node PROVE virtualNodeCount(n) \in Nat
    OBVIOUS
<1>1. Weight[n] \in Nat /\ virtualCount \in Nat
    BY NodeAssumption, SizeAssumption
<1>2. virtualCount * Weight[n] \in Nat
    BY <1>1
<1>3. \A x \in Nat : x \div 100 \in Nat
    OBVIOUS
<1> QED BY <1>1, <1>2, <1>3 DEF virtualNodeCount

(* One turn of the loop over the virtual nodes *)
Turn(g, n, i) ==
    IF i = 0 THEN nodes ELSE With(g[i - 1], virtualHash(g[i - 1], hashes[n][i]), n)

(***************************************************************************)
(* The recursion that models the loop defines a function.                  *)
(***************************************************************************)
LEMMA PlacedIs ==
    ASSUME NEW n \in Node
    PROVE  Placed(n) = [i \in 0 .. virtualNodeCount(n) |-> Turn(Placed(n), n, i)]
<1> DEFINE Solves(g, m) == g = [i \in 0 .. m |-> Turn(g, n, i)]
           S == {m \in Nat : ~ \E g : Solves(g, m)}
<1>1. ASSUME S # {} PROVE FALSE
  <2>1. PICK m \in S : \A y \in S : m =< y
    <3>1. S \in SUBSET Nat
        OBVIOUS
    <3> HIDE DEF S
    <3> QED BY <1>1, <3>1, MinIsLeast
  <2>2. CASE m = 0
    <3> DEFINE g == [i \in 0 .. 0 |-> nodes]
    <3>1. Solves(g, 0)
        BY DEF Turn
    <3> QED BY <2>1, <2>2, <3>1
  <2>3. CASE m # 0
    <3>1. m \in Nat /\ m - 1 \in Nat /\ m - 1 \notin S
        BY <2>1, <2>3
    <3>2. PICK g : Solves(g, m - 1)
        BY <3>1
    <3> DEFINE h == [i \in 0 .. m |-> IF i = m THEN Turn(g, n, m) ELSE g[i]]
    <3>3. ASSUME NEW i \in 0 .. m PROVE h[i] = Turn(h, n, i)
      <4>1. i # 0 => i - 1 \in 0 .. m /\ i - 1 # m /\ h[i - 1] = g[i - 1]
          BY <3>1
      <4>2. Turn(h, n, i) = Turn(g, n, i)
          BY <4>1 DEF Turn
      <4>3. i # m => g[i] = Turn(g, n, i)
        <5> SUFFICES ASSUME i # m PROVE g[i] = Turn(g, n, i)
            OBVIOUS
        <5>1. i \in 0 .. m - 1
            BY <3>1
        <5> QED BY <3>2, <5>1
      <4>4. h[i] = Turn(g, n, i)
          BY <4>3
      <4> QED BY <4>2, <4>4
    <3>4. Solves(h, m)
        BY <3>3
    <3> QED BY <2>1, <3>4
  <2> QED BY <2>2, <2>3
<1>2. \E g : Solves(g, virtualNodeCount(n))
    BY <1>1, CountLemma
<1>3. Placed(n) = CHOOSE g : Solves(g, virtualNodeCount(n))
    BY DEF Placed, Turn
<1> QED BY <1>2, <1>3

(* What the ring is once i virtual nodes of n are placed *)
Grown(ring, n, i) ==
    /\ IsRing(ring) /\ DOMAIN nodes \subseteq DOMAIN ring
    /\ \A h \in DOMAIN nodes : ring[h] = nodes[h]
    /\ \A h \in DOMAIN ring \ DOMAIN nodes : ring[h] = n
    /\ Cardinality(DOMAIN ring \ DOMAIN nodes) = i

(***************************************************************************)
(* The inner loop of AddNode ends at a hash that is free, and the virtual  *)
(* node put there is one more.                                             *)
(***************************************************************************)
LEMMA FreeHash ==
    ASSUME NEW ring, NEW tries \in Seq(Position), ~(Range(tries) \subseteq DOMAIN ring)
    PROVE  virtualHash(ring, tries) \in Position \ DOMAIN ring
<1> DEFINE I == {i \in 1 .. Len(tries) : tries[i] \notin DOMAIN ring}
<1>1. I # {}
    BY DEF Range
<1>2. I \in SUBSET Nat
    OBVIOUS
<1>3. Min(I) \in I
  <2> HIDE DEF I
  <2> QED BY <1>1, <1>2, MinIsLeast
<1>4. virtualHash(ring, tries) = tries[Min(I)]
    BY DEF virtualHash
<1>5. \A i \in I : tries[i] \in Position \ DOMAIN ring
    OBVIOUS
<1> HIDE DEF I
<1> QED BY <1>3, <1>4, <1>5

LEMMA GrownStep ==
    ASSUME NEW n \in Node, NEW i \in Nat, NEW ring, Grown(ring, n, i),
           NEW h \in Position \ DOMAIN ring
    PROVE  Grown(With(ring, h, n), n, i + 1)
<1> DEFINE r == With(ring, h, n)
<1>1. /\ DOMAIN r = DOMAIN ring \cup {h} /\ r[h] = n
      /\ \A p \in DOMAIN ring : r[p] = ring[p]
    BY DEF With
<1>2. IsRing(r)
  <2>1. \A p \in DOMAIN ring \cup {h} : (IF p = h THEN n ELSE ring[p]) \in Node
      BY DEF Grown, IsRing
  <2>2. DOMAIN r \subseteq Position
      BY <1>1 DEF Grown, IsRing
  <2>3. r \in [DOMAIN ring \cup {h} -> Node]
      BY <2>1 DEF With
  <2> HIDE DEF r
  <2> QED BY <1>1, <2>2, <2>3 DEF IsRing
<1> HIDE DEF r
<1>3. h \notin DOMAIN nodes
    BY DEF Grown
<1>4. Cardinality(DOMAIN r \ DOMAIN nodes) = i + 1
  <2> DEFINE New == DOMAIN ring \ DOMAIN nodes
  <2>1. DOMAIN r \ DOMAIN nodes = New \cup {h} /\ h \notin New
      BY <1>1, <1>3
  <2>2. IsFiniteSet(New) /\ Cardinality(New) = i
      BY PositionLemma DEF Grown, IsRing
  <2> HIDE DEF New
  <2> QED BY <2>1, <2>2, FS_AddElement
<1>5. /\ DOMAIN nodes \subseteq DOMAIN r
      /\ \A p \in DOMAIN nodes : r[p] = nodes[p]
      /\ \A p \in DOMAIN r \ DOMAIN nodes : r[p] = n
    BY <1>1, <1>3 DEF Grown
<1>6. Grown(r, n, i + 1)
    BY <1>2, <1>4, <1>5 DEF Grown
<1> QED BY <1>6 DEF r

LEMMA PlacedLemma ==
    ASSUME RingInv, NEW n \in Node, kind = "virtual", FindsFree(n)
    PROVE  Grown(Placed(n)[virtualNodeCount(n)], n, virtualNodeCount(n))
<1> DEFINE N == virtualNodeCount(n)
           R(i) == Placed(n)[i]
           S == {i \in 0 .. N : ~Grown(R(i), n, i)}
<1>0. N \in Nat
    BY CountLemma
<1>1. \A i \in 0 .. N : R(i) = Turn(Placed(n), n, i)
    BY PlacedIs
<1>2. Grown(R(0), n, 0)
  <2>1. R(0) = nodes
      BY <1>0, <1>1 DEF Turn
  <2>2. DOMAIN nodes \ DOMAIN nodes = {}
      OBVIOUS
  <2>3. Cardinality(DOMAIN nodes \ DOMAIN nodes) = 0
      BY <2>2, FS_EmptySet
  <2> QED BY <2>1, <2>3 DEF Grown, RingInv
<1>3. ASSUME NEW i \in 1 .. N, Grown(R(i - 1), n, i - 1) PROVE Grown(R(i), n, i)
  <2>1. i - 1 \in Nat /\ (i - 1) + 1 = i /\ i \in 0 .. N /\ i # 0
      BY <1>0
  <2>2. PICK h : h = virtualHash(R(i - 1), hashes[n][i])
      OBVIOUS
  <2>3. R(i) = With(R(i - 1), h, n)
      BY <1>1, <2>1, <2>2 DEF Turn
  <2>4. hashes[n][i] \in Seq(Position)
      BY HashesAssumption DEF RingInv
  <2>5. ~(Range(hashes[n][i]) \subseteq DOMAIN R(i - 1))
      BY DEF FindsFree
  <2>6. h \in Position \ DOMAIN R(i - 1)
    <3> HIDE DEF R
    <3> QED BY <2>2, <2>4, <2>5, FreeHash
  <2> HIDE DEF R
  <2>7. Grown(With(R(i - 1), h, n), n, (i - 1) + 1)
      BY <1>3, <2>1, <2>6, GrownStep
  <2> QED BY <2>1, <2>3, <2>7
<1>4. ASSUME S # {} PROVE FALSE
  <2>1. PICK i \in S : \A y \in S : i =< y
    <3>1. S \in SUBSET Nat
        BY <1>0
    <3> HIDE DEF S
    <3> QED BY <1>4, <3>1, MinIsLeast
  <2> HIDE DEF R, N
  <2>2. i # 0
      BY <1>2, <2>1
  <2>3. i \in 1 .. N /\ i - 1 \in 0 .. N /\ i - 1 \notin S
      BY <1>0, <2>1, <2>2
  <2> QED BY <1>3, <2>1, <2>3
<1>5. N \in 0 .. N
    BY <1>0
<1> HIDE DEF R, N
<1>6. Grown(R(N), n, N)
    BY <1>4, <1>5
<1> QED BY <1>6 DEF R, N

-----------------------------------------------------------------------------
LEMMA RingInit == ASSUME Init PROVE RingInv /\ WeightsHold
<1>1. nodes = EmptyMap /\ sorted = <<>> /\ physical = {} /\ DOMAIN nodes = {}
    BY DEF Init, EmptyMap
<1>2. IsRing(nodes)
    BY <1>1 DEF IsRing, EmptyMap
<1>3. Lists(sorted, nodes)
  <2>1. <<>> \in Seq(DOMAIN nodes) /\ Len(<<>>) = 0
      OBVIOUS
  <2> QED BY <1>1, <2>1 DEF Lists, Increasing
<1>4. WeightsHold
  <2>1. \A n \in Node : {h \in DOMAIN nodes : nodes[h] = n} = {}
      BY <1>1
  <2>2. Cardinality({}) = 0
      BY FS_EmptySet
  <2> QED BY <1>1, <2>1, <2>2 DEF WeightsHold
<1> QED BY <1>1, <1>2, <1>3, <1>4 DEF RingInv, Init

(***************************************************************************)
(* What a step does to the ring, for the node it is about: the nodes of    *)
(* the other positions stay, and the list stays that of the ring.          *)
(***************************************************************************)
Changes(n) == AddNode(n) \/ RemoveNode(n) \/ AddVirtualNode(n) \/ RemoveVirtualNode(n)

Owned(ring, n) == {h \in DOMAIN ring : ring[h] = n}

LEMMA AddStep ==
    ASSUME RingInv, NEW n \in Node, AddNode(n)
    PROVE  RingInv' /\ \A m \in Node \ {n} : Owned(nodes', m) = Owned(nodes, m)
<1> DEFINE x == nodeHash(n)
<1>1. kind = "basic" /\ kind' = kind /\ hashes' = hashes /\ x \notin DOMAIN nodes
    BY DEF AddNode
<1>2. x \in Position
  <2>1. hashes[n][1] \in Seq(Position) \ {<<>>}
      BY <1>1, HashesAssumption DEF RingInv
  <2> QED BY <2>1 DEF nodeHash
<1>3. nodes' = With(nodes, x, n) /\ sorted' = Sort(Range(sorted) \cup {x})
    BY DEF AddNode
<1> HIDE DEF x
<1>4. /\ DOMAIN nodes' = DOMAIN nodes \cup {x} /\ nodes'[x] = n
      /\ \A h \in DOMAIN nodes : nodes'[h] = nodes[h]
    BY <1>1, <1>3 DEF With
<1>5. IsRing(nodes)'
  <2>1. nodes' \in [DOMAIN nodes \cup {x} -> Node]
    <3>1. \A p \in DOMAIN nodes \cup {x} : (IF p = x THEN n ELSE nodes[p]) \in Node
        BY DEF RingInv, IsRing
    <3> QED BY <1>3, <3>1 DEF With
  <2>2. DOMAIN nodes' \subseteq Position
      BY <1>2, <1>4 DEF RingInv, IsRing
  <2> QED BY <1>4, <2>1, <2>2 DEF IsRing, Position
<1>6. Lists(sorted, nodes)'
  <2>1. Range(sorted) = DOMAIN nodes
      BY RangeOfList DEF RingInv
  <2>2. sorted' = Sort(DOMAIN nodes')
      BY <1>3, <1>4, <2>1
  <2>3. Lists(Sort(DOMAIN nodes'), nodes')
      BY <1>5, SortedRing
  <2> QED BY <2>2, <2>3
<1>7. \A h \in DOMAIN nodes' : h = nodeHash(nodes'[h])
    BY <1>1, <1>4 DEF RingInv, x, nodeHash
<1>8. RingInv'
    BY <1>1, <1>5, <1>6, <1>7 DEF RingInv, nodeHash
<1> QED BY <1>4, <1>8 DEF Owned

LEMMA RemoveStep ==
    ASSUME RingInv, NEW n \in Node, RemoveNode(n)
    PROVE  RingInv' /\ \A m \in Node \ {n} : Owned(nodes', m) = Owned(nodes, m)
<1> DEFINE x == nodeHash(n)
<1>1. kind = "basic" /\ kind' = kind /\ hashes' = hashes /\ x \in DOMAIN nodes
    BY DEF RemoveNode
<1>2. nodes' = Without(nodes, x)
      /\ sorted' = RemoveAt(sorted, CHOOSE i \in 1 .. Len(sorted) : sorted[i] = x)
    BY DEF RemoveNode
<1>3. nodes[x] = n
  <2>1. nodes[x] \in Node /\ nodeHash(nodes[x]) = nodeHash(n)
      BY <1>1 DEF RingInv, IsRing
  <2> QED BY <1>1, <2>1, DistinctAssumption DEF nodeHash, RingInv
<1> HIDE DEF x
<1>4. IsRing(nodes') /\ Lists(sorted', nodes')
    BY <1>1, <1>2, RemoveLemma DEF RingInv
<1>5. DOMAIN nodes' = DOMAIN nodes \ {x} /\ \A h \in DOMAIN nodes' : nodes'[h] = nodes[h]
    BY <1>2 DEF Without
<1>6. \A h \in DOMAIN nodes' : h = nodeHash(nodes'[h])
    BY <1>1, <1>5 DEF RingInv
<1>7. RingInv'
    BY <1>1, <1>4, <1>6 DEF RingInv, nodeHash
<1> QED BY <1>3, <1>5, <1>7 DEF Owned

LEMMA AddVirtualStep ==
    ASSUME RingInv, NEW n \in Node, AddVirtualNode(n)
    PROVE  /\ RingInv' /\ \A m \in Node \ {n} : Owned(nodes', m) = Owned(nodes, m)
           /\ Grown(nodes', n, virtualNodeCount(n))
<1>1. kind = "virtual" /\ kind' = kind /\ hashes' = hashes /\ FindsFree(n)
      /\ nodes' = Placed(n)[virtualNodeCount(n)]
      /\ sorted' = Sort(Range(sorted) \cup (DOMAIN nodes' \ DOMAIN nodes))
    BY DEF AddVirtualNode
<1>2. Grown(nodes', n, virtualNodeCount(n))
    BY <1>1, PlacedLemma
<1>3. IsRing(nodes')
    BY <1>2 DEF Grown
<1>4. Lists(sorted', nodes')
  <2>1. Range(sorted) = DOMAIN nodes
      BY RangeOfList DEF RingInv
  <2>2. sorted' = Sort(DOMAIN nodes')
    <3>1. DOMAIN nodes \cup (DOMAIN nodes' \ DOMAIN nodes) = DOMAIN nodes'
        BY <1>2 DEF Grown
    <3> QED BY <1>1, <2>1, <3>1
  <2> QED BY <1>3, <2>2, SortedRing
<1>5. RingInv'
    BY <1>1, <1>3, <1>4 DEF RingInv
<1>6. \A m \in Node \ {n} : Owned(nodes', m) = Owned(nodes, m)
    BY <1>2 DEF Grown, Owned
<1> QED BY <1>2, <1>5, <1>6

LEMMA RemoveVirtualStep ==
    ASSUME RingInv, NEW n \in Node, RemoveVirtualNode(n)
    PROVE  /\ RingInv' /\ \A m \in Node \ {n} : Owned(nodes', m) = Owned(nodes, m)
           /\ Owned(nodes', n) = {}
<1> DEFINE D == {p \in DOMAIN nodes : nodes[p] # n}
<1>1. kind = "virtual" /\ kind' = kind /\ hashes' = hashes
      /\ nodes' = [h \in D |-> nodes[h]] /\ sorted' = Sort(DOMAIN nodes')
    BY DEF RemoveVirtualNode
<1>2. DOMAIN nodes' = D /\ \A h \in D : nodes'[h] = nodes[h]
    BY <1>1
<1>3. IsRing(nodes')
  <2>1. D \subseteq Position /\ \A h \in D : nodes[h] \in Node
      BY DEF RingInv, IsRing
  <2> QED BY <1>1, <1>2, <2>1 DEF IsRing
<1>4. Lists(sorted', nodes')
    BY <1>1, <1>3, SortedRing
<1>5. RingInv'
    BY <1>1, <1>3, <1>4 DEF RingInv
<1> QED BY <1>2, <1>5 DEF Owned

LEMMA RingStep ==
    ASSUME RingInv, NEW n \in Node, Changes(n)
    PROVE  RingInv' /\ \A m \in Node \ {n} : Owned(nodes', m) = Owned(nodes, m)
BY AddStep, RemoveStep, AddVirtualStep, RemoveVirtualStep DEF Changes

LEMMA RingNext == ASSUME RingInv, [Next]_vars PROVE RingInv'
<1>1. CASE UNCHANGED vars
    BY <1>1 DEF vars, RingInv, IsRing, Lists, Increasing, Position, nodeHash
<1>2. CASE Next
    BY <1>2, RingStep DEF Next, Changes
<1> QED BY <1>1, <1>2

LEMMA WeightsNext == ASSUME RingInv, WeightsHold, [Next]_vars PROVE WeightsHold'
<1> DEFINE Wants(n) == IF n \in physical THEN virtualNodeCount(n) ELSE 0
<1>0. kind = "virtual" => \A n \in Node : Cardinality(Owned(nodes, n)) = Wants(n)
    BY DEF WeightsHold, Owned
<1>1. ASSUME kind' = kind,
             kind = "virtual" => \A n \in Node : Cardinality(Owned(nodes', n)) = Wants(n)'
      PROVE  WeightsHold'
    BY <1>1 DEF WeightsHold, Owned, virtualNodeCount
<1>2. CASE UNCHANGED vars
    BY <1>0, <1>1, <1>2 DEF vars, virtualNodeCount
<1>3. ASSUME NEW n \in Node, AddNode(n) \/ RemoveNode(n) PROVE WeightsHold'
    BY <1>1, <1>3 DEF AddNode, RemoveNode
<1>4. ASSUME NEW n \in Node, AddVirtualNode(n) PROVE WeightsHold'
  <2>1. kind = "virtual" /\ kind' = kind /\ n \notin physical /\ physical' = physical \cup {n}
      BY <1>4 DEF AddVirtualNode
  <2>2. \A m \in Node \ {n} : Cardinality(Owned(nodes', m)) = Wants(m)'
      BY <1>0, <1>4, <2>1, AddVirtualStep DEF virtualNodeCount
  <2>3. Owned(nodes, n) = {}
    <3>1. Cardinality(Owned(nodes, n)) = 0
        BY <1>0, <2>1
    <3>2. IsFiniteSet(Owned(nodes, n))
      <4>1. Owned(nodes, n) \in SUBSET Position
          BY DEF Owned, RingInv, IsRing
      <4> QED BY <4>1, PositionLemma
    <3> QED BY <3>1, <3>2, FS_EmptySet
  <2>4. Grown(nodes', n, virtualNodeCount(n))
      BY <1>4, AddVirtualStep
  <2>5. Owned(nodes', n) = DOMAIN nodes' \ DOMAIN nodes
      BY <2>3, <2>4 DEF Owned, Grown
  <2>6. Cardinality(Owned(nodes', n)) = Wants(n)'
      BY <2>1, <2>4, <2>5 DEF Grown, virtualNodeCount
  <2> HIDE DEF Wants
  <2> QED BY <1>1, <2>1, <2>2, <2>6
<1>5. ASSUME NEW n \in Node, RemoveVirtualNode(n) PROVE WeightsHold'
  <2>1. kind = "virtual" /\ kind' = kind /\ physical' = physical \ {n}
      BY <1>5 DEF RemoveVirtualNode
  <2>2. \A m \in Node \ {n} : Cardinality(Owned(nodes', m)) = Wants(m)'
      BY <1>0, <1>5, <2>1, RemoveVirtualStep DEF virtualNodeCount
  <2>3. Cardinality(Owned(nodes', n)) = Wants(n)'
      BY <1>5, <2>1, RemoveVirtualStep, FS_EmptySet
  <2> HIDE DEF Wants
  <2> QED BY <1>1, <2>1, <2>2, <2>3
<1> QED BY <1>2, <1>3, <1>4, <1>5 DEF Next

(***************************************************************************)
(* Every member of the ring with virtual nodes has as many as its weight   *)
(* asks for, however the hashes of the names collide: AddNode places each  *)
(* at a hash that was free, and RemoveNode takes away the node's own.      *)
(***************************************************************************)
THEOREM WeightsSafe == Spec => []WeightsHold
<1>1. Init => RingInv /\ WeightsHold
    BY RingInit
<1>2. RingInv /\ WeightsHold /\ [Next]_vars => (RingInv /\ WeightsHold)'
    BY RingNext, WeightsNext
<1> QED BY <1>1, <1>2, PTL DEF Spec

-----------------------------------------------------------------------------
(***************************************************************************)
(* The walk of GetNodes.  For a key, the i-th position that it looks at,   *)
(* and how far that is from the key.                                       *)
(***************************************************************************)
Place(list, k, i) == list[1 + ((Search(list, k) + i - 1) % Len(list))]

Far(list, k, i) == (Place(list, k, i) - k) % Size

LEMMA ModLemma ==
    ASSUME NEW L \in Nat \ {0}, NEW a \in Int
    PROVE  /\ 0 =< a /\ a < L => a % L = a
           /\ L =< a /\ a < 2 * L => a % L = a - L
           /\ 0 - L =< a /\ a < 0 => a % L = a + L
<1>1. /\ a % L \in 0 .. L - 1 /\ a \div L \in Int
      /\ a = L * (a \div L) + (a % L)
    OBVIOUS
<1>2. PICK q \in Int, r \in 0 .. L - 1 : q = a \div L /\ r = a % L /\ a = L * q + r
    BY <1>1
<1>3. ASSUME q >= 1 PROVE L * q >= L
    BY <1>3
<1>4. ASSUME q >= 2 PROVE L * q >= 2 * L
    BY <1>4
<1>5. ASSUME q =< -1 PROVE L * q =< 0 - L
    BY <1>5
<1>6. ASSUME q =< -2 PROVE L * q =< 0 - 2 * L
    BY <1>6
<1>7. L * q \in Int /\ (q = 0 => L * q = 0) /\ (q = 1 => L * q = L) /\ (q = -1 => L * q = 0 - L)
    BY <1>2
<1>8. 0 =< a /\ a < L => r = a
    BY <1>2, <1>3, <1>5, <1>7
<1>9. L =< a /\ a < 2 * L => r = a - L
    BY <1>2, <1>3, <1>4, <1>5, <1>7
<1>10. 0 - L =< a /\ a < 0 => r = a + L
    BY <1>2, <1>3, <1>5, <1>6, <1>7
<1> QED BY <1>2, <1>8, <1>9, <1>10

(***************************************************************************)
(* The binary search parts the hashes that are smaller than the key's from *)
(* the others.                                                             *)
(***************************************************************************)
LEMMA SearchLemma ==
    ASSUME NEW ring, NEW list, IsRing(ring), Lists(list, ring), NEW k \in Position
    PROVE  /\ Search(list, k) \in 0 .. Len(list)
           /\ \A j \in 1 .. Len(list) : list[j] \in Position /\ (j =< Search(list, k) <=> list[j] < k)
<1> DEFINE L == Len(list)
           A == {j \in 1 .. L : list[j] >= k}
           C == {i - 1 : i \in A} \cup {L}
<1>1. L \in Nat /\ list \in Seq(DOMAIN ring) /\ Increasing(list)
    BY DEF Lists
<1>2. \A j \in 1 .. L : list[j] \in Position /\ list[j] \in Nat
    BY <1>1, PositionLemma DEF IsRing
<1>3. k \in Nat
    BY PositionLemma
<1>4. C \in SUBSET Nat /\ C # {}
    BY <1>1
<1>5. PICK s : s = Search(list, k)
    OBVIOUS
<1>6. s \in C /\ \A y \in C : s =< y
  <2>1. s = Min(C)
      BY <1>5 DEF Search
  <2> HIDE DEF C
  <2> QED BY <1>4, <2>1, MinIsLeast
<1>7. s \in 0 .. L
    BY <1>1, <1>6
<1>8. ASSUME NEW j \in 1 .. L, j =< s PROVE list[j] < k
  <2>1. ASSUME j \in A PROVE FALSE
    <3>1. j - 1 \in C
        BY <2>1
    <3>2. s =< j - 1
        BY <1>6, <3>1
    <3> QED BY <1>1, <1>7, <1>8, <3>2
  <2>2. ~(list[j] >= k)
      BY <2>1
  <2> QED BY <1>2, <1>3, <2>2
<1>9. ASSUME NEW j \in 1 .. L, ~(j =< s) PROVE ~(list[j] < k)
  <2>1. s # L
      BY <1>1, <1>9
  <2>2. PICK i \in A : s = i - 1
      BY <1>6, <2>1
  <2>3. i \in 1 .. L /\ list[i] >= k
      OBVIOUS
  <2>4. i = j \/ i < j
      BY <1>1, <1>7, <1>9, <2>2, <2>3
  <2>5. list[j] >= k
    <3>1. CASE i = j
        BY <2>3, <3>1
    <3>2. CASE i < j
      <4>1. list[i] < list[j]
          BY <1>1, <2>3, <3>2 DEF Increasing
      <4> QED BY <1>2, <1>3, <2>3, <4>1
    <3> QED BY <2>4, <3>1, <3>2
  <2> QED BY <1>2, <1>3, <2>5
<1> QED BY <1>2, <1>5, <1>7, <1>8, <1>9

(***************************************************************************)
(* The walk goes over all positions, from the nearest to the farthest.     *)
(***************************************************************************)
LEMMA WalkLemma ==
    ASSUME NEW ring, NEW list, IsRing(ring), Lists(list, ring), NEW k \in Position
    PROVE  /\ \A i \in 1 .. Len(list) : Place(list, k, i) \in DOMAIN ring /\ Far(list, k, i) \in Nat
           /\ \A i, j \in 1 .. Len(list) : i < j => Far(list, k, i) < Far(list, k, j)
           /\ \A p \in DOMAIN ring : \E i \in 1 .. Len(list) : Place(list, k, i) = p
<1> DEFINE L == Len(list)
           s == Search(list, k)
           x(i) == IF s + i =< L THEN s + i ELSE s + i - L
           far(i) == IF s + i =< L THEN list[x(i)] - k ELSE list[x(i)] - k + Size
<1>1. L \in Nat /\ list \in Seq(DOMAIN ring) /\ Increasing(list)
    BY DEF Lists
<1>2. s \in 0 .. L /\ \A j \in 1 .. L : list[j] \in Position /\ (j =< s <=> list[j] < k)
    BY SearchLemma
<1>3. Size \in Nat \ {0} /\ k \in 0 .. Size - 1 /\ \A j \in 1 .. L : list[j] \in 0 .. Size - 1
    BY <1>2, SizeAssumption DEF Position
<1> HIDE DEF s, L
<1>4. ASSUME NEW i \in 1 .. L PROVE x(i) \in 1 .. L /\ Place(list, k, i) = list[x(i)]
  <2>1. x(i) \in 1 .. L
      BY <1>1, <1>2
  <2>2. s + i - 1 \in Int /\ L \in Nat \ {0}
      BY <1>1, <1>2
  <2>a. PICK y \in Int : y = s + i - 1
      BY <2>2
  <2>3. 1 + ((s + i - 1) % L) = x(i)
    <3>1. CASE s + i =< L
      <4>1. 0 =< y /\ y < L
          BY <1>1, <1>2, <2>a, <3>1
      <4>2. y % L = y
          BY <2>2, <4>1, ModLemma
      <4>3. 1 + y = s + i
          BY <1>1, <1>2, <2>a
      <4> QED BY <2>a, <3>1, <4>2, <4>3
    <3>2. CASE ~(s + i =< L)
      <4>1. L =< y /\ y < 2 * L
          BY <1>1, <1>2, <2>a, <3>2
      <4>2. y % L = y - L
          BY <2>2, <4>1, ModLemma
      <4>3. 1 + (y - L) = s + i - L
          BY <1>1, <1>2, <2>a
      <4> QED BY <2>a, <3>2, <4>2, <4>3
    <3> QED BY <3>1, <3>2
  <2> HIDE DEF x
  <2> QED BY <2>1, <2>3 DEF Place, s, L
<1>5. ASSUME NEW i \in 1 .. L
      PROVE  Far(list, k, i) = far(i) /\ far(i) \in 0 .. Size - 1
  <2>1. PICK p \in 0 .. Size - 1 : p = list[x(i)] /\ p = Place(list, k, i)
    <3> HIDE DEF x
    <3> QED BY <1>3, <1>4
  <2>2. x(i) \in 1 .. L /\ (x(i) =< s <=> p < k)
      BY <1>2, <1>4, <2>1
  <2>3. p - k \in Int
      BY <1>3
  <2>4. CASE s + i =< L
    <3>1. ~(x(i) =< s)
        BY <1>1, <1>2, <2>4
    <3>2. 0 =< p - k /\ p - k < Size
        BY <1>3, <2>2, <3>1
    <3>3. (p - k) % Size = p - k
        BY <1>3, <2>3, <3>2, ModLemma
    <3>4. far(i) = p - k
        BY <2>1, <2>4
    <3> HIDE DEF far, x
    <3> QED BY <1>3, <2>1, <3>2, <3>3, <3>4 DEF Far
  <2>5. CASE ~(s + i =< L)
    <3>1. x(i) =< s
        BY <1>1, <1>2, <2>5
    <3>2. 0 - Size =< p - k /\ p - k < 0
        BY <1>3, <2>2, <3>1
    <3>3. (p - k) % Size = p - k + Size
        BY <1>3, <2>3, <3>2, ModLemma
    <3>4. far(i) = p - k + Size
        BY <2>1, <2>5
    <3> HIDE DEF far, x
    <3> QED BY <1>3, <2>1, <3>2, <3>3, <3>4 DEF Far
  <2> QED BY <2>4, <2>5
<1>6. ASSUME NEW i \in 1 .. L, NEW j \in 1 .. L, i < j PROVE far(i) < far(j)
  <2>1. x(i) \in 1 .. L /\ x(j) \in 1 .. L
      BY <1>4
  <2>2. PICK p \in 0 .. Size - 1, q \in 0 .. Size - 1 : p = list[x(i)] /\ q = list[x(j)]
    <3> HIDE DEF x
    <3> QED BY <1>3, <2>1
  <2>3. x(i) < x(j) => p < q
    <3> HIDE DEF x
    <3> QED BY <1>1, <2>1, <2>2 DEF Increasing, L
  <2>4. CASE s + j =< L
    <3>1. s + i =< L /\ x(i) < x(j)
        BY <1>1, <1>2, <1>6, <2>4
    <3>2. far(i) = p - k /\ far(j) = q - k
        BY <2>2, <2>4, <3>1
    <3> HIDE DEF far, x
    <3> QED BY <1>3, <2>3, <3>1, <3>2
  <2>5. CASE ~(s + i =< L)
    <3>1. ~(s + j =< L) /\ x(i) < x(j)
        BY <1>1, <1>2, <1>6, <2>5
    <3>2. far(i) = p - k + Size /\ far(j) = q - k + Size
        BY <2>2, <2>5, <3>1
    <3> HIDE DEF far, x
    <3> QED BY <1>3, <2>3, <3>1, <3>2
  <2>6. CASE s + i =< L /\ ~(s + j =< L)
    <3>1. far(i) = p - k /\ far(j) = q - k + Size
        BY <2>2, <2>6
    <3> HIDE DEF far, x
    <3> QED BY <1>3, <3>1
  <2> QED BY <2>4, <2>5, <2>6
<1>7. ASSUME NEW p \in DOMAIN ring PROVE \E i \in 1 .. L : Place(list, k, i) = p
  <2>1. PICK j \in 1 .. L : list[j] = p
      BY DEF Lists, L
  <2>2. PICK i \in 1 .. L : x(i) = j
    <3>1. CASE s < j
      <4>1. j - s \in 1 .. L /\ x(j - s) = j
          BY <1>1, <1>2, <3>1
      <4> QED BY <4>1
    <3>2. CASE ~(s < j)
      <4>1. j - s + L \in 1 .. L /\ x(j - s + L) = j
          BY <1>1, <1>2, <3>2
      <4> QED BY <4>1
    <3> QED BY <3>1, <3>2
  <2> QED BY <1>4, <2>1, <2>2
<1>8. \A i \in 1 .. L : Place(list, k, i) \in DOMAIN ring
  <2> HIDE DEF x
  <2> QED BY <1>1, <1>4 DEF L
<1>9. \A i \in 1 .. L : Far(list, k, i) \in Nat
  <2> HIDE DEF far
  <2> QED BY <1>3, <1>5
<1>10. \A i, j \in 1 .. L : i < j => Far(list, k, i) < Far(list, k, j)
  <2> HIDE DEF far
  <2> QED BY <1>5, <1>6
<1> QED BY <1>7, <1>8, <1>9, <1>10 DEF L

(* The node at the i-th position of the walk, and the turns that meet a new one *)
NodeAt(ring, list, k, i) == ring[Place(list, k, i)]

Firsts(ring, list, k) ==
    {i \in 1 .. Len(list) : \A j \in 1 .. i - 1 : NodeAt(ring, list, k, j) # NodeAt(ring, list, k, i)}

(***************************************************************************)
(* Every node is met first at the nearest of its positions.                *)
(***************************************************************************)
LEMMA FirstsLemma ==
    ASSUME NEW ring, NEW list, IsRing(ring), Lists(list, ring), NEW k \in Position
    PROVE  /\ Firsts(ring, list, k) \in SUBSET Nat /\ IsFiniteSet(Firsts(ring, list, k))
           /\ \A n \in Range(ring) : \E f \in Firsts(ring, list, k) : NodeAt(ring, list, k, f) = n
           /\ \A f \in Firsts(ring, list, k) :
                 /\ NodeAt(ring, list, k, f) \in Range(ring)
                 /\ Distance(ring, k, NodeAt(ring, list, k, f)) = Far(list, k, f)
           /\ Cardinality(Firsts(ring, list, k)) = Cardinality(Range(ring))
<1> DEFINE L == Len(list)
           F == Firsts(ring, list, k)
           at(i) == NodeAt(ring, list, k, i)
           far(i) == Far(list, k, i)
<1>1. L \in Nat
    BY DEF Lists
<1>2. F = {i \in 1 .. L : \A j \in 1 .. i - 1 : at(j) # at(i)}
    BY DEF Firsts
<1>3. /\ \A i \in 1 .. L : Place(list, k, i) \in DOMAIN ring /\ far(i) \in Nat
      /\ \A i, j \in 1 .. L : i < j => far(i) < far(j)
      /\ \A p \in DOMAIN ring : \E i \in 1 .. L : Place(list, k, i) = p
    BY WalkLemma
<1>4. F \in SUBSET (1 .. L) /\ F \in SUBSET Nat
    BY <1>1, <1>2
<1>5. IsFiniteSet(F)
  <2>1. IsFiniteSet(1 .. L)
      BY <1>1, FS_Interval
  <2> HIDE DEF F, L
  <2> QED BY <1>4, <2>1, FS_Subset
<1>6. \A i \in 1 .. L : at(i) \in Range(ring)
    BY <1>3 DEF NodeAt, Range
<1>7. ASSUME NEW n \in Range(ring) PROVE \E f \in F : at(f) = n
  <2>1. PICK p \in DOMAIN ring : ring[p] = n
      BY DEF Range
  <2>2. PICK i \in 1 .. L : Place(list, k, i) = p
      BY <1>3
  <2> DEFINE I == {j \in 1 .. L : at(j) = n}
  <2>3. I \in SUBSET Nat /\ i \in I
      BY <1>1, <2>1, <2>2 DEF NodeAt
  <2>4. Min(I) \in I /\ \A y \in I : Min(I) =< y
    <3> HIDE DEF I
    <3> QED BY <2>3, MinIsLeast
  <2>5. PICK f : f = Min(I)
      OBVIOUS
  <2>6. f \in 1 .. L /\ at(f) = n
      BY <2>4, <2>5
  <2>7. \A y \in 1 .. L : at(y) = n => f =< y
      BY <2>4, <2>5
  <2> HIDE DEF I, at, L, F
  <2>8. ASSUME NEW j \in 1 .. f - 1 PROVE at(j) # n
    <3>1. j \in 1 .. L /\ ~(f =< j)
        BY <1>1, <2>6
    <3> QED BY <2>7, <3>1
  <2>9. f \in F
      BY <1>2, <2>6, <2>8
  <2> QED BY <2>6, <2>9
<1>8. \A f, g \in F : at(f) = at(g) => f = g
  <2> SUFFICES ASSUME NEW f \in F, NEW g \in F, at(f) = at(g) PROVE f = g
      OBVIOUS
  <2> HIDE DEF at, L, F
  <2>1. f \in 1 .. L /\ g \in 1 .. L
      BY <1>4
  <2>2. f < g => f \in 1 .. g - 1
      BY <1>1, <2>1
  <2>3. g < f => g \in 1 .. f - 1
      BY <1>1, <2>1
  <2>4. ~(f < g) /\ ~(g < f)
      BY <1>2, <2>2, <2>3
  <2> QED BY <1>1, <2>1, <2>4
<1>9. ASSUME NEW f \in F PROVE at(f) \in Range(ring) /\ Distance(ring, k, at(f)) = far(f)
  <2> DEFINE O == {p \in DOMAIN ring : ring[p] = at(f)}
             D == {(h - k) % Size : h \in O}
  <2>1. f \in 1 .. L
      BY <1>4
  <2>2. Place(list, k, f) \in O
      BY <1>3, <2>1 DEF NodeAt
  <2>3. far(f) \in D
      BY <2>2 DEF Far
  <2>4. ASSUME NEW y \in D PROVE y \in Nat /\ far(f) =< y
    <3>1. PICK h \in DOMAIN ring : ring[h] = at(f) /\ y = (h - k) % Size
        OBVIOUS
    <3>2. PICK i \in 1 .. L : Place(list, k, i) = h
        BY <1>3
    <3>3. y = far(i) /\ at(i) = at(f)
        BY <3>1, <3>2 DEF Far, NodeAt
    <3> HIDE DEF at, far, L, F, D
    <3>4. ~(i < f)
      <4>1. i < f => i \in 1 .. f - 1
          BY <1>1, <2>1
      <4> QED BY <1>2, <3>3, <4>1
    <3>5. i = f \/ f < i
        BY <1>1, <2>1, <3>4
    <3>6. far(f) \in Nat /\ far(i) \in Nat /\ (f < i => far(f) < far(i))
        BY <1>3, <2>1
    <3> QED BY <3>3, <3>5, <3>6
  <2>5. Min(D) = far(f)
    <3> HIDE DEF D, far
    <3> QED BY <2>3, <2>4, MinIs
  <2>6. Distance(ring, k, at(f)) = Min(D)
      BY DEF Distance
  <2> QED BY <1>6, <2>1, <2>5, <2>6
<1>10. Cardinality(F) = Cardinality(Range(ring))
  <2> DEFINE g == [f \in F |-> at(f)]
  <2>1. /\ g \in [F -> Range(ring)] /\ \A e, f \in F : g[e] = g[f] => e = f
        /\ \A n \in Range(ring) : \E f \in F : g[f] = n
    <3> HIDE DEF at, F
    <3> QED BY <1>7, <1>8, <1>9
  <2>2. g \in Surjection(F, Range(ring)) /\ g \in Injection(F, Range(ring))
    <3> HIDE DEF g, F
    <3> QED BY <2>1 DEF Surjection, Injection, IsInjective
  <2> HIDE DEF g, F
  <2> QED BY <1>5, <2>2, FS_Surjection
<1> QED BY <1>4, <1>5, <1>7, <1>9, <1>10

(***************************************************************************)
(* What GetNodes and GetNode answer on a ring with its sorted list.        *)
(***************************************************************************)
LEMMA NearestLemma ==
    ASSUME NEW ring, NEW list, IsRing(ring), Lists(list, ring), NEW k \in Position,
           NEW count \in Nat \ {0}
    PROVE  /\ NearestFirst(ring, k, count, GetNodes(ring, list, k, count))
           /\ GetNodes(ring, list, k, count) # <<>> =>
                 GetNodes(ring, list, k, count)[1] = GetNode(ring, list, k)
           /\ Cardinality(Range(ring)) =< count =>
                 Range(GetNodes(ring, list, k, count)) = Range(ring)
<1> DEFINE L == Len(list)
           F == Firsts(ring, list, k)
           at(i) == NodeAt(ring, list, k, i)
           far(i) == Far(list, k, i)
           found == Sort(F)
           T == Min({count, Len(found)})
           r == GetNodes(ring, list, k, count)
           dist(n) == Distance(ring, k, n)
<1>1. L \in Nat
    BY DEF Lists
<1>2. /\ F \in SUBSET Nat /\ IsFiniteSet(F)
      /\ \A n \in Range(ring) : \E f \in F : at(f) = n
      /\ \A f \in F : at(f) \in Range(ring) /\ dist(at(f)) = far(f)
      /\ Cardinality(F) = Cardinality(Range(ring))
    BY FirstsLemma
<1>3. /\ found \in Seq(F) /\ Len(found) = Cardinality(F) /\ Increasing(found)
      /\ \A f \in F : \E m \in 1 .. Len(found) : found[m] = f
  <2> HIDE DEF F
  <2> QED BY <1>2, SortLemma
<1>4. F \subseteq 1 .. L
    BY DEF Firsts
<1>5. \A i, j \in 1 .. L : i < j => far(i) < far(j)
    BY WalkLemma
<1>6. r = [m \in 1 .. T |-> at(found[m])]
    BY DEF GetNodes, Visit, NodeAt, Firsts, Place
<1>7. /\ Len(found) \in Nat /\ T \in Nat /\ T =< count /\ T =< Len(found)
      /\ T = count \/ T = Len(found)
  <2>1. Len(found) \in Nat
    <3> HIDE DEF found
    <3> QED BY <1>3
  <2>2. T \in {count, Len(found)} /\ \A y \in {count, Len(found)} : T =< y
    <3> HIDE DEF found
    <3> QED BY <2>1, MinIsLeast
  <2> HIDE DEF found, T
  <2> QED BY <2>1, <2>2
<1> HIDE DEF F, L, found, T, r, at, far, dist
<1>8. /\ Len(r) = T /\ DOMAIN r = 1 .. T
      /\ \A m \in 1 .. T : r[m] = at(found[m])
  <2>1. DOMAIN r = 1 .. T /\ \A m \in 1 .. T : r[m] = at(found[m])
      BY <1>6
  <2>2. Len(r) = T
      BY <1>6, <1>7
  <2> QED BY <2>1, <2>2
<1>9. ASSUME NEW m \in 1 .. Len(found)
      PROVE  /\ found[m] \in F /\ found[m] \in 1 .. L /\ at(found[m]) \in Range(ring)
             /\ dist(at(found[m])) = far(found[m])
  <2>1. found[m] \in F
      BY <1>3
  <2> QED BY <1>2, <1>4, <2>1
<1>10. ASSUME NEW i \in 1 .. Len(found), NEW j \in 1 .. Len(found), i < j
       PROVE  dist(at(found[i])) < dist(at(found[j]))
  <2>1. found[i] < found[j]
      BY <1>3, <1>10 DEF Increasing
  <2>2. far(found[i]) < far(found[j])
      BY <1>5, <1>9, <2>1
  <2> QED BY <1>9, <2>2
<1>11. \A m \in 1 .. T : m \in 1 .. Len(found)
    BY <1>7
<1>12. Range(r) \subseteq Range(ring)
  <2>1. \A m \in 1 .. T : r[m] \in Range(ring)
      BY <1>8, <1>9, <1>11
  <2>2. Range(r) = {r[m] : m \in 1 .. T}
      BY <1>8 DEF Range
  <2> QED BY <2>1, <2>2
<1>13. \A i, j \in 1 .. T : i < j => dist(r[i]) < dist(r[j])
    BY <1>8, <1>10, <1>11
<1>14. ASSUME NEW n \in Range(ring) \ Range(r)
       PROVE  T = count /\ T < Len(found) /\ \A i \in 1 .. T : dist(r[i]) < dist(n)
  <2>1. PICK f \in F : at(f) = n
      BY <1>2
  <2>2. PICK m \in 1 .. Len(found) : found[m] = f
      BY <1>3
  <2>3. m \notin 1 .. T
      BY <1>8, <2>1, <2>2 DEF Range
  <2>4. T < Len(found) /\ \A i \in 1 .. T : i < m
      BY <1>7, <2>3
  <2>5. \A i \in 1 .. T : dist(r[i]) < dist(n)
      BY <1>8, <1>10, <1>11, <2>1, <2>2, <2>4
  <2>6. T = count
      BY <1>7, <2>4
  <2> QED BY <2>4, <2>5, <2>6
<1>15. NearestFirst(ring, k, count, r)
  <2>1. Len(r) = Min({count, Cardinality(Range(ring))})
      BY <1>2, <1>3, <1>8 DEF T
  <2> QED BY <1>8, <1>12, <1>13, <1>14, <2>1 DEF NearestFirst, dist
<1>16. ASSUME Cardinality(Range(ring)) =< count PROVE Range(r) = Range(ring)
  <2>1. Len(found) =< count
      BY <1>2, <1>3, <1>16
  <2>2. \A n \in Range(ring) \ Range(r) : FALSE
      BY <1>7, <1>14, <2>1
  <2> QED BY <1>12, <2>2
<1>17. ASSUME r # <<>> PROVE r[1] = GetNode(ring, list, k)
  <2>1. T # 0
    <3>1. ASSUME T = 0 PROVE FALSE
      <4>1. r = <<>>
          BY <1>6, <3>1
      <4> QED BY <1>17, <4>1
    <3> QED BY <3>1
  <2>2. 1 \in 1 .. T /\ 1 \in 1 .. Len(found)
      BY <1>7, <2>1
  <2>3. found[1] \in 1 .. L
      BY <1>9, <2>2
  <2>4. 1 \in F
      BY <1>1, <2>3 DEF F, Firsts, L
  <2>5. PICK m \in 1 .. Len(found) : found[m] = 1
      BY <1>3, <2>4
  <2>6. m = 1
    <3>1. 1 < m => found[1] < found[m]
        BY <1>3, <2>2 DEF Increasing
    <3> QED BY <1>1, <1>7, <2>3, <2>5, <3>1
  <2>7. r[1] = at(1)
      BY <1>8, <2>2, <2>5, <2>6
  <2> DEFINE s == Search(list, k)
  <2>8. s \in 0 .. L /\ L \in Nat \ {0}
      BY <1>1, <2>3, SearchLemma DEF L
  <2>9. (s + 1 - 1) % L = IF s = L THEN 0 ELSE s
    <3> HIDE DEF s
    <3>1. s + 1 - 1 = s /\ s \in Int
        BY <2>8
    <3>2. CASE s = L
      <4>1. s % L = s - L
          BY <2>8, <3>1, <3>2, ModLemma
      <4> QED BY <2>8, <3>1, <3>2, <4>1
    <3>3. CASE s # L
      <4>1. s % L = s
          BY <2>8, <3>1, <3>3, ModLemma
      <4> QED BY <3>1, <3>3, <4>1
    <3> QED BY <3>2, <3>3
  <2>10. at(1) = ring[list[1 + ((s + 1 - 1) % L)]]
      BY DEF at, NodeAt, Place, L
  <2>11. GetNode(ring, list, k) = ring[list[1 + (IF s = L THEN 0 ELSE s)]]
      BY DEF GetNode, L
  <2> HIDE DEF s
  <2> QED BY <2>7, <2>9, <2>10, <2>11
<1> QED BY <1>15, <1>16, <1>17 DEF r

(***************************************************************************)
(* In every run of either ring, GetNodes names the nearest nodes, nearest  *)
(* first, each once, and GetNode the first of them (hash_ring.go and       *)
(* virtual_nodes.go), whatever nodes came and went.                        *)
(***************************************************************************)
THEOREM ReplicasSafe == Spec => []ReplicasAreNearest
<1>1. Init => RingInv
    BY RingInit
<1>2. RingInv /\ [Next]_vars => RingInv'
    BY RingNext
<1>3. RingInv => ReplicasAreNearest
  <2> SUFFICES ASSUME RingInv, NEW k \in Position, NEW count \in 1 .. Cardinality(Node)
               PROVE  LET r == GetNodes(nodes, sorted, k, count)
                      IN  /\ NearestFirst(nodes, k, count, r)
                          /\ r # <<>> => r[1] = GetNode(nodes, sorted, k)
      BY DEF ReplicasAreNearest
  <2>1. count \in Nat \ {0}
      BY NodeAssumption, FS_CardinalityType
  <2> QED BY <2>1, NearestLemma DEF RingInv
<1> QED BY <1>1, <1>2, <1>3, PTL DEF Spec

-----------------------------------------------------------------------------
(***************************************************************************)
(* When all nodes are asked for, the answer has those of the ring in the   *)
(* order of their distances.                                               *)
(***************************************************************************)
ByDistance(ring, k, n) ==
    {pair \in (Node \ {n}) \X (Node \ {n}) :
        /\ pair[1] \in Range(ring) /\ pair[2] \in Range(ring)
        /\ pair[1] = pair[2] \/ Distance(ring, k, pair[1]) < Distance(ring, k, pair[2])}

LEMMA OrderLemma ==
    ASSUME NEW ring, NEW list, IsRing(ring), Lists(list, ring), NEW k \in Position,
           NEW n \in Node
    PROVE  OrderWithout(n, GetNodes(ring, list, k, Cardinality(Node))) = ByDistance(ring, k, n)
<1> DEFINE count == Cardinality(Node)
           r == GetNodes(ring, list, k, count)
           dist(m) == Distance(ring, k, m)
<1>1. count \in Nat \ {0}
  <2>1. Cardinality(Node) \in Nat /\ Cardinality(Node) # 0
      BY NodeAssumption, FS_CardinalityType, FS_EmptySet
  <2> QED BY <2>1
<1>2. Cardinality(Range(ring)) =< count
  <2>1. Range(ring) \in SUBSET Node
      BY DEF IsRing, Range
  <2> QED BY <2>1, NodeAssumption, FS_Subset
<1>3. NearestFirst(ring, k, count, r) /\ Range(r) = Range(ring)
  <2> HIDE DEF count
  <2> QED BY <1>1, <1>2, NearestLemma
<1>4. \A i, j \in 1 .. Len(r) : i < j => dist(r[i]) < dist(r[j])
  <2> HIDE DEF r, count
  <2> QED BY <1>3 DEF NearestFirst
<1>5. PICK T \in Nat : T = Len(r) /\ DOMAIN r = 1 .. T
  <2> DEFINE found == Sort(Firsts(ring, list, k))
             e(i) == NodeAt(ring, list, k, found[i])
             C == {count, Len(found)}
  <2>1. r = [m \in 1 .. Min(C) |-> e(m)]
      BY DEF GetNodes, Visit, NodeAt, Firsts, Place
  <2>2. Len(found) \in Nat
    <3>1. found \in Seq(Firsts(ring, list, k))
        BY FirstsLemma, SortLemma
    <3> HIDE DEF found
    <3> QED BY <3>1
  <2>3. Min(C) \in Nat
    <3>1. C \in SUBSET Nat /\ C # {}
        BY <1>1, <2>2
    <3> HIDE DEF C
    <3> QED BY <3>1, MinIsLeast
  <2> HIDE DEF r, C, e
  <2> QED BY <2>1, <2>3
<1>6. \A i \in 1 .. T : dist(r[i]) \in Nat
  <2> SUFFICES ASSUME NEW i \in 1 .. T PROVE dist(r[i]) \in Nat
      OBVIOUS
  <2>1. r[i] \in Range(ring)
      BY <1>3, <1>5 DEF Range
  <2>2. PICK f \in Firsts(ring, list, k) : NodeAt(ring, list, k, f) = r[i]
      BY <2>1, FirstsLemma
  <2>3. dist(r[i]) = Far(list, k, f)
      BY <2>2, FirstsLemma
  <2>4. f \in 1 .. Len(list)
      BY DEF Firsts
  <2> QED BY <2>3, <2>4, WalkLemma
<1>7. \A m : m \in Range(ring) <=> \E i \in 1 .. T : r[i] = m
    BY <1>3, <1>5 DEF Range
<1> HIDE DEF r, dist
<1>8. ASSUME NEW a, NEW b
      PROVE  (\E i, j \in 1 .. T : i =< j /\ a = r[i] /\ b = r[j])
               <=> a \in Range(ring) /\ b \in Range(ring) /\ (a = b \/ dist(a) < dist(b))
  <2>1. ASSUME NEW i \in 1 .. T, NEW j \in 1 .. T, i =< j, a = r[i], b = r[j]
        PROVE  a \in Range(ring) /\ b \in Range(ring) /\ (a = b \/ dist(a) < dist(b))
    <3>1. a \in Range(ring) /\ b \in Range(ring)
        BY <1>7, <2>1
    <3>2. i = j \/ i < j
        BY <2>1
    <3> QED BY <1>4, <1>5, <2>1, <3>1, <3>2
  <2>2. ASSUME a \in Range(ring), b \in Range(ring), a = b \/ dist(a) < dist(b)
        PROVE  \E i, j \in 1 .. T : i =< j /\ a = r[i] /\ b = r[j]
    <3>1. PICK i \in 1 .. T, j \in 1 .. T : r[i] = a /\ r[j] = b
        BY <1>7, <2>2
    <3>2. CASE a = b
      <4>1. i =< i /\ a = r[i] /\ b = r[i]
          BY <3>1, <3>2
      <4> QED BY <4>1
    <3>3. CASE dist(a) < dist(b)
      <4>1. dist(r[i]) \in Nat /\ dist(r[j]) \in Nat /\ dist(r[i]) < dist(r[j])
          BY <1>6, <3>1, <3>3
      <4>2. j < i => dist(r[j]) < dist(r[i])
          BY <1>4, <1>5
      <4>3. i =< j
          BY <4>1, <4>2
      <4> QED BY <3>1, <4>3
    <3> QED BY <2>2, <3>2, <3>3
  <2> QED BY <2>1, <2>2
<1>9. ASSUME NEW pair \in (Node \ {n}) \X (Node \ {n})
      PROVE  pair \in OrderWithout(n, r) <=> pair \in ByDistance(ring, k, n)
  <2>1. PICK a, b : pair = <<a, b>> /\ pair[1] = a /\ pair[2] = b
      OBVIOUS
  <2>2. pair \in OrderWithout(n, r) <=> \E i, j \in 1 .. T : i =< j /\ a = r[i] /\ b = r[j]
      BY <1>5, <2>1 DEF OrderWithout
  <2>3. pair \in ByDistance(ring, k, n)
          <=> a \in Range(ring) /\ b \in Range(ring) /\ (a = b \/ dist(a) < dist(b))
      BY <2>1 DEF ByDistance, dist
  <2>4. (\E i, j \in 1 .. T : i =< j /\ a = r[i] /\ b = r[j])
          <=> a \in Range(ring) /\ b \in Range(ring) /\ (a = b \/ dist(a) < dist(b))
      BY <1>8
  <2> QED BY <2>2, <2>3, <2>4, Zenon
<1>10. OrderWithout(n, r) \subseteq (Node \ {n}) \X (Node \ {n})
    BY DEF OrderWithout
<1>11. ByDistance(ring, k, n) \subseteq (Node \ {n}) \X (Node \ {n})
    BY DEF ByDistance
<1>12. OrderWithout(n, r) = ByDistance(ring, k, n)
    BY <1>9, <1>10, <1>11
<1> QED BY <1>12 DEF r

LEMMA OrderKept ==
    ASSUME RingInv, NEW n \in Node, Changes(n), NEW k \in Position
    PROVE  OrderWithout(n, GetNodes(nodes', sorted', k, Cardinality(Node)))
             = OrderWithout(n, GetNodes(nodes, sorted, k, Cardinality(Node)))
<1>1. RingInv' /\ \A m \in Node \ {n} : Owned(nodes', m) = Owned(nodes, m)
    BY RingStep
<1>2. IsRing(nodes') /\ Lists(sorted', nodes')
    BY <1>1 DEF RingInv
<1>3. \A m \in Node \ {n} : Distance(nodes', k, m) = Distance(nodes, k, m)
    BY <1>1 DEF Distance, Owned
<1>4. \A m \in Node \ {n} : m \in Range(nodes') <=> m \in Range(nodes)
  <2>1. \A ring, m : m \in Range(ring) <=> Owned(ring, m) # {}
      BY DEF Range, Owned
  <2> QED BY <1>1, <2>1
<1>5. ByDistance(nodes', k, n) = ByDistance(nodes, k, n)
  <2>1. \A pair \in (Node \ {n}) \X (Node \ {n}) :
            pair[1] \in Node \ {n} /\ pair[2] \in Node \ {n}
      OBVIOUS
  <2> QED BY <1>3, <1>4, <2>1 DEF ByDistance
<1>6. OrderWithout(n, GetNodes(nodes, sorted, k, Cardinality(Node))) = ByDistance(nodes, k, n)
    BY OrderLemma DEF RingInv
<1>7. OrderWithout(n, GetNodes(nodes', sorted', k, Cardinality(Node))) = ByDistance(nodes', k, n)
    BY <1>2, OrderLemma
<1> QED BY <1>5, <1>6, <1>7

(***************************************************************************)
(* On either ring, adding or removing a node leaves the replicas of every  *)
(* key among the other nodes, and their order, as they were: consistent    *)
(* hashing for AddNode, RemoveNode and GetNodes.                           *)
(***************************************************************************)
THEOREM OrderSafe == Spec => ChangesKeepOrder
<1> DEFINE Keeps ==
        \A n \in Node :
            AddNode(n) \/ RemoveNode(n) \/ AddVirtualNode(n) \/ RemoveVirtualNode(n) =>
            \A k \in Position :
                OrderWithout(n, GetNodes(nodes', sorted', k, Cardinality(Node)))
                    = OrderWithout(n, GetNodes(nodes, sorted, k, Cardinality(Node)))
<1>1. Init => RingInv
    BY RingInit
<1>2. RingInv /\ [Next]_vars => RingInv'
    BY RingNext
<1>3. RingInv /\ [Next]_vars => Keeps
    BY OrderKept DEF Changes
<1>4. ChangesKeepOrder <=> [][Keeps]_vars
    BY DEF ChangesKeepOrder
<1> HIDE DEF Keeps
<1> QED BY <1>1, <1>2, <1>3, <1>4, PTL DEF Spec
=============================================================================
