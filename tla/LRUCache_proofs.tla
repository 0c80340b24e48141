-------------------------- MODULE LRUCache_proofs --------------------------
(***************************************************************************)
(* Safety of LRUCache for every capacity, memory limit, set of keys and    *)
(* values, and every number of requests.                                   *)
(***************************************************************************)
EXTENDS LRUCache, FiniteSetTheorems, TLAPS

(***************************************************************************)
(* First the facts about the operators of module LRU.                      *)
(***************************************************************************)
(***************************************************************************)
(* Unlinking a node of the list: the other keys stay, in their order.      *)
(***************************************************************************)
LEMMA RemoveNodeLemma ==
    ASSUME NEW S, NEW s \in Seq(S), NoDuplicates(s), NEW k \in Elems(s)
    PROVE  /\ removeNode(s, k) \in Seq(S)
           /\ Len(removeNode(s, k)) = Len(s) - 1
           /\ NoDuplicates(removeNode(s, k))
           /\ Elems(removeNode(s, k)) = Elems(s) \ {k}
           /\ \A i, j \in 1 .. Len(removeNode(s, k)) : i < j =>
                 \E p, q \in 1 .. Len(s) : /\ p < q
                                           /\ s[p] = removeNode(s, k)[i]
                                           /\ s[q] = removeNode(s, k)[j]
<1> DEFINE x == CHOOSE j \in 1 .. Len(s) : s[j] = k
           r == removeNode(s, k)
           f(i) == IF i < x THEN i ELSE i + 1
<1>1. x \in 1 .. Len(s) /\ s[x] = k
    BY DEF Elems
<1>2. r = SubSeq(s, 1, x - 1) \o SubSeq(s, x + 1, Len(s))
    BY DEF removeNode
<1> HIDE DEF x, r
<1> DEFINE a == SubSeq(s, 1, x - 1)
           b == SubSeq(s, x + 1, Len(s))
<1>a. /\ a \in Seq(S) /\ Len(a) = x - 1
      /\ \A i \in 1 .. Len(a) : a[i] = s[i]
    BY <1>1
<1>b. /\ b \in Seq(S) /\ Len(b) = Len(s) - x
      /\ \A i \in 1 .. Len(b) : b[i] = s[i + x]
    BY <1>1
<1>c. r = a \o b
    BY <1>2
<1> HIDE DEF a, b
<1>3. /\ r \in Seq(S)
      /\ Len(r) = Len(s) - 1
      /\ \A i \in 1 .. Len(r) : r[i] = s[f(i)]
  <2>1. r \in Seq(S) /\ Len(r) = Len(s) - 1
      BY <1>1, <1>a, <1>b, <1>c
  <2>2. ASSUME NEW i \in 1 .. Len(r) PROVE r[i] = s[f(i)]
    <3>1. CASE i < x
        BY <1>1, <1>a, <1>b, <1>c, <2>1, <3>1
    <3>2. CASE i >= x
      <4>1. r[i] = b[i - (x - 1)]
          BY <1>1, <1>a, <1>b, <1>c, <2>1, <3>2
      <4>2. i - (x - 1) \in 1 .. Len(b)
          BY <1>1, <1>b, <2>1, <3>2
      <4> QED BY <1>1, <1>b, <3>2, <4>1, <4>2
    <3> QED BY <1>1, <3>1, <3>2
  <2> QED BY <2>1, <2>2
<1>4. \A i \in 1 .. Len(r) : f(i) \in 1 .. Len(s) /\ f(i) # x
    BY <1>1, <1>3
<1>5. \A i, j \in 1 .. Len(r) : i < j => f(i) < f(j)
    BY <1>1
<1>6. \A m \in 1 .. Len(s) : m # x => \E i \in 1 .. Len(r) : f(i) = m
  <2> TAKE m \in 1 .. Len(s)
  <2> HAVE m # x
  <2>1. CASE m < x
      BY <1>1, <1>3, <2>1
  <2>2. CASE m > x
      <3>1. m - 1 \in 1 .. Len(r) /\ f(m - 1) = m
          BY <1>1, <1>3, <2>2
      <3> QED BY <3>1
  <2> QED BY <1>1, <2>1, <2>2
<1> HIDE DEF f
<1>7. NoDuplicates(r)
    BY <1>3, <1>4, <1>5 DEF NoDuplicates
<1>8. Elems(r) = Elems(s) \ {k}
  <2>1. ASSUME NEW e \in Elems(r) PROVE e \in Elems(s) /\ e # k
    <3>1. PICK i \in 1 .. Len(r) : r[i] = e
        BY DEF Elems
    <3>2. r[i] = s[f(i)] /\ f(i) \in 1 .. Len(s) /\ f(i) # x
        BY <1>3, <1>4
    <3> QED BY <1>1, <3>1, <3>2 DEF Elems, NoDuplicates
  <2>2. ASSUME NEW e \in Elems(s), e # k PROVE e \in Elems(r)
    <3>1. PICK m \in 1 .. Len(s) : s[m] = e
        BY DEF Elems
    <3>2. PICK i \in 1 .. Len(r) : f(i) = m
        BY <1>1, <1>6, <2>2, <3>1
    <3> QED BY <1>3, <3>1, <3>2 DEF Elems
  <2> QED BY <2>1, <2>2
<1>9. \A i, j \in 1 .. Len(r) : i < j =>
          \E p, q \in 1 .. Len(s) : p < q /\ s[p] = r[i] /\ s[q] = r[j]
    BY <1>3, <1>4, <1>5
<1> QED BY <1>3, <1>7, <1>8, <1>9 DEF r

(***************************************************************************)
(* Linking a new node at the head.                                         *)
(***************************************************************************)
LEMMA AddToHeadLemma ==
    ASSUME NEW S, NEW s \in Seq(S), NoDuplicates(s), NEW k \in S, k \notin Elems(s)
    PROVE  /\ addToHead(s, k) \in Seq(S)
           /\ Len(addToHead(s, k)) = Len(s) + 1
           /\ NoDuplicates(addToHead(s, k))
           /\ Elems(addToHead(s, k)) = Elems(s) \cup {k}
           /\ addToHead(s, k)[1] = k
           /\ \A i \in 2 .. Len(s) + 1 : addToHead(s, k)[i] = s[i - 1]
<1> DEFINE r == addToHead(s, k)
<1>1. /\ r \in Seq(S) /\ Len(r) = Len(s) + 1 /\ r[1] = k
      /\ \A i \in 2 .. Len(s) + 1 : r[i] = s[i - 1]
    BY DEF addToHead
<1> HIDE DEF r
<1>n. Len(s) \in Nat
    OBVIOUS
<1>2. ASSUME NEW i \in 2 .. Len(s) + 1 PROVE r[i] \in Elems(s) /\ r[i] # k
  <2>1. i - 1 \in 1 .. Len(s)
      BY <1>n
  <2>2. r[i] = s[i - 1]
      BY <1>1
  <2> QED BY <2>1, <2>2 DEF Elems
<1>3. NoDuplicates(r)
  <2> SUFFICES ASSUME NEW i \in 1 .. Len(r), NEW j \in 1 .. Len(r), r[i] = r[j]
               PROVE  i = j
      BY DEF NoDuplicates
  <2>1. CASE i = 1 \/ j = 1
      BY <1>1, <1>2, <1>n, <2>1
  <2>2. CASE i # 1 /\ j # 1
    <3>1. /\ i - 1 \in 1 .. Len(s) /\ j - 1 \in 1 .. Len(s)
          /\ s[i - 1] = s[j - 1]
        BY <1>1, <1>n, <2>2
    <3>2. i - 1 = j - 1
        BY <3>1 DEF NoDuplicates
    <3> QED BY <1>1, <1>n, <3>2
  <2> QED BY <2>1, <2>2
<1>4. Elems(r) = Elems(s) \cup {k}
  <2>1. ASSUME NEW e \in Elems(r) PROVE e \in Elems(s) \cup {k}
    <3>1. PICK i \in 1 .. Len(r) : e = r[i]
        BY DEF Elems
    <3>2. i = 1 \/ i \in 2 .. Len(s) + 1
        BY <1>1, <1>n
    <3> QED BY <1>1, <1>2, <3>1, <3>2
  <2>2. k \in Elems(r)
      BY <1>1 DEF Elems
  <2>3. ASSUME NEW e \in Elems(s) PROVE e \in Elems(r)
    <3>1. PICK m \in 1 .. Len(s) : s[m] = e
        BY DEF Elems
    <3>2. m + 1 \in 2 .. Len(s) + 1 /\ r[m + 1] = e
        BY <1>1, <3>1
    <3> QED BY <1>1, <3>2 DEF Elems
  <2> QED BY <2>1, <2>2, <2>3
<1> QED BY <1>1, <1>3, <1>4 DEF r

(***************************************************************************)
(* Moving a node to the head: the same keys, the others in their order.    *)
(***************************************************************************)
LEMMA MoveToHeadLemma ==
    ASSUME NEW S, NEW s \in Seq(S), NoDuplicates(s), NEW k \in Elems(s)
    PROVE  /\ moveToHead(s, k) \in Seq(S)
           /\ Len(moveToHead(s, k)) = Len(s)
           /\ NoDuplicates(moveToHead(s, k))
           /\ Elems(moveToHead(s, k)) = Elems(s)
           /\ moveToHead(s, k)[1] = k
           /\ \A i, j \in 2 .. Len(s) : i < j =>
                 \E p, q \in 1 .. Len(s) : /\ p < q
                                           /\ s[p] = moveToHead(s, k)[i]
                                           /\ s[q] = moveToHead(s, k)[j]
<1> DEFINE t == removeNode(s, k)
<1>1. /\ t \in Seq(S) /\ Len(t) = Len(s) - 1 /\ NoDuplicates(t)
      /\ Elems(t) = Elems(s) \ {k}
      /\ \A i, j \in 1 .. Len(t) : i < j =>
            \E p, q \in 1 .. Len(s) : p < q /\ s[p] = t[i] /\ s[q] = t[j]
    BY RemoveNodeLemma
<1>2. k \in S
    BY DEF Elems
<1>3. Len(s) \in Nat
    OBVIOUS
<1>4. moveToHead(s, k) = addToHead(t, k)
    BY DEF moveToHead
<1> HIDE DEF t
<1>5. /\ addToHead(t, k) \in Seq(S)
      /\ Len(addToHead(t, k)) = Len(t) + 1
      /\ NoDuplicates(addToHead(t, k))
      /\ Elems(addToHead(t, k)) = Elems(t) \cup {k}
      /\ addToHead(t, k)[1] = k
      /\ \A i \in 2 .. Len(t) + 1 : addToHead(t, k)[i] = t[i - 1]
    BY <1>1, <1>2, AddToHeadLemma
<1>6. ASSUME NEW i \in 2 .. Len(s), NEW j \in 2 .. Len(s), i < j
      PROVE  \E p, q \in 1 .. Len(s) : /\ p < q
                                       /\ s[p] = moveToHead(s, k)[i]
                                       /\ s[q] = moveToHead(s, k)[j]
  <2>1. /\ i - 1 \in 1 .. Len(t) /\ j - 1 \in 1 .. Len(t) /\ i - 1 < j - 1
        /\ moveToHead(s, k)[i] = t[i - 1]
        /\ moveToHead(s, k)[j] = t[j - 1]
      BY <1>1, <1>3, <1>4, <1>5, <1>6
  <2> QED BY <1>1, <2>1
<1>7. Elems(moveToHead(s, k)) = Elems(s)
    BY <1>1, <1>4, <1>5
<1>8. Len(moveToHead(s, k)) = Len(s)
    BY <1>1, <1>3, <1>4, <1>5
<1> QED BY <1>4, <1>5, <1>6, <1>7, <1>8

(***************************************************************************)
(* Evicting from the tail leaves a prefix.                                 *)
(***************************************************************************)
LEMMA PrefixLemma ==
    ASSUME NEW S, NEW s \in Seq(S), NoDuplicates(s), NEW n \in 0 .. Len(s)
    PROVE  /\ SubSeq(s, 1, n) \in Seq(S)
           /\ Len(SubSeq(s, 1, n)) = n
           /\ \A i \in 1 .. n : SubSeq(s, 1, n)[i] = s[i]
           /\ NoDuplicates(SubSeq(s, 1, n))
           /\ Elems(SubSeq(s, 1, n)) = {s[i] : i \in 1 .. n}
<1> DEFINE r == SubSeq(s, 1, n)
<1>1. r \in Seq(S) /\ Len(r) = n /\ \A i \in 1 .. n : r[i] = s[i]
    OBVIOUS
<1> HIDE DEF r
<1>2. NoDuplicates(r)
    BY <1>1 DEF NoDuplicates
<1>3. Elems(r) = {s[i] : i \in 1 .. n}
    BY <1>1 DEF Elems
<1> QED BY <1>1, <1>2, <1>3 DEF r

-----------------------------------------------------------------------------
(***************************************************************************)
(* Memory accounting: Bytes is additive.                                   *)
(***************************************************************************)
LEMMA UsageType ==
    ASSUME NEW k \in Key, NEW v \in Value
    PROVE  /\ calculateMemoryUsage(k, v) \in Nat
           /\ IsFiniteSet(EntryBytes(k, v))
           /\ Cardinality(EntryBytes(k, v)) = calculateMemoryUsage(k, v)
<1>1. calculateMemoryUsage(k, v) \in Nat
    BY KeyLenAssumption, ValueLenAssumption DEF calculateMemoryUsage
<1> DEFINE n == calculateMemoryUsage(k, v)
<1>2. IsFiniteSet(1 .. n) /\ Cardinality(1 .. n) = n
  <2> HIDE DEF n
  <2>1. n \in Nat
      BY <1>1 DEF n
  <2> QED BY <2>1, FS_Interval
<1>3. IsFiniteSet({k}) /\ Cardinality({k}) = 1
    BY FS_Singleton
<1>4. IsFiniteSet({k} \X (1 .. n)) /\ Cardinality({k} \X (1 .. n)) = 1 * n
  <2> HIDE DEF n
  <2>1. PICK A : A = 1 .. n
      OBVIOUS
  <2>2. PICK B : B = {k}
      OBVIOUS
  <2>3. IsFiniteSet(B) /\ IsFiniteSet(A)
      BY <1>2, <1>3, <2>1, <2>2
  <2>4. IsFiniteSet(B \X A) /\ Cardinality(B \X A) = Cardinality(B) * Cardinality(A)
      BY <2>3, FS_Product
  <2> QED BY <1>2, <1>3, <2>1, <2>2, <2>4
<1> QED BY <1>1, <1>4 DEF EntryBytes

AllBytes(m) == UNION {EntryBytes(k, m[k]) : k \in DOMAIN m}

(***************************************************************************)
(* A finite hash table takes finitely many bytes.                          *)
(***************************************************************************)
LEMMA BytesFinite ==
    ASSUME NEW m, IsMap(m, Value), IsFiniteSet(DOMAIN m)
    PROVE  IsFiniteSet(AllBytes(m)) /\ Bytes(m) = Cardinality(AllBytes(m)) /\ Bytes(m) \in Nat
<1> DEFINE f == [k \in DOMAIN m |-> EntryBytes(k, m[k])]
           T == {EntryBytes(k, m[k]) : k \in DOMAIN m}
<1>1. f \in Surjection(DOMAIN m, T)
    BY DEF Surjection
<1>2. IsFiniteSet(T)
  <2> HIDE DEF f, T
  <2> QED BY <1>1, FS_Surjection
<1>3. \A t \in T : IsFiniteSet(t)
    BY UsageType DEF IsMap
<1>4. IsFiniteSet(UNION T)
  <2> HIDE DEF T
  <2> QED BY <1>2, <1>3, FS_UNION
<1>5. Cardinality(UNION T) \in Nat
    BY <1>4, FS_CardinalityType
<1> QED BY <1>4, <1>5 DEF Bytes, AllBytes

(***************************************************************************)
(* The memory of a hash table is that of its parts.                        *)
(***************************************************************************)
LEMMA BytesSplit ==
    ASSUME NEW m, IsMap(m, Value), IsFiniteSet(DOMAIN m),
           NEW A, NEW B, A \cup B = DOMAIN m, A \cap B = {}
    PROVE  Bytes(m) = Bytes(Restrict(m, A)) + Bytes(Restrict(m, B))
<1> DEFINE a == Restrict(m, A)
           b == Restrict(m, B)
<1>1. /\ IsMap(a, Value) /\ DOMAIN a = A /\ \A k \in A : a[k] = m[k]
      /\ IsMap(b, Value) /\ DOMAIN b = B /\ \A k \in B : b[k] = m[k]
    BY DEF IsMap, Restrict
<1>2. IsFiniteSet(A) /\ IsFiniteSet(B)
    BY FS_Subset
<1> HIDE DEF a, b
<1>3. /\ IsFiniteSet(AllBytes(a)) /\ Bytes(a) = Cardinality(AllBytes(a)) /\ Bytes(a) \in Nat
      /\ IsFiniteSet(AllBytes(b)) /\ Bytes(b) = Cardinality(AllBytes(b)) /\ Bytes(b) \in Nat
      /\ Bytes(m) = Cardinality(AllBytes(m))
    BY <1>1, <1>2, BytesFinite
<1>4. AllBytes(m) = AllBytes(a) \cup AllBytes(b)
    BY <1>1 DEF AllBytes
<1>5. AllBytes(a) \cap AllBytes(b) = {}
    BY <1>1 DEF AllBytes, EntryBytes
<1>6. Cardinality({}) = 0
    BY FS_EmptySet
<1>7. Cardinality(AllBytes(a) \cup AllBytes(b))
        = Cardinality(AllBytes(a)) + Cardinality(AllBytes(b)) - 0
    BY <1>3, <1>5, <1>6, FS_Union
<1>8. Bytes(m) = Bytes(a) + Bytes(b)
    BY <1>3, <1>4, <1>7
<1> QED BY <1>8 DEF a, b

(***************************************************************************)
(* Deleting an entry frees calculateMemoryUsage of it (Delete,             *)
(* cleanupExpiredkeys, the eviction loop).                                 *)
(***************************************************************************)
LEMMA BytesWithout ==
    ASSUME NEW m, IsMap(m, Value), IsFiniteSet(DOMAIN m), NEW k \in DOMAIN m
    PROVE  Bytes(Without(m, k)) = Bytes(m) - calculateMemoryUsage(k, m[k])
<1>1. Without(m, k) = Restrict(m, DOMAIN m \ {k})
    BY DEF Without, Restrict
<1>2. Bytes(m) = Bytes(Restrict(m, DOMAIN m \ {k})) + Bytes(Restrict(m, {k}))
    BY BytesSplit
<1>3. AllBytes(Restrict(m, {k})) = EntryBytes(k, m[k])
    BY DEF AllBytes, Restrict
<1>4. k \in Key /\ m[k] \in Value
    BY DEF IsMap
<1>5. Bytes(Restrict(m, {k})) = calculateMemoryUsage(k, m[k])
    BY <1>3, <1>4, UsageType DEF Bytes, AllBytes
<1>6. Bytes(Without(m, k)) \in Nat
  <2>1. IsMap(Without(m, k), Value) /\ DOMAIN Without(m, k) = DOMAIN m \ {k}
      BY DEF IsMap, Without
  <2>2. IsFiniteSet(DOMAIN Without(m, k))
      BY <2>1, FS_Subset
  <2> QED BY <2>1, <2>2, BytesFinite
<1>7. calculateMemoryUsage(k, m[k]) \in Nat
    BY <1>4, UsageType
<1> QED BY <1>1, <1>2, <1>5, <1>6, <1>7

(***************************************************************************)
(* Inserting a new entry takes calculateMemoryUsage of it (SetInternal).   *)
(***************************************************************************)
LEMMA BytesWith ==
    ASSUME NEW m, IsMap(m, Value), IsFiniteSet(DOMAIN m),
           NEW k \in Key, k \notin DOMAIN m, NEW v \in Value
    PROVE  Bytes(With(m, k, v)) = Bytes(m) + calculateMemoryUsage(k, v)
<1> DEFINE w == With(m, k, v)
<1>1. IsMap(w, Value) /\ DOMAIN w = DOMAIN m \cup {k} /\ w[k] = v
    BY DEF IsMap, With
<1>2. IsFiniteSet(DOMAIN w)
    BY <1>1, FS_AddElement
<1>3. Without(w, k) = m
  <2>1. m = [x \in DOMAIN m |-> m[x]]
      BY DEF IsMap
  <2>2. DOMAIN w \ {k} = DOMAIN m /\ \A x \in DOMAIN m : w[x] = m[x]
      BY DEF With
  <2> QED BY <2>1, <2>2 DEF Without
<1> HIDE DEF w
<1>4. Bytes(m) = Bytes(w) - calculateMemoryUsage(k, v)
    BY <1>1, <1>2, <1>3, BytesWithout
<1>5. Bytes(w) \in Nat /\ calculateMemoryUsage(k, v) \in Nat
    BY <1>1, <1>2, BytesFinite, UsageType
<1>6. Bytes(w) = Bytes(m) + calculateMemoryUsage(k, v)
    BY <1>4, <1>5
<1> QED BY <1>6 DEF w

-----------------------------------------------------------------------------
(***************************************************************************)
(* A linked cache holds finitely many entries: as many as its list.        *)
(***************************************************************************)
LEMMA EntriesFinite ==
    ASSUME NEW c, IsCache(c), Linked(c)
    PROVE  IsFiniteSet(DOMAIN c.val) /\ Cardinality(DOMAIN c.val) = Len(c.order)
<1> DEFINE n == Len(c.order)
           f == [i \in 1 .. n |-> c.order[i]]
           T == DOMAIN c.val
<1>1. n \in Nat
    BY DEF IsCache
<1>2. f \in Surjection(1 .. n, T) /\ f \in Injection(1 .. n, T)
    BY DEF Linked, Elems, NoDuplicates, Surjection, Injection, IsInjective
<1> HIDE DEF n, f, T
<1>3. IsFiniteSet(1 .. n) /\ Cardinality(1 .. n) = n
    BY <1>1, FS_Interval
<1>4. IsFiniteSet(T) /\ Cardinality(T) = Cardinality(1 .. n)
    BY <1>2, <1>3, FS_Surjection
<1> QED BY <1>3, <1>4 DEF n, T

(***************************************************************************)
(* The eviction loop ends, below the capacity; it evicts while it must.    *)
(***************************************************************************)
LEMMA KeptCountLemma ==
    ASSUME NEW c, IsCache(c), Linked(c), NEW newMemory
    PROVE  LET n == KeptCount(c, newMemory)
           IN  /\ n \in 0 .. Len(c.order)
               /\ n < Capacity
               /\ ~MustEvict(c, n, newMemory)
               /\ \A m \in n + 1 .. Len(c.order) : MustEvict(c, m, newMemory)
<1> DEFINE L == Len(c.order)
           Stops(n) == ~MustEvict(c, n, newMemory)
           T == {x \in Nat : x <= L /\ Stops(L - x)}
<1>1. L \in Nat
    BY DEF IsCache
<1>2. Stops(0)
    BY <1>1 DEF MustEvict, Linked
<1>3. \A n \in 0 .. L : Stops(n) => n < Capacity
    BY <1>1, CapacityAssumption DEF MustEvict, Linked
<1> HIDE DEF L, Stops
<1>4. T \subseteq Nat /\ T # {}
  <2>1. L - L = 0 /\ L <= L
      BY <1>1
  <2> QED BY <1>1, <1>2, <2>1
<1>5. PICK x \in T : \A y \in T : ~(<<y, x>> \in OpToRel(<, Nat))
    BY <1>4, WFMin, NatLessThanWellFounded
<1>6. \A y \in T : ~(y < x)
    BY <1>4, <1>5 DEF OpToRel
<1>7. /\ L - x \in 0 .. L
      /\ Stops(L - x)
      /\ \A m \in L - x + 1 .. L : ~Stops(m)
  <2>1. x \in Nat /\ x <= L /\ Stops(L - x)
      BY <1>5
  <2>2. ASSUME NEW m \in L - x + 1 .. L PROVE ~Stops(m)
    <3>1. L - m \in Nat /\ L - m <= L /\ L - m < x /\ L - (L - m) = m
        BY <1>1, <2>1
    <3> QED BY <1>6, <3>1
  <2> QED BY <1>1, <2>1, <2>2
<1>8. \E n \in 0 .. L : Stops(n) /\ \A m \in n + 1 .. L : ~Stops(m)
    BY <1>7
<1>9. KeptCount(c, newMemory)
        = CHOOSE n \in 0 .. L : Stops(n) /\ \A m \in n + 1 .. L : ~Stops(m)
    BY DEF KeptCount, L, Stops
<1>10. LET n == KeptCount(c, newMemory)
       IN  n \in 0 .. L /\ Stops(n) /\ \A m \in n + 1 .. L : ~Stops(m)
    BY <1>8, <1>9
<1> QED BY <1>3, <1>10 DEF L, Stops

-----------------------------------------------------------------------------
(***************************************************************************)
(* What each operation does to a well-formed cache.  Exact says that       *)
(* memoryUsage is the memory of the entries.                               *)
(***************************************************************************)
Good(c) == IsCache(c) /\ Linked(c)
Exact(c) == c.mem = Bytes(c.val)

(***************************************************************************)
(* m[k] = v: the type, the domain and the values of the result.            *)
(***************************************************************************)
LEMMA WithFacts ==
    ASSUME NEW S, NEW m, IsMap(m, S), NEW k \in Key, NEW v \in S
    PROVE  /\ IsMap(With(m, k, v), S)
           /\ DOMAIN With(m, k, v) = DOMAIN m \cup {k}
           /\ With(m, k, v)[k] = v
           /\ \A x \in DOMAIN m \ {k} : With(m, k, v)[x] = m[x]
BY DEF IsMap, With

(***************************************************************************)
(* delete(m, k): the type, the domain and the values of the result.        *)
(***************************************************************************)
LEMMA WithoutFacts ==
    ASSUME NEW S, NEW m, IsMap(m, S), NEW k
    PROVE  /\ IsMap(Without(m, k), S)
           /\ DOMAIN Without(m, k) = DOMAIN m \ {k}
           /\ \A x \in DOMAIN m \ {k} : Without(m, k)[x] = m[x]
BY DEF IsMap, Without

(***************************************************************************)
(* The update branch of SetInternal keeps list, table and counter together *)
(* and the memory exact.                                                   *)
(***************************************************************************)
LEMMA UpdateNodeLemma ==
    ASSUME NEW c, Good(c), NEW k \in DOMAIN c.val, NEW v \in Value
    PROVE  LET d == UpdateNode(c, k, v)
           IN  /\ Good(d)
               /\ Exact(c) => Exact(d)
               /\ d.val = With(c.val, k, v)
               /\ d.order = moveToHead(c.order, k)
               /\ d.ttl = c.ttl /\ d.hits = c.hits /\ d.misses = c.misses /\ d.total = c.total
<1> DEFINE d == UpdateNode(c, k, v)
           u == calculateMemoryUsage(k, v)
           o == calculateMemoryUsage(k, c.val[k])
<1>1. IsCache(c) /\ Linked(c)
    BY DEF Good
<1>2. k \in Key /\ c.val[k] \in Value /\ IsMap(c.val, Value)
    BY <1>1 DEF IsCache, IsMap
<1>3. u \in Nat /\ o \in Nat
    BY <1>2, UsageType
<1>4. /\ d.order = moveToHead(c.order, k) /\ d.val = With(c.val, k, v)
      /\ d.size = c.size /\ d.mem = c.mem - o + u /\ d.ttl = c.ttl
      /\ d.hits = c.hits /\ d.misses = c.misses /\ d.total = c.total
    BY <1>1 DEF UpdateNode, IsCache
<1>5. k \in Elems(c.order) /\ c.order \in Seq(Key) /\ NoDuplicates(c.order)
    BY <1>1 DEF Linked, IsCache
<1>6. /\ moveToHead(c.order, k) \in Seq(Key)
      /\ Len(moveToHead(c.order, k)) = Len(c.order)
      /\ NoDuplicates(moveToHead(c.order, k))
      /\ Elems(moveToHead(c.order, k)) = Elems(c.order)
    BY <1>5, MoveToHeadLemma
<1>7. IsMap(With(c.val, k, v), Value) /\ DOMAIN With(c.val, k, v) = DOMAIN c.val
    BY <1>2 DEF IsMap, With
<1>m. c.mem - o + u \in Int
    BY <1>1, <1>3 DEF IsCache
<1>8. IsCache(d)
    BY <1>1, <1>m, <1>4, <1>6, <1>7 DEF IsCache, IsMap, UpdateNode
<1> HIDE DEF d, u, o
<1>9. Linked(d)
    BY <1>1, <1>4, <1>6, <1>7 DEF Linked
<1>10. ASSUME Exact(c) PROVE Exact(d)
  <2>1. IsFiniteSet(DOMAIN c.val)
      BY <1>1, EntriesFinite
  <2> DEFINE w == Without(c.val, k)
  <2>2. IsMap(w, Value) /\ DOMAIN w = DOMAIN c.val \ {k}
      BY <1>2, WithoutFacts
  <2>3. Bytes(w) = Bytes(c.val) - o
      BY <1>2, <2>1, BytesWithout DEF o
  <2>4. With(c.val, k, v) = With(w, k, v)
      BY DEF With, Without
  <2>5. IsFiniteSet(DOMAIN w)
      BY <2>1, <2>2, FS_Subset
  <2>6. Bytes(With(w, k, v)) = Bytes(w) + u
      BY <1>2, <2>2, <2>5, BytesWith DEF u
  <2> QED BY <1>3, <1>4, <1>10, <2>3, <2>4, <2>6 DEF Exact
<1> QED BY <1>4, <1>8, <1>9, <1>10 DEF Good, d

(***************************************************************************)
(* The insert branch of SetInternal, eviction loop included, keeps list,   *)
(* table and counter together and the memory exact.                        *)
(***************************************************************************)
LEMMA InsertNodeLemma ==
    ASSUME NEW c, Good(c), NEW k \in Key \ DOMAIN c.val, NEW v \in Value
    PROVE  LET d == InsertNode(c, k, v)
               n == KeptCount(c, calculateMemoryUsage(k, v))
           IN  /\ Good(d)
               /\ Exact(c) => Exact(d)
               /\ n \in 0 .. Len(c.order)
               /\ d.val = With(Keep(c, n), k, v)
               /\ DOMAIN Keep(c, n) = {c.order[i] : i \in 1 .. n}
               /\ DOMAIN Keep(c, n) \subseteq DOMAIN c.val
               /\ d.order = addToHead(SubSeq(c.order, 1, n), k)
               /\ d.ttl = c.ttl /\ d.hits = c.hits /\ d.misses = c.misses /\ d.total = c.total
<1> DEFINE u == calculateMemoryUsage(k, v)
           n == KeptCount(c, u)
           d == InsertNode(c, k, v)
           p == SubSeq(c.order, 1, n)
           A == {c.order[i] : i \in 1 .. n}
           B == {c.order[i] : i \in n + 1 .. Len(c.order)}
           K == Keep(c, n)
           E == Evicted(c, n)
<1>1. IsCache(c) /\ Linked(c) /\ Len(c.order) \in Nat
    BY DEF Good, IsCache
<1>2. /\ IsMap(c.val, Value) /\ c.order \in Seq(Key) /\ NoDuplicates(c.order)
      /\ Elems(c.order) = DOMAIN c.val /\ c.size = Len(c.order)
    BY <1>1 DEF IsCache, Linked, IsMap
<1>3. u \in Nat
    BY UsageType
<1>4. n \in 0 .. Len(c.order) /\ n < Capacity
    BY <1>1, KeptCountLemma
<1>5. /\ d.order = addToHead(p, k) /\ d.val = With(K, k, v)
      /\ d.size = c.size - (Len(c.order) - n) + 1 /\ d.mem = c.mem - Bytes(E) + u
      /\ d.ttl = c.ttl /\ d.hits = c.hits /\ d.misses = c.misses /\ d.total = c.total
    BY <1>1 DEF InsertNode, IsCache
<1>d. d = [c EXCEPT !.order = addToHead(p, k), !.val = With(K, k, v),
                    !.mem = @ - Bytes(E) + u, !.size = @ - (Len(c.order) - n) + 1]
    BY DEF InsertNode
<1> HIDE DEF n, u, d
<1>6. p \in Seq(Key) /\ Len(p) = n /\ NoDuplicates(p) /\ Elems(p) = A
    BY <1>2, <1>4, PrefixLemma
<1>7. A \cup B = DOMAIN c.val /\ A \cap B = {}
  <2>1. A \cup B = Elems(c.order)
    <3>1. 1 .. Len(c.order) = (1 .. n) \cup (n + 1 .. Len(c.order))
        BY <1>1, <1>4
    <3> QED BY <3>1 DEF Elems
  <2>2. A \cap B = {}
      BY <1>1, <1>2, <1>4 DEF NoDuplicates
  <2> QED BY <1>2, <2>1, <2>2
<1>8. K = Restrict(c.val, A) /\ E = Restrict(c.val, B)
    BY DEF Keep, Evicted
<1> HIDE DEF p, A, B, K, E
<1>9. /\ IsMap(K, Value) /\ DOMAIN K = A
      /\ IsMap(E, Value) /\ DOMAIN E = B
    BY <1>2, <1>7, <1>8 DEF IsMap, Restrict
<1>10. IsFiniteSet(DOMAIN c.val) /\ IsFiniteSet(DOMAIN K) /\ IsFiniteSet(DOMAIN E)
    BY <1>1, <1>7, <1>9, EntriesFinite, FS_Subset
<1>11. /\ Bytes(c.val) = Bytes(K) + Bytes(E)
       /\ Bytes(K) \in Nat /\ Bytes(E) \in Nat
    BY <1>2, <1>7, <1>8, <1>9, <1>10, BytesSplit, BytesFinite
<1>12. /\ IsMap(With(K, k, v), Value) /\ DOMAIN With(K, k, v) = A \cup {k}
       /\ k \notin A
    BY <1>7, <1>9, WithFacts
<1>13. /\ addToHead(p, k) \in Seq(Key) /\ Len(addToHead(p, k)) = n + 1
       /\ NoDuplicates(addToHead(p, k)) /\ Elems(addToHead(p, k)) = A \cup {k}
    BY <1>6, <1>12, AddToHeadLemma
<1>14. IsCache(d)
  <2>1. c.mem - Bytes(E) + u \in Int /\ c.size - (Len(c.order) - n) + 1 \in Int
      BY <1>1, <1>3, <1>4, <1>11 DEF IsCache
  <2> QED BY <1>1, <1>d, <1>5, <1>12, <1>13, <2>1 DEF IsCache, IsMap
<1>15. Linked(d)
    BY <1>1, <1>2, <1>4, <1>5, <1>12, <1>13, CapacityAssumption DEF Linked
<1>16. ASSUME Exact(c) PROVE Exact(d)
  <2>1. Bytes(With(K, k, v)) = Bytes(K) + u
      BY <1>9, <1>10, <1>12, BytesWith DEF u
  <2> QED BY <1>3, <1>5, <1>11, <1>16, <2>1 DEF Exact
<1>17. /\ Good(d) /\ (Exact(c) => Exact(d)) /\ n \in 0 .. Len(c.order)
       /\ d.val = With(K, k, v) /\ DOMAIN K = A /\ DOMAIN K \subseteq DOMAIN c.val
       /\ d.order = addToHead(p, k)
       /\ d.ttl = c.ttl /\ d.hits = c.hits /\ d.misses = c.misses /\ d.total = c.total
    BY <1>4, <1>5, <1>7, <1>9, <1>14, <1>15, <1>16 DEF Good
<1> QED BY <1>17 DEF d, n, u, p, A, K

(***************************************************************************)
(* SetInternal on each of its three paths.                                 *)
(***************************************************************************)
LEMMA SetInternalLemma ==
    ASSUME NEW c, Good(c), NEW k \in Key, NEW v \in Value
    PROVE  LET d == SetInternal(c, k, v)
           IN  /\ Good(d)
               /\ Exact(c) => Exact(d)
               /\ d.ttl = c.ttl /\ d.hits = c.hits /\ d.misses = c.misses /\ d.total = c.total
<1>1. CASE Rejects(k, v)
    BY <1>1 DEF SetInternal
<1>2. CASE ~Rejects(k, v) /\ k \in DOMAIN c.val
  <2>1. SetInternal(c, k, v) = UpdateNode(c, k, v)
      BY <1>2 DEF SetInternal
  <2> QED BY <1>2, <2>1, UpdateNodeLemma
<1>3. CASE ~Rejects(k, v) /\ k \notin DOMAIN c.val
  <2>1. SetInternal(c, k, v) = InsertNode(c, k, v)
      BY <1>3 DEF SetInternal
  <2>2. k \in Key \ DOMAIN c.val
      BY <1>3
  <2>3. LET d == InsertNode(c, k, v)
        IN  /\ Good(d)
            /\ Exact(c) => Exact(d)
            /\ d.ttl = c.ttl /\ d.hits = c.hits /\ d.misses = c.misses /\ d.total = c.total
      BY <2>2, InsertNodeLemma, Zenon
  <2> QED BY <2>1, <2>3
<1> QED BY <1>1, <1>2, <1>3

(***************************************************************************)
(* Moving a node to the head changes nothing but the order.                *)
(***************************************************************************)
LEMMA TouchLemma ==
    ASSUME NEW c, Good(c), NEW k \in DOMAIN c.val
    PROVE  LET d == Touch(c, k)
           IN  /\ Good(d)
               /\ d.order = moveToHead(c.order, k)
               /\ d.val = c.val /\ d.mem = c.mem /\ d.ttl = c.ttl
               /\ d.hits = c.hits /\ d.misses = c.misses /\ d.total = c.total
<1> DEFINE d == Touch(c, k)
<1>1. IsCache(c) /\ Linked(c) /\ c.order \in Seq(Key) /\ NoDuplicates(c.order)
    BY DEF Good, IsCache, Linked
<1>2. /\ d.order = moveToHead(c.order, k) /\ d.size = c.size
      /\ d.val = c.val /\ d.mem = c.mem /\ d.ttl = c.ttl
      /\ d.hits = c.hits /\ d.misses = c.misses /\ d.total = c.total
    BY <1>1 DEF Touch, IsCache
<1>3. k \in Elems(c.order)
    BY <1>1 DEF Linked
<1>4. /\ moveToHead(c.order, k) \in Seq(Key)
      /\ Len(moveToHead(c.order, k)) = Len(c.order)
      /\ NoDuplicates(moveToHead(c.order, k))
      /\ Elems(moveToHead(c.order, k)) = Elems(c.order)
    BY <1>1, <1>3, MoveToHeadLemma
<1>5. IsCache(d)
    BY <1>1, <1>2, <1>4 DEF IsCache, Touch
<1> HIDE DEF d
<1>6. Linked(d)
    BY <1>1, <1>2, <1>4 DEF Linked
<1> QED BY <1>2, <1>5, <1>6 DEF Good, d

(***************************************************************************)
(* Counting a hit or a miss changes nothing but the statistics.            *)
(***************************************************************************)
LEMMA CountLemma ==
    ASSUME NEW c, Good(c), NEW d, d = CountHit(c) \/ d = CountMiss(c)
    PROVE  /\ Good(d)
           /\ d.order = c.order /\ d.val = c.val /\ d.mem = c.mem /\ d.ttl = c.ttl
           /\ d.total = c.total + 1
           /\ d.hits + d.misses = c.hits + c.misses + 1
<1>1. IsCache(c) /\ Linked(c) /\ c.hits \in Nat /\ c.misses \in Nat /\ c.total \in Nat
    BY DEF Good, IsCache
<1>2. CASE d = CountHit(c)
  <2>1. /\ d.order = c.order /\ d.val = c.val /\ d.mem = c.mem /\ d.ttl = c.ttl
        /\ d.size = c.size /\ d.total = c.total + 1
        /\ d.hits = c.hits + 1 /\ d.misses = c.misses
      BY <1>1, <1>2 DEF CountHit, IsCache
  <2>2. c.hits + 1 \in Nat /\ c.total + 1 \in Nat
      BY <1>1
  <2>3. IsCache(d)
      BY <1>1, <1>2, <2>1, <2>2 DEF CountHit, IsCache
  <2>4. Linked(d)
      BY <1>1, <2>1 DEF Linked
  <2> QED BY <1>1, <2>1, <2>3, <2>4 DEF Good
<1>3. CASE d = CountMiss(c)
  <2>1. /\ d.order = c.order /\ d.val = c.val /\ d.mem = c.mem /\ d.ttl = c.ttl
        /\ d.size = c.size /\ d.total = c.total + 1
        /\ d.hits = c.hits /\ d.misses = c.misses + 1
      BY <1>1, <1>3 DEF CountMiss, IsCache
  <2>2. c.misses + 1 \in Nat /\ c.total + 1 \in Nat
      BY <1>1
  <2>3. IsCache(d)
      BY <1>1, <1>3, <2>1, <2>2 DEF CountMiss, IsCache
  <2>4. Linked(d)
      BY <1>1, <2>1 DEF Linked
  <2> QED BY <1>1, <2>1, <2>3, <2>4 DEF Good
<1> QED BY <1>2, <1>3

(***************************************************************************)
(* Unlinking an entry, with or without giving its memory back.             *)
(***************************************************************************)
LEMMA UnlinkLemma ==
    ASSUME NEW c, Good(c), NEW k \in DOMAIN c.val,
           NEW d, d = DropExpired(c, k) \/ d = Delete(c, k)
    PROVE  /\ Good(d)
           /\ d.order = removeNode(c.order, k)
           /\ d.val = Without(c.val, k) /\ d.ttl = Without(c.ttl, k)
           /\ DOMAIN d.val = DOMAIN c.val \ {k}
           /\ d.hits = c.hits /\ d.misses = c.misses /\ d.total = c.total
<1>1. /\ IsCache(c) /\ Linked(c) /\ c.order \in Seq(Key) /\ NoDuplicates(c.order)
      /\ Len(c.order) \in Nat /\ c.size = Len(c.order)
      /\ IsMap(c.val, Value) /\ IsMap(c.ttl, Int) /\ k \in Key /\ c.val[k] \in Value
    BY DEF Good, IsCache, Linked, IsMap
<1> DEFINE m == c.mem - calculateMemoryUsage(k, c.val[k])
           w == Without(c.val, k)
           t == Without(c.ttl, k)
           o == removeNode(c.order, k)
<1>2. m \in Int
  <2>1. calculateMemoryUsage(k, c.val[k]) \in Nat
      BY <1>1, UsageType
  <2>2. c.mem \in Int
      BY <1>1 DEF IsCache
  <2> QED BY <2>1, <2>2
<1>4. o \in Seq(Key) /\ Len(o) = Len(c.order) - 1 /\ NoDuplicates(o)
      /\ Elems(o) = Elems(c.order) \ {k}
  <2>1. k \in Elems(c.order)
      BY <1>1 DEF Linked
  <2> QED BY <1>1, <2>1, RemoveNodeLemma
<1>5. IsMap(w, Value) /\ DOMAIN w = DOMAIN c.val \ {k}
    BY <1>1 DEF IsMap, Without
<1>6. IsMap(t, Int)
    BY <1>1 DEF IsMap, Without
<1>7. /\ DropExpired(c, k) = [c EXCEPT !.order = o, !.val = w, !.ttl = t, !.size = @ - 1]
      /\ Delete(c, k) = [c EXCEPT !.mem = m, !.order = o, !.val = w, !.ttl = t, !.size = @ - 1]
    BY DEF DropExpired, Delete
<1> HIDE DEF m, w, t, o
<1>8. /\ d.order = o /\ d.size = c.size - 1 /\ d.val = w /\ d.ttl = t
      /\ d.hits = c.hits /\ d.misses = c.misses /\ d.total = c.total
      /\ IsCache(d)
  <2>0. c.size - 1 \in Int
      BY <1>1
  <2>1. CASE d = DropExpired(c, k)
    <3>1. /\ d.order = o /\ d.size = c.size - 1 /\ d.val = w /\ d.ttl = t
          /\ d.hits = c.hits /\ d.misses = c.misses /\ d.total = c.total
        BY <1>1, <1>7, <2>1 DEF IsCache
    <3>2. IsCache(d)
        BY <1>1, <1>4, <1>5, <1>6, <1>7, <2>0, <2>1, <3>1 DEF IsCache, IsMap
    <3> QED BY <3>1, <3>2
  <2>2. CASE d = Delete(c, k)
    <3>1. /\ d.order = o /\ d.size = c.size - 1 /\ d.val = w /\ d.ttl = t
          /\ d.hits = c.hits /\ d.misses = c.misses /\ d.total = c.total
        BY <1>1, <1>7, <2>2 DEF IsCache
    <3>2. IsCache(d)
        BY <1>1, <1>2, <1>4, <1>5, <1>6, <1>7, <2>0, <2>2, <3>1 DEF IsCache, IsMap
    <3> QED BY <3>1, <3>2
  <2> QED BY <2>1, <2>2
<1>9. Linked(d)
  <2>1. c.size - 1 <= Capacity
      BY <1>1, CapacityAssumption DEF Linked
  <2> QED BY <1>1, <1>4, <1>5, <1>8, <2>1 DEF Linked
<1> QED BY <1>5, <1>8, <1>9 DEF Good, o, w, t

(***************************************************************************)
(* Delete gives back exactly the memory of the entry.                      *)
(***************************************************************************)
LEMMA DeleteExact ==
    ASSUME NEW c, Good(c), NEW k \in DOMAIN c.val, Exact(c)
    PROVE  Exact(Delete(c, k))
<1>1. IsCache(c) /\ Linked(c) /\ IsMap(c.val, Value)
    BY DEF Good, IsCache, IsMap
<1>2. /\ Delete(c, k).mem = c.mem - calculateMemoryUsage(k, c.val[k])
      /\ Delete(c, k).val = Without(c.val, k)
    BY <1>1 DEF Delete, IsCache
<1>3. Bytes(Without(c.val, k)) = Bytes(c.val) - calculateMemoryUsage(k, c.val[k])
    BY <1>1, EntriesFinite, BytesWithout
<1> QED BY <1>2, <1>3 DEF Exact

-----------------------------------------------------------------------------
(***************************************************************************)
(* What every operation preserves: the structure, the sum of the request   *)
(* counters and, as long as no deadline is in play, the memory accounting. *)
(***************************************************************************)
Counted(c) == c.hits + c.misses = c.total
Accounted(c) == DOMAIN c.ttl = {} /\ Exact(c)

Preserves(c, d) ==
    /\ Good(d)
    /\ Counted(c) => Counted(d)
    /\ Accounted(c) => Accounted(d)

(***************************************************************************)
(* SetInternal preserves the invariant of the cache.                       *)
(***************************************************************************)
LEMMA SetInternalPreserves ==
    ASSUME NEW c, Good(c), NEW k \in Key, NEW v \in Value
    PROVE  Preserves(c, SetInternal(c, k, v))
BY SetInternalLemma DEF Preserves, Counted, Accounted

(***************************************************************************)
(* A counted hit preserves the invariant of the cache (Get, GetMulti).     *)
(***************************************************************************)
LEMMA HitPreserves ==
    ASSUME NEW c, Good(c), NEW k \in DOMAIN c.val
    PROVE  /\ Preserves(c, Touch(CountHit(c), k))
           /\ Touch(CountHit(c), k).order = moveToHead(c.order, k)
           /\ Touch(CountHit(c), k).val = c.val
<1> DEFINE d == CountHit(c)
           e == Touch(d, k)
<1>1. /\ Good(d) /\ d.order = c.order /\ d.val = c.val /\ d.mem = c.mem /\ d.ttl = c.ttl
      /\ d.total = c.total + 1 /\ d.hits + d.misses = c.hits + c.misses + 1
    BY CountLemma
<1> HIDE DEF d
<1>2. /\ Good(e) /\ e.order = moveToHead(d.order, k)
      /\ e.val = d.val /\ e.mem = d.mem /\ e.ttl = d.ttl
      /\ e.hits = d.hits /\ e.misses = d.misses /\ e.total = d.total
    BY <1>1, TouchLemma
<1> HIDE DEF e
<1>3. Preserves(c, e)
    BY <1>1, <1>2 DEF Preserves, Counted, Accounted, Exact
<1> QED BY <1>1, <1>2, <1>3 DEF d, e

(***************************************************************************)
(* A counted miss preserves the invariant of the cache (Get, GetMulti).    *)
(***************************************************************************)
LEMMA MissPreserves ==
    ASSUME NEW c, Good(c)
    PROVE  /\ Preserves(c, CountMiss(c))
           /\ CountMiss(c).order = c.order /\ CountMiss(c).val = c.val
BY CountLemma DEF Preserves, Counted, Accounted, Exact

(***************************************************************************)
(* An expired entry found by Get: the accounting is not preserved, but     *)
(* then a deadline was in play.                                            *)
(***************************************************************************)
LEMMA DropPreserves ==
    ASSUME NEW c, Good(c), NEW k \in DOMAIN c.val, k \in DOMAIN c.ttl
    PROVE  LET e == DropExpired(CountMiss(c), k)
           IN  /\ Preserves(c, e)
               /\ e.order = removeNode(c.order, k)
               /\ e.val = Without(c.val, k)
<1> DEFINE d == CountMiss(c)
           e == DropExpired(d, k)
<1>1. /\ Good(d) /\ d.order = c.order /\ d.val = c.val
      /\ d.total = c.total + 1 /\ d.hits + d.misses = c.hits + c.misses + 1
    BY CountLemma
<1> HIDE DEF d
<1>2. /\ Good(e) /\ e.order = removeNode(d.order, k) /\ e.val = Without(d.val, k)
      /\ e.hits = d.hits /\ e.misses = d.misses /\ e.total = d.total
    BY <1>1, UnlinkLemma
<1> HIDE DEF e
<1>3. Preserves(c, e)
    BY <1>1, <1>2 DEF Preserves, Counted, Accounted
<1> QED BY <1>1, <1>2, <1>3 DEF d, e

(***************************************************************************)
(* Get preserves the invariant of the cache, on the expired path too.      *)
(***************************************************************************)
LEMMA GetPreserves ==
    ASSUME NEW c, Good(c), NEW k \in Key
    PROVE  Preserves(c, Get(c, k))
<1>1. CASE Found(c, k)
    BY <1>1, HitPreserves DEF Get, Found
<1>2. CASE ~Found(c, k) /\ k \in DOMAIN c.val
  <2>1. k \in DOMAIN c.ttl
      BY <1>2 DEF Found, Expired
  <2> QED BY <1>2, <2>1, DropPreserves DEF Get
<1>3. CASE ~Found(c, k) /\ k \notin DOMAIN c.val
    BY <1>3, MissPreserves DEF Get
<1> QED BY <1>1, <1>2, <1>3

(***************************************************************************)
(* An iteration of GetMulti preserves the invariant of the cache.          *)
(***************************************************************************)
LEMMA GetMultiOnePreserves ==
    ASSUME NEW c, Good(c), NEW k \in Key
    PROVE  Preserves(c, GetMultiOne(c, k))
BY HitPreserves, MissPreserves DEF GetMultiOne

(***************************************************************************)
(* Delete and an iteration of DeleteMulti preserve the invariant.          *)
(***************************************************************************)
LEMMA DeletePreserves ==
    ASSUME NEW c, Good(c), NEW k \in Key
    PROVE  Preserves(c, Delete(c, k))
<1>1. CASE k \in DOMAIN c.val
  <2> DEFINE d == Delete(c, k)
  <2>1. /\ Good(d) /\ d.ttl = Without(c.ttl, k)
        /\ d.hits = c.hits /\ d.misses = c.misses /\ d.total = c.total
      BY <1>1, UnlinkLemma
  <2>2. Exact(c) => Exact(d)
      BY <1>1, DeleteExact
  <2>3. DOMAIN c.ttl = {} => DOMAIN Without(c.ttl, k) = {}
      BY DEF Without
  <2> QED BY <2>1, <2>2, <2>3 DEF Preserves, Counted, Accounted
<1>2. CASE k \notin DOMAIN c.val
    BY <1>2 DEF Delete, Preserves
<1> QED BY <1>1, <1>2

(***************************************************************************)
(* A change of the deadlines alone.                                        *)
(***************************************************************************)
LEMMA DeadlineLemma ==
    ASSUME NEW c, Good(c), NEW t, IsMap(t, Int)
    PROVE  LET d == [c EXCEPT !.ttl = t]
           IN  /\ Good(d)
               /\ Counted(c) => Counted(d)
               /\ d.order = c.order /\ d.val = c.val /\ d.mem = c.mem /\ d.ttl = t
<1> DEFINE d == [c EXCEPT !.ttl = t]
<1>1. IsCache(c) /\ Linked(c)
    BY DEF Good
<1>2. /\ d.order = c.order /\ d.val = c.val /\ d.mem = c.mem /\ d.ttl = t /\ d.size = c.size
      /\ d.hits = c.hits /\ d.misses = c.misses /\ d.total = c.total
    BY <1>1 DEF IsCache
<1>3. IsCache(d)
    BY <1>1, <1>2 DEF IsCache, IsMap
<1> HIDE DEF d
<1>4. Linked(d)
    BY <1>1, <1>2 DEF Linked
<1> QED BY <1>2, <1>3, <1>4 DEF Good, Counted, d

(***************************************************************************)
(* An iteration of cleanupExpiredkeys preserves the invariant.             *)
(***************************************************************************)
LEMMA CleanupOnePreserves ==
    ASSUME NEW c, Good(c), NEW k \in Key, k \in DOMAIN c.ttl
    PROVE  Preserves(c, CleanupOne(c, k))
<1>1. CASE k \in DOMAIN c.val
    BY <1>1, DeletePreserves DEF CleanupOne
<1>2. CASE k \notin DOMAIN c.val
  <2>1. IsMap(Without(c.ttl, k), Int)
      BY DEF Good, IsCache, IsMap, Without
  <2>2. CleanupOne(c, k) = [c EXCEPT !.ttl = Without(c.ttl, k)]
      BY <1>2 DEF CleanupOne
  <2> QED BY <2>1, <2>2, DeadlineLemma DEF Preserves, Accounted
<1> QED BY <1>1, <1>2

-----------------------------------------------------------------------------
(***************************************************************************)
(* The inductive invariant.  ListMatchesTable is inductive only together   *)
(* with what the loops rely on: the key lists of a read or delete loop are *)
(* not empty, and the keys of a cleanup pass are past their deadlines.     *)
(***************************************************************************)
LoopShape ==
    /\ call.op \in {"GetMulti", "DeleteMulti"} => call.keys # <<>>
    /\ call.op = "cleanup" => \A k \in call.expired : Expired(lru, k)

CoreInv ==
    /\ Good(lru)
    /\ Counted(lru)
    /\ ~HasTTL => Accounted(lru)
    /\ CallOK
    /\ LoopShape

RestOK ==
    /\ cleaner \in {"none", "select", "locking", "cleaning", "returned"}
    /\ ticker \in [phase : 0 .. CleanupInterval - 1, c : BOOLEAN]
    /\ stop \in BOOLEAN
    /\ runs \in [CleanedKeys : 0 .. MaxRuns, CleanupRuns : 0 .. MaxRuns]
    /\ answer \in {NoAnswer} \cup [key : Key, val : Value \cup {Miss}]
    /\ newer \subseteq Key \X Key

(***************************************************************************)
(* The record for no loop in progress is well typed.                       *)
(***************************************************************************)
LEMMA IdleOK ==
    /\ Idle \in [op : {"idle", "SetMulti", "GetMulti", "DeleteMulti", "cleanup"},
                 data : [DOMAIN Idle.data -> Value], keys : Seq(Key),
                 expired : SUBSET Key, cleaned : Nat]
    /\ DOMAIN Idle.data = {}
    /\ Idle.op = "idle" /\ Idle.keys = <<>> /\ Idle.expired = {} /\ Idle.cleaned = 0
BY DEF Idle, EmptyMap

(***************************************************************************)
(* A new cache satisfies the invariant.                                    *)
(***************************************************************************)
LEMMA NewLRUCacheGood == Good(NewLRUCache) /\ Counted(NewLRUCache) /\ Accounted(NewLRUCache)
<1> DEFINE c == NewLRUCache
<1>1. /\ c.order = <<>> /\ c.val = EmptyMap /\ c.size = 0 /\ c.mem = 0 /\ c.ttl = EmptyMap
      /\ c.hits = 0 /\ c.misses = 0 /\ c.total = 0
    BY DEF NewLRUCache
<1>e. /\ DOMAIN EmptyMap = {} /\ EmptyMap \in [DOMAIN EmptyMap -> Value]
      /\ EmptyMap \in [DOMAIN EmptyMap -> Int]
    BY DEF EmptyMap
<1>2. IsCache(c)
    BY <1>e DEF IsCache, NewLRUCache
<1>3. Linked(c)
    BY <1>1, <1>e, CapacityAssumption DEF Linked, NoDuplicates, Elems
<1>4. Bytes(EmptyMap) = 0
  <2>1. UNION {EntryBytes(k, EmptyMap[k]) : k \in DOMAIN EmptyMap} = {}
      BY <1>e
  <2> QED BY <2>1, FS_EmptySet DEF Bytes
<1>5. DOMAIN c.ttl = {}
    BY <1>1, <1>e
<1> QED BY <1>1, <1>2, <1>3, <1>4, <1>5 DEF Good, Counted, Accounted, Exact

(***************************************************************************)
(* The invariant of the cache and of the loop in progress holds initially. *)
(***************************************************************************)
LEMMA CoreInit == Init => CoreInv
BY NewLRUCacheGood, IdleOK DEF Init, CoreInv, CallOK, LoopShape

(***************************************************************************)
(* A step that only replaces the cache by one the operation preserves.     *)
(***************************************************************************)
LEMMA CoreFromPreserves ==
    ASSUME CoreInv, Preserves(lru, lru'), call' = Idle \/ (call' = call /\ call.op # "cleanup")
    PROVE  CoreInv'
<1>1. Good(lru)' /\ Counted(lru)' /\ (~HasTTL => Accounted(lru)')
    BY DEF CoreInv, Preserves
<1>2. CallOK' /\ LoopShape'
    BY IdleOK DEF CoreInv, CallOK, LoopShape
<1> QED BY <1>1, <1>2 DEF CoreInv

(***************************************************************************)
(* Every step preserves it: one case per action.                           *)
(***************************************************************************)
LEMMA CoreStep == CoreInv /\ [Next]_vars => CoreInv'
<1> SUFFICES ASSUME CoreInv, [Next]_vars PROVE CoreInv'
    OBVIOUS
<1>0. Good(lru) /\ CallOK /\ LoopShape
    BY DEF CoreInv
<1>g. Preserves(lru, lru)
    BY <1>0 DEF Preserves
<1>1. ASSUME NEW k \in Key, NEW v \in Value, Set(k, v) PROVE CoreInv'
    BY <1>0, <1>1, SetInternalPreserves, CoreFromPreserves DEF Set, Unlocked
<1>2. ASSUME NEW k \in Key, NEW v \in Value, NEW d \in Durations, SetWithTTL(k, v, d)
      PROVE  CoreInv'
  <2> DEFINE c == SetInternal(lru, k, v)
  <2>1. Preserves(lru, c)
      BY <1>0, SetInternalPreserves
  <2>2. CASE ~HasTTL
      BY <1>2, <2>1, <2>2, CoreFromPreserves DEF SetWithTTL, Unlocked
  <2>3. CASE HasTTL
    <3>1. Good(c) /\ Counted(c)
        BY <2>1 DEF Preserves, CoreInv
    <3>2. lru' = [c EXCEPT !.ttl = With(c.ttl, k, d)]
        BY <1>2, <2>3 DEF SetWithTTL
    <3> HIDE DEF c
    <3>3. d \in Int
        BY DurationsAssumption
    <3>4. IsMap(With(c.ttl, k, d), Int)
        BY <3>1, <3>3 DEF Good, IsCache, IsMap, With
    <3>5. Good(lru') /\ Counted(lru')
        BY <3>1, <3>2, <3>4, DeadlineLemma
    <3>6. CallOK' /\ LoopShape'
        BY <1>0, <1>2 DEF SetWithTTL, Unlocked, CallOK, LoopShape
    <3> QED BY <2>3, <3>5, <3>6 DEF CoreInv
  <2> QED BY <2>2, <2>3
<1>3. ASSUME NEW k \in Key, GetOne(k) PROVE CoreInv'
    BY <1>0, <1>3, GetPreserves, CoreFromPreserves DEF GetOne, Unlocked
<1>4. ASSUME NEW k \in Key, DeleteOne(k) PROVE CoreInv'
    BY <1>0, <1>4, DeletePreserves, CoreFromPreserves DEF DeleteOne, Unlocked
<1>5. ASSUME NEW data \in Batches, SetMulti(data) PROVE CoreInv'
  <2>1. DOMAIN data \subseteq Key /\ data \in [DOMAIN data -> Value]
      BY DEF Batches
  <2>2. /\ call'.op = "SetMulti" /\ call'.data = data
        /\ call' = [Idle EXCEPT !.op = "SetMulti", !.data = data]
      BY <1>5, IdleOK DEF SetMulti
  <2>3. CallOK' /\ LoopShape'
      BY <2>1, <2>2, IdleOK DEF CallOK, LoopShape
  <2> QED BY <1>5, <2>3 DEF CoreInv, SetMulti
<1>6. ASSUME NEW keys \in KeyLists, GetMulti(keys) \/ DeleteMulti(keys) PROVE CoreInv'
  <2>1. keys \in Seq(Key) /\ keys # <<>>
    <3>1. PICK n \in 1 .. MaxBatch : keys \in [1 .. n -> Key]
        BY DEF KeyLists
    <3>2. n \in Nat /\ n > 0
        BY BoundsAssumption
    <3> QED BY <3>1, <3>2
  <2>2. /\ call'.op \in {"GetMulti", "DeleteMulti"} /\ call'.keys = keys
        /\ \E op \in {"GetMulti", "DeleteMulti"} : call' = [Idle EXCEPT !.op = op, !.keys = keys]
      BY <1>6, IdleOK DEF GetMulti, DeleteMulti
  <2>3. CallOK' /\ LoopShape'
      BY <2>1, <2>2, IdleOK DEF CallOK, LoopShape
  <2>4. lru' = lru
      BY <1>6 DEF GetMulti, DeleteMulti
  <2> QED BY <2>3, <2>4 DEF CoreInv
<1>7. ASSUME NEW k \in Key, SetMultiStep(k) PROVE CoreInv'
  <2>1. call.data[k] \in Value
      BY <1>0, <1>7 DEF SetMultiStep, CallOK
  <2>2. Preserves(lru, lru')
      BY <1>0, <1>7, <2>1, SetInternalPreserves DEF SetMultiStep
  <2>3. CASE call' = Idle
      BY <2>2, <2>3, CoreFromPreserves
  <2>4. CASE call' # Idle
    <3> DEFINE w == Without(call.data, k)
    <3>1. call' = [call EXCEPT !.data = w] /\ call.op = "SetMulti"
        BY <1>7, <2>4 DEF SetMultiStep
    <3>2. w \in [DOMAIN w -> Value] /\ DOMAIN w \subseteq Key
        BY <1>0 DEF CallOK, Without
    <3> HIDE DEF w
    <3>3. call'.data = w /\ call'.op = "SetMulti"
        BY <1>0, <3>1 DEF CallOK
    <3>4. CallOK' /\ LoopShape'
        BY <1>0, <3>1, <3>2, <3>3 DEF CallOK, LoopShape
    <3> QED BY <2>2, <3>4 DEF CoreInv, Preserves
  <2> QED BY <2>3, <2>4
<1>8. ASSUME GetMultiStep \/ DeleteMultiStep PROVE CoreInv'
  <2>1. call.keys \in Seq(Key) /\ call.keys # <<>> /\ Head(call.keys) \in Key
      BY <1>0, <1>8 DEF GetMultiStep, DeleteMultiStep, LoopShape, CallOK
  <2>2. Preserves(lru, lru')
      BY <1>0, <1>8, <2>1, GetMultiOnePreserves, DeletePreserves DEF GetMultiStep, DeleteMultiStep
  <2>3. CASE call' = Idle
      BY <2>2, <2>3, CoreFromPreserves
  <2>4. CASE call' # Idle
    <3> DEFINE t == Tail(call.keys)
    <3>1. /\ call' = [call EXCEPT !.keys = t] /\ call.op \in {"GetMulti", "DeleteMulti"}
          /\ Len(call.keys) # 1
        BY <1>8, <2>4 DEF GetMultiStep, DeleteMultiStep, NextKey
    <3>2. t \in Seq(Key) /\ t # <<>>
      <4>1. Len(call.keys) \in Nat /\ Len(call.keys) # 0
          BY <2>1
      <4>2. t \in Seq(Key) /\ Len(t) = Len(call.keys) - 1
          BY <2>1
      <4>3. Len(t) # 0
          BY <3>1, <4>1, <4>2
      <4> HIDE DEF t
      <4>4. Len(<<>>) = 0
          OBVIOUS
      <4>5. t # <<>>
          BY <4>3, <4>4, Zenon
      <4> QED BY <4>2, <4>5
    <3> HIDE DEF t
    <3>3. call'.data = call.data /\ call'.op = call.op /\ call'.keys = t
        BY <1>0, <3>1 DEF CallOK
    <3>4. CallOK' /\ LoopShape'
        BY <1>0, <3>1, <3>2, <3>3 DEF CallOK, LoopShape
    <3> QED BY <2>2, <3>4 DEF CoreInv, Preserves
  <2> QED BY <2>3, <2>4
<1>9. CASE Tick
  <2> DEFINE t == [k \in DOMAIN lru.ttl |-> IF lru.ttl[k] < 0 THEN lru.ttl[k] ELSE lru.ttl[k] - 1]
  <2>1. lru' = [lru EXCEPT !.ttl = t] /\ HasTTL /\ call' = call
      BY <1>9 DEF Tick
  <2>2. /\ IsMap(t, Int) /\ DOMAIN t = DOMAIN lru.ttl
        /\ \A k \in DOMAIN t : lru.ttl[k] < 0 => t[k] < 0
      BY <1>0 DEF Good, IsCache, IsMap
  <2> HIDE DEF t
  <2>3. Good(lru') /\ Counted(lru') /\ lru'.ttl = t
      BY <1>0, <2>1, <2>2, DeadlineLemma DEF CoreInv
  <2>4. CallOK' /\ LoopShape'
      BY <1>0, <2>1, <2>2, <2>3 DEF CallOK, LoopShape, Expired
  <2> QED BY <2>1, <2>3, <2>4 DEF CoreInv
<1>10. CASE CleanupLock
  <2> DEFINE e == {k \in DOMAIN lru.ttl : Expired(lru, k)}
  <2>1. call' = [Idle EXCEPT !.op = "cleanup", !.expired = e] /\ lru' = lru
      BY <1>10 DEF CleanupLock
  <2>2. e \subseteq Key /\ \A k \in e : Expired(lru, k)
      BY <1>0 DEF Good, IsCache
  <2> HIDE DEF e
  <2>3. call'.op = "cleanup" /\ call'.expired = e /\ call'.data = Idle.data
      BY <2>1, IdleOK
  <2>4. CallOK' /\ LoopShape'
      BY <2>1, <2>2, <2>3, IdleOK DEF CallOK, LoopShape
  <2> QED BY <2>1, <2>4 DEF CoreInv
<1>11. ASSUME NEW k \in Key, CleanupStep(k) PROVE CoreInv'
  <2>1. call.op = "cleanup" /\ k \in call.expired /\ k \in DOMAIN lru.ttl
      BY <1>0, <1>11 DEF CleanupStep, LoopShape, Expired
  <2>2. Preserves(lru, lru')
      BY <1>0, <1>11, <2>1, CleanupOnePreserves DEF CleanupStep
  <2>3. lru'.ttl = Without(lru.ttl, k)
    <3>1. lru' = CleanupOne(lru, k) /\ IsMap(lru.ttl, Int)
        BY <1>0, <1>11 DEF CleanupStep, Good, IsCache, IsMap
    <3>3. CASE k \in DOMAIN lru.val
      <4>1. lru' = Delete(lru, k)
          BY <3>1, <3>3 DEF CleanupOne
      <4> QED BY <1>0, <3>3, <4>1, UnlinkLemma
    <3>4. CASE k \notin DOMAIN lru.val
      <4>1. lru' = [lru EXCEPT !.ttl = Without(lru.ttl, k)]
          BY <3>1, <3>4 DEF CleanupOne
      <4> QED BY <1>0, <4>1 DEF Good, IsCache
    <3> QED BY <3>3, <3>4
  <2>4. call' = [call EXCEPT !.expired = @ \ {k}, !.cleaned = @ + 1]
      BY <1>11 DEF CleanupStep
  <2>5. call'.op = "cleanup" /\ call'.expired = call.expired \ {k} /\ call'.data = call.data
      BY <1>0, <2>1, <2>4 DEF CallOK
  <2>6. CallOK'
    <3>1. call.cleaned + 1 \in Nat
        BY <1>0 DEF CallOK
    <3> QED BY <1>0, <2>4, <2>5, <3>1 DEF CallOK
  <2>7. LoopShape'
    <3>1. \A j \in DOMAIN lru.ttl \ {k} : j \in DOMAIN lru'.ttl /\ lru'.ttl[j] = lru.ttl[j]
        BY <2>3 DEF Without
    <3> QED BY <1>0, <2>1, <2>5, <3>1 DEF LoopShape, Expired
  <2> QED BY <2>2, <2>6, <2>7 DEF CoreInv, Preserves
<1>12. CASE CleanupEnd
    BY <1>12, <1>g, CoreFromPreserves DEF CleanupEnd
<1>13. CASE CleanerTick \/ CleanerStop \/ Close \/ UNCHANGED vars
  <2>1. lru' = lru /\ call' = call
      BY <1>13 DEF CleanerTick, CleanerStop, Close, vars
  <2> QED BY <2>1 DEF CoreInv, CallOK, LoopShape
<1> QED BY <1>1, <1>2, <1>3, <1>4, <1>5, <1>6, <1>7, <1>8, <1>9, <1>10, <1>11, <1>12, <1>13
        DEF Next, Client, LoopStep, Cleaner

(***************************************************************************)
(* It is an invariant of the specification.                                *)
(***************************************************************************)
LEMMA Core == Spec => []CoreInv
BY CoreInit, CoreStep, PTL DEF Spec

-----------------------------------------------------------------------------
(***************************************************************************)
(* Every step keeps the types of the goroutine, the ticker, the            *)
(* statistics, the answer and the history.                                 *)
(***************************************************************************)
LEMMA RestStep == CoreInv /\ RestOK /\ [Next]_vars => RestOK'
<1> SUFFICES ASSUME CoreInv, RestOK, [Next]_vars PROVE RestOK'
    OBVIOUS
<1> USE DEF RestOK
<1>0. Good(lru) /\ CallOK /\ LoopShape
    BY DEF CoreInv
<1>u. ASSUME NEW k \in Key PROVE Used(k) \subseteq Key \X Key
    BY DEF Used
<1>a. ASSUME NEW k \in DOMAIN lru.val PROVE lru.val[k] \in Value
    BY <1>0 DEF Good, IsCache
<1>1. ASSUME NEW k \in Key, NEW v \in Value, Set(k, v) PROVE RestOK'
    BY <1>1, <1>u DEF Set, backgroundVars
<1>2. ASSUME NEW k \in Key, NEW v \in Value, NEW d \in Durations, SetWithTTL(k, v, d)
      PROVE  RestOK'
    BY <1>2, <1>u DEF SetWithTTL, backgroundVars
<1>3. ASSUME NEW k \in Key, GetOne(k) PROVE RestOK'
    BY <1>3, <1>a, <1>u DEF GetOne, Found, backgroundVars
<1>4. ASSUME NEW k \in Key, DeleteOne(k) PROVE RestOK'
    BY <1>4 DEF DeleteOne, backgroundVars
<1>5. ASSUME NEW data \in Batches, SetMulti(data) PROVE RestOK'
    BY <1>5 DEF SetMulti, backgroundVars
<1>6. ASSUME NEW keys \in KeyLists, GetMulti(keys) \/ DeleteMulti(keys) PROVE RestOK'
    BY <1>6 DEF GetMulti, DeleteMulti, backgroundVars
<1>7. ASSUME NEW k \in Key, SetMultiStep(k) PROVE RestOK'
    BY <1>7, <1>u DEF SetMultiStep, backgroundVars
<1>8. CASE GetMultiStep
  <2>1. Head(call.keys) \in Key
      BY <1>0, <1>8 DEF GetMultiStep, LoopShape, CallOK
  <2> QED BY <1>8, <1>a, <1>u, <2>1 DEF GetMultiStep, backgroundVars
<1>9. CASE DeleteMultiStep
    BY <1>9 DEF DeleteMultiStep, backgroundVars
<1>10. CASE Tick
  <2> DEFINE p == (ticker.phase + 1) % CleanupInterval
  <2>1. p \in 0 .. CleanupInterval - 1
      BY IntervalAssumption
  <2>2. ticker' \in [phase : 0 .. CleanupInterval - 1, c : BOOLEAN]
    <3>1. ticker' = [phase |-> p, c |-> ticker.c \/ (p = 0 /\ cleaner # "returned")]
        BY <1>10 DEF Tick
    <3> HIDE DEF p
    <3> QED BY <2>1, <3>1
  <2> QED BY <1>10, <2>2 DEF Tick
<1>11. CASE CleanerTick
    BY <1>11 DEF CleanerTick
<1>12. CASE CleanerStop
    BY <1>12 DEF CleanerStop
<1>13. CASE CleanupLock
    BY <1>13 DEF CleanupLock
<1>14. ASSUME NEW k \in Key, CleanupStep(k) PROVE RestOK'
    BY <1>14 DEF CleanupStep, backgroundVars
<1>15. CASE CleanupEnd
  <2>1. call.cleaned \in Nat
      BY <1>0 DEF CallOK
  <2>2. /\ Saturate(runs.CleanedKeys + call.cleaned) \in 0 .. MaxRuns
        /\ Saturate(runs.CleanupRuns + 1) \in 0 .. MaxRuns
      BY <2>1, BoundsAssumption DEF Saturate
  <2> QED BY <1>15, <2>2 DEF CleanupEnd
<1>16. CASE Close
    BY <1>16 DEF Close
<1>17. CASE UNCHANGED vars
    BY <1>17 DEF vars
<1> QED BY <1>1, <1>2, <1>3, <1>4, <1>5, <1>6, <1>7, <1>8, <1>9, <1>10, <1>11, <1>12,
           <1>13, <1>14, <1>15, <1>16, <1>17
        DEF Next, Client, LoopStep, Cleaner

(***************************************************************************)
(* Those types hold initially.                                             *)
(***************************************************************************)
LEMMA RestInit == Init => RestOK
<1> SUFFICES ASSUME Init PROVE RestOK
    OBVIOUS
<1>1. 0 \in 0 .. CleanupInterval - 1 /\ 0 \in 0 .. MaxRuns
    BY IntervalAssumption, BoundsAssumption
<1>2. ticker \in [phase : 0 .. CleanupInterval - 1, c : BOOLEAN]
    BY <1>1 DEF Init
<1>3. runs \in [CleanedKeys : 0 .. MaxRuns, CleanupRuns : 0 .. MaxRuns]
    BY <1>1 DEF Init
<1> QED BY <1>2, <1>3 DEF Init, RestOK

(***************************************************************************)
(* Every behaviour of the cache keeps its types: in particular a hit is    *)
(* always answered with a value, and no loop runs off its key list.        *)
(***************************************************************************)
THEOREM TypeCorrect == Spec => []TypeOK
<1>1. Init => CoreInv /\ RestOK
    BY CoreInit, RestInit
<1>2. CoreInv /\ RestOK /\ [Next]_vars => (CoreInv /\ RestOK)'
    BY CoreStep, RestStep
<1>3. CoreInv /\ RestOK => TypeOK
    BY DEF CoreInv, RestOK, TypeOK, Good
<1> QED BY <1>1, <1>2, <1>3, PTL DEF Spec

(***************************************************************************)
(* For every capacity, limit and workload the list, the hash table and the *)
(* size counter agree and the capacity is never exceeded.                  *)
(***************************************************************************)
THEOREM StructureSafe == Spec => []ListMatchesTable
<1>1. CoreInv => ListMatchesTable
    BY DEF CoreInv, Good, ListMatchesTable
<1> QED BY <1>1, Core, PTL

(***************************************************************************)
(* Hits and misses add up to the requests, whatever the interleaving.      *)
(***************************************************************************)
THEOREM RequestsSafe == Spec => []RequestsAddUp
<1>1. CoreInv => RequestsAddUp
    BY DEF CoreInv, Counted, RequestsAddUp
<1> QED BY <1>1, Core, PTL

(***************************************************************************)
(* Without a ttlMap the memory accounting never drifts, with evictions,    *)
(* updates in place, rejected values and batch operations in any order.    *)
(***************************************************************************)
THEOREM MemorySafe == ~HasTTL => (Spec => []MemoryExact)
<1> SUFFICES ASSUME ~HasTTL PROVE Spec => []MemoryExact
    OBVIOUS
<1>1. CoreInv => MemoryExact
    BY DEF CoreInv, Accounted, Exact, MemoryExact
<1> QED BY <1>1, Core, PTL

-----------------------------------------------------------------------------
(***************************************************************************)
(* What a step does to the entries, their order and the answer.  Under the *)
(* mutex there are four kinds: an entry is set, found, dropped, or nothing *)
(* happens to the entries.                                                 *)
(***************************************************************************)
SetStep(k, v) ==
    /\ lru'.order = SetInternal(lru, k, v).order
    /\ lru'.val = SetInternal(lru, k, v).val
    /\ newer' = IF Rejects(k, v) THEN newer ELSE Used(k)
    /\ answer' = NoAnswer

HitStep(k) ==
    /\ k \in DOMAIN lru.val
    /\ lru'.order = moveToHead(lru.order, k) /\ lru'.val = lru.val
    /\ newer' = Used(k)
    /\ answer' = [key |-> k, val |-> lru.val[k]]

DropStep(k) ==
    /\ k \in DOMAIN lru.val
    /\ lru'.order = removeNode(lru.order, k) /\ lru'.val = Without(lru.val, k)
    /\ newer' = newer
    /\ answer' \in {NoAnswer, [key |-> k, val |-> Miss]}
    /\ Expired(lru, k) \/ DeleteOne(k) \/ (DeleteMultiStep /\ k = Head(call.keys))

QuietStep ==
    /\ UNCHANGED newer
    /\ lru'.order = lru.order /\ lru'.val = lru.val
    /\ \/ answer' \in {answer, NoAnswer}
       \/ \E k \in Key \ DOMAIN lru.val : answer' = [key |-> k, val |-> Miss]

StepKinds ==
    \/ \E k \in Key, v \in Value : SetStep(k, v)
    \/ \E k \in DOMAIN lru.val : HitStep(k) \/ DropStep(k)
    \/ QuietStep

LEMMA DropKind ==
    ASSUME Good(lru), NEW k \in Key, lru' = Delete(lru, k), newer' = newer, answer' = NoAnswer,
           Expired(lru, k) \/ DeleteOne(k) \/ (DeleteMultiStep /\ k = Head(call.keys))
    PROVE  StepKinds
<1>1. CASE k \in DOMAIN lru.val
  <2>1. lru'.order = removeNode(lru.order, k) /\ lru'.val = Without(lru.val, k)
      BY <1>1, UnlinkLemma
  <2>2. DropStep(k)
      BY <1>1, <2>1 DEF DropStep
  <2> QED BY <1>1, <2>2 DEF StepKinds
<1>2. CASE k \notin DOMAIN lru.val
    BY <1>2 DEF Delete, StepKinds, QuietStep
<1> QED BY <1>1, <1>2

LEMMA StepLemma == CoreInv /\ [Next]_vars => StepKinds
<1> SUFFICES ASSUME CoreInv, [Next]_vars PROVE StepKinds
    OBVIOUS
<1>0. Good(lru) /\ CallOK /\ LoopShape
    BY DEF CoreInv
<1>1. ASSUME NEW k \in Key, NEW v \in Value, Set(k, v) PROVE StepKinds
    BY <1>1 DEF Set, SetStep, StepKinds
<1>2. ASSUME NEW k \in Key, NEW v \in Value, NEW d \in Durations, SetWithTTL(k, v, d)
      PROVE  StepKinds
  <2> DEFINE c == SetInternal(lru, k, v)
  <2>1. Good(c)
      BY <1>0, SetInternalPreserves DEF Preserves
  <2>2. lru'.order = c.order /\ lru'.val = c.val
    <3>1. lru' = c \/ lru' = [c EXCEPT !.ttl = With(c.ttl, k, d)]
        BY <1>2 DEF SetWithTTL
    <3> HIDE DEF c
    <3> QED BY <2>1, <3>1 DEF Good, IsCache
  <2>3. SetStep(k, v)
      BY <1>2, <2>2 DEF SetStep, SetWithTTL
  <2> QED BY <2>3 DEF StepKinds
<1>3. ASSUME NEW k \in Key, GetOne(k) PROVE StepKinds
  <2>1. /\ lru' = Get(lru, k) /\ newer' = IF Found(lru, k) THEN Used(k) ELSE newer
        /\ answer' = [key |-> k, val |-> IF Found(lru, k) THEN lru.val[k] ELSE Miss]
      BY <1>3 DEF GetOne
  <2>2. CASE Found(lru, k)
    <3>1. k \in DOMAIN lru.val /\ lru' = Touch(CountHit(lru), k)
        BY <2>1, <2>2 DEF Get, Found
    <3>2. lru'.order = moveToHead(lru.order, k) /\ lru'.val = lru.val
        BY <1>0, <3>1, HitPreserves
    <3>3. HitStep(k)
        BY <2>1, <2>2, <3>1, <3>2 DEF HitStep
    <3> QED BY <3>1, <3>3 DEF StepKinds
  <2>3. CASE ~Found(lru, k) /\ k \in DOMAIN lru.val
    <3>1. k \in DOMAIN lru.ttl /\ Expired(lru, k) /\ lru' = DropExpired(CountMiss(lru), k)
        BY <2>1, <2>3 DEF Found, Expired, Get
    <3>2. lru'.order = removeNode(lru.order, k) /\ lru'.val = Without(lru.val, k)
        BY <1>0, <2>3, <3>1, DropPreserves
    <3>3. DropStep(k)
        BY <2>1, <2>3, <3>1, <3>2 DEF DropStep
    <3> QED BY <2>3, <3>3 DEF StepKinds
  <2>4. CASE ~Found(lru, k) /\ k \notin DOMAIN lru.val
    <3>1. lru'.order = lru.order /\ lru'.val = lru.val
        BY <1>0, <2>1, <2>4, MissPreserves DEF Get
    <3> QED BY <2>1, <2>4, <3>1 DEF StepKinds, QuietStep
  <2> QED BY <2>2, <2>3, <2>4
<1>4. ASSUME NEW k \in Key, DeleteOne(k) PROVE StepKinds
  <2>1. lru' = Delete(lru, k) /\ newer' = newer /\ answer' = NoAnswer
      BY <1>4 DEF DeleteOne
  <2> QED BY <1>0, <1>4, <2>1, DropKind
<1>5. ASSUME NEW k \in Key, SetMultiStep(k) PROVE StepKinds
  <2>1. call.data[k] \in Value
      BY <1>0, <1>5 DEF SetMultiStep, CallOK
  <2>2. SetStep(k, call.data[k])
      BY <1>5 DEF SetMultiStep, SetStep
  <2> QED BY <2>1, <2>2 DEF StepKinds
<1>6. CASE GetMultiStep
  <2> DEFINE k == Head(call.keys)
  <2>1. k \in Key
      BY <1>0, <1>6 DEF GetMultiStep, LoopShape, CallOK
  <2>2. /\ lru' = GetMultiOne(lru, k) /\ newer' = IF k \in DOMAIN lru.val THEN Used(k) ELSE newer
        /\ answer' = [key |-> k, val |-> IF k \in DOMAIN lru.val THEN lru.val[k] ELSE Miss]
      BY <1>6 DEF GetMultiStep
  <2> HIDE DEF k
  <2>3. CASE k \in DOMAIN lru.val
    <3>1. lru'.order = moveToHead(lru.order, k) /\ lru'.val = lru.val
        BY <1>0, <2>2, <2>3, HitPreserves DEF GetMultiOne
    <3>2. HitStep(k)
        BY <2>2, <2>3, <3>1 DEF HitStep
    <3> QED BY <2>3, <3>2 DEF StepKinds
  <2>4. CASE k \notin DOMAIN lru.val
    <3>1. lru'.order = lru.order /\ lru'.val = lru.val
        BY <1>0, <2>2, <2>4, MissPreserves DEF GetMultiOne
    <3> QED BY <2>1, <2>2, <2>4, <3>1 DEF StepKinds, QuietStep
  <2> QED BY <2>3, <2>4
<1>7. CASE DeleteMultiStep
  <2>1. PICK k : k = Head(call.keys)
      OBVIOUS
  <2>2. k \in Key
      BY <1>0, <1>7, <2>1 DEF DeleteMultiStep, LoopShape, CallOK
  <2>3. lru' = Delete(lru, k) /\ newer' = newer /\ answer' = NoAnswer
      BY <1>7, <2>1 DEF DeleteMultiStep
  <2> QED BY <1>0, <1>7, <2>1, <2>2, <2>3, DropKind
<1>8. ASSUME NEW k \in Key, CleanupStep(k) PROVE StepKinds
  <2>1. lru' = CleanupOne(lru, k) /\ newer' = newer /\ answer' = NoAnswer /\ Expired(lru, k)
      BY <1>0, <1>8 DEF CleanupStep, LoopShape
  <2>2. CASE k \in DOMAIN lru.val
    <3>1. lru' = Delete(lru, k)
        BY <2>1, <2>2 DEF CleanupOne
    <3> QED BY <1>0, <2>1, <3>1, DropKind
  <2>3. CASE k \notin DOMAIN lru.val
    <3>1. lru'.order = lru.order /\ lru'.val = lru.val
        BY <1>0, <2>1, <2>3 DEF CleanupOne, Good, IsCache
    <3> QED BY <2>1, <3>1 DEF StepKinds, QuietStep
  <2> QED BY <2>2, <2>3
<1>9. CASE Tick
  <2>1. lru'.order = lru.order /\ lru'.val = lru.val /\ newer' = newer /\ answer' = NoAnswer
      BY <1>0, <1>9 DEF Tick, Good, IsCache
  <2> QED BY <2>1 DEF StepKinds, QuietStep
<1>10. ASSUME NEW data, SetMulti(data) PROVE StepKinds
    BY <1>10 DEF SetMulti, StepKinds, QuietStep
<1>11. ASSUME NEW keys, GetMulti(keys) \/ DeleteMulti(keys) PROVE StepKinds
    BY <1>11 DEF GetMulti, DeleteMulti, StepKinds, QuietStep
<1>12. CASE Close \/ CleanupEnd \/ Cleaner
    BY <1>12 DEF Close, CleanupEnd, Cleaner, CleanerTick, CleanerStop, CleanupLock,
                 StepKinds, QuietStep
<1>13. CASE UNCHANGED vars
    BY <1>13 DEF vars, StepKinds, QuietStep
<1> QED BY <1>1, <1>2, <1>3, <1>4, <1>5, <1>6, <1>7, <1>8, <1>9, <1>10, <1>11, <1>12, <1>13
        DEF Next, Client, LoopStep

-----------------------------------------------------------------------------
(***************************************************************************)
(* The two paths of SetInternal that change something.                     *)
(***************************************************************************)
UpdateStep(k, v) ==
    /\ k \in DOMAIN lru.val
    /\ lru'.order = moveToHead(lru.order, k) /\ lru'.val = With(lru.val, k, v)
    /\ newer' = Used(k) /\ answer' = NoAnswer

InsertStep(k, v, n) ==
    /\ k \notin DOMAIN lru.val /\ ~Rejects(k, v)
    /\ n = KeptCount(lru, calculateMemoryUsage(k, v)) /\ n \in 0 .. Len(lru.order)
    /\ lru'.order = addToHead(SubSeq(lru.order, 1, n), k)
    /\ lru'.val = With(Keep(lru, n), k, v)
    /\ newer' = Used(k) /\ answer' = NoAnswer

LEMMA SetKinds ==
    ASSUME Good(lru), NEW k \in Key, NEW v \in Value, SetStep(k, v)
    PROVE  QuietStep \/ UpdateStep(k, v) \/ \E n : InsertStep(k, v, n)
<1>1. CASE Rejects(k, v)
    BY <1>1 DEF SetStep, SetInternal, QuietStep
<1>2. CASE ~Rejects(k, v) /\ k \in DOMAIN lru.val
  <2>1. SetInternal(lru, k, v) = UpdateNode(lru, k, v)
      BY <1>2 DEF SetInternal
  <2>2. /\ UpdateNode(lru, k, v).val = With(lru.val, k, v)
        /\ UpdateNode(lru, k, v).order = moveToHead(lru.order, k)
      BY <1>2, UpdateNodeLemma
  <2> QED BY <1>2, <2>1, <2>2 DEF SetStep, UpdateStep
<1>3. CASE ~Rejects(k, v) /\ k \notin DOMAIN lru.val
  <2>1. SetInternal(lru, k, v) = InsertNode(lru, k, v)
      BY <1>3 DEF SetInternal
  <2>2. PICK n : n = KeptCount(lru, calculateMemoryUsage(k, v))
      OBVIOUS
  <2>3. k \in Key \ DOMAIN lru.val
      BY <1>3
  <2>4. /\ n \in 0 .. Len(lru.order)
        /\ InsertNode(lru, k, v).val = With(Keep(lru, n), k, v)
        /\ InsertNode(lru, k, v).order = addToHead(SubSeq(lru.order, 1, n), k)
      BY <2>2, <2>3, InsertNodeLemma
  <2>5. InsertStep(k, v, n)
      BY <1>3, <2>1, <2>2, <2>4 DEF SetStep, InsertStep
  <2> QED BY <2>5
<1> QED BY <1>1, <1>2, <1>3

(***************************************************************************)
(* The eviction loop splits the entries at a place of the list.            *)
(***************************************************************************)
Front(c, n) == {c.order[i] : i \in 1 .. n}
Back(c, n) == {c.order[i] : i \in n + 1 .. Len(c.order)}

LEMMA KeepLemma ==
    ASSUME NEW c, Good(c), NEW n \in 0 .. Len(c.order)
    PROVE  /\ IsMap(Keep(c, n), Value) /\ DOMAIN Keep(c, n) = Front(c, n)
           /\ \A x \in Front(c, n) : Keep(c, n)[x] = c.val[x]
           /\ Front(c, n) \cup Back(c, n) = DOMAIN c.val
           /\ Front(c, n) \cap Back(c, n) = {}
           /\ IsFiniteSet(Front(c, n))
           /\ Bytes(c.val) = Bytes(Keep(c, n)) + Bytes(Evicted(c, n))
           /\ Bytes(Keep(c, n)) \in Nat /\ Bytes(Evicted(c, n)) \in Nat
<1> DEFINE A == Front(c, n)
           B == Back(c, n)
<1>1. /\ IsCache(c) /\ Linked(c) /\ Len(c.order) \in Nat
      /\ IsMap(c.val, Value) /\ c.order \in Seq(Key) /\ NoDuplicates(c.order)
      /\ Elems(c.order) = DOMAIN c.val
    BY DEF Good, IsCache, Linked, IsMap
<1>2. A \cup B = DOMAIN c.val
  <2>1. 1 .. Len(c.order) = (1 .. n) \cup (n + 1 .. Len(c.order))
      BY <1>1
  <2> QED BY <1>1, <2>1 DEF Elems, Front, Back
<1>3. A \cap B = {}
    BY <1>1 DEF NoDuplicates, Front, Back
<1>4. Keep(c, n) = Restrict(c.val, A) /\ Evicted(c, n) = Restrict(c.val, B)
    BY DEF Keep, Evicted, Front, Back
<1> HIDE DEF A, B
<1>5. /\ IsMap(Keep(c, n), Value) /\ DOMAIN Keep(c, n) = A
      /\ IsMap(Evicted(c, n), Value) /\ DOMAIN Evicted(c, n) = B
      /\ \A x \in A : Keep(c, n)[x] = c.val[x]
    BY <1>1, <1>2, <1>4 DEF IsMap, Restrict
<1>6. IsFiniteSet(DOMAIN c.val) /\ IsFiniteSet(A) /\ IsFiniteSet(B)
    BY <1>1, <1>2, EntriesFinite, FS_Subset
<1>7. /\ Bytes(c.val) = Bytes(Keep(c, n)) + Bytes(Evicted(c, n))
      /\ Bytes(Keep(c, n)) \in Nat /\ Bytes(Evicted(c, n)) \in Nat
    BY <1>1, <1>2, <1>3, <1>4, <1>5, <1>6, BytesSplit, BytesFinite
<1> QED BY <1>2, <1>3, <1>5, <1>6, <1>7 DEF A, B

LEMMA InsertFacts ==
    ASSUME Good(lru), NEW k \in Key, NEW v \in Value, NEW n, InsertStep(k, v, n)
    PROVE  /\ DOMAIN lru'.val = Front(lru, n) \cup {k}
           /\ \A x \in Front(lru, n) : lru'.val[x] = lru.val[x]
           /\ lru'.val[k] = v
           /\ lru'.val = [x \in DOMAIN lru'.val |-> lru'.val[x]]
           /\ Inserts = {k} /\ Survivors = Front(lru, n) /\ Victims = Back(lru, n)
<1>1. /\ n \in 0 .. Len(lru.order) /\ k \notin DOMAIN lru.val
      /\ lru'.val = With(Keep(lru, n), k, v)
    BY DEF InsertStep
<1>2. /\ DOMAIN Keep(lru, n) = Front(lru, n)
      /\ \A x \in Front(lru, n) : Keep(lru, n)[x] = lru.val[x]
      /\ Front(lru, n) \cup Back(lru, n) = DOMAIN lru.val
      /\ Front(lru, n) \cap Back(lru, n) = {}
    BY <1>1, KeepLemma
<1>3. /\ DOMAIN lru'.val = Front(lru, n) \cup {k}
      /\ \A x \in Front(lru, n) : lru'.val[x] = lru.val[x]
      /\ lru'.val[k] = v
      /\ lru'.val = [x \in DOMAIN lru'.val |-> lru'.val[x]]
    BY <1>1, <1>2 DEF With
<1> QED BY <1>1, <1>2, <1>3 DEF Inserts, Survivors, Victims

(* No other step brings a key into the cache, and only a drop takes one out. *)
LEMMA NoInsertion ==
    ASSUME Good(lru), NEW k, NEW v,
           UpdateStep(k, v) \/ HitStep(k) \/ DropStep(k) \/ QuietStep
    PROVE  Inserts = {} /\ (Victims # {} => DropStep(k) /\ Victims = {k})
<1>1. CASE UpdateStep(k, v)
  <2>1. DOMAIN lru'.val = DOMAIN lru.val
      BY <1>1 DEF UpdateStep, With
  <2> QED BY <2>1 DEF Inserts, Victims
<1>2. CASE HitStep(k) \/ QuietStep
    BY <1>2 DEF HitStep, QuietStep, Inserts, Victims
<1>3. CASE DropStep(k)
  <2>1. DOMAIN lru'.val = DOMAIN lru.val \ {k}
      BY <1>3 DEF DropStep, Without
  <2> QED BY <1>3, <2>1 DEF Inserts, Victims, DropStep
<1> QED BY <1>1, <1>2, <1>3

(***************************************************************************)
(* The steps again, with the paths of SetInternal.                         *)
(***************************************************************************)
LEMMA EntrySteps ==
    ASSUME CoreInv, [Next]_vars
    PROVE  \/ \E k \in Key, v \in Value : UpdateStep(k, v) \/ \E n : InsertStep(k, v, n)
           \/ \E k \in DOMAIN lru.val : HitStep(k) \/ DropStep(k)
           \/ QuietStep
BY StepLemma, SetKinds DEF StepKinds, CoreInv

(***************************************************************************)
(* An entry is never dropped without a reason: eviction, deletion by name  *)
(* or a past deadline in ttlMap under its key (SetInternal, Get, Delete,   *)
(* DeleteMulti, cleanupExpiredkeys).                                       *)
(***************************************************************************)
THEOREM LeavesSafe == Spec => LeavesForAReason
<1> DEFINE A == \A e \in Victims : \/ Inserts # {}
                                   \/ Expired(lru, e)
                                   \/ DeleteOne(e)
                                   \/ DeleteMultiStep /\ e = Head(call.keys)
<1>1. CoreInv /\ [Next]_vars => [A]_vars
  <2> SUFFICES ASSUME CoreInv, [Next]_vars, NEW e \in Victims, Inserts = {}
               PROVE  Expired(lru, e) \/ DeleteOne(e) \/ (DeleteMultiStep /\ e = Head(call.keys))
      OBVIOUS
  <2>1. Good(lru)
      BY DEF CoreInv
  <2>2. ASSUME NEW k \in Key, NEW v \in Value, NEW n, InsertStep(k, v, n) PROVE FALSE
      BY <2>1, <2>2, InsertFacts
  <2>3. ASSUME NEW k, NEW v, UpdateStep(k, v) \/ HitStep(k) \/ DropStep(k) \/ QuietStep
        PROVE  DropStep(e)
      BY <2>1, <2>3, NoInsertion
  <2>4. DropStep(e)
      BY <2>2, <2>3, EntrySteps
  <2> QED BY <2>4 DEF DropStep
<1> QED BY <1>1, Core, PTL DEF Spec, LeavesForAReason

-----------------------------------------------------------------------------
(***************************************************************************)
(* The order of use.  Along a list ordered by use, moving a used key to    *)
(* the head, linking a new key there, cutting the tail off and unlinking a *)
(* node all leave a list ordered by use.                                   *)
(***************************************************************************)
Ordered(s, R) == \A i, j \in 1 .. Len(s) : i < j => <<s[i], s[j]>> \in R

LEMMA HeadOrdered ==
    ASSUME NEW r \in Seq(Key), NoDuplicates(r), NEW k \in Key, r[1] = k,
           \A i, j \in 2 .. Len(r) : i < j => <<r[i], r[j]>> \in newer
    PROVE  Ordered(r, Used(k))
<1> SUFFICES ASSUME NEW i \in 1 .. Len(r), NEW j \in 1 .. Len(r), i < j
             PROVE  <<r[i], r[j]>> \in Used(k)
    BY DEF Ordered
<1>1. /\ Len(r) \in Nat /\ 1 \in 1 .. Len(r) /\ j \in 2 .. Len(r)
      /\ r[i] \in Key /\ r[j] \in Key /\ r[j] # k
    BY DEF NoDuplicates
<1>2. CASE i = 1
    BY <1>1, <1>2 DEF Used
<1>3. CASE i # 1
  <2>1. i \in 2 .. Len(r) /\ r[i] # k
      BY <1>1, <1>3 DEF NoDuplicates
  <2>2. <<r[i], r[j]>> \in newer
      BY <1>1, <2>1
  <2> QED BY <1>1, <2>1, <2>2 DEF Used
<1> QED BY <1>2, <1>3

LEMMA MoveToHeadOrdered ==
    ASSUME NEW s \in Seq(Key), NoDuplicates(s), NEW k \in Elems(s), Ordered(s, newer)
    PROVE  Ordered(moveToHead(s, k), Used(k))
<1> DEFINE r == moveToHead(s, k)
<1>1. /\ r \in Seq(Key) /\ Len(r) = Len(s) /\ NoDuplicates(r) /\ r[1] = k
      /\ \A i, j \in 2 .. Len(s) : i < j =>
            \E p, q \in 1 .. Len(s) : p < q /\ s[p] = r[i] /\ s[q] = r[j]
    BY MoveToHeadLemma
<1> HIDE DEF r
<1>2. k \in Key
    BY DEF Elems
<1>3. \A i, j \in 2 .. Len(r) : i < j => <<r[i], r[j]>> \in newer
    BY <1>1 DEF Ordered
<1>4. Ordered(r, Used(k))
    BY <1>1, <1>2, <1>3, HeadOrdered
<1> QED BY <1>4 DEF r

LEMMA AddToHeadOrdered ==
    ASSUME NEW s \in Seq(Key), NoDuplicates(s), NEW k \in Key, k \notin Elems(s),
           NEW n \in 0 .. Len(s), Ordered(s, newer)
    PROVE  Ordered(addToHead(SubSeq(s, 1, n), k), Used(k))
<1> DEFINE t == SubSeq(s, 1, n)
           r == addToHead(t, k)
<1>1. /\ t \in Seq(Key) /\ Len(t) = n /\ NoDuplicates(t)
      /\ \A i \in 1 .. n : t[i] = s[i]
      /\ Elems(t) = {s[i] : i \in 1 .. n}
    BY PrefixLemma
<1> HIDE DEF t
<1>2. k \notin Elems(t)
    BY <1>1 DEF Elems
<1>a. t \in Seq(Key) /\ NoDuplicates(t)
    BY <1>1
<1>l. /\ addToHead(t, k) \in Seq(Key)
      /\ Len(addToHead(t, k)) = Len(t) + 1
      /\ NoDuplicates(addToHead(t, k))
      /\ Elems(addToHead(t, k)) = Elems(t) \cup {k}
      /\ addToHead(t, k)[1] = k
      /\ \A i \in 2 .. Len(t) + 1 : addToHead(t, k)[i] = t[i - 1]
    BY <1>2, <1>a, AddToHeadLemma
<1>3. /\ r \in Seq(Key) /\ Len(r) = n + 1 /\ NoDuplicates(r) /\ r[1] = k
      /\ \A i \in 2 .. n + 1 : r[i] = t[i - 1]
    BY <1>1, <1>l
<1> HIDE DEF r
<1>4. \A i, j \in 2 .. Len(r) : i < j => <<r[i], r[j]>> \in newer
  <2> SUFFICES ASSUME NEW i \in 2 .. Len(r), NEW j \in 2 .. Len(r), i < j
               PROVE  <<r[i], r[j]>> \in newer
      OBVIOUS
  <2>1. /\ i - 1 \in 1 .. n /\ j - 1 \in 1 .. n /\ i - 1 < j - 1
        /\ i - 1 \in 1 .. Len(s) /\ j - 1 \in 1 .. Len(s)
      BY <1>3
  <2>2. r[i] = s[i - 1] /\ r[j] = s[j - 1]
      BY <1>1, <1>3, <2>1
  <2> QED BY <2>1, <2>2 DEF Ordered
<1>5. Ordered(r, Used(k))
    BY <1>3, <1>4, HeadOrdered
<1> QED BY <1>5 DEF r, t

LEMMA RemoveOrdered ==
    ASSUME NEW s \in Seq(Key), NoDuplicates(s), NEW k \in Elems(s), Ordered(s, newer)
    PROVE  Ordered(removeNode(s, k), newer)
<1> DEFINE r == removeNode(s, k)
<1>1. \A i, j \in 1 .. Len(r) : i < j =>
         \E p, q \in 1 .. Len(s) : p < q /\ s[p] = r[i] /\ s[q] = r[j]
    BY RemoveNodeLemma
<1> HIDE DEF r
<1>2. Ordered(r, newer)
  <2> SUFFICES ASSUME NEW i \in 1 .. Len(r), NEW j \in 1 .. Len(r), i < j
               PROVE  <<r[i], r[j]>> \in newer
      BY DEF Ordered
  <2>1. PICK p \in 1 .. Len(s), q \in 1 .. Len(s) : p < q /\ s[p] = r[i] /\ s[q] = r[j]
      BY <1>1
  <2>2. <<s[p], s[q]>> \in newer
      BY <2>1 DEF Ordered
  <2> QED BY <2>1, <2>2
<1> QED BY <1>2 DEF r

(***************************************************************************)
(* The history never holds two keys each used after the other.             *)
(***************************************************************************)
UseInv ==
    /\ OrderedByUse
    /\ \A a, b \in Key : <<a, b>> \in newer => <<b, a>> \notin newer

LEMMA UseStep == CoreInv /\ UseInv /\ [Next]_vars => UseInv'
<1> SUFFICES ASSUME CoreInv, UseInv, [Next]_vars PROVE UseInv'
    OBVIOUS
<1>1. /\ Good(lru) /\ lru.order \in Seq(Key) /\ NoDuplicates(lru.order)
      /\ Elems(lru.order) = DOMAIN lru.val /\ DOMAIN lru.val \subseteq Key
    BY DEF CoreInv, Good, IsCache, Linked
<1>2. Ordered(lru.order, newer)
    BY DEF UseInv, OrderedByUse, Ordered
<1>3. ASSUME NEW k \in Key, newer' = Used(k) PROVE
          \A a, b \in Key : <<a, b>> \in newer' => <<b, a>> \notin newer'
    BY <1>3 DEF UseInv, Used
<1>4. ASSUME NEW k \in Key, newer' = Used(k), Ordered(lru'.order, Used(k)) PROVE UseInv'
    BY <1>3, <1>4 DEF UseInv, OrderedByUse, Ordered
<1>5. ASSUME newer' = newer, Ordered(lru'.order, newer) PROVE UseInv'
    BY <1>5 DEF UseInv, OrderedByUse, Ordered
<1>6. ASSUME NEW k \in Key, NEW v \in Value, UpdateStep(k, v) PROVE UseInv'
    BY <1>1, <1>2, <1>4, <1>6, MoveToHeadOrdered DEF UpdateStep
<1>7. ASSUME NEW k \in Key, NEW v \in Value, NEW n, InsertStep(k, v, n) PROVE UseInv'
    BY <1>1, <1>2, <1>4, <1>7, AddToHeadOrdered DEF InsertStep
<1>8. ASSUME NEW k \in DOMAIN lru.val, HitStep(k) PROVE UseInv'
    BY <1>1, <1>2, <1>4, <1>8, MoveToHeadOrdered DEF HitStep
<1>9. ASSUME NEW k \in DOMAIN lru.val, DropStep(k) PROVE UseInv'
    BY <1>1, <1>2, <1>5, <1>9, RemoveOrdered DEF DropStep
<1>10. CASE QuietStep
    BY <1>2, <1>5, <1>10 DEF QuietStep
<1> QED BY <1>6, <1>7, <1>8, <1>9, <1>10, EntrySteps

LEMMA UseInit == Init => UseInv
<1> SUFFICES ASSUME Init PROVE UseInv
    OBVIOUS
<1>1. lru.order = <<>> /\ newer = {}
    BY DEF Init, NewLRUCache
<1> QED BY <1>1 DEF UseInv, OrderedByUse

LEMMA Use == Spec => []UseInv
BY CoreInit, CoreStep, UseInit, UseStep, PTL DEF Spec

(***************************************************************************)
(* The list is in the order of use after any mix of writes, updates in     *)
(* place, reads, batch reads, evictions, deletions and cleanup passes      *)
(* (moveToHead, addToHead, removeNode as SetInternal, Get and GetMulti     *)
(* call them).                                                             *)
(***************************************************************************)
THEOREM OrderSafe == Spec => []OrderedByUse
<1>1. UseInv => OrderedByUse
    BY DEF UseInv
<1> QED BY <1>1, Use, PTL

(***************************************************************************)
(* Eviction follows the order of use: no survivor of an insertion is older *)
(* than a victim of it (removeTail in the loop of SetInternal).            *)
(***************************************************************************)
THEOREM EvictionOrderSafe == Spec => EvictsLeastRecentlyUsed
<1> DEFINE A == Inserts # {} => \A s \in Survivors, e \in Victims : <<s, e>> \in newer
<1>1. CoreInv /\ UseInv /\ [Next]_vars => [A]_vars
  <2> SUFFICES ASSUME CoreInv, UseInv, [Next]_vars, Inserts # {},
                      NEW s \in Survivors, NEW e \in Victims
               PROVE  <<s, e>> \in newer
      OBVIOUS
  <2>1. Good(lru) /\ Len(lru.order) \in Nat
      BY DEF CoreInv, Good, IsCache
  <2>2. ASSUME NEW k, NEW v, UpdateStep(k, v) \/ HitStep(k) \/ DropStep(k) \/ QuietStep
        PROVE  FALSE
      BY <2>1, <2>2, NoInsertion
  <2>ins. PICK k \in Key, v \in Value : \E n : InsertStep(k, v, n)
      BY <2>2, EntrySteps
  <2>3. PICK n : InsertStep(k, v, n)
      BY <2>ins
  <2>4. s \in Front(lru, n) /\ e \in Back(lru, n) /\ n \in 0 .. Len(lru.order)
      BY <2>1, <2>3, InsertFacts DEF InsertStep
  <2>5. PICK i \in 1 .. n, j \in n + 1 .. Len(lru.order) : s = lru.order[i] /\ e = lru.order[j]
      BY <2>4 DEF Front, Back
  <2>6. i \in 1 .. Len(lru.order) /\ j \in 1 .. Len(lru.order) /\ i < j
      BY <2>1, <2>4, <2>5
  <2> QED BY <2>5, <2>6 DEF UseInv, OrderedByUse
<1> QED BY <1>1, Core, Use, PTL DEF Spec, EvictsLeastRecentlyUsed

-----------------------------------------------------------------------------
(***************************************************************************)
(* The eviction loop stops as early as it may and as late as it must.      *)
(* What the insertion leaves, in entries and in bytes; u is the memory of  *)
(* the new entry.                                                          *)
(***************************************************************************)
LEMMA InsertCounts ==
    ASSUME Good(lru), Good(lru'), NEW k \in Key, NEW v \in Value, NEW n, InsertStep(k, v, n)
    PROVE  /\ Cardinality(DOMAIN lru'.val) = n + 1
           /\ Bytes(lru'.val) = Bytes(Keep(lru, n)) + calculateMemoryUsage(k, v)
<1>1. /\ n \in 0 .. Len(lru.order) /\ k \notin DOMAIN lru.val
      /\ lru'.order = addToHead(SubSeq(lru.order, 1, n), k)
      /\ lru'.val = With(Keep(lru, n), k, v)
    BY DEF InsertStep
<1>2. lru.order \in Seq(Key) /\ Len(lru.order) \in Nat /\ NoDuplicates(lru.order)
    BY DEF Good, IsCache, Linked
<1>3. Cardinality(DOMAIN lru'.val) = Len(lru'.order)
    BY EntriesFinite DEF Good
<1>4. Len(lru'.order) = n + 1
  <2>1. SubSeq(lru.order, 1, n) \in Seq(Key) /\ Len(SubSeq(lru.order, 1, n)) = n
      BY <1>1, <1>2, PrefixLemma
  <2> QED BY <1>1, <2>1 DEF addToHead
<1>5. /\ IsMap(Keep(lru, n), Value) /\ IsFiniteSet(DOMAIN Keep(lru, n))
      /\ k \notin DOMAIN Keep(lru, n)
    BY <1>1, KeepLemma
<1>6. Bytes(lru'.val) = Bytes(Keep(lru, n)) + calculateMemoryUsage(k, v)
    BY <1>1, <1>5, BytesWith
<1> QED BY <1>3, <1>4, <1>6

(***************************************************************************)
(* With n nodes left, the loop's size is n and, when the accounting is     *)
(* exact, its usage is the bytes of those n entries.                       *)
(***************************************************************************)
LEMMA MustEvictLemma ==
    ASSUME NEW c, Good(c), NEW n \in 0 .. Len(c.order), NEW u \in Nat, MemoryLimit > 0 => Exact(c)
    PROVE  MustEvict(c, n, u) <=>
              /\ n # 0
              /\ \/ MemoryLimit > 0 /\ Bytes(Keep(c, n)) + u > MemoryLimit
                 \/ n >= Capacity
<1>1. /\ c.size = Len(c.order) /\ Len(c.order) \in Nat /\ c.mem \in Int
    BY DEF Good, Linked, IsCache
<1>2. /\ Bytes(c.val) = Bytes(Keep(c, n)) + Bytes(Evicted(c, n))
      /\ Bytes(Keep(c, n)) \in Nat /\ Bytes(Evicted(c, n)) \in Nat
    BY KeepLemma
<1>3. c.size - (Len(c.order) - n) = n
    BY <1>1
<1>4. MemoryLimit > 0 => c.mem - Bytes(Evicted(c, n)) + u = Bytes(Keep(c, n)) + u
    BY <1>2 DEF Exact
<1> QED BY <1>3, <1>4 DEF MustEvict

(***************************************************************************)
(* The entry one place further back costs its own memory.                  *)
(***************************************************************************)
LEMMA KeepOneMore ==
    ASSUME NEW c, Good(c), NEW n \in 0 .. Len(c.order) - 1, NEW e, e = c.order[n + 1]
    PROVE  Bytes(Keep(c, n + 1)) = Bytes(Keep(c, n)) + calculateMemoryUsage(e, c.val[e])
<1>1. /\ Len(c.order) \in Nat /\ n \in 0 .. Len(c.order) /\ n + 1 \in 0 .. Len(c.order)
      /\ NoDuplicates(c.order) /\ Elems(c.order) = DOMAIN c.val
      /\ c.order \in Seq(Key) /\ IsMap(c.val, Value)
    BY DEF Good, Linked, IsCache, IsMap
<1>2. e \in DOMAIN c.val /\ e \in Key /\ c.val[e] \in Value
    BY <1>1 DEF Elems, IsMap
<1>3. Front(c, n + 1) = Front(c, n) \cup {e} /\ e \notin Front(c, n)
  <2>1. 1 .. n + 1 = (1 .. n) \cup {n + 1}
      BY <1>1
  <2>2. Front(c, n + 1) = Front(c, n) \cup {e}
      BY <2>1 DEF Front
  <2>3. e \notin Front(c, n)
      BY <1>1 DEF Front, NoDuplicates
  <2> QED BY <2>2, <2>3
<1>4. /\ IsMap(Keep(c, n), Value) /\ DOMAIN Keep(c, n) = Front(c, n)
      /\ \A x \in Front(c, n) : Keep(c, n)[x] = c.val[x]
      /\ IsFiniteSet(Front(c, n))
    BY <1>1, KeepLemma
<1>5. /\ IsMap(Keep(c, n + 1), Value) /\ DOMAIN Keep(c, n + 1) = Front(c, n + 1)
      /\ \A x \in Front(c, n + 1) : Keep(c, n + 1)[x] = c.val[x]
    BY <1>1, KeepLemma
<1>6. Keep(c, n + 1) = With(Keep(c, n), e, c.val[e])
  <2>1. Keep(c, n + 1) = [x \in DOMAIN Keep(c, n + 1) |-> Keep(c, n + 1)[x]]
      BY <1>5 DEF IsMap
  <2> QED BY <1>3, <1>4, <1>5, <2>1 DEF With
<1> QED BY <1>2, <1>3, <1>4, <1>6, BytesWith

LEMMA KeepNone ==
    ASSUME NEW c, Good(c)
    PROVE  Bytes(Keep(c, 0)) = 0
<1>1. Len(c.order) \in Nat /\ 0 \in 0 .. Len(c.order)
    BY DEF Good, IsCache
<1>2. DOMAIN Keep(c, 0) = {}
  <2>1. Front(c, 0) = {}
      BY DEF Front
  <2> QED BY <1>1, <2>1, KeepLemma
<1>3. UNION {EntryBytes(k, Keep(c, 0)[k]) : k \in DOMAIN Keep(c, 0)} = {}
    BY <1>2
<1> QED BY <1>3, FS_EmptySet DEF Bytes

(***************************************************************************)
(* What is common to the two theorems below: where the loop stopped.       *)
(***************************************************************************)
LEMMA LoopStops ==
    ASSUME CoreInv, NEW k \in Key, NEW v \in Value, NEW n, InsertStep(k, v, n)
    PROVE  /\ n \in 0 .. Len(lru.order) /\ Len(lru.order) \in Nat
           /\ MemoryLimit > 0 => Exact(lru)
           /\ calculateMemoryUsage(k, v) \in Nat
           /\ ~MustEvict(lru, n, calculateMemoryUsage(k, v))
           /\ \A m \in n + 1 .. Len(lru.order) : MustEvict(lru, m, calculateMemoryUsage(k, v))
<1>1. Good(lru) /\ Len(lru.order) \in Nat
    BY DEF CoreInv, Good, IsCache
<1>2. MemoryLimit > 0 => Exact(lru)
    BY HasTTLAssumption DEF CoreInv, Accounted
<1>3. calculateMemoryUsage(k, v) \in Nat
    BY UsageType
<1>4. PICK u : u = calculateMemoryUsage(k, v)
    OBVIOUS
<1>5. n = KeptCount(lru, u)
    BY <1>4 DEF InsertStep
<1>6. /\ KeptCount(lru, u) \in 0 .. Len(lru.order)
      /\ ~MustEvict(lru, KeptCount(lru, u), u)
      /\ \A m \in KeptCount(lru, u) + 1 .. Len(lru.order) : MustEvict(lru, m, u)
    BY <1>1, KeptCountLemma DEF Good
<1> QED BY <1>1, <1>2, <1>3, <1>4, <1>5, <1>6

(***************************************************************************)
(* An insertion never evicts an entry there was room for: the last victim  *)
(* would have broken the capacity or the memory limit (the condition of    *)
(* the loop of SetInternal).                                               *)
(***************************************************************************)
THEOREM EvictionNeedSafe == Spec => EvictsOnlyWhatItMust
<1> DEFINE A == \A k \in Inserts, e \in Victims :
                  (\A x \in Victims \ {e} : <<e, x>> \in newer)
                  => LET c == Cardinality(DOMAIN lru'.val) + 1
                         m == Bytes(lru'.val) + calculateMemoryUsage(e, lru.val[e])
                     IN  c > Capacity \/ (MemoryLimit > 0 /\ m > MemoryLimit)
<1>1. CoreInv /\ CoreInv' /\ UseInv /\ [Next]_vars => [A]_vars
  <2> SUFFICES ASSUME CoreInv, CoreInv', UseInv, [Next]_vars, NEW i \in Inserts, NEW e \in Victims,
                      \A x \in Victims \ {e} : <<e, x>> \in newer
               PROVE  \/ Cardinality(DOMAIN lru'.val) + 1 > Capacity
                      \/ /\ MemoryLimit > 0
                         /\ Bytes(lru'.val) + calculateMemoryUsage(e, lru.val[e]) > MemoryLimit
      OBVIOUS
  <2>1. Good(lru) /\ Good(lru') /\ lru.order \in Seq(Key) /\ IsMap(lru.val, Value)
      BY DEF CoreInv, Good, IsCache, IsMap
  <2>2. ASSUME NEW k, NEW v, UpdateStep(k, v) \/ HitStep(k) \/ DropStep(k) \/ QuietStep
        PROVE  FALSE
      BY <2>1, <2>2, NoInsertion
  <2>ins. PICK k \in Key, v \in Value : \E n : InsertStep(k, v, n)
      BY <2>2, EntrySteps
  <2>3. PICK n : InsertStep(k, v, n)
      BY <2>ins
  <2>4. PICK u : u = calculateMemoryUsage(k, v)
      OBVIOUS
  <2>5. /\ n \in 0 .. Len(lru.order) /\ Len(lru.order) \in Nat
        /\ MemoryLimit > 0 => Exact(lru)
        /\ u \in Nat
        /\ \A m \in n + 1 .. Len(lru.order) : MustEvict(lru, m, u)
      BY <2>3, <2>4, LoopStops
  <2>v. Victims = Back(lru, n)
      BY <2>1, <2>3, InsertFacts
  <2>6. PICK j \in n + 1 .. Len(lru.order) : e = lru.order[j]
      BY <2>v DEF Back
  <2>7. /\ n + 1 \in n + 1 .. Len(lru.order) /\ n \in 0 .. Len(lru.order) - 1
        /\ n + 1 \in 0 .. Len(lru.order)
        /\ n + 1 \in 1 .. Len(lru.order) /\ j \in 1 .. Len(lru.order)
      BY <2>5, <2>6
  <2>8. lru.order[n + 1] \in Victims /\ lru.order[n + 1] \in Key /\ e \in Key
      BY <2>1, <2>6, <2>7, <2>v DEF Back
  <2>9. e = lru.order[n + 1]
    <3> SUFFICES ASSUME e # lru.order[n + 1] PROVE FALSE
        OBVIOUS
    <3>1. n + 1 < j
        BY <2>5, <2>6
    <3>2. <<lru.order[n + 1], e>> \in newer
        BY <2>6, <2>7, <3>1 DEF UseInv, OrderedByUse
    <3>3. <<e, lru.order[n + 1]>> \in newer
        BY <2>8
    <3> QED BY <2>8, <3>2, <3>3 DEF UseInv
  <2>10. \/ MemoryLimit > 0 /\ Bytes(Keep(lru, n + 1)) + u > MemoryLimit
         \/ n + 1 >= Capacity
      BY <2>1, <2>5, <2>7, MustEvictLemma
  <2>11. Bytes(Keep(lru, n + 1)) = Bytes(Keep(lru, n)) + calculateMemoryUsage(e, lru.val[e])
      BY <2>1, <2>7, <2>9, KeepOneMore
  <2>12. /\ Cardinality(DOMAIN lru'.val) = n + 1
         /\ Bytes(lru'.val) = Bytes(Keep(lru, n)) + u
      BY <2>1, <2>3, <2>4, InsertCounts
  <2>13. Bytes(Keep(lru, n)) \in Nat
      BY <2>1, <2>5, KeepLemma
  <2>14. calculateMemoryUsage(e, lru.val[e]) \in Nat
    <3>1. e \in DOMAIN lru.val
        BY DEF Victims
    <3> QED BY <2>1, <2>8, <3>1, UsageType DEF IsMap
  <2> QED BY <2>5, <2>10, <2>11, <2>12, <2>13, <2>14, CapacityAssumption, MemoryLimitAssumption
<1> QED BY <1>1, Core, Use, PTL DEF Spec, EvictsOnlyWhatItMust

(***************************************************************************)
(* An insertion always ends within the memory limit, also when updates in  *)
(* place, which never evict, had left the cache over it (SetInternal).     *)
(***************************************************************************)
THEOREM LimitSafe == Spec => InsertionRestoresLimit
<1> DEFINE A == Inserts # {} /\ MemoryLimit > 0 => Bytes(lru'.val) <= MemoryLimit
<1>1. CoreInv /\ CoreInv' /\ [Next]_vars => [A]_vars
  <2> SUFFICES ASSUME CoreInv, CoreInv', [Next]_vars, Inserts # {}, MemoryLimit > 0
               PROVE  Bytes(lru'.val) <= MemoryLimit
      OBVIOUS
  <2>1. Good(lru) /\ Good(lru')
      BY DEF CoreInv
  <2>2. ASSUME NEW k, NEW v, UpdateStep(k, v) \/ HitStep(k) \/ DropStep(k) \/ QuietStep
        PROVE  FALSE
      BY <2>1, <2>2, NoInsertion
  <2>ins. PICK k \in Key, v \in Value : \E n : InsertStep(k, v, n)
      BY <2>2, EntrySteps
  <2>3. PICK n : InsertStep(k, v, n)
      BY <2>ins
  <2>4. PICK u : u = calculateMemoryUsage(k, v)
      OBVIOUS
  <2>5. /\ n \in 0 .. Len(lru.order) /\ Exact(lru) /\ u \in Nat /\ ~MustEvict(lru, n, u)
      BY <2>3, <2>4, LoopStops
  <2>6. n # 0 => Bytes(Keep(lru, n)) + u <= MemoryLimit
    <3>1. Bytes(Keep(lru, n)) \in Nat
        BY <2>1, <2>5, KeepLemma
    <3>2. MustEvict(lru, n, u) <=>
              /\ n # 0
              /\ \/ MemoryLimit > 0 /\ Bytes(Keep(lru, n)) + u > MemoryLimit
                 \/ n >= Capacity
        BY <2>1, <2>5, MustEvictLemma
    <3> QED BY <2>5, <3>1, <3>2, MemoryLimitAssumption
  <2>7. u <= MemoryLimit
      BY <2>3, <2>4, <2>5, MemoryLimitAssumption DEF InsertStep, Rejects
  <2>8. n = 0 => Bytes(Keep(lru, n)) = 0
      BY <2>1, KeepNone
  <2>9. Bytes(lru'.val) = Bytes(Keep(lru, n)) + u
      BY <2>1, <2>3, <2>4, InsertCounts
  <2> QED BY <2>5, <2>6, <2>7, <2>8, <2>9
<1> QED BY <1>1, Core, PTL DEF Spec, InsertionRestoresLimit

-----------------------------------------------------------------------------
(***************************************************************************)
(* Refinement of BoundedCache, one lemma for each kind of step.            *)
(***************************************************************************)
LEMMA PutRefined ==
    ASSUME Good(lru), Good(lru'), NEW k \in Key, NEW v \in Value,
           UpdateStep(k, v) \/ \E n : InsertStep(k, v, n)
    PROVE  Abstract!Put(k, v)
<1>1. IsMap(lru.val, Value)
    BY DEF Good, IsCache, IsMap
<1>2. Cardinality(DOMAIN lru'.val) <= Capacity
  <2>1. Cardinality(DOMAIN lru'.val) = Len(lru'.order)
      BY EntriesFinite DEF Good
  <2> QED BY <2>1 DEF Good, Linked
<1>3. /\ k \in DOMAIN lru'.val /\ lru'.val[k] = v /\ answer' = NoAnswer
      /\ DOMAIN lru'.val \ {k} \subseteq DOMAIN lru.val
      /\ \A x \in DOMAIN lru'.val \ {k} : lru'.val[x] = lru.val[x]
      /\ lru'.val = [x \in DOMAIN lru'.val |-> lru'.val[x]]
  <2>1. CASE UpdateStep(k, v)
      BY <2>1 DEF UpdateStep, With
  <2>2. ASSUME NEW n, InsertStep(k, v, n)
        PROVE  /\ k \in DOMAIN lru'.val /\ lru'.val[k] = v /\ answer' = NoAnswer
               /\ DOMAIN lru'.val \ {k} \subseteq DOMAIN lru.val
               /\ \A x \in DOMAIN lru'.val \ {k} : lru'.val[x] = lru.val[x]
               /\ lru'.val = [x \in DOMAIN lru'.val |-> lru'.val[x]]
    <3>1. /\ DOMAIN lru'.val = Front(lru, n) \cup {k}
          /\ \A x \in Front(lru, n) : lru'.val[x] = lru.val[x]
          /\ lru'.val[k] = v
          /\ lru'.val = [x \in DOMAIN lru'.val |-> lru'.val[x]]
        BY <2>2, InsertFacts
    <3>2. Front(lru, n) \subseteq DOMAIN lru.val
      <4>1. n \in 0 .. Len(lru.order)
          BY <2>2 DEF InsertStep
      <4>2. Front(lru, n) \cup Back(lru, n) = DOMAIN lru.val
          BY <4>1, KeepLemma
      <4> QED BY <4>2
    <3>3. answer' = NoAnswer
        BY <2>2 DEF InsertStep
    <3> QED BY <3>1, <3>2, <3>3
  <2> QED BY <2>1, <2>2
<1>4. Abstract!Forgets([x \in DOMAIN lru'.val \ {k} |-> lru'.val[x]], lru.val)
    BY <1>3 DEF Abstract!Forgets
<1>5. Abstract!Cardinality(DOMAIN lru'.val) = Cardinality(DOMAIN lru'.val)
    BY DEF Abstract!Cardinality, Cardinality
<1> QED BY <1>2, <1>3, <1>4, <1>5 DEF Abstract!Put

LEMMA LossRefined ==
    ASSUME Good(lru), NEW k \in DOMAIN lru.val, DropStep(k)
    PROVE  Abstract!Forget \/ Abstract!LookupMiss(k)
<1>1. lru'.val = [x \in DOMAIN lru.val \ {k} |-> lru.val[x]]
    BY DEF DropStep, Without
<1>2. Abstract!Forgets(lru'.val, lru.val)
    BY <1>1 DEF Abstract!Forgets
<1> QED BY <1>1, <1>2 DEF DropStep, Abstract!Forget, Abstract!LookupMiss

LEMMA QuietRefined ==
    ASSUME Good(lru), QuietStep
    PROVE  \/ UNCHANGED <<lru.val, answer>>
           \/ Abstract!Forget
           \/ \E k \in Key : Abstract!LookupMiss(k)
<1>1. /\ lru.val = [x \in DOMAIN lru.val |-> lru.val[x]] /\ lru'.val = lru.val
    BY DEF Good, IsCache, QuietStep
<1>2. CASE answer' = answer
    BY <1>1, <1>2
<1>3. CASE answer' = NoAnswer
  <2>1. Abstract!Forgets(lru'.val, lru.val)
      BY <1>1 DEF Abstract!Forgets
  <2> QED BY <1>3, <2>1 DEF Abstract!Forget
<1>4. ASSUME NEW k \in Key \ DOMAIN lru.val, answer' = [key |-> k, val |-> Miss]
      PROVE  Abstract!LookupMiss(k)
  <2>1. DOMAIN lru.val = DOMAIN lru.val \ {k}
      BY <1>4
  <2>2. lru'.val = [x \in DOMAIN lru.val \ {k} |-> lru.val[x]]
      BY <1>1, <2>1
  <2> QED BY <1>4, <2>2 DEF Abstract!LookupMiss
<1> QED BY <1>2, <1>3, <1>4 DEF QuietStep

(***************************************************************************)
(* The cache implements the bounded cache: whatever the capacity, the      *)
(* limit, the deadlines and the interleaving of clients, batch loops and   *)
(* cleanup passes, a hit answers the value last put under the key and a    *)
(* miss is answered only when the key is not there after it (Get, GetMulti,*)
(* SetInternal, Delete, DeleteMulti, cleanupExpiredkeys).                  *)
(***************************************************************************)
THEOREM Refinement == Spec => ImplementsBoundedCache
<1>1. Init => Abstract!Init
    BY DEF Init, NewLRUCache, EmptyMap, Abstract!Init
<1>2. CoreInv /\ CoreInv' /\ [Next]_vars => [Abstract!Next]_<<lru.val, answer>>
  <2> SUFFICES ASSUME CoreInv, CoreInv', [Next]_vars
               PROVE  Abstract!Next \/ UNCHANGED <<lru.val, answer>>
      OBVIOUS
  <2>1. Good(lru) /\ Good(lru') /\ DOMAIN lru.val \subseteq Key
      BY DEF CoreInv, Good, IsCache
  <2>2. ASSUME NEW k \in Key, NEW v \in Value, UpdateStep(k, v) \/ \E n : InsertStep(k, v, n)
        PROVE  Abstract!Next
      BY <2>1, <2>2, PutRefined DEF Abstract!Next
  <2>3. ASSUME NEW k \in DOMAIN lru.val, HitStep(k) PROVE Abstract!Next
    <3>1. Abstract!Hit(k)
        BY <2>3 DEF HitStep, Abstract!Hit
    <3> QED BY <2>1, <3>1 DEF Abstract!Next
  <2>4. ASSUME NEW k \in DOMAIN lru.val, DropStep(k) PROVE Abstract!Next
      BY <2>1, <2>4, LossRefined DEF Abstract!Next
  <2>5. CASE QuietStep
      BY <2>1, <2>5, QuietRefined DEF Abstract!Next
  <2> QED BY <2>2, <2>3, <2>4, <2>5, EntrySteps
<1> QED BY <1>1, <1>2, Core, PTL DEF Spec, ImplementsBoundedCache, Abstract!Spec
=============================================================================
