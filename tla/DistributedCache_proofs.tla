----------------------- MODULE DistributedCache_proofs -----------------------
(***************************************************************************)
(* Theorems about the ring of core/distributed_cache.go, for every number  *)
(* of nodes and virtual nodes and every placement of their hashes.         *)
(***************************************************************************)
EXTENDS DistributedCache, WellFoundedInduction, NaturalsInduction, SequenceTheorems, TLAPS

(***************************************************************************)
(* A non-empty set of positions has a first one.                           *)
(***************************************************************************)
LEMMA MinLemma ==
    ASSUME NEW S \in SUBSET Nat, S # {}
    PROVE  Min(S) \in S /\ \A y \in S : Min(S) =< y
<1>1. PICK x \in S : \A y \in S : ~(<<y, x>> \in OpToRel(<, Nat))
    BY WFMin, NatLessThanWellFounded
<1>2. \A y \in S : ~(y < x)
    BY <1>1 DEF OpToRel
<1>3. \A y \in S : x =< y
    BY <1>2
<1> QED BY <1>3 DEF Min

(***************************************************************************)
(* The binary search of getNodeForKeyUnsafe finds a position of the ring.  *)
(***************************************************************************)
LEMMA SuccessorLemma ==
    ASSUME NEW S \in SUBSET Nat, S # {}, NEW h \in Nat
    PROVE  /\ Successor(h, S) \in S
           /\ \A q \in S : q >= h => Successor(h, S) >= h /\ Successor(h, S) =< q
           /\ Successor(h, S) < h => \A q \in S : q < h /\ Successor(h, S) =< q
<1> DEFINE A == {p \in S : p >= h}
<1>1. CASE A = {}
  <2>1. Successor(h, S) = Min(S)
      BY <1>1 DEF Successor
  <2>2. \A q \in S : q < h
      BY <1>1
  <2> QED BY <2>1, <2>2, MinLemma
<1>2. CASE A # {}
  <2>1. Successor(h, S) = Min(A)
      BY <1>2 DEF Successor
  <2>2. Min(A) \in A /\ \A y \in A : Min(A) =< y
    <3>1. A \in SUBSET Nat
        OBVIOUS
    <3> HIDE DEF A
    <3> QED BY <1>2, <3>1, MinLemma
  <2>3. Successor(h, S) \in S /\ Successor(h, S) \in Nat /\ Successor(h, S) >= h
      BY <2>1, <2>2
  <2>4. ASSUME NEW q \in S, q >= h PROVE Successor(h, S) =< q
      BY <2>1, <2>2, <2>4
  <2>5. ~(Successor(h, S) < h)
      BY <2>3
  <2> QED BY <2>3, <2>4, <2>5
<1> QED BY <1>1, <1>2

(***************************************************************************)
(* Consistent hashing in one line: on a smaller ring that still has the    *)
(* position a hash is routed to, the hash is routed to it.                 *)
(***************************************************************************)
LEMMA SuccessorStable ==
    ASSUME NEW S \in SUBSET Nat, NEW T \in SUBSET S, NEW h \in Nat, Successor(h, S) \in T
    PROVE  Successor(h, T) = Successor(h, S)
<1> DEFINE s == Successor(h, S)
           t == Successor(h, T)
<1>0. S # {} /\ T # {} /\ T \in SUBSET Nat
    OBVIOUS
<1>1. /\ s \in S
      /\ \A q \in S : q >= h => s >= h /\ s =< q
      /\ s < h => \A q \in S : q < h /\ s =< q
    BY <1>0, SuccessorLemma
<1>2. /\ t \in T
      /\ \A q \in T : q >= h => t >= h /\ t =< q
      /\ t < h => \A q \in T : q < h /\ t =< q
    BY <1>0, SuccessorLemma
<1>3. s \in T /\ s \in Nat /\ t \in Nat /\ t \in S
    BY <1>1, <1>2
<1> HIDE DEF s, t
<1>4. ASSUME s >= h PROVE t = s
  <2>1. t >= h /\ t =< s
      BY <1>2, <1>3, <1>4
  <2>2. s =< t
      BY <1>1, <1>3, <2>1
  <2> QED BY <1>3, <2>1, <2>2
<1>5. ASSUME s < h PROVE t = s
  <2>1. t < h /\ s =< t
      BY <1>1, <1>3, <1>5
  <2>2. t =< s
      BY <1>2, <1>3, <2>1
  <2> QED BY <1>3, <2>1, <2>2
<1>6. t = s
    BY <1>3, <1>4, <1>5
<1> QED BY <1>6 DEF s, t

-----------------------------------------------------------------------------
(***************************************************************************)
(* What holds of the ring whatever the nodes added: the sorted list is the *)
(* ring's domain, and the ring leads to nodes that have a cache.           *)
(***************************************************************************)
RingInv ==
    /\ layout \in Layouts
    /\ DOMAIN HashRing \subseteq Nat
    /\ HashRing = [p \in DOMAIN HashRing |-> HashRing[p]]
    /\ SortedHashes = DOMAIN HashRing
    /\ \A p \in DOMAIN HashRing : HashRing[p] \in DOMAIN LocalCaches

(***************************************************************************)
(* The node list and the caches name the same nodes, each once.            *)
(***************************************************************************)
MembersInv ==
    /\ Nodes \in Seq(Node)
    /\ \A n \in DOMAIN LocalCaches : \E i \in 1 .. Len(Nodes) : Nodes[i] = n
    /\ \A i \in 1 .. Len(Nodes) : Nodes[i] \in DOMAIN LocalCaches
    /\ \A i, j \in 1 .. Len(Nodes) : Nodes[i] = Nodes[j] => i = j

(***************************************************************************)
(* buildHashRing: its positions are those of the listed nodes, and each    *)
(* leads to one of those that hash there.                                  *)
(***************************************************************************)
IsRingOf(ring, s, l) ==
    /\ DOMAIN ring \subseteq Nat
    /\ ring = [p \in DOMAIN ring |-> ring[p]]
    /\ \A p \in DOMAIN ring : \E i \in 1 .. Len(s) : ring[p] = s[i] /\ p \in l.vnodes[s[i]]
    /\ \A i \in 1 .. Len(s) : l.vnodes[s[i]] \subseteq DOMAIN ring

LEMMA BuildLemma ==
    ASSUME NEW l \in Layouts, NEW s \in Seq(Node)
    PROVE  IsRingOf(buildHashRing(s, l.vnodes), s, l)
<1> DEFINE V == l.vnodes
           D == UNION {V[s[i]] : i \in 1 .. Len(s)}
           I(p) == {i \in 1 .. Len(s) : p \in V[s[i]]}
           r == [p \in D |-> s[Max(I(p))]]
<1>1. buildHashRing(s, l.vnodes) = r
    BY DEF buildHashRing
<1>2. D \subseteq Nat
    BY LayoutsAssumption
<1>3. ASSUME NEW p \in D PROVE Max(I(p)) \in 1 .. Len(s) /\ p \in V[s[Max(I(p))]]
  <2>1. I(p) # {}
      OBVIOUS
  <2>2. Len(s) \in Nat
      OBVIOUS
  <2> DEFINE C == {Len(s) - i : i \in I(p)}
  <2>3. C \subseteq Nat /\ C # {}
      BY <2>1, <2>2
  <2>4. Min(C) \in C /\ \A y \in C : Min(C) =< y
      BY <2>3, MinLemma
  <2>5. PICK m \in I(p) : Min(C) = Len(s) - m
      BY <2>4
  <2>6. \A i \in I(p) : m >= i
    <3>1. \A i \in I(p) : Len(s) - m =< Len(s) - i
        BY <2>4, <2>5
    <3> QED BY <2>2, <3>1
  <2>7. Max(I(p)) \in I(p)
    <3> HIDE DEF I
    <3> QED BY <2>6 DEF Max
  <2> QED BY <2>7
<1> QED BY <1>1, <1>2, <1>3 DEF IsRingOf

(* List t is list s without its first n: without any n if s does not repeat. *)
LosesNode(s, t, n) ==
    /\ t \in Seq(Node)
    /\ \A i \in 1 .. Len(t) : \E j \in 1 .. Len(s) : t[i] = s[j]
    /\ \A j \in 1 .. Len(s) : s[j] # n => \E i \in 1 .. Len(t) : t[i] = s[j]
    /\ (\A i, j \in 1 .. Len(s) : s[i] = s[j] => i = j) =>
           /\ \A i \in 1 .. Len(t) : t[i] # n
           /\ \A i, j \in 1 .. Len(t) : t[i] = t[j] => i = j

(***************************************************************************)
(* removeNodeFromNodes takes the node out of the list once, and nothing    *)
(* else: a list without repetitions no longer has it.                      *)
(***************************************************************************)
LEMMA RemoveFromListLemma ==
    ASSUME NEW s \in Seq(Node), NEW n, \E i \in 1 .. Len(s) : s[i] = n,
           NEW t, t = removeNodeFromNodes(s, n)
    PROVE  LosesNode(s, t, n)
<1> DEFINE I == {j \in 1 .. Len(s) : s[j] = n}
           x == Min(I)
           a == SubSeq(s, 1, x - 1)
           b == SubSeq(s, x + 1, Len(s))
           r == a \o b
           f(i) == IF i < x THEN i ELSE i + 1
<1>1. x \in 1 .. Len(s) /\ s[x] = n
  <2>1. I \in SUBSET Nat /\ I # {}
      OBVIOUS
  <2>2. Min(I) \in I
    <3> HIDE DEF I
    <3> QED BY <2>1, MinLemma
  <2> QED BY <2>2
<1>2. t = r
    BY DEF removeNodeFromNodes
<1> HIDE DEF x
<1>a. /\ a \in Seq(Node) /\ Len(a) = x - 1
      /\ \A i \in 1 .. Len(a) : a[i] = s[i]
    BY <1>1
<1>b. /\ b \in Seq(Node) /\ Len(b) = Len(s) - x
      /\ \A i \in 1 .. Len(b) : b[i] = s[i + x]
    BY <1>1
<1>c. r = a \o b
    OBVIOUS
<1> HIDE DEF a, b, r
<1>3. r \in Seq(Node) /\ Len(r) = Len(s) - 1
  <2>1. r \in Seq(Node)
      BY <1>a, <1>b, <1>c
  <2>2. Len(r) = Len(a) + Len(b)
      BY <1>a, <1>b, <1>c, ConcatProperties
  <2>3. Len(s) \in Nat
      OBVIOUS
  <2>4. Len(r) = (x - 1) + (Len(s) - x)
      BY <1>a, <1>b, <2>2
  <2> QED BY <1>1, <2>1, <2>3, <2>4
<1>4. ASSUME NEW i \in 1 .. Len(r) PROVE r[i] = s[f(i)] /\ f(i) \in 1 .. Len(s) /\ f(i) # x
  <2>1. CASE i < x
      BY <1>1, <1>3, <1>a, <1>b, <1>c, <2>1
  <2>2. CASE i >= x
    <3>1. r[i] = b[i - (x - 1)]
        BY <1>1, <1>3, <1>a, <1>b, <1>c, <2>2
    <3>2. i - (x - 1) \in 1 .. Len(b)
        BY <1>1, <1>3, <1>b, <2>2
    <3> QED BY <1>1, <1>3, <1>b, <2>2, <3>1, <3>2
  <2> QED BY <1>1, <1>3, <2>1, <2>2
<1>5. ASSUME NEW j \in 1 .. Len(s), s[j] # n PROVE \E i \in 1 .. Len(r) : r[i] = s[j]
  <2>1. CASE j < x
    <3>1. j \in 1 .. Len(r) /\ f(j) = j
        BY <1>1, <1>3, <2>1
    <3> QED BY <1>4, <3>1
  <2>2. CASE j > x
    <3>1. j - 1 \in 1 .. Len(r) /\ f(j - 1) = j
        BY <1>1, <1>3, <2>2
    <3> QED BY <1>4, <3>1
  <2> QED BY <1>1, <1>5, <2>1, <2>2
<1>6. ASSUME \A i, j \in 1 .. Len(s) : s[i] = s[j] => i = j,
             NEW i \in 1 .. Len(r), NEW j \in 1 .. Len(r), r[i] = r[j]
      PROVE  i = j
  <2>1. f(i) = f(j)
      BY <1>4, <1>6
  <2> QED BY <1>1, <1>3, <2>1
<1>7. ASSUME \A i, j \in 1 .. Len(s) : s[i] = s[j] => i = j, NEW i \in 1 .. Len(r)
      PROVE  r[i] # n
  <2>1. r[i] = s[f(i)] /\ f(i) \in 1 .. Len(s) /\ f(i) # x
      BY <1>4
  <2> HIDE DEF f
  <2> QED BY <1>1, <1>7, <2>1
<1>8. ASSUME NEW i \in 1 .. Len(r) PROVE \E j \in 1 .. Len(s) : r[i] = s[j]
  <2>1. r[i] = s[f(i)] /\ f(i) \in 1 .. Len(s)
      BY <1>4
  <2> HIDE DEF f
  <2> QED BY <2>1
<1> HIDE DEF f
<1>9. /\ \A i \in 1 .. Len(r) : \E j \in 1 .. Len(s) : r[i] = s[j]
      /\ \A j \in 1 .. Len(s) : s[j] # n => \E i \in 1 .. Len(r) : r[i] = s[j]
    BY <1>5, <1>8
<1>10. (\A i, j \in 1 .. Len(s) : s[i] = s[j] => i = j) =>
           /\ \A i \in 1 .. Len(r) : r[i] # n
           /\ \A i, j \in 1 .. Len(r) : r[i] = r[j] => i = j
    BY <1>6, <1>7
<1>11. LosesNode(s, r, n)
    BY <1>3, <1>9, <1>10 DEF LosesNode
<1> QED BY <1>2, <1>11

-----------------------------------------------------------------------------
(***************************************************************************)
(* Every action but AddNode and RemoveNode leaves the ring alone.          *)
(***************************************************************************)
LEMMA OnlyChangesMoveTheRing ==
    ASSUME [Next]_vars
    PROVE  \/ \E n \in Node : AddNode(n)
           \/ \E n \in Node : RemoveNode(n)
           \/ UNCHANGED <<layout, ringVars>>
<1>1. ASSUME NEW c \in Client, Call(c) \/ FetchCache(c) \/ UseCache(c)
      PROVE  UNCHANGED <<layout, ringVars>>
    BY <1>1 DEF Call, GetNodeForKey, CallPanics, FetchCache, UseCache, vars, ringVars
<1>2. ASSUME MigrationStep PROVE UNCHANGED <<layout, ringVars>>
    BY <1>2 DEF MigrationStep, ScanVirtualNode, MigrateSet, MigrateDelete,
                redistributeDataBasic, RedistributePanics, EndChange
<1>3. ASSUME UNCHANGED vars PROVE UNCHANGED <<layout, ringVars>>
    BY <1>3 DEF vars, ringVars
<1> QED BY <1>1, <1>2, <1>3 DEF Next

(***************************************************************************)
(* A layout gives every key and every virtual node a position.             *)
(***************************************************************************)
LEMMA LayoutLemma ==
    ASSUME NEW l \in Layouts
    PROVE  /\ \A k \in Key : l.key[k] \in Nat
           /\ \A n \in Node : l.vnodes[n] \subseteq Nat
BY LayoutsAssumption

(***************************************************************************)
(* The constructor establishes both invariants.                            *)
(***************************************************************************)
LEMMA RingInit == Init => RingInv /\ MembersInv
<1> SUFFICES ASSUME Init PROVE RingInv /\ MembersInv
    OBVIOUS
<1>1. Nodes \in Seq(Node) /\ \A i, j \in 1 .. Len(Nodes) : Nodes[i] = Nodes[j] => i = j
    BY StartAssumption DEF Init
<1>2. DOMAIN LocalCaches = {Nodes[i] : i \in 1 .. Len(Nodes)}
    BY <1>1 DEF Init, Range
<1>3. MembersInv
    BY <1>1, <1>2 DEF MembersInv
<1>4. /\ layout \in Layouts
      /\ HashRing = buildHashRing(Nodes, layout.vnodes)
      /\ SortedHashes = DOMAIN HashRing
    BY DEF Init
<1>5. /\ DOMAIN HashRing \subseteq Nat
      /\ HashRing = [p \in DOMAIN HashRing |-> HashRing[p]]
      /\ \A p \in DOMAIN HashRing : \E i \in 1 .. Len(Nodes) : HashRing[p] = Nodes[i]
  <2>1. IsRingOf(HashRing, Nodes, layout)
      BY <1>1, <1>4, BuildLemma
  <2> QED BY <2>1 DEF IsRingOf
<1> QED BY <1>2, <1>3, <1>4, <1>5 DEF RingInv

(***************************************************************************)
(* AddNode: the new ring.                                                  *)
(***************************************************************************)
LEMMA AddedRing ==
    ASSUME RingInv, NEW n \in Node, AddNode(n)
    PROVE  /\ layout' = layout
           /\ SortedHashes' = DOMAIN HashRing'
           /\ DOMAIN HashRing' = DOMAIN HashRing \cup layout.vnodes[n]
           /\ HashRing' = [p \in DOMAIN HashRing' |-> HashRing'[p]]
           /\ \A p \in layout.vnodes[n] : HashRing'[p] = n
           /\ \A p \in DOMAIN HashRing \ layout.vnodes[n] : HashRing'[p] = HashRing[p]
           /\ change'.op = "AddNode" /\ change'.node = n
           /\ DOMAIN LocalCaches' = DOMAIN LocalCaches \cup {n}
BY DEF AddNode, addNodeToHashRing, RingInv, With

(***************************************************************************)
(* RemoveNode: the new ring.                                               *)
(***************************************************************************)
LEMMA RemovedRing ==
    ASSUME RingInv, NEW n \in Node, RemoveNode(n)
    PROVE  /\ layout' = layout
           /\ SortedHashes' = DOMAIN HashRing'
           /\ DOMAIN HashRing' = {p \in DOMAIN HashRing : HashRing[p] # n}
           /\ HashRing' = [p \in DOMAIN HashRing' |-> HashRing'[p]]
           /\ \A p \in DOMAIN HashRing' : HashRing'[p] = HashRing[p]
           /\ change'.op = "RemoveNode" /\ change'.node = n
           /\ DOMAIN LocalCaches' = DOMAIN LocalCaches \ {n}
BY DEF RemoveNode, removeNodeFromHashRing, Restrict, RingInv, Without

(***************************************************************************)
(* Every step keeps the ring consistent with its sorted list and with the  *)
(* caches, collisions and repeated additions included.                     *)
(***************************************************************************)
LEMMA RingStep == RingInv /\ [Next]_vars => RingInv'
<1> SUFFICES ASSUME RingInv, [Next]_vars PROVE RingInv'
    OBVIOUS
<1>1. ASSUME NEW n \in Node, AddNode(n) PROVE RingInv'
  <2>1. layout.vnodes[n] \subseteq Nat
      BY LayoutLemma DEF RingInv
  <2>2. /\ layout' = layout
        /\ SortedHashes' = DOMAIN HashRing'
        /\ DOMAIN HashRing' = DOMAIN HashRing \cup layout.vnodes[n]
        /\ HashRing' = [p \in DOMAIN HashRing' |-> HashRing'[p]]
        /\ \A p \in layout.vnodes[n] : HashRing'[p] = n
        /\ \A p \in DOMAIN HashRing \ layout.vnodes[n] : HashRing'[p] = HashRing[p]
        /\ change'.op = "AddNode" /\ change'.node = n
        /\ DOMAIN LocalCaches' = DOMAIN LocalCaches \cup {n}
      BY <1>1, AddedRing
  <2>3. \A p \in DOMAIN HashRing' : HashRing'[p] \in DOMAIN LocalCaches'
      BY <2>2 DEF RingInv
  <2> QED BY <2>1, <2>2, <2>3 DEF RingInv
<1>2. ASSUME NEW n \in Node, RemoveNode(n) PROVE RingInv'
    BY <1>2, RemovedRing DEF RingInv
<1>3. ASSUME UNCHANGED <<layout, ringVars>> PROVE RingInv'
    BY <1>3 DEF ringVars, RingInv
<1> QED BY <1>1, <1>2, <1>3, OnlyChangesMoveTheRing

(***************************************************************************)
(* Every step keeps the node list and the caches in agreement, as long as  *)
(* no member is added again.                                               *)
(***************************************************************************)
LEMMA MembersStep == ~ReAdd /\ MembersInv /\ [Next]_vars => MembersInv'
<1> SUFFICES ASSUME ~ReAdd, MembersInv, [Next]_vars PROVE MembersInv'
    OBVIOUS
<1>1. ASSUME NEW n \in Node, AddNode(n) PROVE MembersInv'
  <2>1. /\ Nodes' = Append(Nodes, n)
        /\ DOMAIN LocalCaches' = DOMAIN LocalCaches \cup {n}
        /\ n \notin DOMAIN LocalCaches
      BY <1>1 DEF AddNode, With
  <2>2. /\ Nodes' \in Seq(Node) /\ Len(Nodes') = Len(Nodes) + 1 /\ Len(Nodes) \in Nat
        /\ Nodes'[Len(Nodes) + 1] = n
        /\ \A i \in 1 .. Len(Nodes) : Nodes'[i] = Nodes[i]
      BY <2>1 DEF MembersInv
  <2>3. \A m \in DOMAIN LocalCaches' : \E i \in 1 .. Len(Nodes') : Nodes'[i] = m
    <3>1. \E i \in 1 .. Len(Nodes') : Nodes'[i] = n
        BY <2>2
    <3>2. ASSUME NEW m \in DOMAIN LocalCaches PROVE \E i \in 1 .. Len(Nodes') : Nodes'[i] = m
        BY <2>2 DEF MembersInv
    <3> QED BY <2>1, <3>1, <3>2
  <2>4. \A i \in 1 .. Len(Nodes') : i \in 1 .. Len(Nodes) \/ i = Len(Nodes) + 1
      BY <2>2
  <2>5. \A i \in 1 .. Len(Nodes') : Nodes'[i] \in DOMAIN LocalCaches'
      BY <2>1, <2>2, <2>4 DEF MembersInv
  <2>6. ASSUME NEW i \in 1 .. Len(Nodes'), NEW j \in 1 .. Len(Nodes'), Nodes'[i] = Nodes'[j]
        PROVE  i = j
      BY <2>1, <2>2, <2>4, <2>6 DEF MembersInv
  <2> QED BY <2>2, <2>3, <2>5, <2>6 DEF MembersInv
<1>2. ASSUME NEW n \in Node, RemoveNode(n) PROVE MembersInv'
  <2>1. /\ Nodes' = removeNodeFromNodes(Nodes, n)
        /\ DOMAIN LocalCaches' = DOMAIN LocalCaches \ {n}
        /\ n \in DOMAIN LocalCaches
      BY <1>2 DEF RemoveNode, Without
  <2>2. /\ Nodes' \in Seq(Node)
        /\ \A i \in 1 .. Len(Nodes') :
              Nodes'[i] # n /\ \E j \in 1 .. Len(Nodes) : Nodes'[i] = Nodes[j]
        /\ \A j \in 1 .. Len(Nodes) :
              Nodes[j] # n => \E i \in 1 .. Len(Nodes') : Nodes'[i] = Nodes[j]
        /\ \A i, j \in 1 .. Len(Nodes') : Nodes'[i] = Nodes'[j] => i = j
    <3>1. /\ Nodes \in Seq(Node) /\ \E i \in 1 .. Len(Nodes) : Nodes[i] = n
          /\ \A i, j \in 1 .. Len(Nodes) : Nodes[i] = Nodes[j] => i = j
        BY <2>1 DEF MembersInv
    <3>2. PICK t : t = Nodes'
        OBVIOUS
    <3>3. t = removeNodeFromNodes(Nodes, n)
        BY <2>1, <3>2
    <3>4. Nodes \in Seq(Node) /\ \E i \in 1 .. Len(Nodes) : Nodes[i] = n
        BY <3>1
    <3>5. LosesNode(Nodes, t, n)
        BY <3>3, <3>4, RemoveFromListLemma
    <3> QED BY <3>1, <3>2, <3>5 DEF LosesNode
  <2>3. ASSUME NEW m \in DOMAIN LocalCaches' PROVE \E i \in 1 .. Len(Nodes') : Nodes'[i] = m
    <3>1. PICK j \in 1 .. Len(Nodes) : Nodes[j] = m
        BY <2>1 DEF MembersInv
    <3> QED BY <2>1, <2>2, <3>1
  <2>4. \A i \in 1 .. Len(Nodes') : Nodes'[i] \in DOMAIN LocalCaches'
      BY <2>1, <2>2 DEF MembersInv
  <2> QED BY <2>2, <2>3, <2>4 DEF MembersInv
<1>3. ASSUME UNCHANGED <<layout, ringVars>> PROVE MembersInv'
    BY <1>3 DEF ringVars, MembersInv
<1> QED BY <1>1, <1>2, <1>3, OnlyChangesMoveTheRing

(***************************************************************************)
(* The ring routes to members only and agrees with the node list, as long  *)
(* as AddNode is not called for a member (the case the code does not       *)
(* check).  Collisions of hashes do not endanger it.                       *)
(***************************************************************************)
THEOREM RoutingSafe == ~ReAdd => (Spec => []RingServesMembers)
<1>1. RingInv /\ MembersInv => RingServesMembers
    BY DEF RingInv, MembersInv, RingServesMembers
<1>2. ~ReAdd /\ (RingInv /\ MembersInv) /\ [Next]_vars => (RingInv /\ MembersInv)'
    BY RingStep, MembersStep
<1> SUFFICES ASSUME ~ReAdd PROVE Spec => []RingServesMembers
    OBVIOUS
<1>3. (RingInv /\ MembersInv) /\ [Next]_vars => (RingInv /\ MembersInv)'
    BY <1>2
<1> QED BY <1>1, <1>3, RingInit, PTL DEF Spec

-----------------------------------------------------------------------------
(***************************************************************************)
(* One step of consistent hashing: on whichever ring, a key moves only to  *)
(* the added node or away from the removed one.                            *)
(***************************************************************************)
MovesOnlyWithTheChange ==
    \A k \in Key :
        LET before == getNodeForKeyUnsafe(k)
            after  == getNodeForKeyUnsafe(k)'
        IN  SortedHashes # {} /\ SortedHashes' # {} /\ before # after =>
                \/ change'.op = "AddNode" /\ after = change'.node
                \/ change'.op = "RemoveNode" /\ before = change'.node

(***************************************************************************)
(* AddNode moves keys only to the node it adds.                            *)
(***************************************************************************)
LEMMA AddMovesToNew ==
    ASSUME RingInv, NEW n \in Node, AddNode(n), NEW k \in Key,
           SortedHashes # {}, getNodeForKeyUnsafe(k) # getNodeForKeyUnsafe(k)'
    PROVE  getNodeForKeyUnsafe(k)' = n
<1> DEFINE h == layout.key[k]
           S == DOMAIN HashRing
           V == layout.vnodes[n]
<1>1. h \in Nat /\ V \subseteq Nat /\ S \subseteq Nat /\ S # {} /\ SortedHashes = S
    BY LayoutLemma DEF RingInv
<1>2. /\ layout' = layout /\ SortedHashes' = S \cup V /\ DOMAIN HashRing' = S \cup V
      /\ \A p \in V : HashRing'[p] = n
      /\ \A p \in S \ V : HashRing'[p] = HashRing[p]
    BY AddedRing
<1> HIDE DEF h, S, V
<1>3. getNodeForKeyUnsafe(k) = NodeAt(HashRing, S, h)
    BY <1>1 DEF getNodeForKeyUnsafe, h
<1>4. getNodeForKeyUnsafe(k)' = NodeAt(HashRing', S \cup V, h)
    BY <1>2 DEF getNodeForKeyUnsafe, h
<1>5. Successor(h, S \cup V) \in S \cup V
    BY <1>1, SuccessorLemma
<1>6. CASE Successor(h, S \cup V) \in V
    BY <1>2, <1>4, <1>5, <1>6 DEF NodeAt
<1>7. CASE Successor(h, S \cup V) \in S \ V
  <2>1. Successor(h, S) = Successor(h, S \cup V)
      BY <1>1, <1>7, SuccessorStable
  <2>2. NodeAt(HashRing, S, h) = NodeAt(HashRing', S \cup V, h)
      BY <1>2, <1>7, <2>1 DEF NodeAt, S
  <2> QED BY <1>3, <1>4, <2>2
<1> QED BY <1>5, <1>6, <1>7

(***************************************************************************)
(* RemoveNode moves only the keys of the node it removes.                  *)
(***************************************************************************)
LEMMA RemoveMovesFromOld ==
    ASSUME RingInv, NEW n \in Node, RemoveNode(n), NEW k \in Key,
           SortedHashes # {}, getNodeForKeyUnsafe(k) # getNodeForKeyUnsafe(k)'
    PROVE  getNodeForKeyUnsafe(k) = n
<1> DEFINE h == layout.key[k]
           S == DOMAIN HashRing
           T == DOMAIN HashRing'
           p == Successor(h, S)
<1>1. h \in Nat /\ S \subseteq Nat /\ S # {} /\ SortedHashes = S
    BY LayoutLemma DEF RingInv
<1>2. /\ layout' = layout /\ SortedHashes' = T /\ T = {q \in S : HashRing[q] # n}
      /\ \A q \in T : HashRing'[q] = HashRing[q]
    BY RemovedRing
<1>3. getNodeForKeyUnsafe(k) = NodeAt(HashRing, S, h)
    BY <1>1 DEF getNodeForKeyUnsafe
<1>4. getNodeForKeyUnsafe(k)' = NodeAt(HashRing', T, h)
    BY <1>2 DEF getNodeForKeyUnsafe
<1>5. p \in S
    BY <1>1, SuccessorLemma
<1> SUFFICES ASSUME p \in T PROVE FALSE
    BY <1>2, <1>3, <1>5 DEF NodeAt
<1>6. Successor(h, T) = p
    BY <1>1, <1>2, SuccessorStable
<1>7. NodeAt(HashRing, S, h) = NodeAt(HashRing', T, h)
    BY <1>2, <1>5, <1>6 DEF NodeAt
<1> QED BY <1>3, <1>4, <1>7

(***************************************************************************)
(* Consistent hashing keeps its promise for every ring, collisions and     *)
(* repeated additions included: a change of nodes moves a key only to the  *)
(* added node or away from the removed one (getNodeForKeyUnsafe, AddNode,  *)
(* RemoveNode).                                                            *)
(***************************************************************************)
THEOREM DisruptionMinimal == Spec => MinimalDisruption
<1>1. RingInv /\ [Next]_vars => MovesOnlyWithTheChange
  <2> SUFFICES ASSUME RingInv, [Next]_vars, NEW k \in Key,
                      SortedHashes # {}, SortedHashes' # {},
                      getNodeForKeyUnsafe(k) # getNodeForKeyUnsafe(k)'
               PROVE  \/ change'.op = "AddNode" /\ getNodeForKeyUnsafe(k)' = change'.node
                      \/ change'.op = "RemoveNode" /\ getNodeForKeyUnsafe(k) = change'.node
      BY DEF MovesOnlyWithTheChange
  <2>1. ASSUME NEW n \in Node, AddNode(n)
        PROVE  change'.op = "AddNode" /\ getNodeForKeyUnsafe(k)' = change'.node
      BY <2>1, AddedRing, AddMovesToNew
  <2>2. ASSUME NEW n \in Node, RemoveNode(n)
        PROVE  change'.op = "RemoveNode" /\ getNodeForKeyUnsafe(k) = change'.node
      BY <2>2, RemovedRing, RemoveMovesFromOld
  <2>3. ~UNCHANGED <<layout, ringVars>>
      BY DEF ringVars, getNodeForKeyUnsafe
  <2> QED BY <2>1, <2>2, <2>3, OnlyChangesMoveTheRing
<1>2. Init => RingInv
    BY RingInit
<1> QED BY <1>1, <1>2, RingStep, PTL DEF Spec, MinimalDisruption, MovesOnlyWithTheChange
=============================================================================
