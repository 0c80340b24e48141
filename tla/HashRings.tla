------------------------------ MODULE HashRings -----------------------------
(***************************************************************************)
(* tutorial/04-consistent-hash: the basic hash ring, one position per      *)
(* node, and the ring with virtual nodes, as many as the node's weight     *)
(* asks for.  Unlike the ring of DistributedCache.tla they name replicas,  *)
(* and the second one gives a virtual node whose position is taken another *)
(* position.  Every operation holds the ring's mutex and is one step.      *)
(*                                                                         *)
(* Which ring it is, and the hash of every name, are chosen in Init.  The  *)
(* positions are also the hashes of the keys.                              *)
(***************************************************************************)
EXTENDS Integers, Sequences, SequencesExt, FiniteSetsExt, GoMap

CONSTANTS
    Node,
    Size,           \* the number of hashes
    virtualCount,
    Weight,         \* node -> its Weight
    Hashes,         \* node -> for each of its names, the hashes that are tried in turn
    RingKind        \* the rings to run: "basic", "virtual"

ASSUME SizeAssumption == Size \in Nat \ {0} /\ virtualCount \in Nat \ {0}
ASSUME NodeAssumption == IsFiniteSet(Node) /\ Weight \in [Node -> Nat]

Position == 0 .. Size - 1

VARIABLES
    kind,       \* which ring this is
    hashes,     \* the hashes of its nodes
    nodes,      \* position -> node: HashRing.nodes, VirtualHashRing.virtualNodes
    sorted,     \* HashRing.sortedKeys, VirtualHashRing.sortedHashes
    physical    \* VirtualHashRing.physicalNodes

vars == <<kind, hashes, nodes, sorted, physical>>

Init ==
    /\ kind \in RingKind
    /\ hashes \in Hashes[kind]
    /\ nodes = EmptyMap
    /\ sorted = <<>>
    /\ physical = {}

(* sort.Slice: the position that i - 1 others are smaller than comes i-th. *)
Sort(positions) ==
    [i \in 1 .. Cardinality(positions) |->
        CHOOSE p \in positions : Cardinality({q \in positions : q < p}) = i - 1]

-----------------------------------------------------------------------------
(***************************************************************************)
(* The basic ring: a position that is taken counts as the node itself.     *)
(***************************************************************************)
nodeHash(n) == hashes[n][1][1]

AddNode(n) ==
    /\ kind = "basic" /\ nodeHash(n) \notin DOMAIN nodes
    /\ nodes' = With(nodes, nodeHash(n), n)
    /\ sorted' = Sort(Range(sorted) \cup {nodeHash(n)})
    /\ UNCHANGED <<kind, hashes, physical>>

RemoveNode(n) ==
    /\ kind = "basic" /\ nodeHash(n) \in DOMAIN nodes
    /\ nodes' = Without(nodes, nodeHash(n))
    /\ sorted' = RemoveAt(sorted, CHOOSE i \in 1 .. Len(sorted) : sorted[i] = nodeHash(n))
    /\ UNCHANGED <<kind, hashes, physical>>

-----------------------------------------------------------------------------
(***************************************************************************)
(* The ring with virtual nodes.  A name whose hash is taken is changed     *)
(* until the hash is free; if it never is, AddNode does not end.           *)
(***************************************************************************)
virtualNodeCount(n) == IF Weight[n] > 0 THEN (virtualCount * Weight[n]) \div 100
                                        ELSE virtualCount

(***************************************************************************)
(* Every name that is hashed has a hash; the MD5 hashes that place the     *)
(* nodes of the basic ring differ.                                         *)
(***************************************************************************)
ASSUME HashesAssumption ==
    /\ RingKind \subseteq {"basic", "virtual"}
    /\ \A k \in RingKind : \A h \in Hashes[k], n \in Node :
          \A i \in 1 .. (IF k = "basic" THEN 1 ELSE virtualNodeCount(n)) :
              h[n][i] \in Seq(Position) \ {<<>>}

ASSUME DistinctAssumption ==
    "basic" \in RingKind =>
        \A h \in Hashes["basic"], m, n \in Node : h[m][1][1] = h[n][1][1] => m = n

(* Mutant: a position that is taken is overwritten. *)
virtualHashTaken(ring, tries) == tries[1]

virtualHash(ring, tries) ==
    tries[Min({i \in 1 .. Len(tries) : tries[i] \notin DOMAIN ring})]

(* The ring once i virtual nodes of n are placed *)
Placed(n) ==
    LET placed[i \in 0 .. virtualNodeCount(n)] ==
            IF i = 0 THEN nodes
            ELSE With(placed[i - 1], virtualHash(placed[i - 1], hashes[n][i]), n)
    IN  placed

FindsFree(n) ==
    \A i \in 1 .. virtualNodeCount(n) : ~(Range(hashes[n][i]) \subseteq DOMAIN Placed(n)[i - 1])

AddVirtualNode(n) ==
    /\ kind = "virtual" /\ n \notin physical /\ FindsFree(n)
    /\ physical' = physical \cup {n}
    /\ nodes' = Placed(n)[virtualNodeCount(n)]
    /\ sorted' = Sort(Range(sorted) \cup (DOMAIN nodes' \ DOMAIN nodes))
    /\ UNCHANGED <<kind, hashes>>

(* Mutant: the hashes of the node's names are removed, whoever has them. *)
RemoveByName(n) ==
    /\ kind = "virtual" /\ n \in physical
    /\ LET gone == {hashes[n][i][1] : i \in 1 .. virtualNodeCount(n)}
       IN  nodes' = [h \in DOMAIN nodes \ gone |-> nodes[h]]
    /\ sorted' = Sort(DOMAIN nodes')
    /\ physical' = physical \ {n}
    /\ UNCHANGED <<kind, hashes>>

RemoveVirtualNode(n) ==
    /\ kind = "virtual" /\ n \in physical
    /\ nodes' = [h \in {p \in DOMAIN nodes : nodes[p] # n} |-> nodes[h]]
    /\ sorted' = Sort(DOMAIN nodes')
    /\ physical' = physical \ {n}
    /\ UNCHANGED <<kind, hashes>>

-----------------------------------------------------------------------------
(***************************************************************************)
(* Both rings search alike: sort.Search gives the first index, from 0, of  *)
(* a hash that is not smaller, or the length.                              *)
(***************************************************************************)
Search(list, keyHash) ==
    Min({i - 1 : i \in {j \in 1 .. Len(list) : list[j] >= keyHash}} \cup {Len(list)})

(* For a ring that is not empty *)
GetNode(ring, list, keyHash) ==
    LET idx == IF Search(list, keyHash) = Len(list) THEN 0 ELSE Search(list, keyHash)
    IN  ring[list[1 + idx]]

(***************************************************************************)
(* The loop of GetNodes over so many positions: each node that was not     *)
(* visited before, until there are count.                                  *)
(***************************************************************************)
Visit(ring, list, keyHash, length, count) ==
    LET startIdx == Search(list, keyHash)
        node(i) == ring[list[1 + ((startIdx + i - 1) % Len(list))]]
        found == Sort({i \in 1 .. length : \A j \in 1 .. i - 1 : node(j) # node(i)})
    IN  [m \in 1 .. Min({count, Len(found)}) |-> node(found[m])]

(* Mutant: the walk ends at the last position. *)
GetNodesNoWrap(ring, list, keyHash, count) ==
    Visit(ring, list, keyHash, Len(list) - Search(list, keyHash), count)

GetNodes(ring, list, keyHash, count) == Visit(ring, list, keyHash, Len(list), count)

-----------------------------------------------------------------------------
Next ==
    \E n \in Node : \/ AddNode(n) \/ RemoveNode(n)
                    \/ AddVirtualNode(n) \/ RemoveVirtualNode(n)

Spec == Init /\ [][Next]_vars

-----------------------------------------------------------------------------
(* How far the ring must be followed from a key to meet a node *)
Distance(ring, keyHash, n) ==
    Min({(h - keyHash) % Size : h \in {p \in DOMAIN ring : ring[p] = n}})

NearestFirst(ring, keyHash, count, r) ==
    LET distance(n) == Distance(ring, keyHash, n)
    IN  /\ Len(r) = Min({count, Cardinality(Range(ring))}) /\ Range(r) \subseteq Range(ring)
        /\ \A i, j \in 1 .. Len(r) : i < j => distance(r[i]) < distance(r[j])
        /\ \A n \in Range(ring) \ Range(r), i \in 1 .. Len(r) : distance(r[i]) < distance(n)

(***************************************************************************)
(* GetNodes names the nearest nodes, each once, nearest first, and as many *)
(* as are wanted and there are, wherever the walk wraps around and however *)
(* the virtual nodes of a node lie; GetNode names the first of them.       *)
(***************************************************************************)
ReplicasAreNearest ==
    \A k \in Position, count \in 1 .. Cardinality(Node) :
        LET r == GetNodes(nodes, sorted, k, count)
        IN  /\ NearestFirst(nodes, k, count, r)
            /\ r # <<>> => r[1] = GetNode(nodes, sorted, k)

(***************************************************************************)
(* Every member of the ring with virtual nodes has as many as its weight   *)
(* asks for, whatever collided when it or another was added or removed.    *)
(***************************************************************************)
WeightsHold ==
    kind = "virtual" =>
        \A n \in Node : Cardinality({h \in DOMAIN nodes : nodes[h] = n})
                            = IF n \in physical THEN virtualNodeCount(n) ELSE 0

(* The order in which r names the nodes other than n *)
OrderWithout(n, r) ==
    {pair \in (Node \ {n}) \X (Node \ {n}) :
        \E i, j \in 1 .. Len(r) : i =< j /\ pair = <<r[i], r[j]>>}

(***************************************************************************)
(* A change of nodes leaves the replicas of every key among the other      *)
(* nodes, and their order, as they were: the second replica becomes the    *)
(* first when the first is removed.                                        *)
(***************************************************************************)
ChangesKeepOrder ==
    [][\A n \in Node :
         AddNode(n) \/ RemoveNode(n) \/ AddVirtualNode(n) \/ RemoveVirtualNode(n) =>
            \A k \in Position :
                OrderWithout(n, GetNodes(nodes', sorted', k, Cardinality(Node)))
                    = OrderWithout(n, GetNodes(nodes, sorted, k, Cardinality(Node)))]_vars
=============================================================================
