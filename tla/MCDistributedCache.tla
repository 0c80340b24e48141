------------------------- MODULE MCDistributedCache -------------------------
(***************************************************************************)
(* Layouts for DistributedCache: every placement of the keys and of        *)
(* VirtualNodes virtual nodes per node on a small ring, no position taken  *)
(* twice.  A rotation of the ring only changes where the search wraps      *)
(* around, so all of them are kept.                                        *)
(***************************************************************************)
EXTENDS DistributedCache, TLC

CONSTANTS Positions, VirtualNodes, KeyPositions

Placements == [Node -> kSubset(VirtualNodes, Positions)]
Disjoint(v) == \A m, n \in Node : m # n => v[m] \cap v[n] = {}

Clean == {v \in Placements : Disjoint(v)}

CleanLayouts == [key : [Key -> KeyPositions], vnodes : Clean]

OneMember == {<<n>> : n \in Node}
TwoMembers == {<<m, n>> : m \in Node, n \in Node} \ {<<n, n>> : n \in Node}

Symmetry == Permutations(Node) \cup Permutations(Key) \cup Permutations(Value)
                \cup Permutations(Client)
=============================================================================
