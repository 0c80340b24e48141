----------------------------- MODULE MCHashRings ----------------------------
(***************************************************************************)
(* Four nodes: one has the default number of virtual nodes, two have half  *)
(* of it, and one is too light to have any.  On the basic ring their       *)
(* hashes differ; on the other every combination of first hashes is run,   *)
(* and a name whose hash is taken tries the positions two further on.      *)
(***************************************************************************)
EXTENDS HashRings

CONSTANTS full, half1, half2, light

Weights == (full :> 0) @@ (half1 :> 50) @@ (half2 :> 50) @@ (light :> 20)

Tries(first) == [i \in 1 .. Size |-> (first + 2 * (i - 1)) % Size]

Injections == {[n \in Node |-> <<<<f[n]>>>>] : f \in Injection(Node, Position)}

Names == {<<n, i>> \in Node \X (1 .. virtualCount) : i <= virtualNodeCount(n)}

Arbitrary == {[n \in Node |-> [i \in 1 .. virtualNodeCount(n) |-> Tries(f[<<n, i>>])]] :
                f \in [Names -> Position]}

AllHashes == [basic |-> Injections, virtual |-> Arbitrary]
=============================================================================
