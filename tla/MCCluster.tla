------------------------------ MODULE MCCluster -----------------------------
(***************************************************************************)
(* Nodes a and b run; c, which has all three in its configuration, comes   *)
(* and goes.                                                               *)
(***************************************************************************)
EXTENDS Cluster

JoinOfC == [n \in Node |-> IF n = "c" THEN Node ELSE Node \ {"c"}]

ASSUME MovesAssumption == OnlyMoves("c")

(***************************************************************************)
(* Only c comes and goes: what matters is whether the key is c's when c is *)
(* there, and a and b can be exchanged.                                    *)
(***************************************************************************)
OwnedByCOrA == {<<"c", "a", "b">>, <<"a", "c", "b">>}
=============================================================================
