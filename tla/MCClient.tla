------------------------------ MODULE MCClient ------------------------------
(***************************************************************************)
(* The seed nodes, in the order of the configuration, and what each        *)
(* goroutine calls: one makes single requests, the other batches too.      *)
(***************************************************************************)
EXTENDS Client

TwoNodes == <<"a", "b">>
ThreeNodes == <<"a", "b", "c">>

Batches == [c \in Caller |-> IF c = "batch" THEN 2 ELSE 1]
=============================================================================
