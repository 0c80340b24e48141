---------------------------- MODULE MCMonitoring ----------------------------
(***************************************************************************)
(* One placement for Monitoring: the virtual nodes of n1 and n2 alternate, *)
(* and n2's come before the key, so that adding n2 takes the key from n1.  *)
(***************************************************************************)
EXTENDS Monitoring

CONSTANTS n1, n2

Alternating ==
    {[key |-> [k \in Key |-> 1],
      vnodes |-> [n \in Node |-> IF n = n1 THEN {0, 2} ELSE {1, 3}]]}

OnlyN1 == {<<n1>>}
=============================================================================
