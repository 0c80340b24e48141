----------------------------- MODULE MCLRUCache -----------------------------
(***************************************************************************)
(* Values for the constants of LRUCache.  Under a limit of 200 bytes three *)
(* entries of v1 fit in memory and two in the table, an entry of v2        *)
(* displaces two of v1, and an entry of v3 is rejected.                    *)
(***************************************************************************)
EXTENDS LRUCache

CONSTANTS k1, k2, k3, v1, v2, v3

MCKeyLen == [k \in Key |-> 1]
MCValueLen == [v \in Value |-> CASE v = v1 -> 1 [] v = v2 -> 80 [] v = v3 -> 200]
=============================================================================
