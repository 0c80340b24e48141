---------------------------- MODULE BoundedCache ----------------------------
(***************************************************************************)
(* What a client of a bounded cache may rely on, and no more: the cache    *)
(* forgets entries as it likes and never holds more than Capacity of them, *)
(* but a hit answers the value last put under the key, and a miss is       *)
(* answered only for a key that is not (or no longer) cached.              *)
(***************************************************************************)
EXTENDS Naturals, FiniteSets

CONSTANTS Key, Value, Capacity, Miss, NoAnswer

VARIABLES
    content,   \* the entries, key -> value
    answer     \* what the last operation answered: NoAnswer or [key, val]

(***************************************************************************)
(* Map f is map g with some entries forgotten.                             *)
(***************************************************************************)
Forgets(f, g) ==
    /\ DOMAIN f \subseteq DOMAIN g
    /\ f = [k \in DOMAIN f |-> g[k]]

Init == /\ content = [k \in {} |-> {}]
        /\ answer = NoAnswer

Put(k, v) ==
    /\ k \in DOMAIN content' /\ content'[k] = v
    /\ Forgets([x \in DOMAIN content' \ {k} |-> content'[x]], content)
    /\ content' = [x \in DOMAIN content' |-> content'[x]]
    /\ Cardinality(DOMAIN content') <= Capacity
    /\ answer' = NoAnswer

Hit(k) ==
    /\ k \in DOMAIN content
    /\ answer' = [key |-> k, val |-> content[k]]
    /\ UNCHANGED content

LookupMiss(k) ==
    /\ content' = [x \in DOMAIN content \ {k} |-> content[x]]
    /\ answer' = [key |-> k, val |-> Miss]

Forget ==
    /\ Forgets(content', content)
    /\ answer' = NoAnswer

Next == \/ \E k \in Key : \/ \E v \in Value : Put(k, v)
                          \/ Hit(k)
                          \/ LookupMiss(k)
        \/ Forget

Spec == Init /\ [][Next]_<<content, answer>>
=============================================================================
