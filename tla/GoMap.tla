------------------------------- MODULE GoMap -------------------------------
(***************************************************************************)
(* Go maps as functions with a finite domain: m[k] = v and delete(m, k).   *)
(***************************************************************************)
EmptyMap == [k \in {} |-> {}]
With(m, k, v) == [x \in DOMAIN m \cup {k} |-> IF x = k THEN v ELSE m[x]]
Without(m, k) == [x \in DOMAIN m \ {k} |-> m[x]]
=============================================================================
