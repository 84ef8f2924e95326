------------------------------- MODULE GoMaps -------------------------------
(* A Go map as a partial function.                                           *)
EXTENDS Functions

EmptyMap == [k \in {} |-> k]

\* m[k] = v
Put(m, k, v) == [j \in DOMAIN m \cup {k} |-> IF j = k THEN v ELSE m[j]]

\* delete(m, k)
Delete(m, k) == Restrict(m, DOMAIN m \ {k})
=============================================================================
