----------------------------- MODULE StdVector -----------------------------
(***************************************************************************)
(* The part of the C++ standard library the services filter their vectors  *)
(* with.  A vector is the sequence of its elements.  The definitions are   *)
(* not recursive, so that proofs can use them.                             *)
(***************************************************************************)
EXTENDS Integers, Sequences

\* The sequence of the members of K in increasing order, for a set K of at most
\* n numbers.  It is the only member of this set.
InOrder(K, n) ==
    {f \in UNION {[1..m -> K] : m \in 0..n} :
        /\ \A k \in K : \E j \in DOMAIN f : f[j] = k
        /\ \A j, k \in DOMAIN f : j < k => f[j] < f[k]}

\* v.erase(remove_if(v.begin(), v.end(), P), v.end()), where Gone are the
\* positions at which P holds: the others are kept, in their order.  Again the
\* only member of a set.
remove_if(v, Gone) ==
    {[j \in DOMAIN f |-> v[f[j]]] : f \in InOrder(DOMAIN v \ Gone, Len(v))}
=============================================================================
