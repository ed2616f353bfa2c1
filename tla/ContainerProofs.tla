-------------------------- MODULE ContainerProofs --------------------------
(***************************************************************************)
(* What the operations on the containers return, for every chain of        *)
(* lib-adav-old and every vector: the lemmas that the proofs about the     *)
(* queues of the services rest on.                                         *)
(***************************************************************************)
EXTENDS GenericChain, StdVector, Functions, WellFoundedInduction, TLAPS

\* The provers that every leaf is given to.
USE ZenonT(1), SMTT(20), Zenon

\* Each element of a sequence over S is in S.
LEMMA ElementOfSeq ==
    ASSUME NEW S, NEW q \in Seq(S), NEW i \in 1..Len(q)
    PROVE  q[i] \in S
OBVIOUS

\* A sequence over a set is one over every larger set.
LEMMA SeqOfLarger ==
    ASSUME NEW S, NEW T, S \subseteq T
    PROVE  Seq(S) \subseteq Seq(T)
OBVIOUS

\* Two sequences with the same length and the same elements are the same.
LEMMA SeqEqual ==
    ASSUME NEW S, NEW q \in Seq(S), NEW r \in Seq(S), Len(q) = Len(r),
           \A i \in 1..Len(q) : q[i] = r[i]
    PROVE  q = r
OBVIOUS

\* chain_put adds its element behind all the others.
LEMMA Put ==
    ASSUME NEW S, NEW chain \in Seq(S), NEW e \in S
    PROVE  /\ chain_put(chain, e) \in Seq(S)
           /\ chain_put(chain, e) # <<>>
           /\ Len(chain_put(chain, e)) = Len(chain) + 1
           /\ \A i \in 1..Len(chain) : chain_put(chain, e)[i] = chain[i]
           /\ chain_put(chain, e)[Len(chain) + 1] = e
BY DEF chain_put

\* chain_get takes the oldest element and moves the others up by one.
LEMMA Get ==
    ASSUME NEW S, NEW chain \in Seq(S), chain # <<>>
    PROVE  /\ Len(chain) \in Nat \ {0}
           /\ chain_get(chain) = chain[1]
           /\ chain_get(chain) \in S
           /\ chain_rest(chain) \in Seq(S)
           /\ Len(chain_rest(chain)) = Len(chain) - 1
           /\ \A i \in 1..(Len(chain) - 1) : chain_rest(chain)[i] = chain[i + 1]
BY DEF chain_get, chain_rest

\* A non-empty set of naturals has a least element, the fact behind a search
\* that stops at the first match.
LEMMA LeastNatural ==
    ASSUME NEW T, T \subseteq Nat, T # {}
    PROVE  \E x \in T : \A y \in T : x <= y
<1> DEFINE R == OpToRel(<, Nat)
<1>1. \E x \in T : \A y \in T : ~ (<<y, x>> \in R)
  BY NatLessThanWellFounded, WFMin
<1>2. PICK x \in T : \A y \in T : ~ (<<y, x>> \in R)
  BY <1>1
<1>3. ASSUME NEW y \in T PROVE x <= y
  <2>1. x \in Nat /\ y \in Nat
    OBVIOUS
  <2>2. ~ (y < x)
    BY <1>2, <2>1 DEF OpToRel
  <2> QED  BY <2>1, <2>2
<1> QED  BY <1>3

\* chain_get_by_ident returns 0 exactly when no element is identified, and
\* otherwise the position of the first one that is.
LEMMA GetByIdent ==
    ASSUME NEW S, NEW chain \in Seq(S), NEW ident
    PROVE  LET i == chain_get_by_ident(chain, ident)
           IN  \/ /\ i = 0
                  /\ \A j \in 1..Len(chain) : chain[j].ident # ident
               \/ /\ i \in 1..Len(chain)
                  /\ chain[i].ident = ident
                  /\ \A j \in 1..Len(chain) : chain[j].ident = ident => i <= j
<1> DEFINE M == Matches(chain, ident)
           i == chain_get_by_ident(chain, ident)
<1>1. CASE M = {}
  BY <1>1 DEF Matches, chain_get_by_ident
<1>2. CASE M # {}
  <2>1. M \subseteq Nat
    BY DEF Matches
  <2>2. \E x \in M : \A y \in M : x <= y
    BY <1>2, <2>1, LeastNatural
  <2>3. i = CHOOSE x \in M : \A y \in M : x <= y
    BY <1>2 DEF chain_get_by_ident
  <2>4. i \in M /\ \A y \in M : i <= y
    BY <2>2, <2>3
  <2> QED  BY <2>4 DEF Matches
<1> QED  BY <1>1, <1>2

\* Unlinking a position keeps every other element, in order.
LEMMA Unlink ==
    ASSUME NEW S, NEW chain \in Seq(S), NEW i \in 1..Len(chain)
    PROVE  /\ unlink(chain, i) \in Seq(S)
           /\ Len(unlink(chain, i)) = Len(chain) - 1
           /\ \A j \in 1..(Len(chain) - 1) :
                unlink(chain, i)[j] = IF j < i THEN chain[j] ELSE chain[j + 1]
BY DEF unlink

\* chain_remove_by_ident position by position: nothing changes when no element
\* is identified, and otherwise the elements behind the first match move up.
LEMMA RemoveByIdentShape ==
    ASSUME NEW S, NEW chain \in Seq(S), NEW ident
    PROVE  LET c == chain_remove_by_ident(chain, ident)
           IN  \/ /\ c = chain
                  /\ \A j \in 1..Len(chain) : chain[j].ident # ident
               \/ \E i \in 1..Len(chain) :
                    /\ chain[i].ident = ident
                    /\ \A j \in 1..Len(chain) : chain[j].ident = ident => i <= j
                    /\ c \in Seq(S)
                    /\ Len(c) = Len(chain) - 1
                    /\ \A j \in 1..(Len(chain) - 1) :
                          c[j] = IF j < i THEN chain[j] ELSE chain[j + 1]
<1> DEFINE i == chain_get_by_ident(chain, ident)
           c == chain_remove_by_ident(chain, ident)
<1>1. CASE i = 0
  BY <1>1, GetByIdent DEF chain_remove_by_ident
<1>2. CASE i # 0
  <2>1. /\ i \in 1..Len(chain)
        /\ chain[i].ident = ident
        /\ \A j \in 1..Len(chain) : chain[j].ident = ident => i <= j
    BY <1>2, GetByIdent
  <2>2. c = unlink(chain, i)
    BY <1>2 DEF chain_remove_by_ident
  <2>3. /\ c \in Seq(S)
        /\ Len(c) = Len(chain) - 1
        /\ \A j \in 1..(Len(chain) - 1) :
              c[j] = IF j < i THEN chain[j] ELSE chain[j + 1]
    BY <2>1, <2>2, Unlink
  <2> HIDE DEF i, c
  <2> QED  BY <2>1, <2>3 DEF c
<1> QED  BY <1>1, <1>2

\* What chain_remove_by_ident leaves of a chain was there before, in the same
\* order, and every element of another ident is left.
LEMMA RemoveByIdent ==
    ASSUME NEW S, NEW chain \in Seq(S), NEW ident
    PROVE  LET c == chain_remove_by_ident(chain, ident)
           IN  /\ c \in Seq(S)
               /\ Len(c) <= Len(chain)
               /\ \E f \in [1..Len(c) -> 1..Len(chain)] :
                    /\ \A j \in 1..Len(c) : c[j] = chain[f[j]]
                    /\ \A j, k \in 1..Len(c) : j < k => f[j] < f[k]
               /\ \A k \in 1..Len(chain) : chain[k].ident # ident =>
                    \E j \in 1..Len(c) : c[j] = chain[k]
<1> DEFINE c == chain_remove_by_ident(chain, ident)
<1>0. Len(chain) \in Nat
  OBVIOUS
<1>1. CASE c = chain
  <2> DEFINE f == [j \in 1..Len(chain) |-> j]
  <2>1. /\ f \in [1..Len(chain) -> 1..Len(chain)]
        /\ \A j \in 1..Len(chain) : chain[j] = chain[f[j]]
        /\ \A j, k \in 1..Len(chain) : j < k => f[j] < f[k]
    BY <1>0
  <2>2. Len(chain) <= Len(chain)
    BY <1>0
  <2> HIDE DEF f, c
  <2>3. \E g \in [1..Len(chain) -> 1..Len(chain)] :
           /\ \A j \in 1..Len(chain) : chain[j] = chain[g[j]]
           /\ \A j, k \in 1..Len(chain) : j < k => g[j] < g[k]
    BY <2>1
  <2>4. \A k \in 1..Len(chain) : \E j \in 1..Len(chain) : chain[j] = chain[k]
    OBVIOUS
  <2> QED  BY <1>1, <2>2, <2>3, <2>4 DEF c
<1>2. CASE c # chain
  <2>1. PICK i \in 1..Len(chain) :
           /\ chain[i].ident = ident
           /\ c \in Seq(S)
           /\ Len(c) = Len(chain) - 1
           /\ \A j \in 1..(Len(chain) - 1) :
                 c[j] = IF j < i THEN chain[j] ELSE chain[j + 1]
    BY <1>2, RemoveByIdentShape
  <2> HIDE DEF c
  <2>2. \E f \in [1..Len(c) -> 1..Len(chain)] :
           /\ \A j \in 1..Len(c) : c[j] = chain[f[j]]
           /\ \A j, k \in 1..Len(c) : j < k => f[j] < f[k]
    <3> DEFINE f == [j \in 1..Len(c) |-> IF j < i THEN j ELSE j + 1]
    <3>1. f \in [1..Len(c) -> 1..Len(chain)]
      BY <1>0, <2>1
    <3>2. \A j \in 1..Len(c) : c[j] = chain[f[j]]
      BY <1>0, <2>1
    <3>3. \A j, k \in 1..Len(c) : j < k => f[j] < f[k]
      BY <1>0, <2>1
    <3> HIDE DEF f
    <3> QED  BY <3>1, <3>2, <3>3
  <2>3. ASSUME NEW k \in 1..Len(chain), chain[k].ident # ident
        PROVE  \E j \in 1..Len(c) : c[j] = chain[k]
    <3>1. CASE k < i
      BY <1>0, <2>1, <3>1
    <3>2. CASE k > i
      <4>1. k - 1 \in 1..Len(c) /\ ~(k - 1 < i) /\ (k - 1) + 1 = k
        BY <1>0, <2>1, <3>2
      <4> QED  BY <2>1, <4>1
    <3>3. k < i \/ k > i
      BY <1>0, <2>1, <2>3
    <3> QED  BY <3>1, <3>2, <3>3
  <2>4. c \in Seq(S) /\ Len(c) <= Len(chain)
    BY <1>0, <2>1
  <2> QED  BY <2>2, <2>3, <2>4, Zenon DEF c
<1> QED  BY <1>1, <1>2

\* The elements of a chain, and those of a chain that was put into, taken from
\* or removed from.
LEMMA Elements ==
    ASSUME NEW S, NEW chain \in Seq(S)
    PROVE  /\ Range(chain) \subseteq S
           /\ \A i \in 1..Len(chain) : chain[i] \in Range(chain)
           /\ \A x \in Range(chain) : \E i \in 1..Len(chain) : x = chain[i]
BY DEF Range

\* chain_put adds its element.
LEMMA PutElements ==
    ASSUME NEW S, NEW chain \in Seq(S), NEW e \in S
    PROVE  Range(chain_put(chain, e)) = Range(chain) \cup {e}
<1> DEFINE c == chain_put(chain, e)
<1>1. /\ c \in Seq(S) /\ Len(c) = Len(chain) + 1
      /\ \A i \in 1..Len(chain) : c[i] = chain[i]
      /\ c[Len(chain) + 1] = e
  BY Put
<1>2. Len(chain) \in Nat /\ DOMAIN chain = 1..Len(chain) /\ DOMAIN c = 1..(Len(chain) + 1)
  BY <1>1
<1> HIDE DEF c
<1>3. \A i \in 1..(Len(chain) + 1) : i \in 1..Len(chain) \/ i = Len(chain) + 1
  BY <1>2
<1>4. 1..Len(chain) \subseteq 1..(Len(chain) + 1) /\ Len(chain) + 1 \in 1..(Len(chain) + 1)
  BY <1>2
<1>5. Range(c) \subseteq Range(chain) \cup {e}
  BY <1>1, <1>2, <1>3 DEF Range
<1>6. Range(chain) \cup {e} \subseteq Range(c)
  BY <1>1, <1>2, <1>4 DEF Range
<1> QED  BY <1>5, <1>6 DEF c

\* chain_get returns an element, and adds none.
LEMMA GetElements ==
    ASSUME NEW S, NEW chain \in Seq(S), chain # <<>>
    PROVE  /\ chain_get(chain) \in Range(chain)
           /\ Range(chain_rest(chain)) \subseteq Range(chain)
<1> DEFINE c == chain_rest(chain)
<1>1. /\ Len(chain) \in Nat \ {0}
      /\ chain_get(chain) = chain[1]
      /\ c \in Seq(S) /\ Len(c) = Len(chain) - 1
      /\ \A i \in 1..(Len(chain) - 1) : c[i] = chain[i + 1]
  BY Get
<1>2. DOMAIN chain = 1..Len(chain) /\ DOMAIN c = 1..(Len(chain) - 1)
  BY <1>1
<1> HIDE DEF c
<1>3. 1 \in 1..Len(chain) /\ \A i \in 1..(Len(chain) - 1) : i + 1 \in 1..Len(chain)
  BY <1>1
<1>4. chain[1] \in Range(chain)
  BY <1>2, <1>3 DEF Range
<1>5. Range(c) \subseteq Range(chain)
  BY <1>1, <1>2, <1>3 DEF Range
<1> QED  BY <1>1, <1>4, <1>5 DEF c

\* chain_remove_by_ident adds none.
LEMMA RemoveElements ==
    ASSUME NEW S, NEW chain \in Seq(S), NEW ident
    PROVE  Range(chain_remove_by_ident(chain, ident)) \subseteq Range(chain)
<1> DEFINE c == chain_remove_by_ident(chain, ident)
<1>1. c \in Seq(S)
  BY RemoveByIdent
<1>2. PICK f \in [1..Len(c) -> 1..Len(chain)] : \A j \in 1..Len(c) : c[j] = chain[f[j]]
  BY RemoveByIdent
<1>3. DOMAIN chain = 1..Len(chain) /\ DOMAIN c = 1..Len(c)
  BY <1>1
<1> HIDE DEF c
<1>4. Range(c) \subseteq Range(chain)
  BY <1>2, <1>3 DEF Range
<1> QED  BY <1>4 DEF c
-----------------------------------------------------------------------------
(* Vectors                                                                 *)

\* The j-th member of an increasing sequence of positions is j or more.
LEMMA IncreasingAbove ==
    ASSUME NEW m \in Nat, NEW f \in [1..m -> Nat \ {0}],
           \A j, k \in 1..m : j < k => f[j] < f[k]
    PROVE  \A j \in 1..m : j <= f[j]
<1> DEFINE T == {j \in 1..m : f[j] < j}
<1> SUFFICES ASSUME T # {} PROVE FALSE
  OBVIOUS
<1>1. PICK x \in T : \A y \in T : x <= y
  <2>1. T \subseteq Nat
    OBVIOUS
  <2> HIDE DEF T
  <2> QED  BY <2>1, LeastNatural
<1>2. x \in 1..m /\ f[x] < x /\ f[x] \in Nat \ {0}
  OBVIOUS
<1>3. x - 1 \in 1..m /\ x - 1 < x
  BY <1>2
<1>4. x - 1 \notin T
  BY <1>1, <1>2
<1>5. f[x - 1] \in Nat /\ ~(f[x - 1] < x - 1) /\ f[x - 1] < f[x]
  BY <1>2, <1>3, <1>4
<1> QED  BY <1>2, <1>5

\* remove_if keeps exactly the positions outside Gone, in their order: f says
\* where each of the elements that are left came from.
LEMMA RemoveIf ==
    ASSUME NEW S, NEW v \in Seq(S), NEW Gone, NEW w \in remove_if(v, Gone)
    PROVE  /\ w \in Seq(S)
           /\ Len(w) <= Len(v)
           /\ \E f \in [1..Len(w) -> 1..Len(v)] :
                /\ \A j \in 1..Len(w) : w[j] = v[f[j]] /\ f[j] \notin Gone /\ j <= f[j]
                /\ \A j, k \in 1..Len(w) : j < k => f[j] < f[k]
                /\ \A k \in 1..Len(v) : k \notin Gone => \E j \in 1..Len(w) : f[j] = k
<1>1. Len(v) \in Nat /\ DOMAIN v = 1..Len(v)
  OBVIOUS
<1> DEFINE K == 1..Len(v) \ Gone
<1>2. PICK f \in InOrder(K, Len(v)) : w = [j \in DOMAIN f |-> v[f[j]]]
  BY <1>1 DEF remove_if
<1>3. PICK m \in 0..Len(v) : f \in [1..m -> K]
  BY <1>2 DEF InOrder
<1>4. m \in Nat /\ DOMAIN f = 1..m /\ w = [j \in 1..m |-> v[f[j]]]
  BY <1>1, <1>2, <1>3
<1>5. \A j \in 1..m : v[f[j]] \in S
  BY <1>3, <1>1
<1>6. w \in Seq(S) /\ Len(w) = m /\ \A j \in 1..m : w[j] = v[f[j]]
  BY <1>4, <1>5
<1>7. /\ \A k \in K : \E j \in 1..m : f[j] = k
      /\ \A j, k \in 1..m : j < k => f[j] < f[k]
  BY <1>2, <1>4 DEF InOrder
<1>8. f \in [1..m -> 1..Len(v)] /\ f \in [1..m -> Nat \ {0}]
  BY <1>1, <1>3
<1>9. \A j \in 1..m : j <= f[j]
  BY <1>4, <1>7, <1>8, IncreasingAbove
<1>10. \A j \in 1..m : f[j] \notin Gone
  BY <1>3
<1>11. m = Len(w) /\ Len(w) <= Len(v) /\ w \in Seq(S)
  BY <1>1, <1>3, <1>6
<1>12. /\ f \in [1..Len(w) -> 1..Len(v)]
       /\ \A j \in 1..Len(w) : w[j] = v[f[j]] /\ f[j] \notin Gone /\ j <= f[j]
       /\ \A j, k \in 1..Len(w) : j < k => f[j] < f[k]
       /\ \A k \in 1..Len(v) : k \notin Gone => \E j \in 1..Len(w) : f[j] = k
  BY <1>6, <1>7, <1>8, <1>9, <1>10, <1>11
<1> QED  BY <1>12, <1>11

\* push_back adds its element behind all the others.
LEMMA PushBack ==
    ASSUME NEW S, NEW q \in Seq(S), NEW e \in S
    PROVE  /\ Append(q, e) \in Seq(S)
           /\ Append(q, e) # <<>>
           /\ Len(Append(q, e)) = Len(q) + 1
           /\ \A j \in 1..Len(q) : Append(q, e)[j] = q[j]
           /\ Append(q, e)[Len(q) + 1] = e
OBVIOUS

\* front is the first element, and pop_front moves the others up by one.
LEMMA PopFront ==
    ASSUME NEW S, NEW q \in Seq(S), q # <<>>
    PROVE  /\ Len(q) \in Nat \ {0}
           /\ Head(q) = q[1]
           /\ Head(q) \in S
           /\ Tail(q) \in Seq(S)
           /\ Len(Tail(q)) = Len(q) - 1
           /\ \A j \in 1..(Len(q) - 1) : Tail(q)[j] = q[j + 1]
BY Get DEF chain_get, chain_rest
=============================================================================
