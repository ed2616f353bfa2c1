---------------------------- MODULE GenericChain ----------------------------
(***************************************************************************)
(* ADGenericChain: the mutex-protected linked list every queue of          *)
(* lib-adav-old is built from.  A chain is the sequence of its elements,   *)
(* oldest first; each operation runs under the chain's semaphore (or, for  *)
(* chain_get_by_ident, under a lock its caller holds), so it is one step.  *)
(* An element is a record whose field "ident" is what the owner's          *)
(* identify_chain_element callback compares.                               *)
(***************************************************************************)
EXTENDS Integers, Sequences

\* chain_put: walk to the tail and link the new element there.
chain_put(chain, element) == Append(chain, element)

\* chain_get: the head is the oldest element; it is unlinked and returned.
chain_get(chain) == Head(chain)
chain_rest(chain) == Tail(chain)

\* The positions of the elements the owner's callback identifies.
Matches(chain, ident) == {i \in 1..Len(chain) : chain[i].ident = ident}

\* chain_get_by_ident: the first position that matches, 0 for NULL.
chain_get_by_ident(chain, ident) ==
    IF Matches(chain, ident) = {}
    THEN 0
    ELSE CHOOSE i \in Matches(chain, ident) :
            \A j \in Matches(chain, ident) : i <= j

\* The chain with the holder at position i unlinked.
unlink(chain, i) ==
    [j \in 1..(Len(chain) - 1) |-> IF j < i THEN chain[j] ELSE chain[j + 1]]

\* chain_remove_by_ident: unlink the first match, nothing when there is none.
chain_remove_by_ident(chain, ident) ==
    LET i == chain_get_by_ident(chain, ident)
    IN  IF i = 0 THEN chain ELSE unlink(chain, i)
=============================================================================
