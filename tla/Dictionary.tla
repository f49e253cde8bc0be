----------------------------- MODULE Dictionary -----------------------------
(***************************************************************************)
(* What a tree of Tree.c promises: a set of items, each with a size, to    *)
(* which items can be added and from which they can be removed.  An item   *)
(* equal to one that is there replaces it.                                 *)
(***************************************************************************)
EXTENDS Naturals

CONSTANTS Key, Size
VARIABLE items     \* a function from the keys that are present to their sizes

Dictionaries == UNION {[K -> Size] : K \in SUBSET Key}

Init == items = [k \in {} |-> 0]

Put(k, s) == items' = [j \in DOMAIN items \cup {k} |-> IF j = k THEN s ELSE items[j]]

Delete(k) == /\ k \in DOMAIN items
             /\ items' = [j \in DOMAIN items \ {k} |-> items[j]]

Next == \E k \in Key : Delete(k) \/ \E s \in Size : Put(k, s)

Spec == Init /\ [][Next]_items
=============================================================================
