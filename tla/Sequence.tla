------------------------------ MODULE Sequence ------------------------------
(***************************************************************************)
(* What a list of LinkedList.c promises: a sequence of contents, into      *)
(* which one can be inserted anywhere and from which any can be taken.     *)
(***************************************************************************)
EXTENDS Naturals, Sequences, SequencesExt

CONSTANT Content
VARIABLE contents

Init == contents = <<>>

Insert(i, c) == contents' = InsertAt(contents, i, c)
Take(i) == contents' = RemoveAt(contents, i)
Clear == contents' = <<>>

Next == \/ \E i \in 1..Len(contents) + 1, c \in Content : Insert(i, c)
        \/ \E i \in 1..Len(contents) : Take(i)
        \/ Clear

Spec == Init /\ [][Next]_contents
=============================================================================
