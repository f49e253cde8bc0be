----------------------------- MODULE LinkedList -----------------------------
(***************************************************************************)
(* The doubly linked list of LinkedList.c, pointer by pointer.  An element *)
(* that is not in the list is free, and a new one is any free one.  The    *)
(* field size is left out: nothing reads it.                               *)
(***************************************************************************)
EXTENDS Integers, Sequences, FiniteSets, SequencesExt

CONSTANTS ListElement,    \* the places of elements
          Content         \* what they hold, as the comparing callback tells it apart

ASSUME ListAssumption == ListElement \subseteq Nat \ {0} /\ IsFiniteSet(ListElement)

NULLElement == 0

VARIABLES first, last, current,     \* List
          content, next, prev,      \* ListElement
          listed                    \* List.count

listVars == <<first, last, current, content, next, prev, listed>>

ListZero ==
    /\ first = NULLElement /\ last = NULLElement /\ current = NULLElement
    /\ content = [e \in {} |-> 0] /\ next = content /\ prev = content
    /\ listed = 0

Allocated == DOMAIN content

\* The elements from e on, as ListNextElement or ListPrevElement finds them
From(e, follow) ==
    LET walk[n \in 0..Cardinality(Allocated), x \in Allocated \cup {NULLElement}] ==
            IF x = NULLElement \/ n = 0 THEN <<>>
            ELSE <<x>> \o walk[n - 1, IF x \in Allocated THEN follow[x] ELSE NULLElement]
    IN walk[Cardinality(Allocated), e]

ListNextElement(pos) == IF pos = NULLElement THEN first ELSE next[pos]
ListPrevElement(pos) == IF pos = NULLElement THEN last ELSE prev[pos]
Forward == From(ListNextElement(NULLElement), next)
Backward == From(ListPrevElement(NULLElement), prev)

-----------------------------------------------------------------------------
(* Adding.                                                                 *)

With(f, e, v) == [x \in DOMAIN f \cup {e} |-> IF x = e THEN v ELSE f[x]]
Without(f, e) == [x \in DOMAIN f \ {e} |-> f[x]]
Pointing(f, e, v) == IF e = NULLElement THEN f ELSE [f EXCEPT ![e] = v]

\* ListAppend, ListAppendNoMalloc
ListAppend(e, c) ==
    /\ content' = With(content, e, c)
    /\ next' = With(Pointing(next, last, e), e, NULLElement)
    /\ prev' = With(prev, e, last)
    /\ first' = IF first = NULLElement THEN e ELSE first
    /\ last' = e
    /\ listed' = listed + 1
    /\ UNCHANGED current

\* Fault: the element before index is not told
InsertUnlinked(e, c, index) ==
    /\ content' = With(content, e, c)
    /\ next' = With(next, e, index)
    /\ prev' = With(Pointing(prev, index, e), e, prev[index])
    /\ first' = IF prev[index] = NULLElement THEN e ELSE first
    /\ listed' = listed + 1
    /\ UNCHANGED <<last, current>>

\* ListInsert before index
ListInsert(e, c, index) ==
    /\ content' = With(content, e, c)
    /\ next' = With(Pointing(next, prev[index], e), e, index)
    /\ prev' = With(Pointing(prev, index, e), e, prev[index])
    /\ first' = IF prev[index] = NULLElement THEN e ELSE first
    /\ listed' = listed + 1
    /\ UNCHANGED <<last, current>>

-----------------------------------------------------------------------------
(* Finding and removing.                                                   *)

\* The element ListFindItem returns: the current one if it matches, or the first
Found(c) ==
    IF current # NULLElement /\ content[current] = c THEN current
    ELSE LET matches == SelectSeq(Forward, LAMBDA e : content[e] = c)
         IN IF matches = <<>> THEN NULLElement ELSE Head(matches)

\* ListFindItem, ListFind.  What it finds becomes the current element.
ListFindItem(c) ==
    /\ Found(c) # NULLElement
    /\ current' = Found(c)
    /\ UNCHANGED <<first, last, content, next, prev, listed>>

Free(e) == content' = Without(content, e)

\* Fault: the element before e is told that it is the last
BypassedByNone(e) == Without(Pointing(next, prev[e], NULLElement), e)

\* The element before e now leads to the one after it
Bypassed(e) == Without(Pointing(next, prev[e], next[e]), e)

\* Fault: the last element is not told
UnlinkLeavesLast(c) ==
    \E e \in {Found(c)} \ {NULLElement} :
        /\ first' = IF prev[e] = NULLElement THEN next[e] ELSE first
        /\ next' = Bypassed(e)
        /\ prev' = Without(Pointing(prev, next[e], prev[e]), e)
        /\ current' = IF current = e THEN next[e] ELSE current
        /\ Free(e)
        /\ listed' = listed - 1
        /\ UNCHANGED last

\* Fault: the current element stays where it was
UnlinkLeavesCurrent(c) ==
    \E e \in {Found(c)} \ {NULLElement} :
        /\ first' = IF prev[e] = NULLElement THEN next[e] ELSE first
        /\ last' = IF next[e] = NULLElement THEN prev[e] ELSE last
        /\ next' = Bypassed(e)
        /\ prev' = Without(Pointing(prev, next[e], prev[e]), e)
        /\ Free(e)
        /\ listed' = listed - 1
        /\ UNCHANGED current

\* ListUnlink, for ListDetach, ListRemove, ListDetachItem and ListRemoveItem:
\* the current element stays, or moves on if it is the one removed
ListUnlink(c) ==
    \E e \in {Found(c)} \ {NULLElement} :
        /\ first' = IF prev[e] = NULLElement THEN next[e] ELSE first
        /\ last' = IF next[e] = NULLElement THEN prev[e] ELSE last
        /\ next' = Bypassed(e)
        /\ prev' = Without(Pointing(prev, next[e], prev[e]), e)
        /\ current' = IF current = e THEN next[e] ELSE current
        /\ Free(e)
        /\ listed' = listed - 1

\* ListDetachHead, ListRemoveHead
ListDetachHead ==
    /\ listed > 0
    /\ current' = IF current = first THEN next[first] ELSE current
    /\ last' = IF last = first THEN NULLElement ELSE last
    /\ first' = next[first]
    /\ prev' = Without(Pointing(prev, next[first], NULLElement), first)
    /\ next' = Without(next, first)
    /\ Free(first)
    /\ listed' = listed - 1

\* ListPopTail
ListPopTail ==
    /\ listed > 0
    /\ current' = IF current = last THEN prev[last] ELSE current
    /\ first' = IF first = last THEN NULLElement ELSE first
    /\ last' = prev[last]
    /\ next' = Without(Pointing(next, prev[last], NULLElement), last)
    /\ prev' = Without(prev, last)
    /\ Free(last)
    /\ listed' = listed - 1

\* ListEmpty
ListEmpty ==
    /\ content' = [e \in {} |-> 0] /\ next' = content' /\ prev' = content'
    /\ listed' = 0
    /\ current' = NULLElement /\ first' = NULLElement /\ last' = NULLElement

ListNext ==
    \/ \E e \in ListElement \ Allocated, c \in Content :
           \/ ListAppend(e, c)
           \/ \E index \in Allocated : ListInsert(e, c, index)
    \/ \E c \in Content : ListFindItem(c) \/ ListUnlink(c)
    \/ ListDetachHead \/ ListPopTail \/ ListEmpty

ListSpec == ListZero /\ [][ListNext]_listVars

-----------------------------------------------------------------------------
\* The types: no link leads to an element that was freed
ListTypeOK ==
    /\ {first, last} \subseteq Allocated \cup {NULLElement}
    /\ Allocated \subseteq ListElement
    /\ content \in [Allocated -> Content]
    /\ next \in [Allocated -> Allocated \cup {NULLElement}]
    /\ prev \in [Allocated -> Allocated \cup {NULLElement}]
    /\ listed \in Nat

(***************************************************************************)
(* No element is lost and none is freed while a pointer leads to it: both  *)
(* ways through the list meet every allocated element, in opposite orders, *)
(* and the count is theirs.                                                *)
(***************************************************************************)
BothWays == /\ Backward = Reverse(Forward)
            /\ ToSet(Forward) = Allocated
            /\ listed = Len(Forward)

\* The element the list remembers between calls is never one that was freed.
CurrentIsListed == current \in Allocated \cup {NULLElement}

(***************************************************************************)
(* Whatever is done to its pointers, the list is the sequence it promises  *)
(* to be: each call inserts one content, takes one, or takes all.          *)
(***************************************************************************)
Contents == INSTANCE Sequence WITH contents <- [i \in DOMAIN Forward |-> content[Forward[i]]]
IsSequence == Contents!Spec

\* After any order of calls no element of the list is lost, freed, or left
\* behind as the current one.
ListIsSound ==
    /\ ListTypeOK /\ BothWays /\ CurrentIsListed
=============================================================================
