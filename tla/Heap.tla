-------------------------------- MODULE Heap --------------------------------
(***************************************************************************)
(* The tracked heap of Heap.c: mymalloc, myrealloc, myfree and             *)
(* Heap_findItem, called by several threads, under heap_mutex, which is    *)
(* not recursive.  The tree of storage elements is what Dictionary         *)
(* promises, which RBTree is shown to keep; addresses are its keys.        *)
(***************************************************************************)
EXTENDS Integers, FiniteSets, FiniteSetsExt, TLC

CONSTANTS Thread,
          Address,       \* blocks of the system's allocator
          Bytes,         \* sizes that are asked for
          Rounding,      \* multsize: sizes are rounded up to a multiple of it
          MaxFailures    \* bound: how often the system's allocator fails

ASSUME HeapAssumption ==
    /\ Bytes \subseteq Nat /\ Rounding \in Nat \ {0} /\ MaxFailures \in Nat
    /\ IsFiniteSet(Address)

VARIABLES heap,          \* the tree: the storage elements' sizes
          allocated,     \* the blocks the system's allocator has given out
          current_size, max_size,     \* heap_info
          heap_mutex,    \* the set of its holder
          calling,       \* what each thread calls, if it does
          held,          \* the blocks the program holds
          failures

heapVars == <<heap, allocated, current_size, max_size, heap_mutex, calling, held, failures>>

Tree == INSTANCE Dictionary WITH items <- heap, Key <- Address, Size <- Bytes

Heap_roundup(size) ==
    IF size % Rounding = 0 THEN size ELSE size + (Rounding - (size % Rounding))

HeapInit ==
    /\ heap = [a \in {} |-> 0] /\ allocated = {}
    /\ current_size = 0 /\ max_size = 0
    /\ heap_mutex = {} /\ calling = [t \in Thread |-> [op |-> "none"]]
    /\ held = {} /\ failures = 0

\* Thread t calls; a block it frees or grows is no longer the program's
HeapCall(t) ==
    /\ calling[t].op = "none"
    /\ \E c \in [op : {"malloc"}, size : Bytes]
               \cup [op : {"free", "find"}, ptr : held]
               \cup [op : {"realloc"}, ptr : held, size : Bytes] :
           /\ calling' = [calling EXCEPT ![t] = c @@ [locked |-> FALSE]]
           /\ held' = IF c.op \in {"free", "realloc"} THEN held \ {c.ptr} ELSE held
    /\ UNCHANGED <<heap, allocated, current_size, max_size, heap_mutex, failures>>

HeapLock(t) ==
    /\ calling[t].op # "none" /\ heap_mutex = {}
    /\ heap_mutex' = {t}
    /\ calling' = [calling EXCEPT ![t].locked = TRUE]
    /\ UNCHANGED <<heap, allocated, current_size, max_size, held, failures>>

\* The system's allocator finds no space: the call returns without unlocking
AllocationFails(t) ==
    /\ failures < MaxFailures /\ failures' = failures + 1
    /\ calling' = [calling EXCEPT ![t] = [op |-> "none"]]
    /\ UNCHANGED <<held, heap_mutex>>

Return(t, given) ==
    /\ heap_mutex' = {}
    /\ calling' = [calling EXCEPT ![t] = [op |-> "none"]]
    /\ held' = held \cup given
    /\ UNCHANGED failures

Greatest(s) == IF s > max_size THEN s ELSE max_size

\* Fault: the total counts the size that was asked for
MallocCountsAsked(t) ==
    /\ calling[t].op = "malloc"
    /\ \E a \in Address \ allocated :
           /\ allocated' = allocated \cup {a}
           /\ Tree!Put(a, Heap_roundup(calling[t].size))
           /\ current_size' = current_size + calling[t].size
           /\ max_size' = Greatest(current_size')
           /\ Return(t, {a})

mymalloc(t) ==
    /\ calling[t].op = "malloc"
    /\ \/ /\ AllocationFails(t)
          /\ UNCHANGED <<heap, allocated, current_size, max_size>>
       \/ \E a \in Address \ allocated, size \in {Heap_roundup(calling[t].size)} :
              /\ allocated' = allocated \cup {a}
              /\ Tree!Put(a, size)
              /\ current_size' = current_size + size
              /\ max_size' = Greatest(current_size')
              /\ Return(t, {a})

\* Fault: the item is taken out of the accounts, and its block is kept
FreeKeepsBlock(t) ==
    /\ calling[t].op = "free"
    /\ LET p == calling[t].ptr
       IN IF p \in DOMAIN heap
          THEN /\ Tree!Delete(p)
               /\ current_size' = current_size - heap[p]
               /\ UNCHANGED allocated
          ELSE UNCHANGED <<heap, current_size, allocated>>
    /\ Return(t, {})
    /\ UNCHANGED max_size

\* myfree, Internal_heap_unlink: an item that is not tracked is not freed
myfree(t) ==
    /\ calling[t].op = "free"
    /\ LET p == calling[t].ptr
       IN IF p \in DOMAIN heap
          THEN /\ Tree!Delete(p)
               /\ current_size' = current_size - heap[p]
               /\ allocated' = allocated \ {p}
          ELSE UNCHANGED <<heap, current_size, allocated>>
    /\ Return(t, {})
    /\ UNCHANGED max_size

\* Fault: the item stays where its old address was
ReallocInPlace(t) ==
    /\ calling[t].op = "realloc" /\ calling[t].ptr \in DOMAIN heap
    /\ LET p == calling[t].ptr
           size == Heap_roundup(calling[t].size)
       IN /\ current_size' = current_size + size - heap[p]
          /\ max_size' = Greatest(current_size')
          /\ \E a \in (Address \ allocated) \cup {p} :
                 /\ allocated' = (allocated \ {p}) \cup {a}
                 /\ Tree!Put(p, size)
                 /\ Return(t, {a})

\* myrealloc: the element leaves the tree and returns to it at the new address
myrealloc(t) ==
    /\ calling[t].op = "realloc" /\ calling[t].ptr \in DOMAIN heap
    /\ LET p == calling[t].ptr
           size == Heap_roundup(calling[t].size)
           rest == [a \in DOMAIN heap \ {p} |-> heap[a]]
       IN /\ current_size' = current_size + size - heap[p]
          /\ max_size' = Greatest(current_size')
          /\ \/ /\ AllocationFails(t)
                /\ heap' = rest
                /\ UNCHANGED allocated
             \/ \E a \in (Address \ allocated) \cup {p} :
                    /\ allocated' = (allocated \ {p}) \cup {a}
                    /\ heap' = [b \in DOMAIN rest \cup {a} |-> IF b = a THEN size ELSE rest[b]]
                    /\ Return(t, {a})

\* Fault: the mutex is kept
FindKeepsMutex(t) ==
    /\ calling[t].op = "find"
    /\ calling' = [calling EXCEPT ![t] = [op |-> "none"]]
    /\ UNCHANGED <<heap, allocated, current_size, max_size, heap_mutex, held, failures>>

\* Heap_findItem
Heap_findItem(t) ==
    /\ calling[t].op = "find"
    /\ Return(t, {})
    /\ UNCHANGED <<heap, allocated, current_size, max_size>>

HeapRuns(t) == /\ calling[t].op # "none" /\ calling[t].locked
               /\ mymalloc(t) \/ myfree(t) \/ myrealloc(t) \/ Heap_findItem(t)

HeapNext == \E t \in Thread : HeapCall(t) \/ HeapLock(t) \/ HeapRuns(t)

HeapSpec == HeapInit /\ [][HeapNext]_heapVars

-----------------------------------------------------------------------------
\* The types: at most one thread holds the mutex, and the total is never negative
HeapTypeOK ==
    /\ DOMAIN heap \subseteq Address /\ \A a \in DOMAIN heap : heap[a] \in Nat
    /\ allocated \subseteq Address /\ held \subseteq Address
    /\ current_size \in Nat /\ max_size \in Nat
    /\ heap_mutex \subseteq Thread /\ Cardinality(heap_mutex) <= 1
    /\ failures \in 0..MaxFailures

(***************************************************************************)
(* What is tracked is what is allocated, under the address it has now, so  *)
(* that what Heap_terminate reports are the leaks of the program and no    *)
(* others; the total is that of the items.                                 *)
(***************************************************************************)
TracksAll ==
    heap_mutex = {} =>
        /\ DOMAIN heap = allocated
        /\ held \subseteq allocated
        /\ current_size = MapThenSumSet(LAMBDA a : heap[a], DOMAIN heap)
        /\ max_size >= current_size

(***************************************************************************)
(* A thread that returns leaves the mutex free, so that the calls of the   *)
(* others can return - unless the system had no space.                     *)
(***************************************************************************)
HolderIsCalling == failures = 0 => \A t \in heap_mutex : calling[t].op # "none"

(***************************************************************************)
(* A call that finds no space returns NULL, and the program goes on: what  *)
(* the comments of mymalloc and myrealloc say.                             *)
(***************************************************************************)
MutexIsFreed == \A t \in heap_mutex : calling[t].op # "none"

\* Whatever several threads allocate and free, what is tracked is what is
\* allocated, and nobody leaves with the mutex.
HeapIsSound ==
    /\ HeapTypeOK /\ TracksAll /\ HolderIsCalling
=============================================================================
