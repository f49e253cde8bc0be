----------------------------- MODULE MCLibrary ------------------------------
(***************************************************************************)
(* The data structures and the buffers of the library, each in a behaviour *)
(* of its own.                                                             *)
(***************************************************************************)
EXTENDS RBTree, LinkedList, Heap, SocketIO

VARIABLE part

vars == <<treeVars, listVars, heapVars, socketVars, part>>

Init == /\ part \in {"tree", "list", "heap", "socket"}
        /\ TreeInit /\ ListZero /\ HeapInit /\ SocketInit

OfTree(A) == part = "tree" /\ A /\ UNCHANGED <<listVars, heapVars, socketVars, part>>
OfList(A) == part = "list" /\ A /\ UNCHANGED <<treeVars, heapVars, socketVars, part>>
OfHeap(A) == part = "heap" /\ A /\ UNCHANGED <<treeVars, listVars, socketVars, part>>
OfSocket(A) == part = "socket" /\ A /\ UNCHANGED <<treeVars, listVars, heapVars, part>>

Next == OfTree(TreeNext) \/ OfList(ListNext) \/ OfHeap(HeapNext) \/ OfSocket(SocketNext)

Spec == /\ Init /\ [][Next]_vars
        /\ WF_vars(OfSocket(ReceiveStep)) /\ WF_vars(OfSocket(SendCloseEnds))
        /\ \A s \in FD : /\ SF_vars(OfSocket(SelectFinds(s)))
                         /\ SF_vars(OfSocket(Progress(s)))

\* The first buffer of a packet can be written in part
PacketBuffers == <<2, 1>>
=============================================================================
