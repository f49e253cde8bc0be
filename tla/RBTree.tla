------------------------------- MODULE RBTree -------------------------------
(***************************************************************************)
(* The red-black tree of Tree.c, with one index, as Heap.c uses it.        *)
(*                                                                         *)
(* A node is named by the key of the content it holds.  So when            *)
(* TreeRemoveNodeIndex moves the content of one node into another and      *)
(* frees the first, the node that stays takes the name of the one freed.   *)
(*                                                                         *)
(* A call adds, replaces or removes; then each action is one iteration of  *)
(* the loop that balances the tree, at curnode.                            *)
(***************************************************************************)
EXTENDS Integers, FiniteSets, FiniteSetsExt

CONSTANTS Key,      \* the keys, compared as TreeIntCompare and ptrCompare do
          Size      \* the sizes given to TreeAdd

ASSUME TreeAssumption == Key \subseteq Nat \ {0} /\ Size \subseteq Int

NULL == 0
temp == -1          \* the node on the stack of TreeRemoveNodeIndex
Node == Key \cup {temp}
LEFT == 0
RIGHT == 1

VARIABLES root, parent, child, red,   \* Tree and Node, of the one index
          node_size, count, size,
          curnode,                    \* where a balancing loop is, or NULL
          loop,                       \* which loop
          replaced                    \* whether an item was ever replaced

links == <<root, parent, child, red>>
treeVars == <<links, node_size, count, size, curnode, loop, replaced>>

TreeInit ==
    /\ root = NULL
    /\ parent = [n \in Node |-> NULL]
    /\ child = [n \in Node |-> [s \in {LEFT, RIGHT} |-> NULL]]
    /\ red = [n \in Node |-> FALSE]
    /\ node_size = [k \in Key |-> 0] /\ count = 0 /\ size = 0
    /\ curnode = NULL /\ loop = "none" /\ replaced = FALSE

\* The tree as a value, for the operators that take several steps
Links == [root |-> root, parent |-> parent, child |-> child, red |-> red]
Becomes(t) == /\ root' = t.root /\ parent' = t.parent
              /\ child' = t.child /\ red' = t.red

isRed(t, n) == n # NULL /\ t.red[n]
isBlack(t, n) == ~isRed(t, n)
Coloured(t, n, isred) == [t EXCEPT !.red[n] = isred]

-----------------------------------------------------------------------------
(* Searching.                                                              *)

\* The child to go to from node n when looking for k
Side(n, k) == IF n > k THEN LEFT ELSE RIGHT

\* The node where the search for k ends: that of k, or the parent it would have
Place(k) ==
    LET from[n \in Key] == IF n = k \/ child[n][Side(n, k)] = NULL THEN n
                           ELSE from[child[n][Side(n, k)]]
    IN IF root = NULL THEN NULL ELSE from[root]

TreeFind(k) == IF Place(k) = k THEN k ELSE NULL
Present == {k \in Key : TreeFind(k) = k}

TreeMinimum(t, n) ==
    LET down[m \in Key] == IF t.child[m][LEFT] = NULL THEN m ELSE down[t.child[m][LEFT]]
    IN IF n = NULL THEN NULL ELSE down[n]

\* Fault: from a right child the way does not go on up
SuccessorOneUp(t, n) ==
    IF t.child[n][RIGHT] # NULL THEN TreeMinimum(t, t.child[n][RIGHT]) ELSE t.parent[n]

TreeSuccessor(t, n) ==
    LET up[m \in Key] == IF t.parent[m] # NULL /\ t.child[t.parent[m]][RIGHT] = m
                         THEN up[t.parent[m]] ELSE t.parent[m]
    IN IF t.child[n][RIGHT] # NULL THEN TreeMinimum(t, t.child[n][RIGHT]) ELSE up[n]

\* NULL asks for the first element
TreeNextElement(n) == IF n = NULL THEN TreeMinimum(Links, root)
                      ELSE TreeSuccessor(Links, n)

-----------------------------------------------------------------------------
(* Rotating.                                                               *)

\* The pointer of p, or the root, that points to n now points to m
Relinked(t, p, n, m) ==
    IF p = NULL THEN [t EXCEPT !.root = m]
    ELSE [t EXCEPT !.child[p][IF n = t.child[p][LEFT] THEN LEFT ELSE RIGHT] = m]

\* Fault: the parent of n is not told
NotUnder(t, n, p) == t

\* The parent of n, if it is a node, is now p
Under(t, n, p) == IF n = NULL THEN t ELSE [t EXCEPT !.parent[n] = p]

TreeRotate(t, n, direction) ==
    LET other == t.child[n][1 - direction]
        inner == t.child[other][direction]
        above == t.parent[n]
        turned == [Relinked(t, above, n, other) EXCEPT !.child[n][1 - direction] = inner,
                                                       !.child[other][direction] = n]
    IN Under(Under(Under(turned, inner, n), other, above), n, other)

-----------------------------------------------------------------------------
(* Adding.                                                                 *)

\* TreeAddByIndex, the key is new
TreeAdd(k, s) ==
    /\ curnode = NULL /\ TreeFind(k) = NULL
    /\ LET curparent == Place(k)
       IN /\ root' = IF curparent = NULL THEN k ELSE root
          /\ child' = IF curparent = NULL THEN child
                      ELSE [child EXCEPT ![curparent][Side(curparent, k)] = k]
          /\ parent' = [parent EXCEPT ![k] = curparent]
    /\ red' = [red EXCEPT ![k] = TRUE]
    /\ node_size' = [node_size EXCEPT ![k] = s]
    /\ count' = count + 1 /\ size' = size + s
    /\ curnode' = k /\ loop' = "add"
    /\ UNCHANGED replaced

\* Fault: the size of the item replaced stays in the total
ReplaceAddsSize(k, s) ==
    /\ curnode = NULL /\ TreeFind(k) = k
    /\ node_size' = [node_size EXCEPT ![k] = s]
    /\ size' = size + s
    /\ curnode' = k /\ loop' = "add" /\ replaced' = TRUE
    /\ UNCHANGED <<links, count>>

\* TreeAddByIndex, an equal item is there and is replaced.  The tree is
\* balanced as if a node had been added where the item is.
TreeReplace(k, s) ==
    /\ curnode = NULL /\ TreeFind(k) = k
    /\ node_size' = [node_size EXCEPT ![k] = s]
    /\ size' = size + s - node_size[k]
    /\ curnode' = k /\ loop' = "add" /\ replaced' = TRUE
    /\ UNCHANGED <<links, count>>

\* Fault: a node between its parent and its grandparent stays there
StaysInside(t, n, which) == [tree |-> t, node |-> n]

\* A node between its parent and its grandparent changes places with its parent
TurnedOutside(t, n, which) ==
    IF n = t.child[t.parent[n]][which]
    THEN [tree |-> TreeRotate(t, t.parent[n], 1 - which), node |-> t.parent[n]]
    ELSE [tree |-> t, node |-> n]

\* The colours of parent and grandparent change, and the grandparent is turned
TurnedAbove(t, n, which) ==
    LET p == t.parent[n]
        g == t.parent[p]
    IN TreeRotate(Coloured(Coloured(t, p, FALSE), g, TRUE), g, which)

\* TreeBAASub: one iteration at a node n whose parent is red; which is the side
\* of its uncle
TreeBAASub(n, which) ==
    LET p == parent[n]
        g == parent[p]
        uncle == child[g][which]
    IN IF isRed(Links, uncle)
       THEN /\ red' = [red EXCEPT ![p] = FALSE, ![uncle] = FALSE, ![g] = TRUE]
            /\ curnode' = g
            /\ UNCHANGED <<root, parent, child>>
       ELSE \E outside \in {TurnedOutside(Links, n, which)} :
            /\ Becomes(TurnedAbove(outside.tree, outside.node, which))
            /\ curnode' = outside.node

MoreAfterAdd == /\ isRed(Links, parent[curnode])
                /\ parent[parent[curnode]] # NULL

BalanceAfterAdd ==
    /\ loop = "add" /\ MoreAfterAdd
    /\ TreeBAASub(curnode, IF parent[curnode] = child[parent[parent[curnode]]][LEFT]
                           THEN RIGHT ELSE LEFT)
    /\ UNCHANGED <<node_size, count, size, loop, replaced>>

BalancedAfterAdd ==
    /\ loop = "add" /\ ~MoreAfterAdd
    /\ red' = [red EXCEPT ![root] = FALSE]
    /\ curnode' = NULL /\ loop' = "none"
    /\ UNCHANGED <<root, parent, child, node_size, count, size, replaced>>

-----------------------------------------------------------------------------
(* Removing.                                                               *)

\* Without node r, which has at most one child: that child takes its place
Spliced(t, r) ==
    LET only == IF t.child[r][LEFT] # NULL THEN t.child[r][LEFT] ELSE t.child[r][RIGHT]
        above == t.parent[r]
    IN [Under(Relinked(t, above, r, only), only, above)
            EXCEPT !.parent[r] = NULL, !.red[r] = FALSE,
                   !.child[r][LEFT] = NULL, !.child[r][RIGHT] = NULL]

\* The content of r, which is not linked, is moved to node n
Moved(t, r, n) ==
    LET new(m) == IF m = n THEN r ELSE m
        old(m) == IF m = r THEN n ELSE m
    IN [root |-> new(t.root),
        parent |-> [m \in Node |-> IF m = n THEN NULL ELSE new(t.parent[old(m)])],
        child |-> [m \in Node |-> [s \in {LEFT, RIGHT} |->
                      IF m = n THEN NULL ELSE new(t.child[old(m)][s])]],
        red |-> [m \in Node |-> IF m = n THEN FALSE ELSE t.red[old(m)]]]

\* Fault: the node removed is always the one found
RedundantIsFound(k) == k

\* The node that goes: that of k, or its successor if it has two children
Redundant(k) == IF child[k][LEFT] # NULL /\ child[k][RIGHT] # NULL
                THEN TreeSuccessor(Links, k) ELSE k

\* TreeRemoveNodeIndex.  If a black node goes, balancing starts at its child,
\* or at a node on the stack in the place of the child it has not.
TreeRemove(k) ==
    /\ curnode = NULL /\ TreeFind(k) = k
    /\ LET r == Redundant(k)
           only == IF child[r][LEFT] # NULL THEN child[r][LEFT] ELSE child[r][RIGHT]
           spliced == Spliced(Links, r)
           moved == IF r = k THEN spliced ELSE Moved(spliced, r, k)
           above == IF parent[r] = k THEN r ELSE parent[r]
           start == IF red[r] THEN NULL
                    ELSE IF only # NULL THEN only
                    ELSE IF parent[r] # NULL THEN temp ELSE NULL
       IN /\ Becomes(IF start = temp
                     THEN [moved EXCEPT !.parent[temp] = above] ELSE moved)
          /\ curnode' = start
          /\ loop' = IF start = NULL THEN "none" ELSE "remove"
    /\ size' = size - node_size[k] /\ count' = count - 1
    /\ node_size' = [node_size EXCEPT ![k] = 0]
    /\ UNCHANGED replaced

\* A red sibling n changes colours and places with the parent
RedTurned(t, n, which) ==
    IF isRed(t, n)
    THEN TreeRotate(Coloured(Coloured(t, n, FALSE), t.parent[n], TRUE),
                    t.parent[n], 1 - which)
    ELSE t

\* If the outer child of the sibling n is black, the inner one takes its place
InnerTurned(t, n, which) ==
    IF isBlack(t, t.child[n][which])
    THEN TreeRotate(Coloured(Coloured(t, t.child[n][1 - which], FALSE), n, TRUE), n, which)
    ELSE t

\* Fault: the sibling does not take the colour of the parent
PaintedBlack(t, p, n, which) ==
    Coloured(Coloured(Coloured(t, n, FALSE), p, FALSE), t.child[n][which], FALSE)

\* The sibling n takes the colour of the parent p
Painted(t, p, n, which) ==
    Coloured(Coloured(Coloured(t, n, t.red[p]), p, FALSE), t.child[n][which], FALSE)

\* TreeBARSub: one iteration at a node n below which a black node is missing;
\* which is the side of its sibling
TreeBARSub(n, which) ==
    LET p == parent[n]
    IN \E t1 \in {RedTurned(Links, child[p][which], which)} :
       LET sibling == t1.child[p][which]
       IN IF sibling = NULL
          THEN Becomes(t1) /\ curnode' = p
          ELSE IF \A s \in {LEFT, RIGHT} : isBlack(t1, t1.child[sibling][s])
          THEN Becomes(Coloured(t1, sibling, TRUE)) /\ curnode' = p
          ELSE \E t2 \in {InnerTurned(t1, sibling, which)} :
               \E t3 \in {TreeRotate(Painted(t2, p, t2.child[p][which], which), p, 1 - which)} :
               Becomes(t3) /\ curnode' = t3.root

MoreAfterRemove == curnode # root /\ ~red[curnode]

BalanceAfterRemove ==
    /\ loop = "remove" /\ MoreAfterRemove
    /\ LET linked == IF curnode = temp THEN NULL ELSE curnode
       IN TreeBARSub(curnode, IF linked = child[parent[curnode]][LEFT] THEN RIGHT ELSE LEFT)
    /\ UNCHANGED <<node_size, count, size, loop, replaced>>

BalancedAfterRemove ==
    /\ loop = "remove" /\ ~MoreAfterRemove
    /\ red' = [red EXCEPT ![curnode] = FALSE]
    /\ curnode' = NULL /\ loop' = "none"
    /\ UNCHANGED <<root, parent, child, node_size, count, size, replaced>>

Balance == BalanceAfterAdd \/ BalancedAfterAdd \/ BalanceAfterRemove \/ BalancedAfterRemove

Call == \E k \in Key : \/ TreeRemove(k)
                       \/ \E s \in Size : TreeAdd(k, s) \/ TreeReplace(k, s)

TreeNext == Call \/ Balance

TreeSpec == TreeInit /\ [][TreeNext]_treeVars

-----------------------------------------------------------------------------
\* The types, and that every child and the root know what they are under
TreeTypeOK ==
    /\ root \in Key \cup {NULL}
    /\ parent \in [Node -> Key \cup {NULL}]
    /\ child \in [Node -> [{LEFT, RIGHT} -> Key \cup {NULL}]]
    /\ red \in [Node -> BOOLEAN]
    /\ node_size \in [Key -> Int] /\ count \in Nat /\ size \in Int
    /\ root # NULL => parent[root] = NULL
    /\ \A n \in Key, s \in {LEFT, RIGHT} : child[n][s] # NULL => parent[child[n][s]] = n
    /\ curnode \in Node \cup {NULL} /\ loop \in {"none", "add", "remove"}
    /\ replaced \in BOOLEAN

BlackHeight ==
    LET bh[n \in Key \cup {NULL}] ==
            IF n = NULL THEN 0
            ELSE LET l == bh[child[n][LEFT]]
                     r == bh[child[n][RIGHT]]
                 IN IF l # r \/ l = -1 THEN -1 ELSE IF red[n] THEN l ELSE l + 1
    IN bh[root]

IsRedBlack ==
    /\ ~isRed(Links, root)
    /\ \A k \in Present : isRed(Links, k) => ~isRed(Links, parent[k])
    /\ BlackHeight # -1

(***************************************************************************)
(* No red node has a red child, the root is black, and all ways down pass  *)
(* the same number of black nodes, as long as no item is replaced.         *)
(***************************************************************************)
RedBlack == curnode = NULL /\ ~replaced => IsRedBlack

(***************************************************************************)
(* The same whatever was called: what the check in TreeWalk (in comments)  *)
(* reports the contrary of as a "red/black tree violation".                *)
(***************************************************************************)
RedBlackAlways == curnode = NULL => IsRedBlack

(***************************************************************************)
(* Whatever the balancing does, the tree is the dictionary it promises to  *)
(* be: no step of a loop loses an item or brings one back.                 *)
(***************************************************************************)
Items == INSTANCE Dictionary WITH items <- [k \in Present |-> node_size[k]]
IsDictionary == Items!Spec

(***************************************************************************)
(* The count and the total of the tree are those of its items, and walking *)
(* from element to element meets every item, in order, once.               *)
(***************************************************************************)
Accounts == /\ count = Cardinality(Present)
            /\ size = MapThenSumSet(LAMBDA k : node_size[k], Present)

WalkIsComplete ==
    curnode = NULL =>
        \A n \in Present \cup {NULL} :
            LET later == {k \in Present : n < k}
            IN TreeNextElement(n) = IF later = {} THEN NULL ELSE Min(later)

(***************************************************************************)
(* Both loops end: each iteration but the last takes curnode closer to the *)
(* root, whichever way the tree was turned meanwhile.                      *)
(***************************************************************************)
Depth == LET above[n \in Node] == IF parent[n] = NULL THEN 0 ELSE 1 + above[parent[n]]
         IN above[curnode]
Continues == (loop = "add" /\ MoreAfterAdd) \/ (loop = "remove" /\ MoreAfterRemove)
BalancingEnds == [][Continues => (Continues' => Depth' < Depth)]_treeVars

\* Between calls the tree is red-black, its counts are right and a walk meets
\* every item: after any order of insertions and removals, which turn it through
\* every case of TreeBalanceAfterAdd and TreeBAASub.
TreeIsSound ==
    /\ TreeTypeOK /\ RedBlack /\ Accounts /\ WalkIsComplete

\* Seen from outside the tree is a dictionary, and every call ends: each turn
\* of a balancing loop starts nearer to the root than the last.
IsBalancedDictionary ==
    /\ IsDictionary /\ BalancingEnds
=============================================================================
