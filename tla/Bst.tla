--------------------------------- MODULE Bst ---------------------------------
(***************************************************************************)
(* The binary search tree of Lib/structs/bst.c as a client uses it, with a  *)
(* destructor and the default comparator: an element is an address, and     *)
(* ptrcmp returns the difference of two addresses as an int of limited      *)
(* width.  While an iterator is open the client changes the tree only       *)
(* through it.                                                             *)
(***************************************************************************)
EXTENDS BstOps, SequencesExt

CONSTANT
    IntHalf     \* an int holds -IntHalf .. IntHalf - 1

ASSUME BstAssumption == IntHalf \in Nat \ {0}

VARIABLES
    tree,
    bitr,       \* the iterator: on, cur (*itr->curr), prev, removed; seen, start: history
    bclearing,  \* in m_bst_clear
    bowned,     \* history: elements handed in and not destroyed
    stored,     \* history: elements inserted and not removed
    far,        \* history: elements whose distance does not fit in an int met
    swapped,    \* history: a node with two children was removed
    bbroken     \* an element was destroyed that is not owned

bstVars == <<tree, bitr, bclearing, bowned, stored, far, swapped, bbroken>>

NoBstItr == [on |-> FALSE, cur |-> 0, prev |-> 0, removed |-> FALSE, start |-> {}, seen |-> <<>>]

BstInit ==
    /\ tree = EmptyTree /\ bitr = NoBstItr /\ bclearing = FALSE
    /\ bowned = {} /\ stored = {}
    /\ far = FALSE /\ swapped = FALSE /\ bbroken = FALSE

ptrcmp(x) == [y \in Elems |-> ((x - y + IntHalf) % (2 * IntHalf)) - IntHalf]

BstIdle == ~bitr.on /\ ~bclearing
BstIterating == bitr.on /\ ~bclearing

(* An element that compares equal is there already: -EEXIST.                *)
BstInsert(x) ==
    /\ BstIdle
    /\ x \notin bowned /\ TreeNodes(tree) # BstNodes
    /\ Found(tree, ptrcmp(x)) = 0
    /\ tree' = insert_node(tree, bst_find(tree, ptrcmp(x)), x)
    /\ bowned' = bowned \cup {x} /\ stored' = stored \cup {x}
    /\ far' = (far \/ \E y \in stored : x - y \notin -IntHalf..IntHalf - 1
                                        \/ y - x \notin -IntHalf..IntHalf - 1)
    /\ UNCHANGED <<bitr, bclearing, swapped, bbroken>>

(* remove_node on the node behind link l, with the destructor.              *)
RemoveAtLinkNoDtor(l) ==
    /\ tree' = remove_node(tree, l)
    /\ stored' = stored \ {tree.data[tree.child[l]]}
    /\ swapped' = (swapped \/ TwoChildren(tree, l))
    /\ UNCHANGED <<bowned, bbroken>>

RemoveAtLink(l) ==
    /\ tree' = remove_node(tree, l)
    /\ bowned' = bowned \ {DtorArg(tree, l)}
    /\ bbroken' = (bbroken \/ DtorArg(tree, l) \notin bowned)
    /\ stored' = stored \ {tree.data[tree.child[l]]}
    /\ swapped' = (swapped \/ TwoChildren(tree, l))

BstRemove(x) ==
    /\ BstIdle /\ tree.len > 0
    /\ Found(tree, ptrcmp(x)) # 0       \* else -ENOENT
    /\ RemoveAtLink(bst_find(tree, ptrcmp(x)))
    /\ UNCHANGED <<bitr, bclearing, far>>

(***************************************************************************)
(* Iterators.                                                              *)
(***************************************************************************)
First(t) == t.child[find_min_subtree(t, Root)]

BstItrStart ==
    /\ tree.len > 0
    /\ bitr' = [NoBstItr EXCEPT !.on = TRUE, !.cur = First(tree), !.start = stored,
                                !.seen = <<tree.data[First(tree)]>>]

(* After a removal the walk goes on from the last element that stayed, or   *)
(* from the first when none did.                                           *)
BstItrAdvanceFromCur ==
    LET prev == bitr.cur
        next == IF TreeNodes(tree) = {} THEN 0 ELSE bst_next(tree, bitr.cur)
    IN  bitr' = IF next = 0 THEN NoBstItr
                ELSE [bitr EXCEPT !.prev = prev, !.cur = next, !.removed = FALSE,
                                  !.seen = Append(@, tree.data[next])]

BstItrAdvance ==
    LET prev == IF bitr.removed THEN bitr.prev ELSE bitr.cur
        next == IF prev # 0 THEN bst_next(tree, prev)
                ELSE IF tree.child[Root] # 0 THEN First(tree) ELSE 0
    IN  bitr' = IF next = 0 THEN NoBstItr
                ELSE [bitr EXCEPT !.prev = prev, !.cur = next, !.removed = FALSE,
                                  !.seen = Append(@, tree.data[next])]

BstItrRemoveCur ==
    /\ ~bitr.removed
    /\ RemoveAtLink(LinkOf(tree, bitr.cur))
    /\ bitr' = [bitr EXCEPT !.removed = TRUE]

BstItrNew == BstIdle /\ BstItrStart
             /\ UNCHANGED <<tree, bclearing, bowned, stored, far, swapped, bbroken>>
BstItrNext == BstIterating /\ BstItrAdvance
              /\ UNCHANGED <<tree, bclearing, bowned, stored, far, swapped, bbroken>>
BstItrRemove == BstIterating /\ BstItrRemoveCur /\ UNCHANGED <<bclearing, far>>

(* m_bst_clear, and m_bst_free after which the client starts over: remove   *)
(* and next until the iterator ends, then l->root = NULL.                   *)
BstClear ==
    /\ BstIdle /\ BstItrStart /\ bclearing' = TRUE
    /\ UNCHANGED <<tree, bowned, stored, far, swapped, bbroken>>

BstClearStep ==
    /\ bclearing
    /\ IF ~bitr.removed THEN BstItrRemoveCur
       ELSE /\ BstItrAdvance
            /\ tree' = IF bitr'.on THEN tree ELSE [tree EXCEPT !.child[Root] = 0]
            /\ UNCHANGED <<bowned, stored, swapped, bbroken>>
    /\ bclearing' = bitr'.on
    /\ UNCHANGED far

BstNext ==
    \/ \E x \in Elems : BstInsert(x) \/ BstRemove(x)
    \/ BstItrNew \/ BstItrNext \/ BstItrRemove
    \/ BstClear \/ BstClearStep

BstSpec == BstInit /\ [][BstNext]_bstVars

(***************************************************************************)
(* Properties.                                                             *)
(***************************************************************************)
Ascending(s) == \A i \in 1..Len(s) - 1 : s[i] < s[i + 1]

(* Whatever is inserted and removed, parents and children agree, len counts *)
(* the nodes, and all nodes hang from the root.  The elements in order are  *)
(* those inserted and not removed, ascending, and each is found, as long as *)
(* their distances fit in an int: ptrcmp (bst.c:86) cuts the difference of  *)
(* two addresses, and the order it makes is then no order.                  *)
SearchTree ==
    /\ \A l \in Links : tree.child[l] # 0 => tree.parent[tree.child[l]] = l[1]
    /\ Cardinality(TreeNodes(tree)) = tree.len /\ Len(PreOrder(tree)) = tree.len
    /\ ~far => /\ Ascending(InOrder(tree)) /\ ToSet(InOrder(tree)) = stored
               /\ \A x \in stored : tree.data[Found(tree, ptrcmp(x))] = x

(* The elements in the tree are those handed in and not destroyed, and none *)
(* is destroyed twice.  Not so once a node with two children was removed    *)
(* (bst.c:79-81): the destructor gets the successor's element, which stays  *)
(* in the tree, and never the element that was removed.                     *)
DtorExact == swapped \/ (bowned = TreeData(tree) /\ ~bbroken)

(* An iteration meets the elements in ascending order, each once, and all   *)
(* that were there when it began, whichever it removes on the way, nodes    *)
(* with two children included.                                             *)
BstIteration ==
    [][bitr.on /\ ~bitr'.on => \/ far
                               \/ ToSet(bitr.seen) = bitr.start /\ Ascending(bitr.seen)]_bstVars
=============================================================================
