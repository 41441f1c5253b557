------------------------------- MODULE BstOps -------------------------------
(***************************************************************************)
(* The binary search tree of Lib/structs/bst.c as operators on a record: a  *)
(* node is a number, 0 is NULL, a link (the address of a pointer) is the  *)
(* pair of the node that holds it and its side, node 0 for l->root.         *)
(* A search is given cmp: cmp[y] is what the comparator returns for the      *)
(* searched key and the stored y.                                           *)
(***************************************************************************)
EXTENDS Integers, FiniteSets, FiniteSetsExt, Sequences

CONSTANTS
    NoData,
    Elems,      \* what a node may hold: addresses of the client's data
    BstMax      \* bound on the nodes: no more can be allocated

ASSUME BstMaxAssumption == BstMax \in Nat \ {0}
ASSUME ElemsAssumption == Elems \subseteq Nat /\ NoData \notin Elems /\ IsFiniteSet(Elems)

BstNodes == 1..BstMax
Links == (0..BstMax) \X {"left", "right"}
Root == <<0, "right">>

(* child[l] is the pointer behind link l; child[Root] is l->root.           *)
EmptyTree == [child  |-> [l \in Links |-> 0],
              parent |-> [n \in BstNodes |-> 0],
              data   |-> [n \in BstNodes |-> NoData],
              len    |-> 0]

Left(t, n)  == t.child[<<n, "left">>]
Right(t, n) == t.child[<<n, "right">>]
TreeNodes(t) == {n \in BstNodes : t.data[n] # NoData}
TreeData(t) == {t.data[n] : n \in TreeNodes(t)}

(* The link where a search ends: it leads to the node that compares equal,   *)
(* else to NULL where the key belongs.  Its node is the parent-to-be.        *)
bst_find(t, cmp) ==
    LET walk[l \in Links] ==
            LET n == t.child[l]
            IN  IF n = 0 THEN l
                ELSE IF cmp[t.data[n]] = 0 THEN l
                ELSE walk[<<n, IF cmp[t.data[n]] > 0 THEN "right" ELSE "left">>]
    IN  walk[Root]

Found(t, cmp) == t.child[bst_find(t, cmp)]

insert_node(t, l, x) ==
    LET n == Min(BstNodes \ TreeNodes(t))
    IN  [child  |-> [t.child EXCEPT ![l] = n],
         parent |-> [t.parent EXCEPT ![n] = l[1]],
         data   |-> [t.data EXCEPT ![n] = x],
         len    |-> t.len + 1]

find_min_subtree(t, from) ==
    LET walk[l \in Links] == LET n == t.child[l]
                             IN  IF Left(t, n) = 0 THEN l ELSE walk[<<n, "left">>]
    IN  walk[from]

(* A node with at most one child is unlinked and freed.                     *)
UnlinkKeepParent(t, l) ==
    LET n == t.child[l]
        c == IF Left(t, n) # 0 THEN Left(t, n) ELSE Right(t, n)
    IN  [child  |-> [t.child EXCEPT ![l] = c, ![<<n, "left">>] = 0, ![<<n, "right">>] = 0],
         parent |-> t.parent,
         data   |-> [t.data EXCEPT ![n] = NoData],
         len    |-> t.len - 1]

Unlink(t, l) ==
    LET n == t.child[l]
        c == IF Left(t, n) # 0 THEN Left(t, n) ELSE Right(t, n)
    IN  [child  |-> [t.child EXCEPT ![l] = c, ![<<n, "left">>] = 0, ![<<n, "right">>] = 0],
         parent |-> [m \in BstNodes |-> IF m = c THEN t.parent[n]
                                        ELSE IF m = n THEN 0 ELSE t.parent[m]],
         data   |-> [t.data EXCEPT ![n] = NoData],
         len    |-> t.len - 1]

TwoChildren(t, l) == Left(t, t.child[l]) # 0 /\ Right(t, t.child[l]) # 0

(* A node with two children takes the data of its inorder successor and the *)
(* successor's node goes.  Either way the destructor runs on the data of    *)
(* the node that goes, which DtorArg names.                                 *)
Victim(t, l) ==
    IF TwoChildren(t, l) THEN find_min_subtree(t, <<t.child[l], "right">>) ELSE l
DtorArg(t, l) == t.data[t.child[Victim(t, l)]]
remove_node(t, l) ==
    LET n == t.child[l]
    IN  Unlink(IF TwoChildren(t, l) THEN [t EXCEPT !.data[n] = DtorArg(t, l)] ELSE t, Victim(t, l))

(* The inorder successor of node n, 0 after the last.                       *)
bst_next(t, n) ==
    LET climb[m \in BstNodes] ==
            LET p == t.parent[m]
            IN  IF p # 0 /\ Right(t, p) = m THEN climb[p] ELSE p
    IN  IF Right(t, n) # 0 THEN t.child[find_min_subtree(t, <<n, "right">>)] ELSE climb[n]

(* The link to node n as its parent sees it (m_bst_itr_remove).             *)
LinkOf(t, n) ==
    LET p == t.parent[n]
    IN  IF p = 0 THEN Root ELSE IF Right(t, p) = n THEN <<p, "right">> ELSE <<p, "left">>

(* What m_bst_traverse shows its callback in order M_BST_IN and M_BST_PRE,   *)
(* while the callback returns 0.                                            *)
InOrder(t) ==
    LET walk[n \in 0..BstMax] == IF n = 0 THEN <<>>
            ELSE walk[Left(t, n)] \o <<t.data[n]>> \o walk[Right(t, n)]
    IN  walk[t.child[Root]]
PreOrder(t) ==
    LET walk[n \in 0..BstMax] == IF n = 0 THEN <<>>
            ELSE <<t.data[n]>> \o walk[Left(t, n)] \o walk[Right(t, n)]
    IN  walk[t.child[Root]]
=============================================================================
