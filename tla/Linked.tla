------------------------------- MODULE Linked -------------------------------
(***************************************************************************)
(* The singly linked containers: Lib/structs/list.c, queue.c and stack.c.   *)
(*                                                                         *)
(* The three share one shape, a chain of nodes, and an iterator that holds  *)
(* the address of a link.  link[0] is the head pointer and link[n] the      *)
(* next (or prev) field of node n, so 0..LinkedMax are the addresses of     *)
(* links, 1..LinkedMax those of nodes and 0, as a value, is NULL.           *)
(* While an iterator is open the client changes the container only through  *)
(* it.                                                                     *)
(***************************************************************************)
EXTENDS Integers, FiniteSets, FiniteSetsExt, Sequences, SequencesExt

CONSTANTS
    Items,      \* the user's data; an item is in the container at most once
    NoItem,
    KeyOf,      \* a list's comparator finds two items equal when their keys are
    LinkedMax   \* bound on the nodes: no more can be allocated

ASSUME LinkedAssumption ==
    /\ NoItem \notin Items /\ IsFiniteSet(Items) /\ Items \subseteq DOMAIN KeyOf
    /\ LinkedMax \in Nat \ {0}

VARIABLES
    kind,       \* "list" (no comparator), "keyed" (a list with one), "queue" or "stack"
    link,       \* the head and each node's next
    data,       \* each node's userptr, NoItem when the node is not allocated
    tail,       \* q->tail
    len,
    itr,        \* the iterator: itr.at is the address it holds, diff is negative after
                \* a removal; the other fields are history
    clearing,   \* in m_*_clear
    content,    \* history: the items in the order the operations promise
    owned,      \* history: items handed in, neither destroyed nor handed back
    cut,        \* history: an iterator removed the tail of a longer queue
    broken      \* NULL was followed, or an item destroyed or handed back that is not owned

linkedVars == <<kind, link, data, tail, len, itr, clearing, content, owned, cut, broken>>

Nodes == 1..LinkedMax
NoItr == [on |-> FALSE, at |-> 0, diff |-> 0,
          start |-> {}, seen |-> <<>>, gone |-> {}, inserted |-> FALSE]

LinkedInit ==
    /\ kind \in {"list", "keyed", "queue", "stack"}
    /\ link = [a \in 0..LinkedMax |-> 0] /\ data = [n \in Nodes |-> NoItem]
    /\ tail = 0 /\ len = 0 /\ itr = NoItr /\ clearing = FALSE
    /\ content = <<>> /\ owned = {} /\ cut = FALSE /\ broken = FALSE

IsList == kind \in {"list", "keyed"}
Allocated == {n \in Nodes : data[n] # NoItem}

(* The nodes reached from the head, in order, and their items: what          *)
(* m_*_iterate shows the client.  LinkTo is the address of the link to      *)
(* position i.                                                             *)
LinkTo(c, i) == IF i = 1 THEN 0 ELSE c[i - 1]
Chain ==
    CHOOSE c \in SeqOf(Nodes, LinkedMax) :
        /\ \A i \in 1..Len(c) : c[i] = link[LinkTo(c, i)]
        /\ link[LinkTo(c, Len(c) + 1)] = 0
Traversed == [i \in 1..Len(Chain) |-> data[Chain[i]]]

(* The position of the first item of s that is in S, one past the end when  *)
(* there is none.                                                          *)
Position(s, S) == Min({i \in 1..Len(s) : s[i] \in S} \cup {Len(s) + 1})

(* insert_node, and the linking of m_stack_push: malloc gives any free node. *)
InsertNode(at, x) ==
    LET n == Min(Nodes \ Allocated)
    IN  /\ Allocated # Nodes
        /\ link' = [link EXCEPT ![n] = link[at], ![at] = n]
        /\ data' = [data EXCEPT ![n] = x]
        /\ len' = len + 1

(* Unlinks and frees the node that the link at this address points to.      *)
UnlinkNode(at) ==
    /\ link' = [link EXCEPT ![at] = link[link[at]], ![link[at]] = 0]
    /\ data' = [data EXCEPT ![link[at]] = NoItem]
    /\ len' = len - 1

(* The destructor runs on x; the client hands x in.                         *)
Destroy(x) == owned' = owned \ {x} /\ broken' = (x \notin owned)
Accept(x) == x \notin owned /\ owned' = owned \cup {x} /\ UNCHANGED broken

Idle == ~itr.on /\ ~clearing /\ ~broken
Iterating == itr.on /\ ~clearing /\ ~broken

(***************************************************************************)
(* list.c: with a comparator an item goes in front of the first equal one,  *)
(* else to the end; without one, to the head.                              *)
(***************************************************************************)
ListInsert(x) ==
    LET at(s) == Position(s, {y \in Items : kind = "list" \/ KeyOf[x] = KeyOf[y]})
    IN  /\ Idle /\ IsList
        /\ Accept(x)
        /\ InsertNode(LinkTo(Chain, IF kind = "list" THEN 1 ELSE at(Traversed)), x)
        /\ content' = InsertAt(content, at(content), x)
        /\ UNCHANGED <<kind, tail, itr, clearing, cut>>

ListRemove(x) ==
    LET at(s) == Position(s, {y \in Items : y = x \/ (kind = "keyed" /\ KeyOf[x] = KeyOf[y])})
    IN  /\ Idle /\ IsList /\ len > 0
        /\ at(Traversed) <= Len(Chain)      \* else -ENOENT
        /\ UnlinkNode(LinkTo(Chain, at(Traversed)))
        /\ Destroy(Traversed[at(Traversed)])
        /\ content' = RemoveAt(content, at(content))
        /\ UNCHANGED <<kind, tail, itr, clearing, cut>>

(***************************************************************************)
(* queue.c and stack.c                                                     *)
(***************************************************************************)
Enqueue(x) ==
    LET n == Min(Nodes \ Allocated)
    IN  /\ Idle /\ kind = "queue" /\ Allocated # Nodes
        /\ Accept(x)
        /\ link' = [a \in 0..LinkedMax |-> IF (a = tail /\ tail # 0) \/ (a = 0 /\ link[0] = 0)
                                           THEN n ELSE link[a]]
        /\ data' = [data EXCEPT ![n] = x]
        /\ tail' = n
        /\ len' = len + 1 /\ content' = Append(content, x)
        /\ UNCHANGED <<kind, itr, clearing, cut>>

Push(x) ==
    /\ Idle /\ kind = "stack"
    /\ Accept(x)
    /\ InsertNode(0, x)
    /\ content' = <<x>> \o content
    /\ UNCHANGED <<kind, tail, itr, clearing, cut>>

(* m_queue_dequeue and m_stack_pop; left is what is owned afterwards.       *)
PopHeadKeepsTail(left) ==
    IF link[0] = 0
    THEN broken' = TRUE /\ UNCHANGED <<link, data, len, tail, owned, content>>
    ELSE /\ UnlinkNode(0)
         /\ owned' = left /\ broken' = (data[link[0]] \notin owned)
         /\ content' = Tail(content)
         /\ UNCHANGED tail

PopHead(left) ==
    IF link[0] = 0
    THEN broken' = TRUE /\ UNCHANGED <<link, data, len, tail, owned, content>>
    ELSE /\ UnlinkNode(0)
         /\ tail' = IF tail = link[0] THEN 0 ELSE tail
         /\ owned' = left /\ broken' = (data[link[0]] \notin owned)
         /\ content' = Tail(content)

AllButHead == owned \ {data[link[0]]}

(* The client gets the item.                                                *)

Pop ==
    /\ Idle /\ ~IsList /\ len > 0
    /\ PopHead(AllButHead)
    /\ UNCHANGED <<kind, itr, clearing, cut>>

(* m_queue_remove and m_stack_remove: pop, then the destructor.             *)
RemoveHeadNoDtor ==
    /\ Idle /\ ~IsList /\ len > 0
    /\ PopHead(owned)
    /\ UNCHANGED <<kind, itr, clearing, cut>>

RemoveHead ==
    /\ Idle /\ ~IsList /\ len > 0
    /\ PopHead(AllButHead)
    /\ UNCHANGED <<kind, itr, clearing, cut>>

(***************************************************************************)
(* Iterators.                                                              *)
(***************************************************************************)
Current == data[link[itr.at]]

(* The client reads the first item; in a queue whose head is NULL it follows *)
(* NULL.                                                                    *)
ItrNew ==
    /\ len > 0
    /\ IF link[0] = 0
       THEN broken' = TRUE /\ UNCHANGED itr
       ELSE /\ itr' = [NoItr EXCEPT !.on = TRUE, !.start = ToSet(Traversed),
                                    !.seen = <<data[link[0]]>>]
            /\ UNCHANGED broken

(* After a removal the address already leads to the next element.  At the   *)
(* end the iterator is freed.                                              *)
ItrAdvanceSkips ==
    LET at == IF link[itr.at] # 0 THEN link[itr.at] ELSE itr.at
    IN  itr' = IF link[at] = 0 THEN NoItr
               ELSE [itr EXCEPT !.at = at, !.diff = 0, !.seen = Append(@, data[link[at]])]

ItrAdvance ==
    LET at == IF link[itr.at] # 0 /\ itr.diff >= 0 THEN link[itr.at] ELSE itr.at
    IN  itr' = IF link[at] = 0 THEN NoItr
               ELSE [itr EXCEPT !.at = at, !.diff = 0, !.seen = Append(@, data[link[at]])]

(* A queue's or a stack's iterator is of no use between a removal and the    *)
(* next m_*_itr_next; a list's stands on the next element.                  *)
Usable == link[itr.at] # 0 /\ (IsList \/ itr.diff = 0)

ItrRemove ==
    /\ Usable
    /\ UnlinkNode(itr.at)
    /\ Destroy(Current)
    /\ tail' = IF kind = "queue" /\ tail = link[itr.at] THEN 0 ELSE tail
    /\ cut' = (cut \/ (kind = "queue" /\ tail = link[itr.at] /\ itr.at # 0))
    /\ itr' = [itr EXCEPT !.diff = @ - 1, !.gone = @ \cup {Current}]
    /\ content' = RemoveAt(content, Position(content, {Current}))

(* The history tells items apart by name: one the iteration has met does not *)
(* come in again while it lasts.                                            *)
NewToItr(x) == x \notin itr.start \cup itr.gone \cup ToSet(itr.seen)

LinkedItrNew ==
    Idle /\ ItrNew /\ UNCHANGED <<kind, link, data, tail, len, clearing, content, owned, cut>>
LinkedItrNext ==
    /\ Iterating /\ ItrAdvance
    /\ UNCHANGED <<kind, link, data, tail, len, clearing, content, owned, cut, broken>>
LinkedItrRemove == Iterating /\ ItrRemove /\ UNCHANGED <<kind, clearing>>

ListItrInsert(x) ==
    LET i == IF itr.at = 0 THEN 1 ELSE 1 + CHOOSE j \in 1..Len(Chain) : Chain[j] = itr.at
    IN  /\ Iterating /\ IsList /\ NewToItr(x)
        /\ Accept(x)
        /\ InsertNode(itr.at, x)
        /\ itr' = [itr EXCEPT !.diff = @ + 1, !.inserted = TRUE]
        /\ content' = InsertAt(content, i, x)
        /\ UNCHANGED <<kind, tail, clearing, cut>>

(* The client has read the old item with get_data and takes it back.        *)
ItrSetData(x) ==
    /\ Iterating /\ Usable /\ NewToItr(x)
    /\ x \notin owned /\ owned' = (owned \ {Current}) \cup {x}
    /\ data' = [data EXCEPT ![link[itr.at]] = x]
    /\ itr' = [itr EXCEPT !.gone = @ \cup {Current}]
    /\ content' = [i \in DOMAIN content |-> IF content[i] = Current THEN x ELSE content[i]]
    /\ UNCHANGED <<kind, link, tail, len, clearing, cut, broken>>

(***************************************************************************)
(* m_list_clear removes each element through an iterator, m_queue_clear and *)
(* m_stack_clear pop and destroy while len is not 0; m_*_free clear, and the *)
(* client starts over with a new container.                                *)
(***************************************************************************)
LinkedClear ==
    /\ Idle /\ len > 0 /\ clearing' = TRUE
    /\ IF IsList THEN ItrNew ELSE UNCHANGED <<itr, broken>>
    /\ UNCHANGED <<kind, link, data, tail, len, content, owned, cut>>

LinkedClearStepLeavesOne ==
    /\ clearing /\ ~broken
    /\ IF ~IsList THEN PopHead(AllButHead) /\ UNCHANGED <<itr, cut>>
       ELSE IF itr.diff = 0 THEN ItrRemove
       ELSE ItrAdvance /\ UNCHANGED <<link, data, tail, len, content, owned, cut, broken>>
    /\ clearing' = IF IsList THEN itr'.on ELSE len' > 1
    /\ UNCHANGED kind

LinkedClearStep ==
    /\ clearing /\ ~broken
    /\ IF ~IsList THEN PopHead(AllButHead) /\ UNCHANGED <<itr, cut>>
       ELSE IF itr.diff = 0 THEN ItrRemove
       ELSE ItrAdvance /\ UNCHANGED <<link, data, tail, len, content, owned, cut, broken>>
    /\ clearing' = IF IsList THEN itr'.on ELSE len' > 0
    /\ UNCHANGED kind

LinkedNext ==
    \/ \E x \in Items : \/ ListInsert(x) \/ ListRemove(x) \/ Enqueue(x) \/ Push(x)
                        \/ ListItrInsert(x) \/ ItrSetData(x)
    \/ Pop \/ RemoveHead
    \/ LinkedItrNew \/ LinkedItrNext \/ LinkedItrRemove
    \/ LinkedClear \/ LinkedClearStep

LinkedSpec == LinkedInit /\ [][LinkedNext]_linkedVars

(***************************************************************************)
(* Properties.                                                             *)
(***************************************************************************)
(* The links spell out the sequence of items the operations promise (a list *)
(* in order of equal keys, a queue first in first out, a stack last in      *)
(* first out), whatever was inserted and removed through iterators, and a   *)
(* queue's tail is its last node.  Not so after m_queue_itr_remove took the *)
(* tail of a longer queue (queue.c:70): tail is NULL, and what is enqueued  *)
(* next is linked from nowhere.                                            *)
LinkedContent ==
    ~cut => /\ Traversed = content /\ len = Len(content)
            /\ kind = "queue" => tail = IF Chain = <<>> THEN 0 ELSE Last(Chain)

(* Every item handed in and not handed back is in a node, once, and is      *)
(* destroyed when the library discards it, not before and not twice; len    *)
(* counts the nodes.  Only a queue that lost its tail makes the code follow *)
(* NULL.                                                                   *)
LinkedOwned ==
    /\ owned = {data[n] : n \in Allocated}
    /\ Cardinality(Allocated) = len /\ Cardinality(owned) = len
    /\ broken => cut

(* An iteration leaves out no element that was there when it began, whatever *)
(* it removes and inserts on the way, and meets none twice unless            *)
(* m_list_itr_insert was used: that puts the current element after the new   *)
(* one and shows it again (list.c:105-111).                                 *)
LinkedIteration ==
    [][itr.on /\ ~itr'.on => /\ itr.start \subseteq ToSet(itr.seen) \cup itr.gone
                             /\ ~itr.inserted => IsInjective(itr.seen)]_linkedVars
=============================================================================
