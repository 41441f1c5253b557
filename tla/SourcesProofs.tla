---------------------------- MODULE SourcesProofs ----------------------------
(***************************************************************************)
(* Proofs about the sources of a module and its token bucket, for any        *)
(* sources, periods and bursts: as long as no node with two children is      *)
(* removed from a tree, a source has a reference for its place in the tree   *)
(* and one for each of its events, and the bucket has one timer unless its   *)
(* removal was refused or met another source.                               *)
(***************************************************************************)
EXTENDS Sources, TreeProofs

(* What the kernel may give to a descriptor.                                *)
Fds == Int \cup {Min(X) : X \in SUBSET PrivFds}
Kinds == {"FD", "TMR", "SGN", "PID", "TASK", "THRESH"}
Source == [type : Kinds, id : Nat, oneshot : BOOLEAN, autoclose : BOOLEAN, tb : BOOLEAN,
           fd : Fds, ev : BOOLEAN, fresh : BOOLEAN, fired : BOOLEAN, refs : Nat]
Worlds == [src : [Srcs -> Source], open : SUBSET Fds, interest : SUBSET (Fds \X Srcs),
           off : SUBSET Fds, signalled : SUBSET Fds]

(***************************************************************************)
(* The invariant.  Once a node with two children was removed it only says    *)
(* that a bucket is no fuller than its burst.                               *)
(***************************************************************************)
Members(t) == UNION {TreeData(t[k]) : k \in DOMAIN t}

(* The trees have different sources, among the first m.                     *)
GoodTree(t, m) == (\E D : Shape(t, D)) /\ Distinct(t) /\ TreeData(t) \subseteq 1..m
Forest(t, m) ==
    /\ t = [k \in {kind, "TMR"} |-> t[k]]
    /\ \A k \in {kind, "TMR"} : GoodTree(t[k], m)
    /\ kind # "TMR" => TreeData(t[kind]) \cap TreeData(t["TMR"]) = {}

Counted(t, s, c) ==
    \A o \in Srcs : s[o].refs = (IF o \in Members(t) THEN 1 ELSE 0) + c[o]

(* The events there are, and how many of each source.                       *)
Queues == {"batch", "stash", "outer", "inner"}
EventsOK(ev) == ev \in [Events -> [src : {0} \cup Srcs, at : SUBSET Queues]]
HeldBy(ev) == [o \in Srcs |-> Cardinality({e \in Events : ev[e].src = o})]

(* Nothing will use a source that was freed.                                *)
Quiet(s, i, r, j) ==
    \A o \in Srcs : s[o].refs = 0 => o \notin r /\ j[o] = 0 /\ \A e \in i : e[2] # o

Fresh(s, i, r, j, m) ==
    \A o \in Srcs : o > m => s[o].refs = 0 /\ o \notin r /\ j[o] = 0 /\ \A e \in i : e[2] # o

Bucketed(t, s) == {o \in Members(t) : s[o].tb}
TimersOK(t, s) == \A o \in Bucketed(t, s) : o \in TreeData(t["TMR"]) /\ s[o].id # 0
OneTimer(t, s, b) ==
    /\ \A o \in Bucketed(t, s) : s[o].id = b.period
    /\ \A o, p \in Bucketed(t, s) : o = p

BucketOK(b) ==
    /\ b \in [tokens : Nat, burst : Nat, period : Nat] /\ b.tokens <= b.burst

(* What holds of the trees t, the world w and what was returned or runs.     *)
Base(t, w, m, c, r, j) ==
    /\ w \in Worlds /\ m \in 0..MaxSrcs /\ c \in [Srcs -> Nat] /\ r \subseteq Srcs /\ j \in [Srcs -> Nat]
    /\ Forest(t, m) /\ Counted(t, w.src, c)
    /\ Fresh(w.src, w.interest, r, j, m) /\ TimersOK(t, w.src)

(* What holds unless a hazard of h was met.                                 *)
QuietOK(h, w, r, j, x) ==
    h \cap {"late", "stale", "task"} = {} => Quiet(w.src, w.interest, r, j) /\ ~x
TimerOK(h, t, w, b) == h \cap {"lost", "wrong"} = {} => OneTimer(t, w.src, b)

SrcInv ==
    /\ setup \in Setups /\ made <= setup.max /\ EventsOK(events)
    /\ Base(tree, World, made, HeldBy(events), ready, tasks)
    /\ QuietOK(hurt, World, ready, tasks, undefined)
    /\ TimerOK(hurt, tree, World, tb)

Inv == setup \in Setups /\ BucketOK(tb) /\ ("swap" \notin hurt => SrcInv)

-----------------------------------------------------------------------------
(***************************************************************************)
(* What polling and dropping a reference do to the sources.                 *)
(***************************************************************************)
LEMMA ConstantsAre ==
    /\ MaxSrcs \in Nat /\ BstMax \in Nat /\ MaxSrcs <= BstMax /\ Srcs = 1..MaxSrcs /\ ClockId = 1
    /\ Srcs \subseteq Elems /\ \A o \in Srcs : o \in Nat /\ o # 0
    /\ Periods \subseteq Nat \ {0}
BY SourcesAssumption, BstMaxAssumption DEF Srcs, ClockId

LEMMA SetupIs ==
    ASSUME NEW s \in Setups
    PROVE  /\ s.kind \in Kinds /\ s.ids \subseteq Nat \ {0} /\ s.bursts \subseteq Nat
           /\ s.max \in 0..MaxSrcs
<1>1. /\ s.kind \in Kinds /\ s.ids \in SUBSET (Nat \ {0}) /\ s.max \in 0..MaxSrcs
      /\ s.bursts \in SUBSET (0..Unlimited - 1)
    BY SourcesAssumption DEF Kinds
<1>2. Unlimited \in Nat
    BY SourcesAssumption
<1> QED BY <1>1, <1>2

(* The sources are what they were, but for what epoll knows of them.        *)
SameSources(w, v) ==
    \A p \in Srcs : v.src[p].refs = w.src[p].refs /\ v.src[p].id = w.src[p].id
                    /\ v.src[p].tb = w.src[p].tb

(* Source o has lost one reference.                                         *)
Dropped(w, v, o) ==
    /\ v.src[o].refs = w.src[o].refs - 1
    /\ \A p \in Srcs : p # o => v.src[p] = w.src[p]
    /\ v.src[o].tb => w.src[o].tb /\ v.src[o].id = w.src[o].id

LEMMA FdIs ==
    ASSUME NEW w \in Worlds
    PROVE  create_priv_fd(w) \in Fds
<1>1. PrivFds \ w.open \in SUBSET PrivFds
    OBVIOUS
<1> QED BY <1>1 DEF create_priv_fd, Fds

LEMMA PollAddIs ==
    ASSUME NEW w \in Worlds, NEW o \in Srcs, NEW v, v = PollAdd(w, o)
    PROVE  /\ v \in Worlds /\ SameSources(w, v)
           /\ \A e \in v.interest : e \in w.interest \/ e[2] = o
<1> DEFINE private == w.src[o].type # "FD"
<1>1. PICK fd : fd = IF private THEN create_priv_fd(w) ELSE w.src[o].id
    OBVIOUS
<1>2. /\ w.src \in [Srcs -> Source] /\ w.open \subseteq Fds /\ w.interest \subseteq Fds \X Srcs
      /\ w.src[o] \in Source
    BY DEF Worlds
<1>3. fd \in Fds
    <2>1. w.src[o].id \in Fds
        BY <1>2 DEF Source, Fds
    <2> QED BY <1>1, <2>1, FdIs
<1>4. PICK b : b = (private /\ o \in ready) /\ b \in BOOLEAN
    OBVIOUS
<1>5. PICK s : s = [w.src[o] EXCEPT !.fd = fd, !.ev = TRUE, !.fresh = b]
    OBVIOUS
<1>6. s \in Source /\ s.refs = w.src[o].refs /\ s.id = w.src[o].id /\ s.tb = w.src[o].tb
    BY <1>2, <1>3, <1>4, <1>5 DEF Source
<1>7. PICK op, i : /\ op = IF private THEN w.open \cup {fd} ELSE w.open
                   /\ i = IF AddFails(w, o) THEN w.interest ELSE w.interest \cup {<<fd, o>>}
    OBVIOUS
<1>8. op \subseteq Fds /\ i \subseteq Fds \X Srcs /\ \A e \in i : e \in w.interest \/ e[2] = o
    BY <1>2, <1>3, <1>7
<1>9. v = [w EXCEPT !.src[o].fd = fd, !.src[o].ev = TRUE, !.src[o].fresh = b, !.open = op, !.interest = i]
    BY <1>1, <1>4, <1>7 DEF PollAdd
<1>10. PICK x : x = [w EXCEPT !.src[o].fd = fd, !.src[o].ev = TRUE, !.src[o].fresh = b]
    OBVIOUS
<1>11. x = [w EXCEPT !.src = [w.src EXCEPT ![o] = s]]
    BY <1>2, <1>5, <1>10 DEF Worlds
<1>12. x \in Worlds /\ x.src[o] = s /\ \A p \in Srcs : p # o => x.src[p] = w.src[p]
    BY <1>2, <1>6, <1>11 DEF Worlds
<1>13. v = [x EXCEPT !.open = op, !.interest = i]
    BY <1>9, <1>10
<1>14. v \in Worlds /\ v.interest = i /\ v.src = x.src
    BY <1>8, <1>12, <1>13 DEF Worlds
<1> QED BY <1>6, <1>8, <1>12, <1>14 DEF SameSources

LEMMA CloseIs ==
    ASSUME NEW w \in Worlds, NEW fd, NEW v, v = Close(w, fd)
    PROVE  v \in Worlds /\ v.src = w.src /\ v.interest \subseteq w.interest
BY DEF Close, Worlds

LEMMA PollRmIs ==
    ASSUME NEW w \in Worlds, NEW o \in Srcs, NEW v, v = PollRm(w, o)
    PROVE  /\ v \in Worlds /\ SameSources(w, v) /\ v.interest \subseteq w.interest
           /\ \A p \in Srcs : p # o => v.src[p] = w.src[p]
<1>1. /\ w.src \in [Srcs -> Source] /\ w.src[o] \in Source
    BY DEF Worlds
<1>2. PICK fd : fd = w.src[o].fd
    OBVIOUS
<1>3. PICK out : out = [w EXCEPT !.src[o].ev = FALSE, !.off = @ \ {fd},
                                 !.interest = {e \in @ : e[1] # fd}]
    OBVIOUS
<1>4. PICK s : s = [w.src[o] EXCEPT !.ev = FALSE]
    OBVIOUS
<1>5. s \in Source /\ s.refs = w.src[o].refs /\ s.id = w.src[o].id /\ s.tb = w.src[o].tb
    BY <1>1, <1>4 DEF Source
<1>6. out = [w EXCEPT !.src = [w.src EXCEPT ![o] = s], !.off = w.off \ {fd},
                      !.interest = {e \in w.interest : e[1] # fd}]
    BY <1>1, <1>3, <1>4 DEF Worlds
<1>7. /\ out \in Worlds /\ out.interest \subseteq w.interest
      /\ out.src[o] = s /\ \A p \in Srcs : p # o => out.src[p] = w.src[p]
    BY <1>1, <1>5, <1>6 DEF Worlds
<1>8. PICK c : c = Close(out, fd)
    OBVIOUS
<1>9. c \in Worlds /\ c.src = out.src /\ c.interest \subseteq out.interest
    BY <1>7, <1>8, CloseIs
<1>10. PICK d : d = [c EXCEPT !.src[o].fd = -1]
    OBVIOUS
<1>11. PICK z : z = [c.src[o] EXCEPT !.fd = -1]
    OBVIOUS
<1>12. z \in Source /\ z.refs = w.src[o].refs /\ z.id = w.src[o].id /\ z.tb = w.src[o].tb
    BY <1>5, <1>7, <1>9, <1>11 DEF Source, Fds
<1>13. d = [c EXCEPT !.src = [c.src EXCEPT ![o] = z]]
    BY <1>9, <1>10, <1>11 DEF Worlds
<1>14. /\ d \in Worlds /\ d.interest \subseteq w.interest
       /\ d.src[o] = z /\ \A p \in Srcs : p # o => d.src[p] = w.src[p]
    BY SMTT(30), <1>7, <1>9, <1>12, <1>13 DEF Worlds
<1>15. v = IF ~w.src[o].ev THEN w ELSE IF w.src[o].type = "FD" THEN out ELSE d
    BY <1>2, <1>3, <1>8, <1>10 DEF PollRm
<1> QED BY <1>5, <1>7, <1>12, <1>14, <1>15 DEF SameSources

LEMMA NoSrcIs == NoSrc \in Source /\ NoSrc.refs = 0 /\ ~NoSrc.tb
<1>1. -1 \in Fds
    BY DEF Fds
<1>2. 0 \in Nat
    BY DEF ClockId
<1> QED BY <1>1, <1>2 DEF NoSrc, Source, Kinds

LEMMA UnrefIs ==
    ASSUME NEW w \in Worlds, NEW o \in Srcs, NEW v, v = Unref(w, o)
    PROVE  /\ v \in Worlds /\ v.interest \subseteq w.interest
           /\ w.src[o].refs > 0 => Dropped(w, v, o)
<1>1. w.src[o] \in Source /\ w.src[o].refs \in Nat
    BY DEF Worlds, Source
<1>2. CASE w.src[o].refs > 1
    <2>1. v = [w EXCEPT !.src[o].refs = @ - 1]
        BY <1>2 DEF Unref
    <2>2. PICK s : s = [w.src[o] EXCEPT !.refs = @ - 1]
        OBVIOUS
    <2>3. w.src[o].refs - 1 \in Nat
        BY <1>1, <1>2
    <2>4. s \in Source /\ s.refs = w.src[o].refs - 1 /\ s.id = w.src[o].id /\ s.tb = w.src[o].tb
        BY <1>1, <2>2, <2>3 DEF Source
    <2>5. v = [w EXCEPT !.src = [w.src EXCEPT ![o] = s]]
        BY <2>1, <2>2 DEF Worlds
    <2>6. /\ v \in Worlds /\ v.interest = w.interest
          /\ v.src[o] = s /\ \A p \in Srcs : p # o => v.src[p] = w.src[p]
        BY <2>4, <2>5 DEF Worlds
    <2> QED BY <2>4, <2>6 DEF Dropped
<1>3. CASE ~(w.src[o].refs > 1)
    <2>1. w.src[o].refs > 0 => w.src[o].refs - 1 = 0
        BY <1>1, <1>3
    <2>2. PICK u : u = IF Running THEN PollRm(w, o) ELSE w
        OBVIOUS
    <2>3. /\ u \in Worlds /\ SameSources(w, u) /\ u.interest \subseteq w.interest
          /\ \A p \in Srcs : p # o => u.src[p] = w.src[p]
        BY <2>2, PollRmIs DEF SameSources
    <2>4. PICK c : c = IF w.src[o].autoclose THEN Close(u, w.src[o].id) ELSE u
        OBVIOUS
    <2>5. c \in Worlds /\ c.src = u.src /\ c.interest \subseteq u.interest
        BY <2>3, <2>4, CloseIs
    <2>6. v = IF \E e \in c.interest : e[2] = o THEN [c EXCEPT !.src[o].refs = 0]
              ELSE [c EXCEPT !.src[o] = NoSrc]
        BY <1>3, <2>2, <2>4 DEF Unref
    <2>7. PICK s : s = IF \E e \in c.interest : e[2] = o THEN [c.src[o] EXCEPT !.refs = 0] ELSE NoSrc
        OBVIOUS
    <2>8. c.src[o] \in Source /\ c.src[o].id = w.src[o].id /\ c.src[o].tb = w.src[o].tb
        BY <2>3, <2>5 DEF SameSources, Worlds
    <2>9. s \in Source /\ s.refs = 0 /\ (s.tb => s.id = w.src[o].id /\ w.src[o].tb)
        <3>1. CASE \E e \in c.interest : e[2] = o
            BY <2>7, <2>8, <3>1 DEF Source
        <3>2. CASE ~\E e \in c.interest : e[2] = o
            BY <2>7, <3>2, NoSrcIs
        <3> QED BY <3>1, <3>2
    <2>10. v = [c EXCEPT !.src = [c.src EXCEPT ![o] = s]]
        BY <2>6, <2>7 DEF Worlds
    <2>11. /\ v \in Worlds /\ v.interest = c.interest
           /\ v.src[o] = s /\ \A p \in Srcs : p # o => v.src[p] = c.src[p]
        BY <2>5, <2>9, <2>10 DEF Worlds
    <2> QED BY <2>1, <2>3, <2>5, <2>9, <2>11 DEF Dropped
<1> QED BY <1>2, <1>3

-----------------------------------------------------------------------------
(***************************************************************************)
(* One tree: an insertion where a search ended, and a removal from there.   *)
(***************************************************************************)
LEMMA FindGood ==
    ASSUME NEW t, NEW m, GoodTree(t, m), NEW cmp, NEW l, l = bst_find(t, cmp)
    PROVE  /\ l \in Links /\ (l = Root \/ l[1] \in TreeNodes(t))
           /\ t.child[l] # 0 => t.child[l] \in TreeNodes(t) /\ cmp[t.data[t.child[l]]] = 0
<1>1. PICK D : Shape(t, D)
    BY DEF GoodTree
<1>2. FoundFrom(t, D, cmp, Root, l)
    BY <1>1, FindIs
<1>3. l \in Links /\ (l = Root \/ l[1] \in D[t.child[Root]])
      /\ (t.child[l] = 0 \/ cmp[t.data[t.child[l]]] = 0)
    BY <1>2 DEF FoundFrom
<1>4. D[t.child[Root]] = TreeNodes(t)
    BY <1>1 DEF Shape
<1>5. t.child[l] # 0 => t.child[l] \in TreeNodes(t)
    BY <1>1, <1>3, LinkHolder
<1> QED BY <1>3, <1>4, <1>5

LEMMA HasRoom ==
    ASSUME NEW t, NEW m \in Nat, GoodTree(t, m), m < BstMax
    PROVE  TreeNodes(t) # BstNodes
<1>1. SUFFICES ASSUME TreeNodes(t) = BstNodes PROVE FALSE
    OBVIOUS
<1>2. BstMax \in Nat /\ BstNodes = 1..BstMax
    BY LinksAre
<1>3. PICK f : f = [n \in BstNodes |-> t.data[n]]
    OBVIOUS
<1>4. f \in [BstNodes -> 1..m]
    <2>1. \A n \in BstNodes : t.data[n] \in TreeData(t)
        BY <1>1 DEF TreeData
    <2>2. TreeData(t) \subseteq 1..m
        BY DEF GoodTree
    <2> QED BY <1>3, <2>1, <2>2
<1>5. /\ IsFiniteSet(BstNodes) /\ Cardinality(BstNodes) = BstMax
      /\ IsFiniteSet(1..m) /\ Cardinality(1..m) = m
    BY SMTT(30), <1>2, FS_Interval
<1>6. PICK a, b \in BstNodes : a # b /\ f[a] = f[b]
    BY <1>2, <1>4, <1>5, FS_PigeonHole
<1>7. Distinct(t)
    BY DEF GoodTree
<1> QED BY <1>1, <1>3, <1>6, <1>7 DEF Distinct

LEMMA InsertGood ==
    ASSUME NEW t, NEW m, GoodTree(t, m), m \in 0..(MaxSrcs - 1), NEW l \in Links, t.child[l] = 0,
           l = Root \/ l[1] \in TreeNodes(t), NEW o, o = m + 1, NEW u, u = insert_node(t, l, o)
    PROVE  GoodTree(u, o) /\ TreeData(u) = TreeData(t) \cup {o}
<1>1. PICK D : Shape(t, D)
    BY DEF GoodTree
<1>2. m \in Nat /\ m < BstMax /\ o \in Srcs /\ o \in Elems
    BY ConstantsAre
<1>3. TreeNodes(t) # BstNodes
    BY <1>2, HasRoom
<1>4. PICK F : /\ Shape(u, F) /\ TreeData(u) = TreeData(t) \cup {o}
               /\ (\A a, b \in TreeNodes(t) : t.data[a] = t.data[b] => a = b) /\ o \notin TreeData(t)
                      => \A a, b \in TreeNodes(u) : u.data[a] = u.data[b] => a = b
    BY <1>1, <1>2, <1>3, InsertTree
<1>5. Distinct(t) /\ TreeData(t) \subseteq 1..m
    BY DEF GoodTree
<1>6. o \notin TreeData(t) /\ TreeData(u) \subseteq 1..o
    BY <1>2, <1>4, <1>5
<1>7. Distinct(u)
    BY <1>4, <1>5, <1>6 DEF Distinct
<1> QED BY <1>4, <1>6, <1>7 DEF GoodTree

LEMMA RemoveGood ==
    ASSUME NEW t, NEW m, GoodTree(t, m), NEW l \in Links, t.child[l] # 0, ~TwoChildren(t, l),
           NEW x, x = t.data[t.child[l]], NEW u, u = remove_node(t, l)
    PROVE  GoodTree(u, m) /\ TreeData(u) = TreeData(t) \ {x} /\ x \in TreeData(t) /\ DtorArg(t, l) = x
<1>1. PICK D : Shape(t, D)
    BY DEF GoodTree
<1>2. PICK v, F : /\ Removes(t, D, l, v, u, F)
                  /\ Distinct(t) => Distinct(u) /\ TreeData(u) = TreeData(t) \ {x}
                  /\ ~TwoChildren(t, l) => v = t.child[l] /\ DtorArg(t, l) = x
    BY <1>1, RemoveTree
<1>3. Shape(u, F) /\ x \in TreeData(t)
    BY <1>2 DEF Removes, TreeData
<1> QED BY <1>2, <1>3 DEF GoodTree

LEMMA EmptyGood ==
    ASSUME NEW m
    PROVE  GoodTree(EmptyTree, m) /\ TreeData(EmptyTree) = {}
<1>1. TreeNodes(EmptyTree) = {}
    BY DEF TreeNodes, EmptyTree
<1> QED BY <1>1, EmptyShape DEF GoodTree, Distinct, TreeData

LEMMA GrownBound ==
    ASSUME NEW t, NEW m \in Nat, GoodTree(t, m)
    PROVE  GoodTree(t, m + 1)
BY DEF GoodTree

-----------------------------------------------------------------------------
(***************************************************************************)
(* The trees of the module.                                                *)
(***************************************************************************)
LEMMA MembersAre ==
    ASSUME NEW t, NEW m \in 0..MaxSrcs, Forest(t, m)
    PROVE  /\ Members(t) = TreeData(t[kind]) \cup TreeData(t["TMR"])
           /\ Members(t) \subseteq Srcs /\ \A o \in Members(t) : o <= m
           /\ DOMAIN t = {kind, "TMR"}
<1>1. DOMAIN t = {kind, "TMR"}
    BY DEF Forest
<1>2. Members(t) = TreeData(t[kind]) \cup TreeData(t["TMR"])
    BY <1>1 DEF Members
<1>3. \A k \in {kind, "TMR"} : TreeData(t[k]) \subseteq 1..m
    BY DEF Forest, GoodTree
<1> QED BY <1>1, <1>2, <1>3, ConstantsAre

(* A source that no tree has goes into one of them.                         *)
Planted(t, k, l, o, u) ==
    /\ k \in {kind, "TMR"} /\ l \in Links /\ t[k].child[l] = 0
    /\ l = Root \/ l[1] \in TreeNodes(t[k])
    /\ u = [t EXCEPT ![k] = insert_node(@, l, o)]

LEMMA InsertForest ==
    ASSUME NEW t, NEW m \in 0..(MaxSrcs - 1), Forest(t, m), NEW o, o = m + 1,
           NEW k, NEW l, NEW u, Planted(t, k, l, o, u)
    PROVE  /\ Forest(u, o) /\ Members(u) = Members(t) \cup {o}
           /\ TreeData(u["TMR"]) = TreeData(t["TMR"]) \cup (IF k = "TMR" THEN {o} ELSE {})
<1>0. /\ k \in {kind, "TMR"} /\ l \in Links /\ t[k].child[l] = 0
      /\ l = Root \/ l[1] \in TreeNodes(t[k])
      /\ u = [t EXCEPT ![k] = insert_node(@, l, o)]
    BY DEF Planted
<1>1. GoodTree(t[k], m) /\ t = [j \in {kind, "TMR"} |-> t[j]]
    BY <1>0 DEF Forest
<1>2. PICK x : x = insert_node(t[k], l, o)
    OBVIOUS
<1>3. GoodTree(x, o) /\ TreeData(x) = TreeData(t[k]) \cup {o}
    BY <1>0, <1>1, <1>2, InsertGood
<1>4. /\ u = [j \in {kind, "TMR"} |-> u[j]]
      /\ u[k] = x /\ \A j \in {kind, "TMR"} : j # k => u[j] = t[j]
    BY <1>0, <1>1, <1>2
<1>5. \A j \in {kind, "TMR"} : GoodTree(t[j], o)
    BY GrownBound DEF Forest
<1>6. \A j \in {kind, "TMR"} : GoodTree(u[j], o)
    BY <1>3, <1>4, <1>5
<1>7. \A j \in {kind, "TMR"} : TreeData(u[j]) = TreeData(t[j]) \cup (IF j = k THEN {o} ELSE {})
    BY <1>3, <1>4
<1>8. \A j \in {kind, "TMR"} : o \notin TreeData(t[j])
    BY DEF Forest, GoodTree
<1>9. kind # "TMR" => TreeData(u[kind]) \cap TreeData(u["TMR"]) = {}
    <2>1. kind # "TMR" => TreeData(t[kind]) \cap TreeData(t["TMR"]) = {}
        BY DEF Forest
    <2>2. o \notin TreeData(t[kind]) /\ o \notin TreeData(t["TMR"])
        BY <1>8
    <2>3. /\ TreeData(u[kind]) = TreeData(t[kind]) \cup (IF kind = k THEN {o} ELSE {})
          /\ TreeData(u["TMR"]) = TreeData(t["TMR"]) \cup (IF "TMR" = k THEN {o} ELSE {})
        BY <1>7
    <2> QED BY <2>1, <2>2, <2>3
<1>10. Forest(u, o)
    BY <1>4, <1>6, <1>9 DEF Forest
<1>11. Members(u) = TreeData(u[kind]) \cup TreeData(u["TMR"])
    BY <1>4 DEF Members
<1>12. Members(t) = TreeData(t[kind]) \cup TreeData(t["TMR"])
    BY SMTT(30), ConstantsAre, MembersAre
<1> QED BY <1>7, <1>10, <1>11, <1>12

(* A source goes from the tree that has it.                                 *)
Uprooted(t, k, l, x, u) ==
    /\ k \in {kind, "TMR"} /\ l \in Links /\ t[k].child[l] # 0 /\ ~TwoChildren(t[k], l)
    /\ x = t[k].data[t[k].child[l]]
    /\ u = [t EXCEPT ![k] = remove_node(@, l)]

LEMMA RemoveForest ==
    ASSUME NEW t, NEW m \in 0..MaxSrcs, Forest(t, m), NEW k, NEW l, NEW x, NEW u, Uprooted(t, k, l, x, u)
    PROVE  /\ Forest(u, m) /\ Members(u) = Members(t) \ {x} /\ x \in Members(t)
           /\ TreeData(u["TMR"]) = TreeData(t["TMR"]) \ {x}
           /\ x \in TreeData(t[k]) /\ DtorArg(t[k], l) = x
<1>0. /\ k \in {kind, "TMR"} /\ l \in Links /\ t[k].child[l] # 0 /\ ~TwoChildren(t[k], l)
      /\ x = t[k].data[t[k].child[l]]
      /\ u = [t EXCEPT ![k] = remove_node(@, l)]
    BY DEF Uprooted
<1>1. GoodTree(t[k], m) /\ t = [j \in {kind, "TMR"} |-> t[j]]
    BY <1>0 DEF Forest
<1>2. PICK y : y = remove_node(t[k], l)
    OBVIOUS
<1>3. /\ GoodTree(y, m) /\ TreeData(y) = TreeData(t[k]) \ {x} /\ x \in TreeData(t[k])
      /\ DtorArg(t[k], l) = x
    BY <1>0, <1>1, <1>2, RemoveGood
<1>4. /\ u = [j \in {kind, "TMR"} |-> u[j]]
      /\ u[k] = y /\ \A j \in {kind, "TMR"} : j # k => u[j] = t[j]
    BY <1>0, <1>1, <1>2
<1>5. \A j \in {kind, "TMR"} : GoodTree(u[j], m)
    BY <1>3, <1>4 DEF Forest
<1>6. \A j \in {kind, "TMR"} : j # k => x \notin TreeData(t[j])
    BY <1>0, <1>3 DEF Forest
<1>7. \A j \in {kind, "TMR"} : TreeData(u[j]) = TreeData(t[j]) \ {x}
    BY <1>3, <1>4, <1>6
<1>8. Forest(u, m)
    BY <1>4, <1>5, <1>7 DEF Forest
<1>9. Members(u) = TreeData(u[kind]) \cup TreeData(u["TMR"])
    BY <1>4 DEF Members
<1>10. Members(t) = TreeData(t[kind]) \cup TreeData(t["TMR"])
    BY MembersAre
<1> QED BY <1>0, <1>3, <1>7, <1>8, <1>9, <1>10

LEMMA EmptyForest ==
    ASSUME NEW t, t = [k \in {kind, "TMR"} |-> EmptyTree], NEW m
    PROVE  Forest(t, m) /\ Members(t) = {}
BY EmptyGood DEF Forest, Members

-----------------------------------------------------------------------------
(***************************************************************************)
(* The events and the references they hold.                                 *)
(***************************************************************************)
LEMMA FewEvents ==
    ASSUME NEW some, some \subseteq Events
    PROVE  IsFiniteSet(some) /\ Cardinality(some) \in Nat
<1>1. IsFiniteSet(1..MaxEvents)
    BY SourcesAssumption, FS_Interval
<1>2. IsFiniteSet(some)
    BY <1>1, FS_Subset DEF Events
<1> QED BY <1>2, FS_CardinalityType

LEMMA HeldTyped ==
    ASSUME NEW ev
    PROVE  HeldBy(ev) \in [Srcs -> Nat]
<1>1. \A o \in Srcs : Cardinality({e \in Events : ev[e].src = o}) \in Nat
    BY FewEvents
<1> QED BY <1>1 DEF HeldBy

(* No event comes or goes: they are only moved between the queues.           *)
SameEvents(ev, vw) ==
    EventsOK(ev) => EventsOK(vw) /\ HeldBy(vw) = HeldBy(ev)

LEMMA SameHeld ==
    ASSUME NEW ev, NEW f, NEW vw, vw = [e \in Events |-> [ev[e] EXCEPT !.at = f[e]]],
           f \in [Events -> SUBSET Queues]
    PROVE  SameEvents(ev, vw)
<1>1. SUFFICES ASSUME EventsOK(ev) PROVE EventsOK(vw) /\ HeldBy(vw) = HeldBy(ev)
    BY DEF SameEvents
<1>2. ASSUME NEW e \in Events
      PROVE  vw[e] \in [src : {0} \cup Srcs, at : SUBSET Queues] /\ vw[e].src = ev[e].src
    <2>1. PICK x : x = f[e] /\ x \in SUBSET Queues
        OBVIOUS
    <2>2. vw[e] = [ev[e] EXCEPT !.at = x] /\ ev[e] \in [src : {0} \cup Srcs, at : SUBSET Queues]
        BY <1>1, <2>1 DEF EventsOK
    <2> QED BY <2>1, <2>2
<1>3. EventsOK(vw)
    <2>1. vw = [e \in Events |-> vw[e]]
        OBVIOUS
    <2> QED BY <1>2, <2>1 DEF EventsOK
<1>4. \A o \in Srcs : {e \in Events : vw[e].src = o} = {e \in Events : ev[e].src = o}
    BY <1>2
<1> QED BY <1>3, <1>4 DEF HeldBy

LEMMA FreeSame ==
    ASSUME NEW queues
    PROVE  SameEvents(events, Free(queues))
<1>1. SUFFICES ASSUME EventsOK(events) PROVE SameEvents(events, Free(queues))
    BY DEF SameEvents
<1>2. PICK f : f = [e \in Events |-> events[e].at \ queues]
    OBVIOUS
<1>3. f \in [Events -> SUBSET Queues]
    BY <1>1, <1>2 DEF EventsOK
<1>4. Free(queues) = [e \in Events |-> [events[e] EXCEPT !.at = f[e]]]
    BY <1>2 DEF Free
<1> QED BY ONLY <1>3, <1>4, SameHeld

LEMMA MoveSame ==
    ASSUME NEW ev, NEW some, NEW from, NEW to \in Queues
    PROVE  SameEvents(ev, Move(ev, some, from, to))
<1>1. SUFFICES ASSUME EventsOK(ev) PROVE SameEvents(ev, Move(ev, some, from, to))
    BY DEF SameEvents
<1>2. PICK f : f = [e \in Events |-> IF e \in some THEN (ev[e].at \ {from}) \cup {to} ELSE ev[e].at]
    OBVIOUS
<1>3. f \in [Events -> SUBSET Queues]
    BY <1>1, <1>2 DEF EventsOK
<1>4. ASSUME NEW e \in Events
      PROVE  (IF e \in some THEN [ev[e] EXCEPT !.at = (@ \ {from}) \cup {to}] ELSE ev[e])
             = [ev[e] EXCEPT !.at = f[e]]
    <2>1. ev[e] \in [src : {0} \cup Srcs, at : SUBSET Queues]
        BY <1>1 DEF EventsOK
    <2> QED BY <1>2, <2>1
<1>5. Move(ev, some, from, to) = [e \in Events |-> [ev[e] EXCEPT !.at = f[e]]]
    BY <1>4 DEF Move
<1> QED BY ONLY <1>3, <1>5, SameHeld

LEMMA HandOverSame ==
    ASSUME NEW ev
    PROVE  SameEvents(ev, HandOver(ev))
<1>1. "outer" \in Queues
    BY DEF Queues
<1> QED BY <1>1, MoveSame DEF HandOver

LEMMA StashSame ==
    ASSUME NEW e \in Events
    PROVE  SameEvents(events, [events EXCEPT ![e].at = @ \cup {"stash"}])
<1>1. SUFFICES ASSUME EventsOK(events)
               PROVE  SameEvents(events, [events EXCEPT ![e].at = @ \cup {"stash"}])
    BY DEF SameEvents
<1>2. PICK f : f = [i \in Events |-> IF i = e THEN events[i].at \cup {"stash"} ELSE events[i].at]
    OBVIOUS
<1>3. f \in [Events -> SUBSET Queues]
    BY <1>1, <1>2 DEF EventsOK, Queues
<1>4. ASSUME NEW i \in Events
      PROVE  [events EXCEPT ![e].at = @ \cup {"stash"}][i] = [events[i] EXCEPT !.at = f[i]]
    <2>1. events[i] \in [src : {0} \cup Srcs, at : SUBSET Queues]
        BY <1>1 DEF EventsOK
    <2> QED BY <1>1, <1>2, <2>1 DEF EventsOK
<1>5. [events EXCEPT ![e].at = @ \cup {"stash"}] = [i \in Events |-> [events[i] EXCEPT !.at = f[i]]]
    BY <1>1, <1>4 DEF EventsOK
<1> QED BY ONLY <1>3, <1>5, SameHeld

(* An event of o is made.                                                   *)
EventAdded(ev, e, o, vw) ==
    /\ EventsOK(ev) /\ e \in Events /\ ev[e].src = 0 /\ o \in Srcs
    /\ vw = [ev EXCEPT ![e] = [src |-> o, at |-> {"batch"}]]

LEMMA EventMade ==
    ASSUME NEW ev, NEW e, NEW o, NEW vw, EventAdded(ev, e, o, vw)
    PROVE  EventsOK(vw) /\ HeldBy(vw) = [HeldBy(ev) EXCEPT ![o] = @ + 1]
<1>5. /\ EventsOK(ev) /\ e \in Events /\ ev[e].src = 0 /\ o \in Srcs
      /\ vw = [ev EXCEPT ![e] = [src |-> o, at |-> {"batch"}]]
    BY DEF EventAdded
<1>1. vw \in [Events -> [src : {0} \cup Srcs, at : SUBSET Queues]]
    BY <1>5 DEF EventsOK, Queues
<1>2. vw[e].src = o /\ \A i \in Events : i # e => vw[i].src = ev[i].src
    BY <1>5 DEF EventsOK
<1>3. ASSUME NEW p \in Srcs
      PROVE  HeldBy(vw)[p] = IF p = o THEN HeldBy(ev)[p] + 1 ELSE HeldBy(ev)[p]
    <2>1. PICK s, r : s = {i \in Events : ev[i].src = p} /\ r = {i \in Events : vw[i].src = p}
        OBVIOUS
    <2>2. HeldBy(ev)[p] = Cardinality(s) /\ HeldBy(vw)[p] = Cardinality(r)
        BY <2>1 DEF HeldBy
    <2>3. p # 0
        BY ConstantsAre
    <2>4. CASE p = o
        <3>1. r = s \cup {e} /\ e \notin s
            BY <1>2, <1>5, <2>1, <2>3, <2>4
        <3>2. IsFiniteSet(s)
            BY <2>1, FewEvents
        <3>3. Cardinality(s \cup {e}) = Cardinality(s) + 1
            BY <3>1, <3>2, FS_AddElement
        <3> QED BY <2>2, <2>4, <3>1, <3>3
    <2>5. CASE p # o
        <3>1. r = s
            BY <1>2, <1>5, <2>1, <2>3, <2>5
        <3> QED BY <2>2, <2>5, <3>1
    <2> QED BY <2>4, <2>5
<1>4. HeldBy(vw) = [HeldBy(ev) EXCEPT ![o] = @ + 1]
    <2>1. HeldBy(vw) \in [Srcs -> Nat] /\ HeldBy(ev) \in [Srcs -> Nat]
        BY HeldTyped
    <2> QED BY ONLY <1>3, <1>5, <2>1
<1> QED BY <1>1, <1>4 DEF EventsOK

(* An event of o is gone.                                                   *)
EventTaken(ev, e, o, vw) ==
    /\ EventsOK(ev) /\ e \in Events /\ ev[e].src = o /\ o \in Srcs
    /\ vw = [ev EXCEPT ![e] = NoEvent]

LEMMA EventGone ==
    ASSUME NEW ev, NEW e, NEW o, NEW vw, EventTaken(ev, e, o, vw)
    PROVE  EventsOK(vw) /\ HeldBy(ev)[o] > 0 /\ HeldBy(vw) = [HeldBy(ev) EXCEPT ![o] = @ - 1]
<1>5. /\ EventsOK(ev) /\ e \in Events /\ ev[e].src = o /\ o \in Srcs
      /\ vw = [ev EXCEPT ![e] = NoEvent]
    BY DEF EventTaken
<1>1. vw \in [Events -> [src : {0} \cup Srcs, at : SUBSET Queues]]
    BY <1>5 DEF EventsOK, NoEvent
<1>2. vw[e].src = 0 /\ \A i \in Events : i # e => vw[i].src = ev[i].src
    BY <1>5 DEF EventsOK, NoEvent
<1>3. ASSUME NEW p \in Srcs
      PROVE  /\ HeldBy(vw)[p] = IF p = o THEN HeldBy(ev)[p] - 1 ELSE HeldBy(ev)[p]
             /\ p = o => HeldBy(ev)[p] > 0
    <2>1. PICK s, r : s = {i \in Events : ev[i].src = p} /\ r = {i \in Events : vw[i].src = p}
        OBVIOUS
    <2>2. HeldBy(ev)[p] = Cardinality(s) /\ HeldBy(vw)[p] = Cardinality(r)
        BY <2>1 DEF HeldBy
    <2>3. p # 0
        BY ConstantsAre
    <2>4. CASE p = o
        <3>1. r = s \ {e} /\ e \in s
            BY <1>2, <1>5, <2>1, <2>3, <2>4
        <3>2. IsFiniteSet(s) /\ Cardinality(s) \in Nat /\ Cardinality(r) \in Nat
            BY <2>1, FewEvents
        <3>3. Cardinality(s \ {e}) = Cardinality(s) - 1
            BY <3>1, <3>2, FS_RemoveElement
        <3>4. Cardinality(r) = Cardinality(s) - 1
            BY <3>1, <3>3
        <3>5. Cardinality(s) > 0
            BY <3>2, <3>4
        <3> QED BY <2>2, <2>4, <3>4, <3>5
    <2>5. CASE p # o
        <3>1. r = s
            BY <1>2, <1>5, <2>1, <2>3, <2>5
        <3> QED BY <2>2, <2>5, <3>1
    <2> QED BY <2>4, <2>5
<1>4. HeldBy(vw) = [HeldBy(ev) EXCEPT ![o] = @ - 1]
    <2>1. HeldBy(vw) \in [Srcs -> Nat] /\ HeldBy(ev) \in [Srcs -> Nat]
        BY HeldTyped
    <2> QED BY ONLY <1>3, <1>5, <2>1
<1> QED BY <1>1, <1>3, <1>4, <1>5 DEF EventsOK

(* The event that is used next.                                             *)
LEMMA UnusedIs ==
    ASSUME NEW some, some \subseteq Events, some # {}
    PROVE  Min(some) \in some
<1>1. some \subseteq Nat
    BY SourcesAssumption DEF Events
<1>2. \E x \in some : \A y \in some : x <= y
    BY <1>1, LeastNat
<1> QED BY <1>2 DEF Min

-----------------------------------------------------------------------------
(***************************************************************************)
(* Steps on the trees and the world together.                               *)
(***************************************************************************)
(* Fewer timers of a bucket, and those as they were.                        *)
Fewer(t, s, u, v) == \A o \in Bucketed(u, v) : o \in Bucketed(t, s) /\ v[o].id = s[o].id

LEMMA FewerKeeps ==
    ASSUME NEW t, NEW w, NEW u, NEW v, Fewer(t, w.src, u, v.src), NEW h, NEW g, h \subseteq g,
           NEW b, NEW c, b.period = c.period
    PROVE  TimerOK(h, t, w, b) => TimerOK(g, u, v, c)
<1>1. SUFFICES ASSUME TimerOK(h, t, w, b), g \cap {"lost", "wrong"} = {} PROVE OneTimer(u, v.src, c)
    BY DEF TimerOK
<1>2. h \cap {"lost", "wrong"} = {}
    BY <1>1
<1>3. OneTimer(t, w.src, b)
    BY <1>1, <1>2 DEF TimerOK
<1> QED BY <1>3 DEF OneTimer, Fewer

LEMMA BaseIs ==
    ASSUME NEW t, NEW w, NEW m, NEW c, NEW r, NEW j, Base(t, w, m, c, r, j)
    PROVE  /\ Members(t) = TreeData(t[kind]) \cup TreeData(t["TMR"]) /\ Members(t) \subseteq Srcs
           /\ \A o \in Members(t) : o <= m /\ w.src[o].refs > 0
           /\ DOMAIN t = {kind, "TMR"}
           /\ \A o \in Srcs : w.src[o] \in Source /\ w.src[o].refs \in Nat
           /\ c \in [Srcs -> Nat]
           /\ \A o \in Srcs : w.src[o].refs = (IF o \in Members(t) THEN 1 ELSE 0) + c[o]
<1>1. /\ Members(t) = TreeData(t[kind]) \cup TreeData(t["TMR"])
      /\ Members(t) \subseteq Srcs /\ \A o \in Members(t) : o <= m
      /\ DOMAIN t = {kind, "TMR"}
    BY MembersAre DEF Base
<1>2. \A o \in Srcs : w.src[o] \in Source /\ w.src[o].refs \in Nat
    BY DEF Base, Worlds, Source
<1>3. \A o \in Srcs : w.src[o].refs = (IF o \in Members(t) THEN 1 ELSE 0) + c[o]
    BY DEF Base, Counted
<1>4. c \in [Srcs -> Nat]
    BY DEF Base
<1>5. \A o \in Members(t) : w.src[o].refs > 0
    <2>1. SUFFICES ASSUME NEW o \in Members(t) PROVE w.src[o].refs > 0
        OBVIOUS
    <2>2. o \in Srcs /\ c[o] \in Nat /\ w.src[o].refs = 1 + c[o]
        BY <1>1, <1>3, <1>4, <2>1
    <2> QED BY <2>2
<1> QED BY <1>1, <1>2, <1>3, <1>4, <1>5

(* A source that was not created yet has no event.                           *)
LEMMA NoneHeld ==
    ASSUME NEW t, NEW w, NEW m, NEW c, NEW r, NEW j, Base(t, w, m, c, r, j),
           NEW o \in Srcs, o > m
    PROVE  o \notin Members(t) /\ c[o] = 0 /\ c \in [Srcs -> Nat]
<1>1. w.src[o].refs = 0
    BY DEF Base, Fresh
<1>2. w.src[o].refs = (IF o \in Members(t) THEN 1 ELSE 0) + c[o] /\ c \in [Srcs -> Nat]
    BY BaseIs
<1>3. c[o] \in Nat
    BY <1>2
<1> QED BY <1>1, <1>2, <1>3

(* A change of what epoll knows.                                            *)
LEMMA PollStep ==
    ASSUME NEW t, NEW w, NEW m, NEW c, NEW r, NEW j, Base(t, w, m, c, r, j),
           NEW v \in Worlds, SameSources(w, v), \A e \in v.interest : e \in w.interest \/ e[2] \in Members(t)
    PROVE  Base(t, v, m, c, r, j) /\ Fewer(t, w.src, t, v.src)
<1>1. Counted(t, v.src, c)
    BY DEF Base, Counted, SameSources
<1>2. Members(t) \subseteq Srcs /\ \A o \in Members(t) : o <= m /\ o \in Nat
    BY BaseIs, ConstantsAre
<1>3. Bucketed(t, v.src) = Bucketed(t, w.src)
    BY <1>2 DEF Bucketed, SameSources
<1>4. TimersOK(t, v.src) /\ Fewer(t, w.src, t, v.src)
    BY <1>2, <1>3 DEF Base, TimersOK, SameSources, Fewer, Bucketed
<1>5. Fresh(v.src, v.interest, r, j, m)
    <2>1. SUFFICES ASSUME NEW o \in Srcs, o > m
                   PROVE  v.src[o].refs = 0 /\ o \notin r /\ j[o] = 0 /\ \A e \in v.interest : e[2] # o
        BY DEF Fresh
    <2>2. w.src[o].refs = 0 /\ o \notin r /\ j[o] = 0 /\ \A e \in w.interest : e[2] # o
        BY <2>1 DEF Base, Fresh
    <2>3. o \notin Members(t)
        BY <1>2, <2>1 DEF Base
    <2> QED BY <2>2, <2>3 DEF SameSources
<1> QED BY <1>1, <1>4, <1>5 DEF Base

(* A source of a tree goes, with its reference.                              *)
LEMMA DropStep ==
    ASSUME NEW t, NEW w, NEW m, NEW c, NEW r, NEW j, Base(t, w, m, c, r, j), NEW x \in Members(t),
           NEW u, Forest(u, m), Members(u) = Members(t) \ {x},
           TreeData(u["TMR"]) = TreeData(t["TMR"]) \ {x},
           NEW v \in Worlds, Dropped(w, v, x), v.interest \subseteq w.interest
    PROVE  Base(u, v, m, c, r, j) /\ Fewer(t, w.src, u, v.src)
<1>1. Members(t) \subseteq Srcs /\ x \in Srcs /\ x <= m /\ x \in Nat /\ m \in Nat
    <2>1. Members(t) \subseteq Srcs /\ x <= m
        BY BaseIs
    <2>2. m \in Nat
        BY DEF Base
    <2> QED BY <2>1, <2>2, ConstantsAre
<1>2. Counted(u, v.src, c)
    <2>1. SUFFICES ASSUME NEW o \in Srcs
                   PROVE  v.src[o].refs = (IF o \in Members(u) THEN 1 ELSE 0) + c[o]
        BY DEF Counted
    <2>2. w.src[o].refs = (IF o \in Members(t) THEN 1 ELSE 0) + c[o] /\ c[o] \in Nat
        BY DEF Base, Counted
    <2>3. CASE o = x
        <3>1. v.src[o].refs = w.src[o].refs - 1
            BY <2>3 DEF Dropped
        <3> QED BY <2>2, <2>3, <3>1
    <2>4. CASE o # x
        <3>1. v.src[o] = w.src[o]
            BY <2>4 DEF Dropped
        <3> QED BY <2>2, <2>4, <3>1
    <2> QED BY <2>3, <2>4
<1>3. \A o \in Members(u) : o # x /\ o \in Srcs /\ v.src[o] = w.src[o]
    BY <1>1 DEF Dropped
<1>4. Fewer(t, w.src, u, v.src)
    BY <1>3 DEF Fewer, Bucketed
<1>5. TimersOK(u, v.src)
    BY <1>3 DEF Base, TimersOK, Bucketed
<1>6. Fresh(v.src, v.interest, r, j, m)
    <2>1. \A o \in Srcs : o > m => o # x
        BY <1>1
    <2> QED BY <2>1 DEF Base, Fresh, Dropped
<1> QED BY <1>2, <1>4, <1>5, <1>6 DEF Base

(* m_bst_remove with a key.                                                 *)
TakenOut(w, r, k) ==
    /\ r.found \in TreeData(tree[k]) /\ r.found \in Srcs
    /\ Members(r.tree) = Members(tree) \ {r.found}
    /\ Dropped(w, r.w, r.found)

LEMMA RemoveStep ==
    ASSUME NEW w, NEW m, NEW c, NEW r, NEW j, Base(tree, w, m, c, r, j), NEW k \in {kind, "TMR"},
           NEW key, NEW q, q = Removed(w, key, k), ~q.swap
    PROVE  /\ Base(q.tree, q.w, m, c, r, j) /\ Fewer(tree, w.src, q.tree, q.w.src)
           /\ q.w \in Worlds /\ q.w.interest \subseteq w.interest
           /\ \/ q.found = 0 /\ q.tree = tree /\ q.w = w
              \/ TakenOut(w, q, k)
<1>1. PICK l : l = bst_find(tree[k], Cmp(key))
    OBVIOUS
<1>2. GoodTree(tree[k], m) /\ m \in 0..MaxSrcs /\ Forest(tree, m) /\ w \in Worlds
    BY DEF Base, Forest
<1>3. /\ l \in Links
      /\ tree[k].child[l] # 0 => tree[k].child[l] \in TreeNodes(tree[k])
                                 /\ Cmp(key)[tree[k].data[tree[k].child[l]]] = 0
    BY <1>1, <1>2, FindGood
<1>4. CASE tree[k].child[l] = 0
    <2>1. q.found = 0 /\ q.tree = tree /\ q.w = w
        BY <1>1, <1>4 DEF Removed
    <2>2. Fewer(tree, w.src, tree, w.src)
        BY DEF Fewer
    <2> QED BY <1>2, <2>1, <2>2
<1>5. CASE tree[k].child[l] # 0
    <2>1. PICK x : x = tree[k].data[tree[k].child[l]]
        OBVIOUS
    <2>2. q = [tree |-> [tree EXCEPT ![k] = remove_node(@, l)],
               w |-> Unref(w, DtorArg(tree[k], l)), found |-> x, swap |-> TwoChildren(tree[k], l)]
        BY <1>1, <1>5, <2>1 DEF Removed
    <2>3. ~TwoChildren(tree[k], l)
        BY <2>2
    <2>4. PICK u : u = [tree EXCEPT ![k] = remove_node(@, l)] /\ u = q.tree
        BY <2>2
    <2>5. /\ Forest(u, m) /\ Members(u) = Members(tree) \ {x} /\ x \in Members(tree)
          /\ TreeData(u["TMR"]) = TreeData(tree["TMR"]) \ {x}
          /\ x \in TreeData(tree[k]) /\ DtorArg(tree[k], l) = x
        <3>1. Uprooted(tree, k, l, x, u)
            BY <1>3, <1>5, <2>1, <2>3, <2>4 DEF Uprooted
        <3> QED BY <1>2, <3>1, RemoveForest
    <2>6. x \in Srcs /\ w.src[x].refs > 0
        BY <2>5, BaseIs
    <2>7. q.w = Unref(w, x) /\ q.found = x
        BY <2>2, <2>5
    <2>8. q.w \in Worlds /\ Dropped(w, q.w, x) /\ q.w.interest \subseteq w.interest
        BY <1>2, <2>6, <2>7, UnrefIs
    <2>9. Base(u, q.w, m, c, r, j) /\ Fewer(tree, w.src, u, q.w.src)
        BY <2>5, <2>8, DropStep
    <2> QED BY <2>4, <2>5, <2>6, <2>7, <2>8, <2>9 DEF TakenOut
<1> QED BY <1>4, <1>5

LEMMA MaybePolled ==
    ASSUME NEW z \in Worlds, NEW o \in Srcs, NEW v \in {z, PollAdd(z, o)}
    PROVE  v \in Worlds /\ SameSources(z, v) /\ \A e \in v.interest : e \in z.interest \/ e[2] = o
<1>1. CASE v = z
    BY <1>1 DEF SameSources
<1>2. CASE v = PollAdd(z, o)
    BY <1>2, PollAddIs
<1> QED BY <1>1, <1>2

(* A new source goes into a tree, and is polled or not.                      *)
Created(w, o, s) == [w EXCEPT !.src[o] = s]
Polled(z, o, v) == v \in {z, PollAdd(z, o)}

Adding(t, w, m, c, r, j, s, o, k, l, u, z, v, i) ==
    /\ Base(t, w, m, c, r, j) /\ m < MaxSrcs /\ s \in Source /\ s.refs = 1 /\ o = m + 1
    /\ k \in {kind, "TMR"} /\ (s.tb => k = "TMR" /\ s.id # 0)
    /\ Planted(t, k, l, o, u) /\ z = Created(w, o, s) /\ Polled(z, o, v)
    /\ i \in [Srcs -> Nat] /\ \A p \in Srcs : p # o => i[p] = j[p]

Additions(t, w, c, r, s, o, u, v, i) ==
    /\ Base(u, v, o, c, r, i) /\ o \in Srcs /\ v.src[o].refs = 1
    /\ \A p \in Srcs : p # o => v.src[p].refs = w.src[p].refs /\ v.src[p].id = w.src[p].id
                                /\ v.src[p].tb = w.src[p].tb
    /\ \A e \in v.interest : e \in w.interest \/ e[2] = o
    /\ v.src[o].tb = s.tb /\ v.src[o].id = s.id
    /\ Bucketed(u, v.src) = Bucketed(t, w.src) \cup (IF s.tb THEN {o} ELSE {})

LEMMA AddStep ==
    ASSUME NEW t, NEW w, NEW m, NEW c, NEW r, NEW j, NEW s, NEW o, NEW k, NEW l, NEW u, NEW z,
           NEW v, NEW i, Adding(t, w, m, c, r, j, s, o, k, l, u, z, v, i)
    PROVE  Additions(t, w, c, r, s, o, u, v, i)
<1>0. /\ Base(t, w, m, c, r, j) /\ m < MaxSrcs /\ s \in Source /\ s.refs = 1 /\ o = m + 1
      /\ k \in {kind, "TMR"} /\ (s.tb => k = "TMR" /\ s.id # 0)
      /\ Planted(t, k, l, o, u) /\ z = Created(w, o, s) /\ Polled(z, o, v)
      /\ i \in [Srcs -> Nat] /\ \A p \in Srcs : p # o => i[p] = j[p]
    BY DEF Adding
<1>1. /\ m \in 0..(MaxSrcs - 1) /\ o \in Srcs /\ w \in Worlds /\ Forest(t, m) /\ o \in Nat /\ o # 0
      /\ m \in Nat /\ o \in 0..MaxSrcs
    BY <1>0, ConstantsAre DEF Base
<1>2. /\ Forest(u, o) /\ Members(u) = Members(t) \cup {o}
      /\ TreeData(u["TMR"]) = TreeData(t["TMR"]) \cup (IF k = "TMR" THEN {o} ELSE {})
    BY <1>0, <1>1, InsertForest
<1>3. /\ z = [w EXCEPT !.src = [w.src EXCEPT ![o] = s]] /\ w.src \in [Srcs -> Source]
    BY <1>0, <1>1 DEF Worlds, Created
<1>4. /\ z \in Worlds /\ z.src[o] = s /\ \A p \in Srcs : p # o => z.src[p] = w.src[p]
      /\ z.interest = w.interest
    BY <1>0, <1>1, <1>3 DEF Worlds
<1>5. v \in Worlds /\ SameSources(z, v) /\ \A e \in v.interest : e \in z.interest \/ e[2] = o
    BY <1>0, <1>1, <1>4, MaybePolled DEF Polled
<1>6. /\ v.src[o].refs = 1 /\ v.src[o].tb = s.tb /\ v.src[o].id = s.id
      /\ \A p \in Srcs : p # o => v.src[p].refs = w.src[p].refs /\ v.src[p].id = w.src[p].id
                                  /\ v.src[p].tb = w.src[p].tb
      /\ \A e \in v.interest : e \in w.interest \/ e[2] = o
    BY <1>0, <1>1, <1>4, <1>5 DEF SameSources
<1>7. /\ Members(t) \subseteq Srcs /\ \A p \in Members(t) : p <= m
      /\ \A p \in Srcs : w.src[p].refs = (IF p \in Members(t) THEN 1 ELSE 0) + c[p]
    BY <1>0, BaseIs
<1>8. o \notin Members(t) /\ c[o] = 0 /\ c \in [Srcs -> Nat]
    BY <1>0, <1>1, <1>7, NoneHeld
<1>9. Counted(u, v.src, c)
    <2>1. SUFFICES ASSUME NEW p \in Srcs
                   PROVE  v.src[p].refs = (IF p \in Members(u) THEN 1 ELSE 0) + c[p]
        BY DEF Counted
    <2>2. CASE p = o
        BY <1>2, <1>6, <1>8, <2>2
    <2>3. CASE p # o
        <3>1. w.src[p].refs = (IF p \in Members(t) THEN 1 ELSE 0) + c[p]
            BY <1>7
        <3>2. v.src[p].refs = w.src[p].refs /\ (p \in Members(u) <=> p \in Members(t))
            BY <1>2, <1>6, <2>3
        <3> QED BY <3>1, <3>2
    <2> QED BY <2>2, <2>3
<1>10. Bucketed(u, v.src) = Bucketed(t, w.src) \cup (IF s.tb THEN {o} ELSE {})
    <2>1. \A p \in Members(t) : p # o /\ v.src[p].tb = w.src[p].tb
        BY <1>6, <1>7, <1>8
    <2> QED BY <1>2, <1>6, <2>1 DEF Bucketed
<1>11. TimersOK(u, v.src)
    <2>1. SUFFICES ASSUME NEW p \in Bucketed(u, v.src) PROVE p \in TreeData(u["TMR"]) /\ v.src[p].id # 0
        BY DEF TimersOK
    <2>2. CASE p = o
        <3>1. s.tb
            BY <1>6, <2>1, <2>2 DEF Bucketed
        <3> QED BY <1>0, <1>2, <1>6, <2>2, <3>1
    <2>3. CASE p # o
        <3>1. p \in Bucketed(t, w.src) /\ p \in Srcs
            BY <1>7, <1>10, <2>1, <2>3 DEF Bucketed
        <3>2. p \in TreeData(t["TMR"]) /\ w.src[p].id # 0
            BY <1>0, <3>1 DEF Base, TimersOK
        <3> QED BY <1>2, <1>6, <2>3, <3>1, <3>2
    <2> QED BY <2>2, <2>3
<1>12. Fresh(v.src, v.interest, r, i, o)
    <2>1. SUFFICES ASSUME NEW p \in Srcs, p > o
                   PROVE  v.src[p].refs = 0 /\ p \notin r /\ i[p] = 0 /\ \A e \in v.interest : e[2] # p
        BY DEF Fresh
    <2>2. p > m /\ p # o
        BY <1>0, <1>1, <2>1, ConstantsAre
    <2>3. w.src[p].refs = 0 /\ p \notin r /\ j[p] = 0 /\ \A e \in w.interest : e[2] # p
        BY <1>0, <2>2 DEF Base, Fresh
    <2> QED BY <1>0, <1>6, <2>2, <2>3
<1> QED BY <1>0, <1>1, <1>2, <1>5, <1>6, <1>8, <1>9, <1>10, <1>11, <1>12 DEF Base, Additions

-----------------------------------------------------------------------------
(***************************************************************************)
(* manage_srcs, source after source.                                        *)
(***************************************************************************)
StepOf(op, w, o) ==
    CASE op = "ADD" -> PollAdd(w, o) [] op = "RM" -> PollRm(w, o) [] op = "STOP" -> Unref(w, o)
Ops == {"ADD", "RM", "STOP"}

LEMMA StepTyped ==
    ASSUME NEW op \in Ops, NEW w \in Worlds, NEW o \in Srcs
    PROVE  StepOf(op, w, o) \in Worlds
BY PollAddIs, PollRmIs, UnrefIs DEF StepOf, Ops

(* The highest of some numbers.                                             *)
LEMMA MaxIs ==
    ASSUME NEW n \in Nat, NEW s \in SUBSET (1..n), s # {}
    PROVE  Max(s) \in s /\ \A i \in s : i <= Max(s)
<1> DEFINE T == {n - i : i \in s}
<1>1. T \subseteq Nat /\ T # {}
    <2>1. \A i \in s : n - i \in Nat
        <3>1. SUFFICES ASSUME NEW i \in s PROVE n - i \in Nat
            OBVIOUS
        <3>2. i \in 1..n
            OBVIOUS
        <3> QED BY <3>2
    <2>2. PICK i \in s : TRUE
        OBVIOUS
    <2>3. n - i \in T
        OBVIOUS
    <2> QED BY <2>1, <2>3
<1>2. PICK x \in T : \A y \in T : x <= y
    BY <1>1, LeastNat
<1>3. PICK i \in s : x = n - i
    BY <1>2
<1>4. \A k \in s : i >= k
    <2>1. SUFFICES ASSUME NEW k \in s PROVE i >= k
        OBVIOUS
    <2>2. n - k \in T
        OBVIOUS
    <2>3. n - i <= n - k
        BY <1>2, <1>3, <2>2
    <2> QED BY <2>3
<1>5. Max(s) \in s /\ \A k \in s : Max(s) >= k
    BY <1>4 DEF Max
<1> QED BY <1>5

FoldOf(op, R, f) ==
    f = [s \in SUBSET (1..Len(R)) |->
            IF s = {} THEN World ELSE StepOf(op, f[s \ {Max(s)}], R[Max(s)])]

LEMMA ManageFolds ==
    ASSUME NEW op \in Ops, AllRegistered \in Seq(Srcs), NEW f, FoldOf(op, AllRegistered, f)
    PROVE  \E g : FoldOf(op, AllRegistered, g) /\ Manage(op) = g[1..Len(AllRegistered)]
<1> DEFINE R == AllRegistered
           v == CHOOSE v : v = [s \in SUBSET (1..Len(R)) |->
                                   IF s = {} THEN World ELSE StepOf(op, v[s \ {Max(s)}], R[Max(s)])]
<1>1. FoldOf(op, R, v)
    BY DEF FoldOf
<1>2. DOMAIN R = 1..Len(R)
    OBVIOUS
<1>3. Manage(op) = v[1..Len(R)]
    BY <1>2 DEF Manage, FoldLeft, MapThenFoldSet, StepOf, Max
<1> HIDE DEF v
<1> QED BY <1>1, <1>3

LEMMA FoldExists ==
    ASSUME NEW op \in Ops, NEW R \in Seq(Srcs), World \in Worlds
    PROVE  \E f \in [SUBSET (1..Len(R)) -> Worlds] : FoldOf(op, R, f)
<1>1. PICK n : n = Len(R) /\ n \in Nat
    OBVIOUS
<1> DEFINE S == SUBSET (1..n)
           base == [s \in S |-> World]
           step == [q \in S \X Worlds \X Worlds |->
                       IF q[1] = {} THEN World ELSE StepOf(op, q[2], R[Max(q[1])])]
           a == [s \in S |-> IF s = {} THEN {} ELSE s \ {Max(s)}]
           r == [s \in S |-> Cardinality(s)]
<1>2. base \in [S -> Worlds] /\ a \in [S -> S]
    OBVIOUS
<1>3. step \in [S \X Worlds \X Worlds -> Worlds]
    <2>1. ASSUME NEW s \in S, s # {}, NEW w \in Worlds PROVE StepOf(op, w, R[Max(s)]) \in Worlds
        <3>1. Max(s) \in 1..n
            BY <1>1, <2>1, MaxIs
        <3>2. R[Max(s)] \in Srcs
            BY <1>1, <3>1
        <3> QED BY <2>1, <3>2, StepTyped
    <2> HIDE DEF S
    <2> QED BY <2>1
<1>4. /\ r \in [S -> 0..n]
      /\ \A s \in S : s \notin {{}} => r[a[s]] < r[s]
    <2>1. IsFiniteSet(1..n) /\ Cardinality(1..n) = n
        <3>1. 1 \in Int /\ n \in Int /\ n \in Nat
            BY <1>1
        <3>2. IsFiniteSet(1..n) /\ Cardinality(1..n) = IF 1 > n THEN 0 ELSE n - 1 + 1
            BY <3>1, FS_Interval
        <3> QED BY <3>1, <3>2
    <2>2. \A s \in S : IsFiniteSet(s) /\ Cardinality(s) <= n /\ Cardinality(s) \in Nat
        BY <2>1, FS_Subset, FS_CardinalityType
    <2>3. \A s \in S : s # {} => Cardinality(s \ {Max(s)}) = Cardinality(s) - 1
        <3>1. SUFFICES ASSUME NEW s \in S, s # {} PROVE Cardinality(s \ {Max(s)}) = Cardinality(s) - 1
            OBVIOUS
        <3>2. Max(s) \in s /\ IsFiniteSet(s)
            BY <1>1, <2>2, <3>1, MaxIs
        <3> QED BY <3>2, FS_RemoveElement
    <2>4. \A s \in S : Cardinality(s) \in 0..n
        BY <1>1, <2>2
    <2>5. ASSUME NEW s \in S, s # {} PROVE r[a[s]] < r[s]
        <3>1. a[s] = s \ {Max(s)} /\ a[s] \in S
            BY <2>5
        <3>2. r[a[s]] = Cardinality(s \ {Max(s)}) /\ r[s] = Cardinality(s)
            BY <3>1
        <3>3. Cardinality(s) \in Nat /\ Cardinality(s \ {Max(s)}) = Cardinality(s) - 1
            BY <2>2, <2>3, <2>5
        <3> QED BY <3>2, <3>3
    <2> QED BY <2>4, <2>5
<1>5. PICK f \in [S -> Worlds] : Solves(f, S, {{}}, base, step, a, a)
    <2> HIDE DEF S, base, step, a, r
    <2> QED BY <1>1, <1>2, <1>3, <1>4, RankRecursion
<1>6. ASSUME NEW s \in S
      PROVE  (IF s \in {{}} THEN base[s] ELSE step[<<s, f[a[s]], f[a[s]]>>])
             = IF s = {} THEN World ELSE StepOf(op, f[s \ {Max(s)}], R[Max(s)])
    <2>1. CASE s = {}
        BY <2>1
    <2>2. CASE s # {}
        <3>1. a[s] = s \ {Max(s)} /\ a[s] \in S
            BY <2>2
        <3>2. f[a[s]] \in Worlds
            BY <3>1
        <3>3. step[<<s, f[a[s]], f[a[s]]>>] = StepOf(op, f[a[s]], R[Max(s)])
            BY <2>2, <3>2
        <3> QED BY <2>2, <3>1, <3>3
    <2> QED BY <2>1, <2>2
<1>7. f = [s \in S |-> IF s \in {{}} THEN base[s] ELSE step[<<s, f[a[s]], f[a[s]]>>]]
    <2> HIDE DEF S, base, step, a
    <2> QED BY <1>5 DEF Solves
<1>8. f = [s \in S |-> IF s = {} THEN World ELSE StepOf(op, f[s \ {Max(s)}], R[Max(s)])]
    <2> HIDE DEF S, base, step, a
    <2> QED BY <1>6, <1>7
<1> QED BY <1>1, <1>8 DEF FoldOf

(* The worlds on the way, g[i] after i sources.                             *)
Passes(op, R, g, z) ==
    /\ g[0] = World /\ g[Len(R)] = z
    /\ \A i \in 1..Len(R) : g[i] = StepOf(op, g[i - 1], R[i])

LEMMA ManageIs ==
    ASSUME NEW op \in Ops, AllRegistered \in Seq(Srcs), World \in Worlds
    PROVE  \E g : Passes(op, AllRegistered, g, Manage(op))
<1>1. PICK R, n : R = AllRegistered /\ R \in Seq(Srcs) /\ n = Len(R) /\ n \in Nat
    OBVIOUS
<1>2. PICK f : FoldOf(op, R, f) /\ Manage(op) = f[1..n]
    BY <1>1, FoldExists, ManageFolds
<1>3. PICK g : g = [i \in 0..n |-> f[1..i]]
    OBVIOUS
<1>4. ASSUME NEW i \in 0..n
      PROVE  f[1..i] = IF i = 0 THEN World ELSE StepOf(op, f[1..(i - 1)], R[i])
    <2>1. 1..i \in SUBSET (1..n) /\ i \in Nat
        BY <1>1
    <2>2. f[1..i] = IF 1..i = {} THEN World ELSE StepOf(op, f[(1..i) \ {Max(1..i)}], R[Max(1..i)])
        BY <1>1, <1>2, <2>1 DEF FoldOf
    <2>3. CASE i = 0
        BY <2>2, <2>3
    <2>4. CASE i # 0
        <3>1. 1..i # {} /\ i \in 1..i
            <4>1. i \in 1..i
                BY <2>1, <2>4
            <4> QED BY <4>1
        <3>2. Max(1..i) \in 1..i /\ i <= Max(1..i)
            BY <1>1, <2>1, <3>1, MaxIs
        <3>3. Max(1..i) = i
            BY <2>1, <3>2
        <3>4. (1..i) \ {i} = 1..(i - 1)
            BY <2>1
        <3> QED BY <2>2, <2>4, <3>1, <3>3, <3>4
    <2> QED BY <2>3, <2>4
<1>5. g[0] = World /\ g[n] = Manage(op)
    BY <1>1, <1>2, <1>3, <1>4
<1>6. ASSUME NEW i \in 1..n PROVE g[i] = StepOf(op, g[i - 1], R[i])
    <2>1. i \in 0..n /\ i - 1 \in 0..n /\ i # 0
        BY <1>1
    <2>2. g[i] = f[1..i] /\ g[i - 1] = f[1..(i - 1)]
        BY <1>3, <2>1
    <2> QED BY <1>4, <2>1, <2>2
<1> QED BY <1>1, <1>5, <1>6 DEF Passes

(***************************************************************************)
(* The registered sources are shown once each.                              *)
(***************************************************************************)
Once(q) == \A i, j \in 1..Len(q) : q[i] = q[j] => i = j

LEMMA Shown ==
    ASSUME NEW S, NEW q \in Seq(S)
    PROVE  Len(q) \in Nat /\ ToSet(q) = {q[i] : i \in 1..Len(q)} /\ ToSet(q) \subseteq S
BY DEF ToSet

(* q shows what s and r show, once if they do and have nothing in common.   *)
ConcatOf(S, s, r, q) ==
    /\ q \in Seq(S) /\ ToSet(q) = ToSet(s) \cup ToSet(r)
    /\ Once(s) /\ Once(r) /\ ToSet(s) \cap ToSet(r) = {} => Once(q)

LEMMA ConcatShows ==
    ASSUME NEW S, NEW s \in Seq(S), NEW r \in Seq(S), NEW q, q = s \o r
    PROVE  ConcatOf(S, s, r, q)
<1>1. /\ q \in Seq(S) /\ Len(q) = Len(s) + Len(r) /\ Len(s) \in Nat /\ Len(r) \in Nat
      /\ \A i \in 1..Len(q) : q[i] = IF i <= Len(s) THEN s[i] ELSE r[i - Len(s)]
    OBVIOUS
<1>2. /\ ToSet(q) = {q[i] : i \in 1..Len(q)} /\ ToSet(s) = {s[i] : i \in 1..Len(s)}
      /\ ToSet(r) = {r[i] : i \in 1..Len(r)}
    <2>1. ToSet(q) = {q[i] : i \in 1..Len(q)}
        <3>1. q \in Seq(S)
            BY <1>1
        <3> QED BY ONLY <3>1, Shown
    <2>2. ToSet(s) = {s[i] : i \in 1..Len(s)}
        BY Shown
    <2>3. ToSet(r) = {r[i] : i \in 1..Len(r)}
        BY Shown
    <2> QED BY <2>1, <2>2, <2>3
<1>3. \A i \in 1..Len(q) : \/ i \in 1..Len(s) /\ q[i] = s[i]
                           \/ i - Len(s) \in 1..Len(r) /\ q[i] = r[i - Len(s)] /\ ~(i <= Len(s))
    BY <1>1
<1>4. \A i \in 1..Len(s) : i \in 1..Len(q) /\ q[i] = s[i]
    BY <1>1
<1>5. \A i \in 1..Len(r) : i + Len(s) \in 1..Len(q) /\ q[i + Len(s)] = r[i]
    BY <1>1
<1>6. ToSet(q) \subseteq ToSet(s) \cup ToSet(r)
    BY <1>2, <1>3
<1>7. ToSet(s) \subseteq ToSet(q) /\ ToSet(r) \subseteq ToSet(q)
    BY <1>2, <1>4, <1>5
<1>8. ASSUME Once(s), Once(r), ToSet(s) \cap ToSet(r) = {},
             NEW i \in 1..Len(q), NEW j \in 1..Len(q), q[i] = q[j]
      PROVE  i = j
    <2>1. i \in Nat /\ j \in Nat
        OBVIOUS
    <2>2. CASE i \in 1..Len(s) /\ j \in 1..Len(s)
        BY <1>4, <1>8, <2>2 DEF Once
    <2>3. CASE i \notin 1..Len(s) /\ j \notin 1..Len(s)
        <3>1. /\ i - Len(s) \in 1..Len(r) /\ j - Len(s) \in 1..Len(r)
              /\ r[i - Len(s)] = r[j - Len(s)]
            BY <1>3, <1>8, <2>3
        <3>2. i - Len(s) = j - Len(s)
            BY <1>8, <3>1 DEF Once
        <3> QED BY <1>1, <2>1, <3>2
    <2>6. ASSUME NEW a \in 1..Len(q), NEW b \in 1..Len(q), q[a] = q[b], a \in 1..Len(s), b \notin 1..Len(s)
          PROVE  FALSE
        <3>1. q[a] \in ToSet(s)
            BY <1>2, <1>4, <2>6
        <3>2. q[b] \in ToSet(r)
            BY <1>2, <1>3, <2>6
        <3> QED BY <1>8, <2>6, <3>1, <3>2
    <2>4. CASE i \in 1..Len(s) /\ j \notin 1..Len(s)
        BY <1>8, <2>4, <2>6
    <2>5. CASE i \notin 1..Len(s) /\ j \in 1..Len(s)
        BY <1>8, <2>5, <2>6
    <2> QED BY <2>2, <2>3, <2>4, <2>5
<1>9. Once(s) /\ Once(r) /\ ToSet(s) \cap ToSet(r) = {} => Once(q)
    BY <1>8 DEF Once
<1> QED BY <1>1, <1>6, <1>7, <1>9 DEF ConcatOf

LEMMA SingleShows ==
    ASSUME NEW S, NEW d \in S
    PROVE  <<d>> \in Seq(S) /\ ToSet(<<d>>) = {d} /\ Once(<<d>>)
BY DEF ToSet, Once

JoinOf(s, d, r, q) ==
    /\ ToSet(q) = ToSet(s) \cup {d} \cup ToSet(r)
    /\ /\ Once(s) /\ Once(r) /\ d \notin ToSet(s) /\ d \notin ToSet(r)
       /\ ToSet(s) \cap ToSet(r) = {}
       => Once(q)

LEMMA JoinShows ==
    ASSUME NEW S, NEW s \in Seq(S), NEW r \in Seq(S), NEW d \in S, NEW q, q = s \o <<d>> \o r
    PROVE  JoinOf(s, d, r, q)
<1>1. PICK a : a = <<d>> /\ a \in Seq(S) /\ ToSet(a) = {d} /\ Once(a)
    BY SingleShows
<1>2. PICK p : p = s \o a
    OBVIOUS
<1>3. q = p \o r
    BY <1>1, <1>2
<1>4. ConcatOf(S, s, a, p)
    BY <1>1, <1>2, ConcatShows
<1>5. p \in Seq(S)
    BY <1>4 DEF ConcatOf
<1>6. ConcatOf(S, p, r, q)
    BY <1>3, <1>5, ConcatShows
<1> QED BY <1>1, <1>4, <1>6 DEF ConcatOf, JoinOf

LEMMA InWalkOnce ==
    ASSUME NEW t, NEW D, Shape(t, D), Distinct(t), NEW w \in [0..BstMax -> Seq(Data)], InWalk(t, w)
    PROVE  \A n \in 0..BstMax : n = 0 \/ n \in TreeNodes(t) =>
               ToSet(w[n]) = {t.data[m] : m \in D[n]} /\ Once(w[n])
<1> DEFINE P(n) == ToSet(w[n]) = {t.data[m] : m \in D[n]} /\ Once(w[n])
           T == {n \in 0..BstMax : n = 0 \/ n \in TreeNodes(t) => P(n)}
<1>1. P(0)
    <2>1. w[0] = <<>> /\ D[0] = {}
        BY LinksAre, TreeIs DEF InWalk
    <2>2. ToSet(<<>>) = {} /\ Once(<<>>)
        BY DEF ToSet, Once
    <2> QED BY <2>1, <2>2
<1>2. ASSUME NEW n \in TreeNodes(t), Left(t, n) \in T, Right(t, n) \in T PROVE P(n)
    <2>1. PICK a, b : a = Left(t, n) /\ b = Right(t, n)
        OBVIOUS
    <2>2. a = 0 \/ a \in TreeNodes(t)
        BY <2>1, TreeIs, LinksAre, LinkHolder DEF Left
    <2>3. b = 0 \/ b \in TreeNodes(t)
        BY <2>1, TreeIs, LinksAre, LinkHolder DEF Right
    <2>4. P(a) /\ P(b) /\ a \in 0..BstMax /\ b \in 0..BstMax
        BY <1>2, <2>1, <2>2, <2>3
    <2>5. /\ D[n] = {n} \cup D[a] \cup D[b] /\ n \in 0..BstMax /\ n # 0 /\ t.data[n] \in Data
          /\ n \notin D[a] /\ n \notin D[b] /\ D[a] \cap D[b] = {}
        BY <2>1, TreeIs, LinksAre DEF NodeOK, TreeNodes, Data
    <2>6. PICK s, r, d, q : s = w[a] /\ r = w[b] /\ d = t.data[n] /\ q = w[n]
        OBVIOUS
    <2>7. s \in Seq(Data) /\ r \in Seq(Data) /\ d \in Data
        BY <2>4, <2>5, <2>6
    <2>8. q = s \o <<d>> \o r
        BY <2>1, <2>5, <2>6 DEF InWalk
    <2>9. /\ ToSet(q) = ToSet(s) \cup {d} \cup ToSet(r)
          /\ /\ Once(s) /\ Once(r) /\ d \notin ToSet(s) /\ d \notin ToSet(r)
             /\ ToSet(s) \cap ToSet(r) = {}
             => Once(q)
        <3>1. JoinOf(s, d, r, q)
            BY <2>7, <2>8, JoinShows
        <3> QED BY <3>1 DEF JoinOf
    <2>10. ToSet(s) = {t.data[m] : m \in D[a]} /\ ToSet(r) = {t.data[m] : m \in D[b]}
        BY <2>4, <2>6
    <2>11. ToSet(q) = {t.data[m] : m \in D[n]}
        BY <2>5, <2>6, <2>9, <2>10
    <2>12. D[a] \subseteq TreeNodes(t) /\ D[b] \subseteq TreeNodes(t)
        BY <2>4, TreeIs
    <2>13. d \notin ToSet(s) /\ d \notin ToSet(r) /\ ToSet(s) \cap ToSet(r) = {}
        <3>1. \A i, j \in TreeNodes(t) : t.data[i] = t.data[j] => i = j
            BY DEF Distinct
        <3>2. (\A i \in D[a] : t.data[i] # d) /\ (\A i \in D[b] : t.data[i] # d)
            BY <2>5, <2>6, <2>12, <3>1
        <3>3. \A i \in D[a], j \in D[b] : t.data[i] # t.data[j]
            BY <2>5, <2>12, <3>1
        <3>4. d \notin ToSet(s) /\ d \notin ToSet(r)
            BY <2>10, <3>2
        <3>5. ASSUME NEW y \in ToSet(s), y \in ToSet(r) PROVE FALSE
            BY <2>10, <3>3, <3>5
        <3> QED BY <3>4, <3>5
    <2>14. Once(q)
        BY <2>4, <2>6, <2>9, <2>13
    <2> QED BY <2>6, <2>11, <2>14
<1> HIDE DEF P
<1>3. 0 \in T /\ \A n \in BstNodes : n \notin TreeNodes(t) => n \in T
    BY <1>1, LinksAre
<1>4. \A n \in TreeNodes(t) : Left(t, n) \in T /\ Right(t, n) \in T => n \in T
    BY <1>2, TreeIs, LinksAre
<1> HIDE DEF T
<1>5. \A n \in 0..BstMax : n \in T
    BY <1>3, <1>4, TreeInduction
<1> QED BY <1>5 DEF T, P

LEMMA InOrderOnce ==
    ASSUME NEW t, NEW m \in 0..MaxSrcs, GoodTree(t, m), NEW q, q = InOrder(t)
    PROVE  q \in Seq(Srcs) /\ ToSet(q) = TreeData(t) /\ Once(q)
<1>1. PICK D : Shape(t, D)
    BY DEF GoodTree
<1>2. PICK r : r = t.child[Root] /\ r \in 0..BstMax /\ D[r] = TreeNodes(t)
               /\ (r = 0 \/ r \in TreeNodes(t))
    <2>1. t.child[Root] = 0 \/ t.child[Root] \in TreeNodes(t)
        BY <1>1, LinksAre, LinkHolder
    <2> QED BY <1>1, <2>1, LinksAre, TreeIs DEF Shape
<1>3. PICK w \in [0..BstMax -> Seq(Data)] : InWalk(t, w) /\ q = w[r]
    BY <1>1, <1>2, InWalkIs
<1>4. ToSet(q) = {t.data[n] : n \in D[r]} /\ Once(q)
    <2>1. Distinct(t)
        BY DEF GoodTree
    <2>2. \A n \in 0..BstMax : n = 0 \/ n \in TreeNodes(t) =>
               ToSet(w[n]) = {t.data[i] : i \in D[n]} /\ Once(w[n])
        BY ONLY <1>1, <1>3, <2>1, InWalkOnce
    <2> QED BY <1>2, <1>3, <2>2
<1>5. ToSet(q) = TreeData(t)
    BY <1>2, <1>4 DEF TreeData
<1>6. q \in Seq(Data) /\ TreeData(t) \subseteq Srcs
    BY <1>2, <1>3, ConstantsAre DEF GoodTree
<1>7. q \in Seq(Srcs)
    <2>1. Len(q) \in Nat /\ ToSet(q) = {q[i] : i \in 1..Len(q)}
        BY <1>6, Shown
    <2>2. \A i \in 1..Len(q) : q[i] \in Srcs
        BY <1>5, <1>6, <2>1
    <2>3. q = [i \in 1..Len(q) |-> q[i]]
        BY <1>6
    <2> QED BY <2>1, <2>2, <2>3
<1> QED BY <1>4, <1>5, <1>7

LEMMA AllRegisteredAre ==
    ASSUME NEW m \in 0..MaxSrcs, Forest(tree, m), setup \in Setups
    PROVE  /\ AllRegistered \in Seq(Srcs) /\ ToSet(AllRegistered) = Members(tree)
           /\ Once(AllRegistered)
<1>1. PICK a, b : a = InOrder(tree[kind]) /\ b = InOrder(tree["TMR"])
    OBVIOUS
<1>2. /\ a \in Seq(Srcs) /\ ToSet(a) = TreeData(tree[kind]) /\ Once(a)
      /\ b \in Seq(Srcs) /\ ToSet(b) = TreeData(tree["TMR"]) /\ Once(b)
    BY <1>1, InOrderOnce DEF Forest
<1>3. Members(tree) = TreeData(tree[kind]) \cup TreeData(tree["TMR"])
    BY MembersAre
<1>4. CASE kind = "FD"
    <2>1. AllRegistered = a \o b
        BY <1>1, <1>4 DEF AllRegistered, Registered
    <2>2. ToSet(a) \cap ToSet(b) = {}
        BY <1>2, <1>4 DEF Forest
    <2>3. ConcatOf(Srcs, a, b, AllRegistered)
        BY <1>2, <2>1, ConcatShows
    <2> QED BY <1>2, <1>3, <2>2, <2>3 DEF ConcatOf
<1>5. CASE kind = "TMR"
    <2>1. AllRegistered = b
        BY <1>1, <1>5 DEF AllRegistered, Registered
    <2> QED BY <1>2, <1>3, <1>5, <2>1
<1>6. CASE kind # "FD" /\ kind # "TMR"
    <2>1. AllRegistered = b \o a
        BY <1>1, <1>6 DEF AllRegistered, Registered
    <2>2. ToSet(b) \cap ToSet(a) = {}
        BY <1>2, <1>6 DEF Forest
    <2>3. ConcatOf(Srcs, b, a, AllRegistered)
        BY <1>2, <2>1, ConcatShows
    <2> QED BY <1>2, <1>3, <2>2, <2>3 DEF ConcatOf
<1> QED BY <1>4, <1>5, <1>6

-----------------------------------------------------------------------------
LEMMA ManagePolls ==
    ASSUME NEW op \in {"ADD", "RM"}, World \in Worlds, AllRegistered \in Seq(Srcs), NEW v, v = Manage(op)
    PROVE  /\ v \in Worlds /\ SameSources(World, v)
           /\ \A e \in v.interest : e \in interest \/ e[2] \in ToSet(AllRegistered)
<1>1. PICK R, n : R = AllRegistered /\ R \in Seq(Srcs) /\ n = Len(R) /\ n \in Nat
    OBVIOUS
<1>2. op \in Ops
    BY DEF Ops
<1>3. PICK g : Passes(op, R, g, v)
    BY <1>1, <1>2, ManageIs
<1>4. g[0] = World /\ g[n] = v /\ \A i \in 1..n : g[i] = StepOf(op, g[i - 1], R[i])
    BY <1>1, <1>3 DEF Passes
<1> DEFINE Good(w) == /\ w \in Worlds /\ SameSources(World, w)
                      /\ \A e \in w.interest : e \in interest \/ e[2] \in ToSet(R)
           T == {i \in 0..n : Good(g[i])}
<1>5. 0 \in T
    BY <1>1, <1>4 DEF SameSources, World
<1>6. ASSUME NEW i \in 1..n, i - 1 \in T PROVE i \in T
    <2>1. PICK w, o, u : w = g[i - 1] /\ o = R[i] /\ u = g[i]
        OBVIOUS
    <2>2. o \in Srcs /\ o \in ToSet(R)
        BY <1>1, <2>1 DEF ToSet
    <2>3. Good(w)
        BY <1>6, <2>1
    <2>4. u = StepOf(op, w, o)
        BY <1>4, <2>1
    <2>5. u \in Worlds /\ SameSources(w, u) /\ \A e \in u.interest : e \in w.interest \/ e[2] = o
        <3>1. CASE op = "ADD"
            <4>1. u = PollAdd(w, o)
                BY <2>4, <3>1 DEF StepOf
            <4> QED BY <2>2, <2>3, <4>1, PollAddIs
        <3>2. CASE op = "RM"
            <4>1. u = PollRm(w, o)
                BY <2>4, <3>2 DEF StepOf
            <4> QED BY <2>2, <2>3, <4>1, PollRmIs
        <3> QED BY <3>1, <3>2
    <2>6. Good(u)
        BY <2>2, <2>3, <2>5 DEF SameSources
    <2> QED BY <1>1, <2>1, <2>6
<1> HIDE DEF T
<1>7. n \in T
    <2>1. \A i \in 0..n : i \in T
        BY <1>1, <1>5, <1>6, UpTo
    <2> QED BY <1>1, <2>1
<1> QED BY <1>1, <1>4, <1>7 DEF T

(* Every registered source loses one reference.                             *)
AllDropped(v, A) ==
    \A p \in Srcs : /\ p \in A => /\ v.src[p].refs = src[p].refs - 1
                                  /\ v.src[p].tb => src[p].tb /\ v.src[p].id = src[p].id
                    /\ p \notin A => v.src[p] = src[p]

LEMMA ManageStops ==
    ASSUME World \in Worlds, AllRegistered \in Seq(Srcs), Once(AllRegistered),
           \A o \in ToSet(AllRegistered) : src[o].refs > 0, NEW v, v = Manage("STOP")
    PROVE  v \in Worlds /\ v.interest \subseteq interest /\ AllDropped(v, ToSet(AllRegistered))
<1>1. PICK R, n : R = AllRegistered /\ R \in Seq(Srcs) /\ n = Len(R) /\ n \in Nat
    OBVIOUS
<1>2. PICK op : op = "STOP" /\ op \in Ops
    BY DEF Ops
<1>3. PICK g : Passes(op, R, g, v)
    BY <1>1, <1>2, ManageIs
<1>4. g[0] = World /\ g[n] = v /\ \A i \in 1..n : g[i] = StepOf(op, g[i - 1], R[i])
    BY <1>1, <1>3 DEF Passes
<1> DEFINE Upto(i) == {R[k] : k \in 1..i}
           Good(i) == g[i] \in Worlds /\ g[i].interest \subseteq interest /\ AllDropped(g[i], Upto(i))
           T == {i \in 0..n : Good(i)}
<1>5. 0 \in T
    <2>1. Upto(0) = {}
        OBVIOUS
    <2>2. World.src = src /\ World.interest = interest
        BY DEF World
    <2> QED BY <1>1, <1>4, <2>1, <2>2 DEF AllDropped
<1>6. ASSUME NEW i \in 1..n, i - 1 \in T PROVE i \in T
    <2>1. PICK w, o, u, A : w = g[i - 1] /\ o = R[i] /\ u = g[i] /\ A = Upto(i - 1)
        OBVIOUS
    <2>2. o \in Srcs /\ o \in ToSet(R)
        BY <1>1, <2>1 DEF ToSet
    <2>3. w \in Worlds /\ w.interest \subseteq interest /\ AllDropped(w, A)
        BY <1>6, <2>1
    <2>4. u = Unref(w, o)
        BY <1>2, <1>4, <2>1 DEF StepOf
    <2>5. o \notin A
        <3>1. ASSUME NEW k \in 1..(i - 1) PROVE R[k] # o
            <4>1. k \in 1..n /\ k # i
                BY <1>1
            <4> QED BY <1>1, <2>1, <4>1 DEF Once
        <3> QED BY <2>1, <3>1
    <2>6. w.src[o] = src[o] /\ src[o].refs > 0
        BY <1>1, <2>2, <2>3, <2>5 DEF AllDropped
    <2>7. u \in Worlds /\ u.interest \subseteq w.interest /\ Dropped(w, u, o)
        BY <2>2, <2>3, <2>4, <2>6, UnrefIs
    <2>8. AllDropped(u, A \cup {o})
        BY <2>2, <2>3, <2>5, <2>6, <2>7 DEF AllDropped, Dropped
    <2>9. Upto(i) = A \cup {o}
        <3>1. 1..i = (1..(i - 1)) \cup {i}
            BY <1>1
        <3> QED BY <2>1, <3>1
    <2>10. Good(i)
        BY <2>1, <2>3, <2>7, <2>8, <2>9
    <2>11. i \in 0..n
        BY <1>1
    <2> HIDE DEF Good
    <2> QED BY <2>10, <2>11
<1> HIDE DEF Good
<1>7. Good(n)
    <2> HIDE DEF T
    <2>1. \A i \in 0..n : i \in T
        BY <1>1, <1>5, <1>6, UpTo
    <2> QED BY <1>1, <2>1 DEF T
<1>8. Upto(n) = ToSet(R)
    BY <1>1, Shown
<1> QED BY <1>1, <1>4, <1>7, <1>8 DEF Good

(***************************************************************************)
(* The hazards that Harm reports.                                           *)
(***************************************************************************)
LEMMA HarmQuiet ==
    ASSUME QuietOK(hurt, World, ready, tasks, undefined), tasks \in [Srcs -> Nat], NEW v,
           \A o \in Srcs : src[o].refs \in Nat,
           \A e \in v.interest : e \in interest \/ (e[2] \in Srcs /\ v.src[e[2]].refs > 0),
           NEW g, hurt \cup Harm(v) \subseteq g, NEW r, r \subseteq ready
    PROVE  QuietOK(g, v, r, tasks, undefined)
<1>1. SUFFICES ASSUME g \cap {"late", "stale", "task"} = {}
               PROVE  Quiet(v.src, v.interest, r, tasks) /\ ~undefined
    BY DEF QuietOK
<1>2. hurt \cap {"late", "stale", "task"} = {} /\ "late" \notin Harm(v)
      /\ "stale" \notin Harm(v) /\ "task" \notin Harm(v)
    BY <1>1
<1>3. Quiet(src, interest, ready, tasks) /\ ~undefined
    BY <1>2 DEF QuietOK, World
<1>4. ASSUME NEW o \in Srcs, src[o].refs > 0, v.src[o].refs = 0
      PROVE  (\A e \in v.interest : e[2] # o) /\ o \notin ready /\ ~(tasks[o] > 0)
    BY <1>2, <1>4 DEF Harm
<1>5. SUFFICES ASSUME NEW o \in Srcs, v.src[o].refs = 0
               PROVE  o \notin r /\ tasks[o] = 0 /\ \A e \in v.interest : e[2] # o
    BY <1>3 DEF Quiet
<1>6. CASE src[o].refs = 0
    <2>1. o \notin ready /\ tasks[o] = 0 /\ \A e \in interest : e[2] # o
        BY <1>3, <1>6 DEF Quiet
    <2>2. \A e \in v.interest : e[2] # o
        BY <1>5, <2>1
    <2> QED BY <2>1, <2>2
<1>7. CASE src[o].refs # 0
    <2>1. src[o].refs > 0
        BY <1>7
    <2>2. (\A e \in v.interest : e[2] # o) /\ o \notin ready /\ ~(tasks[o] > 0)
        BY <1>4, <1>5, <2>1
    <2> QED BY <2>2
<1> QED BY <1>6, <1>7

-----------------------------------------------------------------------------
(***************************************************************************)
(* The actions, as long as no node with two children is removed.            *)
(***************************************************************************)
InvAt(w) ==
    /\ setup' = setup /\ made' <= setup.max /\ EventsOK(events') /\ Install(w)
    /\ Base(tree', w, made', HeldBy(events'), ready', tasks')
    /\ QuietOK(hurt', w, ready', tasks', undefined') /\ TimerOK(hurt', tree', w, tb')

LEMMA Reached ==
    ASSUME SrcInv, NEW w, InvAt(w)
    PROVE  SrcInv'
<1>1. /\ w \in Worlds /\ setup' = setup /\ setup \in Setups /\ made' <= setup.max
      /\ EventsOK(events)'
    BY DEF Base, SrcInv, InvAt, EventsOK
<1>2. /\ src' = w.src /\ open' = w.open /\ interest' = w.interest
      /\ off' = w.off /\ signalled' = w.signalled
    BY DEF InvAt, Install
<1>3. w = [src |-> w.src, open |-> w.open, interest |-> w.interest, off |-> w.off,
           signalled |-> w.signalled]
    BY <1>1 DEF Worlds
<1>4. World' = w
    BY <1>2, <1>3 DEF World
<1>5. Base(tree', w, made', HeldBy(events'), ready', tasks')
    BY DEF InvAt
<1>6. kind' = kind
    BY <1>1 DEF kind
<1>7. Forest(tree, made)' <=> Forest(tree', made')
    BY <1>6 DEF Forest
<1>10. HeldBy(events)' = HeldBy(events')
    BY DEF HeldBy
<1>8. Base(tree, World, made, HeldBy(events), ready, tasks)'
    BY <1>4, <1>5, <1>7, <1>10 DEF Base
<1>9. QuietOK(hurt, World, ready, tasks, undefined)' /\ TimerOK(hurt, tree, World, tb)'
    BY <1>4 DEF QuietOK, TimerOK, InvAt
<1> QED BY <1>1, <1>8, <1>9 DEF SrcInv

LEMMA WorldIs ==
    /\ World.src = src /\ World.open = open /\ World.interest = interest /\ World.off = off
    /\ World.signalled = signalled /\ (UNCHANGED pollVars => Install(World))
BY DEF World, pollVars, Install

LEMMA InvIs ==
    ASSUME SrcInv
    PROVE  /\ World \in Worlds /\ src \in [Srcs -> Source] /\ made \in 0..MaxSrcs /\ HeldBy(events) \in [Srcs -> Nat]
           /\ EventsOK(events) /\ open \subseteq Fds /\ interest \subseteq Fds \X Srcs
           /\ off \subseteq Fds /\ signalled \subseteq Fds /\ ready \subseteq Srcs /\ tasks \in [Srcs -> Nat]
           /\ Base(tree, World, made, HeldBy(events), ready, tasks) /\ setup \in Setups /\ made <= setup.max
           /\ setup.max \in 0..MaxSrcs /\ kind \in Kinds
           /\ DOMAIN tree = {kind, "TMR"} /\ Members(tree) \subseteq Srcs
           /\ \A o \in Members(tree) : o <= made /\ src[o].refs > 0
           /\ \A o \in Srcs : src[o] \in Source /\ src[o].refs \in Nat
           /\ \A o \in Srcs : src[o].refs = (IF o \in Members(tree) THEN 1 ELSE 0) + HeldBy(events)[o]
<1>1. /\ Base(tree, World, made, HeldBy(events), ready, tasks) /\ setup \in Setups
      /\ made <= setup.max /\ EventsOK(events)
    BY DEF SrcInv
<1>2. /\ World \in Worlds /\ made \in 0..MaxSrcs /\ HeldBy(events) \in [Srcs -> Nat]
      /\ ready \subseteq Srcs /\ tasks \in [Srcs -> Nat]
    BY <1>1 DEF Base
<1>3. /\ src \in [Srcs -> Source] /\ open \subseteq Fds /\ interest \subseteq Fds \X Srcs
      /\ off \subseteq Fds /\ signalled \subseteq Fds
    BY <1>2, WorldIs DEF Worlds
<1>4. setup.max \in 0..MaxSrcs /\ kind \in Kinds
    BY <1>1, SetupIs DEF kind
<1>6. PICK w, c : w = World /\ c = HeldBy(events) /\ Base(tree, w, made, c, ready, tasks)
    BY <1>1
<1>7. /\ DOMAIN tree = {kind, "TMR"} /\ Members(tree) \subseteq Srcs
      /\ \A o \in Members(tree) : o <= made /\ w.src[o].refs > 0
    BY ONLY <1>6, BaseIs
<1>8. \A o \in Srcs : w.src[o] \in Source /\ w.src[o].refs \in Nat
    BY ONLY <1>6, BaseIs
<1>9. \A o \in Srcs : w.src[o].refs = (IF o \in Members(tree) THEN 1 ELSE 0) + c[o]
    BY <1>6 DEF Base, Counted
<1>5. /\ DOMAIN tree = {kind, "TMR"} /\ Members(tree) \subseteq Srcs
      /\ \A o \in Members(tree) : o <= made /\ World.src[o].refs > 0
      /\ \A o \in Srcs : World.src[o] \in Source /\ World.src[o].refs \in Nat
      /\ \A o \in Srcs : World.src[o].refs = (IF o \in Members(tree) THEN 1 ELSE 0) + HeldBy(events)[o]
    BY <1>6, <1>7, <1>8, <1>9
<1> QED BY <1>1, <1>2, <1>3, <1>4, <1>5, WorldIs

(* Only what was returned and what runs changes.                            *)
LEMMA BaseKeeps ==
    ASSUME NEW t, NEW w, NEW m, NEW c, NEW r, NEW j, Base(t, w, m, c, r, j),
           NEW v \in Worlds, v.src = w.src, v.interest = w.interest,
           NEW q \in SUBSET Srcs, NEW i \in [Srcs -> Nat],
           \A o \in Srcs : o > m => o \notin q /\ i[o] = 0
    PROVE  Base(t, v, m, c, q, i)
BY DEF Base, Fresh

LEMMA PollWaitInv ==
    ASSUME SrcInv, PollWait
    PROVE  SrcInv'
<1>1. PICK w : w = [World EXCEPT !.off = off']
    OBVIOUS
<1>2. PICK some \in SUBSET Readable : ready' = some
          /\ off' = off \cup {e[1] : e \in {i \in interest : i[2] \in some /\ src[i[2]].oneshot}}
    BY DEF PollWait
<1>3. /\ ready' \subseteq {e[2] : e \in interest} /\ off' \subseteq Fds /\ ready' \subseteq Srcs
    BY <1>2, InvIs DEF Readable
<1>4. w \in Worlds /\ w.src = src /\ w.interest = interest /\ Install(w)
    BY <1>1, <1>3, InvIs DEF Worlds, World, Install, PollWait
<1>5. Fresh(src, interest, ready, tasks, made)
    BY InvIs, WorldIs DEF Base
<1>6. \A o \in Srcs : o > made => o \notin ready' /\ tasks[o] = 0
    BY <1>3, <1>5 DEF Fresh
<1>7. Base(tree, w, made, HeldBy(events), ready', tasks)
    BY <1>3, <1>4, <1>6, InvIs, WorldIs, BaseKeeps
<1>8. QuietOK(hurt, w, ready', tasks, undefined)
    BY <1>3, <1>4, WorldIs DEF SrcInv, QuietOK, Quiet
<1>9. TimerOK(hurt, tree, w, tb)
    BY <1>4, WorldIs DEF SrcInv, TimerOK
<1>10. UNCHANGED <<setup, tree, made, tasks, events, tb, hurt, undefined>>
    BY DEF PollWait
<1>11. InvAt(w)
    BY <1>4, <1>7, <1>8, <1>9, <1>10, InvIs DEF InvAt
<1> QED BY <1>11, Reached

LEMMA AlarmInv ==
    ASSUME SrcInv, NEW o \in Srcs, Alarm(o)
    PROVE  SrcInv'
<1>1. PICK w : w = [World EXCEPT !.signalled = signalled']
    OBVIOUS
<1>2. signalled' \subseteq Fds
    BY InvIs DEF Alarm, Source
<1>3. w \in Worlds /\ w.src = src /\ w.interest = interest /\ Install(w)
    BY <1>1, <1>2, InvIs DEF Worlds, World, Install, Alarm
<1>4. SameSources(World, w)
    BY <1>3, WorldIs DEF SameSources
<1>5. Base(tree, w, made, HeldBy(events), ready, tasks)
    BY <1>3, <1>4, InvIs, WorldIs, PollStep
<1>6. QuietOK(hurt, w, ready, tasks, undefined) /\ TimerOK(hurt, tree, w, tb)
    BY <1>3, WorldIs DEF SrcInv, QuietOK, Quiet, TimerOK
<1>7. UNCHANGED <<setup, tree, made, tasks, ready, events, tb, hurt, undefined>>
    BY DEF Alarm
<1>8. InvAt(w)
    BY <1>3, <1>5, <1>6, <1>7, InvIs DEF InvAt
<1> QED BY <1>8, Reached

LEMMA TaskDoneInv ==
    ASSUME SrcInv, NEW o \in Srcs, TaskDone(o)
    PROVE  SrcInv'
<1>1. PICK w : w = [World EXCEPT !.signalled = signalled']
    OBVIOUS
<1>2. signalled' \subseteq Fds
    BY InvIs DEF TaskDone, Source
<1>3. w \in Worlds /\ w.src = src /\ w.interest = interest /\ Install(w)
    BY <1>1, <1>2, InvIs DEF Worlds, World, Install, TaskDone
<1>4. tasks[o] > 0 /\ tasks' = [tasks EXCEPT ![o] = @ - 1] /\ tasks \in [Srcs -> Nat]
    BY InvIs DEF TaskDone
<1>5. tasks' \in [Srcs -> Nat] /\ \A p \in Srcs : tasks[p] = 0 => tasks'[p] = 0
    BY <1>4
<1>6. Fresh(src, interest, ready, tasks, made)
    BY InvIs, WorldIs DEF Base
<1>7. \A p \in Srcs : p > made => p \notin ready /\ tasks'[p] = 0
    BY <1>5, <1>6 DEF Fresh
<1>8. Base(tree, w, made, HeldBy(events), ready, tasks')
    BY <1>3, <1>5, <1>7, InvIs, WorldIs, BaseKeeps
<1>9. QuietOK(hurt, w, ready, tasks', undefined')
    <2>1. SUFFICES ASSUME hurt \cap {"late", "stale", "task"} = {}
                   PROVE  Quiet(w.src, w.interest, ready, tasks') /\ ~undefined'
        BY DEF QuietOK
    <2>2. Quiet(src, interest, ready, tasks)
        BY <2>1, WorldIs DEF SrcInv, QuietOK
    <2>3. src[o].refs # 0
        BY <1>4, <2>2 DEF Quiet
    <2>4. ~undefined'
        BY <2>3 DEF TaskDone
    <2> QED BY <1>3, <1>5, <2>2, <2>4 DEF Quiet
<1>10. TimerOK(hurt, tree, w, tb)
    BY <1>3, WorldIs DEF SrcInv, TimerOK
<1>11. UNCHANGED <<setup, tree, made, ready, events, tb, hurt>>
    BY DEF TaskDone
<1>12. InvAt(w)
    BY <1>3, <1>8, <1>9, <1>10, <1>11, InvIs DEF InvAt
<1> QED BY <1>12, Reached

(* Nothing of the world and the trees changes.                              *)
LEMMA StillInv ==
    ASSUME SrcInv, UNCHANGED <<setup, tree, pollVars, made, tasks>>, ready' \subseteq ready,
           SameEvents(events, events'),
           tb'.period = tb.period, hurt \subseteq hurt',
           hurt' \cap {"late", "stale", "task"} = {} => undefined' = undefined
    PROVE  SrcInv'
<1>1. /\ setup' = setup /\ tree' = tree /\ made' = made /\ tasks' = tasks
      /\ Install(World)
    BY WorldIs
<1>8. EventsOK(events') /\ HeldBy(events') = HeldBy(events)
    BY InvIs DEF SameEvents
<1>2. Fresh(src, interest, ready, tasks, made) /\ ready' \subseteq Srcs
    BY InvIs, WorldIs DEF Base
<1>3. \A o \in Srcs : o > made => o \notin ready' /\ tasks[o] = 0
    BY <1>2 DEF Fresh
<1>4. Base(tree, World, made, HeldBy(events), ready', tasks)
    BY <1>2, <1>3, InvIs, BaseKeeps
<1>5. QuietOK(hurt', World, ready', tasks, undefined')
    <2>1. SUFFICES ASSUME hurt' \cap {"late", "stale", "task"} = {}
                   PROVE  Quiet(World.src, World.interest, ready', tasks) /\ ~undefined'
        BY DEF QuietOK
    <2>2. hurt \cap {"late", "stale", "task"} = {}
        BY <2>1
    <2>3. Quiet(src, interest, ready, tasks) /\ ~undefined
        BY <2>2, WorldIs DEF SrcInv, QuietOK
    <2> QED BY <2>1, <2>3, WorldIs DEF Quiet
<1>6. TimerOK(hurt', tree, World, tb')
    <2>1. Fewer(tree, World.src, tree, World.src)
        BY DEF Fewer
    <2>2. TimerOK(hurt, tree, World, tb)
        BY DEF SrcInv
    <2> QED BY <2>1, <2>2, FewerKeeps
<1>7. InvAt(World)
    BY <1>1, <1>4, <1>5, <1>6, <1>8, InvIs DEF InvAt
<1> QED BY <1>7, Reached

LEMMA SameAsEver ==
    ASSUME events' = events
    PROVE  SameEvents(events, events')
BY DEF SameEvents

LEMMA SpendKeeps ==
    ASSUME NEW b, BucketOK(b)
    PROVE  /\ Spend(b).period = b.period
           /\ b.tokens > 0 => BucketOK(Spend(b))
<1>1. b \in [tokens : Nat, burst : Nat, period : Nat] /\ b.tokens <= b.burst
    BY DEF BucketOK
<1> QED BY <1>1 DEF Spend, BucketOK

LEMMA StartRefusedInv ==
    ASSUME SrcInv, BucketOK(tb), StartRefused
    PROVE  SrcInv'
BY StillInv, SameAsEver, SpendKeeps DEF StartRefused

LEMMA TakeFreedInv ==
    ASSUME SrcInv, TakeFreed
    PROVE  SrcInv'
<1>1. hurt \cap {"late", "stale", "task"} # {}
    <2>1. PICK o \in ready : src[o].refs = 0
        BY DEF TakeFreed
    <2> QED BY <2>1, InvIs, WorldIs DEF SrcInv, QuietOK, Quiet
<1>2. /\ UNCHANGED <<setup, tree, pollVars, made, tasks>> /\ ready' = ready
      /\ tb' = tb /\ hurt' = hurt /\ SameEvents(events, events')
    BY SameAsEver DEF TakeFreed
<1> QED BY <1>1, <1>2, StillInv

LEMMA TakeRefusedInv ==
    ASSUME SrcInv, NEW o \in Srcs, TakeRefused(o)
    PROVE  SrcInv'
BY StillInv, SameAsEver DEF TakeRefused

LEMMA TakeTokenInv ==
    ASSUME SrcInv, BucketOK(tb), NEW o \in Srcs, TakeToken(o)
    PROVE  SrcInv'
<1>1. tb'.period = tb.period
    BY DEF BucketOK, TakeToken
<1>2. SameEvents(events, events')
    BY SameAsEver, HandOverSame DEF TakeToken
<1> QED BY <1>1, <1>2, StillInv DEF TakeToken

LEMMA CallbackReturnsInv ==
    ASSUME SrcInv, CallbackReturns
    PROVE  SrcInv'
<1>1. SameEvents(events, events')
    BY FreeSame DEF CallbackReturns
<1> QED BY <1>1, StillInv DEF CallbackReturns

LEMMA StashInv ==
    ASSUME SrcInv, BucketOK(tb), NEW e \in Events, m_mod_stash(e)
    PROVE  SrcInv'
<1>1. SameEvents(events, events')
    BY StashSame DEF m_mod_stash
<1>2. tb'.period = tb.period
    BY SpendKeeps DEF m_mod_stash
<1> QED BY <1>1, <1>2, StillInv DEF m_mod_stash

LEMMA UnstashInv ==
    ASSUME SrcInv, BucketOK(tb), NEW some, m_mod_unstash(some)
    PROVE  SrcInv'
<1>1. SameEvents(events, events')
    <2>1. (IF InCallback THEN "inner" ELSE "outer") \in Queues
        BY DEF Queues
    <2> QED BY <2>1, MoveSame DEF m_mod_unstash
<1>2. tb'.period = tb.period
    BY SpendKeeps DEF m_mod_unstash
<1> QED BY <1>1, <1>2, StillInv DEF m_mod_unstash

LEMMA NoTouch ==
    ASSUME SrcInv, TouchFreed
    PROVE  FALSE
<1>1. PICK k \in DOMAIN tree : \E o \in TreeData(tree[k]) : ~(src[o].refs > 0)
    BY DEF TouchFreed, Intact
<1>2. PICK o \in TreeData(tree[k]) : ~(src[o].refs > 0)
    BY <1>1
<1>3. o \in Members(tree)
    BY <1>2 DEF Members
<1> QED BY <1>2, <1>3, InvIs

(***************************************************************************)
(* A change of the world to v, with what it harms reported.                 *)
(***************************************************************************)
Change(v) ==
    /\ setup' = setup /\ made' <= setup.max /\ EventsOK(events') /\ Install(v)
    /\ Base(tree', v, made', HeldBy(events'), ready', tasks') /\ TimerOK(hurt', tree', v, tb')
    /\ hurt \cup Harm(v) \subseteq hurt' /\ ready' \subseteq ready /\ undefined' = undefined
    /\ \A e \in v.interest : e \in interest \/ (e[2] \in Srcs /\ v.src[e[2]].refs > 0)
    /\ \A p \in Srcs : tasks'[p] = tasks[p] \/ v.src[p].refs # 0

LEMMA Changed ==
    ASSUME SrcInv, NEW v, Change(v)
    PROVE  SrcInv'
<1>1. QuietOK(hurt, World, ready, tasks, undefined)
    BY DEF SrcInv
<1>2. tasks \in [Srcs -> Nat] /\ \A o \in Srcs : src[o].refs \in Nat
    BY InvIs
<1>3. /\ \A e \in v.interest : e \in interest \/ (e[2] \in Srcs /\ v.src[e[2]].refs > 0)
      /\ hurt \cup Harm(v) \subseteq hurt' /\ ready' \subseteq ready /\ undefined' = undefined
    BY DEF Change
<1>4. QuietOK(hurt', v, ready', tasks, undefined)
    BY <1>1, <1>2, <1>3, HarmQuiet
<1>5. \A p \in Srcs : v.src[p].refs = 0 => tasks'[p] = tasks[p]
    BY DEF Change
<1>6. QuietOK(hurt', v, ready', tasks', undefined')
    BY <1>3, <1>4, <1>5 DEF QuietOK, Quiet
<1>7. InvAt(v)
    BY <1>6 DEF Change, InvAt
<1> QED BY <1>7, Reached

(* A source is created and refused, as its place in the tree is taken.       *)
LEMMA RefusedStep ==
    ASSUME NEW t, NEW w, NEW m, NEW c, NEW r, NEW j, Base(t, w, m, c, r, j), m < MaxSrcs,
           NEW s \in Source, s.refs = 1, NEW o, o = m + 1,
           NEW z, z = Created(w, o, s), NEW v, v = Unref(z, o)
    PROVE  /\ Base(t, v, o, c, r, j) /\ o \in Srcs /\ Fewer(t, w.src, t, v.src)
           /\ v.interest \subseteq w.interest
           /\ w.src[o].refs = 0 /\ \A p \in Srcs : p # o => v.src[p] = w.src[p]
<1>1. /\ m \in 0..(MaxSrcs - 1) /\ o \in Srcs /\ w \in Worlds /\ Forest(t, m) /\ o \in Nat /\ o # 0
      /\ m \in Nat /\ o \in 0..MaxSrcs /\ o > m
    BY ConstantsAre DEF Base
<1>13. w.src[o].refs = 0
    BY <1>1 DEF Base, Fresh
<1>2. Forest(t, o)
    BY <1>1, GrownBound DEF Forest
<1>3. z = [w EXCEPT !.src = [w.src EXCEPT ![o] = s]] /\ w.src \in [Srcs -> Source]
    BY <1>1 DEF Worlds, Created
<1>4. /\ z \in Worlds /\ z.src[o] = s /\ \A p \in Srcs : p # o => z.src[p] = w.src[p]
      /\ z.interest = w.interest
    BY <1>1, <1>3 DEF Worlds
<1>5. v \in Worlds /\ v.interest \subseteq z.interest /\ Dropped(z, v, o)
    BY <1>1, <1>4, UnrefIs
<1>6. v.src[o].refs = 0 /\ \A p \in Srcs : p # o => v.src[p] = w.src[p]
    BY <1>1, <1>4, <1>5 DEF Dropped
<1>7. /\ Members(t) \subseteq Srcs /\ \A p \in Members(t) : p <= m
      /\ \A p \in Srcs : w.src[p].refs = (IF p \in Members(t) THEN 1 ELSE 0) + c[p]
    BY BaseIs
<1>8. o \notin Members(t) /\ c[o] = 0 /\ c \in [Srcs -> Nat]
    BY <1>1, <1>7, NoneHeld
<1>9. Counted(t, v.src, c)
    <2>1. SUFFICES ASSUME NEW p \in Srcs
                   PROVE  v.src[p].refs = (IF p \in Members(t) THEN 1 ELSE 0) + c[p]
        BY DEF Counted
    <2>2. CASE p = o
        BY <1>6, <1>8, <2>2
    <2>3. CASE p # o
        BY <1>6, <1>7, <2>3
    <2> QED BY <2>2, <2>3
<1>10. \A p \in Members(t) : p \in Srcs /\ v.src[p] = w.src[p]
    BY <1>6, <1>7, <1>8
<1>11. Fewer(t, w.src, t, v.src) /\ TimersOK(t, v.src)
    BY <1>10 DEF Fewer, Bucketed, TimersOK, Base
<1>12. Fresh(v.src, v.interest, r, j, o)
    <2>1. SUFFICES ASSUME NEW p \in Srcs, p > o
                   PROVE  v.src[p].refs = 0 /\ p \notin r /\ j[p] = 0 /\ \A e \in v.interest : e[2] # p
        BY DEF Fresh
    <2>2. p > m /\ p # o
        BY <1>1, <2>1, ConstantsAre
    <2>3. w.src[p].refs = 0 /\ p \notin r /\ j[p] = 0 /\ \A e \in w.interest : e[2] # p
        BY <2>2 DEF Base, Fresh
    <2> QED BY <1>4, <1>5, <1>6, <2>2, <2>3
<1> QED BY <1>1, <1>2, <1>4, <1>5, <1>6, <1>8, <1>9, <1>11, <1>12, <1>13 DEF Base

LEMMA CreatedIs ==
    ASSUME setup \in Setups, NEW id \in setup.ids, NEW oneshot \in BOOLEAN, NEW autoclose \in BOOLEAN,
           NEW s, s = create_src(id, oneshot, autoclose)
    PROVE  s \in Source /\ s.refs = 1 /\ ~s.tb
<1>1. id \in Nat /\ kind \in Kinds
    BY SetupIs DEF kind
<1>2. PICK one, fd : /\ one = (oneshot \/ kind \in {"TASK", "THRESH"}) /\ one \in BOOLEAN
                     /\ fd = (IF kind = "FD" THEN id ELSE -1)
    OBVIOUS
<1>3. fd \in Fds
    BY <1>1, <1>2 DEF Fds
<1>4. s = [NoSrc EXCEPT !.type = kind, !.id = id, !.refs = 1, !.autoclose = autoclose,
                        !.oneshot = one, !.fd = fd]
    BY <1>2 DEF create_src
<1>5. s = [type |-> kind, id |-> id, oneshot |-> one, autoclose |-> autoclose, tb |-> FALSE,
           fd |-> fd, ev |-> FALSE, fresh |-> FALSE, fired |-> FALSE, refs |-> 1]
    BY <1>4 DEF NoSrc
<1> QED BY <1>1, <1>2, <1>3, <1>5 DEF Source

(* register_mod_src as the parts of Added.                                  *)
LEMMA RegisterIs ==
    ASSUME SrcInv, NEW id, NEW oneshot, NEW autoclose, Register(id, oneshot, autoclose),
           NEW s, s = create_src(id, oneshot, autoclose)
    PROVE  \E o, l, z, v :
               /\ o = made + 1 /\ l = bst_find(tree[kind], Cmp(AsKey(s))) /\ z = Created(World, o, s)
               /\ Install(v) /\ hurt' = hurt \cup Harm(v)
               /\ \/ tree' = tree /\ v = Unref(z, o) /\ tasks' = tasks
                  \/ /\ tree[kind].child[l] = 0 /\ Polled(z, o, v)
                     /\ tree' = [tree EXCEPT ![kind] = insert_node(@, l, o)]
                     /\ tasks' \in {tasks, [tasks EXCEPT ![o] = 1]}
<1>1. PICK o, a : o = made + 1 /\ a = Added(tree, World, o, s, kind)
                /\ a = Added(tree, World, made + 1, s, kind)
    OBVIOUS
<1>2. PICK l : l = bst_find(tree[kind], Cmp(AsKey(s)))
    OBVIOUS
<1>3. PICK z : z = Created(World, o, s)
    OBVIOUS
<1>4. /\ a.refused = (tree[kind].child[l] # 0)
      /\ a.tree = IF tree[kind].child[l] # 0 THEN tree
                  ELSE [tree EXCEPT ![kind] = insert_node(@, l, o)]
      /\ a.w = IF tree[kind].child[l] # 0 THEN Unref(z, o) ELSE IF Running THEN PollAdd(z, o) ELSE z
    BY <1>1, <1>2, <1>3 DEF Added, Created
<1>5. /\ tree' = a.tree /\ Install(a.w) /\ hurt' = hurt \cup Harm(a.w)
      /\ tasks' = IF kind = "TASK" /\ Running /\ ~a.refused THEN [tasks EXCEPT ![o] = 1] ELSE tasks
    BY <1>1 DEF Register
<1>6. PICK v : v = a.w
    OBVIOUS
<1>7. Install(v) /\ hurt' = hurt \cup Harm(v)
    BY <1>5, <1>6
<1>8. CASE tree[kind].child[l] # 0
    BY <1>1, <1>2, <1>3, <1>4, <1>5, <1>6, <1>7, <1>8
<1>9. CASE tree[kind].child[l] = 0
    <2>1. tree' = [tree EXCEPT ![kind] = insert_node(@, l, o)]
        BY <1>4, <1>5, <1>9
    <2>2. Polled(z, o, v)
        BY <1>4, <1>6, <1>9 DEF Polled
    <2>3. tasks' \in {tasks, [tasks EXCEPT ![o] = 1]}
        BY <1>5
    <2> QED BY <1>1, <1>2, <1>3, <1>7, <1>9, <2>1, <2>2, <2>3
<1> QED BY <1>8, <1>9

LEMMA RegisterInv ==
    ASSUME SrcInv, BucketOK(tb), NEW id \in setup.ids, NEW oneshot \in BOOLEAN, NEW autoclose \in BOOLEAN,
           Register(id, oneshot, autoclose)
    PROVE  SrcInv'
<1>1. PICK s : s = create_src(id, oneshot, autoclose)
    OBVIOUS
<1>2. s \in Source /\ s.refs = 1 /\ ~s.tb
    BY <1>1, InvIs, CreatedIs
<1>3. PICK o, l, z, v :
          /\ o = made + 1 /\ l = bst_find(tree[kind], Cmp(AsKey(s))) /\ z = Created(World, o, s)
          /\ Install(v) /\ hurt' = hurt \cup Harm(v)
          /\ \/ tree' = tree /\ v = Unref(z, o) /\ tasks' = tasks
             \/ /\ tree[kind].child[l] = 0 /\ Polled(z, o, v)
                /\ tree' = [tree EXCEPT ![kind] = insert_node(@, l, o)]
                /\ tasks' \in {tasks, [tasks EXCEPT ![o] = 1]}
    BY <1>1, RegisterIs
<1>4. /\ made < setup.max /\ made' = o /\ tb'.period = tb.period
      /\ UNCHANGED <<setup, ready, events, undefined>>
    BY <1>3, SpendKeeps DEF Register
<1>5. made < MaxSrcs /\ made' <= setup.max /\ made \in Nat /\ o \in Nat
    <2>1. made \in Nat /\ setup.max \in Nat /\ setup.max <= MaxSrcs /\ MaxSrcs \in Nat
        BY InvIs, ConstantsAre
    <2>2. PICK x : x = setup.max
        OBVIOUS
    <2>3. made < x /\ made' = made + 1 /\ o = made + 1
        BY <1>3, <1>4, <2>2
    <2> QED BY <2>1, <2>2, <2>3
<1>6. Base(tree, World, made, HeldBy(events), ready, tasks) /\ tasks \in [Srcs -> Nat] /\ World.interest = interest
    BY InvIs, WorldIs
<1>7. /\ Base(tree', v, o, HeldBy(events), ready, tasks') /\ Fewer(tree, World.src, tree', v.src)
      /\ \A e \in v.interest : e \in interest \/ (e[2] \in Srcs /\ v.src[e[2]].refs > 0)
      /\ \A p \in Srcs : tasks'[p] = tasks[p] \/ v.src[p].refs # 0
    <2>1. CASE tree' = tree /\ v = Unref(z, o) /\ tasks' = tasks
        <3>1. /\ Base(tree, v, o, HeldBy(events), ready, tasks) /\ Fewer(tree, World.src, tree, v.src)
              /\ v.interest \subseteq World.interest
            <4>1. z = Created(World, o, s) /\ v = Unref(z, o) /\ o = made + 1
                BY <1>3, <2>1
            <4> QED BY ONLY <1>2, <1>5, <1>6, <4>1, RefusedStep
        <3> QED BY <1>6, <2>1, <3>1
    <2>2. CASE /\ tree[kind].child[l] = 0 /\ Polled(z, o, v)
               /\ tree' = [tree EXCEPT ![kind] = insert_node(@, l, o)]
               /\ tasks' \in {tasks, [tasks EXCEPT ![o] = 1]}
        <3>1. GoodTree(tree[kind], made)
            BY <1>6 DEF Base, Forest
        <3>2. Planted(tree, kind, l, o, tree')
            <4>1. l \in Links /\ (l = Root \/ l[1] \in TreeNodes(tree[kind]))
                BY <1>3, <3>1, FindGood
            <4> QED BY <2>2, <4>1 DEF Planted
        <3>3. PICK u : u = tree' /\ Planted(tree, kind, l, o, u)
            BY <3>2
        <3>4. o \in Srcs
            BY <1>3, <1>5, ConstantsAre
        <3>5. PICK i : i = tasks' /\ i \in [Srcs -> Nat] /\ \A p \in Srcs : p # o => i[p] = tasks[p]
            BY <1>6, <2>2, <3>4
        <3>6. Polled(z, o, v) /\ z = Created(World, o, s) /\ o = made + 1 /\ kind \in {kind, "TMR"}
              /\ (s.tb => kind = "TMR" /\ s.id # 0)
            BY <1>2, <1>3, <2>2
        <3>7. /\ Base(u, v, o, HeldBy(events), ready, i) /\ v.src[o].refs = 1
              /\ \A p \in Srcs : p # o => v.src[p].refs = World.src[p].refs /\ v.src[p].id = World.src[p].id
                                          /\ v.src[p].tb = World.src[p].tb
              /\ \A e \in v.interest : e \in World.interest \/ e[2] = o
              /\ Bucketed(u, v.src) = Bucketed(tree, World.src) \cup (IF s.tb THEN {o} ELSE {})
            <4>1. Adding(tree, World, made, HeldBy(events), ready, tasks, s, o, kind, l, u, z, v, i)
                BY <1>2, <1>5, <1>6, <3>3, <3>5, <3>6 DEF Adding
            <4>2. Additions(tree, World, HeldBy(events), ready, s, o, u, v, i)
                BY ONLY <4>1, AddStep
            <4> QED BY <4>2 DEF Additions
        <3>8. Bucketed(u, v.src) = Bucketed(tree, World.src)
            BY <1>2, <3>7
        <3>9. o \notin Bucketed(tree, World.src) /\ Bucketed(tree, World.src) \subseteq Srcs
            <4>1. Members(tree) \subseteq Srcs /\ \A p \in Members(tree) : p <= made
                BY InvIs
            <4> QED BY <1>3, <1>5, <4>1 DEF Bucketed
        <3>10. Fewer(tree, World.src, u, v.src)
            BY <3>7, <3>8, <3>9 DEF Fewer
        <3> QED BY <1>6, <3>3, <3>4, <3>5, <3>7, <3>10
    <2> QED BY <1>3, <2>1, <2>2
<1>8. TimerOK(hurt', tree', v, tb')
    <2>1. TimerOK(hurt, tree, World, tb) /\ hurt \subseteq hurt'
        BY <1>3 DEF SrcInv
    <2> QED BY <1>4, <1>7, <2>1, FewerKeeps
<1>10. EventsOK(events') /\ events' = events
    BY <1>4, InvIs
<1>9. Change(v)
    BY <1>3, <1>4, <1>5, <1>7, <1>8, <1>10 DEF Change
<1> QED BY <1>9, Changed

LEMMA DeregisterInv ==
    ASSUME SrcInv, BucketOK(tb), NEW id \in setup.ids, Deregister(id), "swap" \notin hurt'
    PROVE  SrcInv'
<1>1. PICK q : q = Removed(World, id, kind)
    OBVIOUS
<1>2. /\ tree' = q.tree /\ Install(q.w) /\ hurt' = hurt \cup RemovalHarm(q, id, kind, FALSE)
      /\ UNCHANGED <<setup, made, tasks, ready, events, undefined>> /\ tb'.period = tb.period
    BY <1>1, SpendKeeps DEF Deregister
<1>3. ~q.swap /\ Harm(q.w) \subseteq hurt' /\ hurt \subseteq hurt'
    BY <1>2 DEF RemovalHarm
<1>4. Base(tree, World, made, HeldBy(events), ready, tasks) /\ \A o \in Srcs : World.src[o].id = src[o].id
    BY InvIs, WorldIs
<1>5. /\ Base(q.tree, q.w, made, HeldBy(events), ready, tasks) /\ Fewer(tree, World.src, q.tree, q.w.src)
      /\ q.w.interest \subseteq World.interest
    BY <1>1, <1>3, <1>4, RemoveStep
<1>6. TimerOK(hurt', q.tree, q.w, tb')
    <2>1. TimerOK(hurt, tree, World, tb)
        BY DEF SrcInv
    <2>2. tb'.period = tb.period
        BY <1>2
    <2> QED BY ONLY <1>3, <1>5, <2>1, <2>2, FewerKeeps
<1>7. Change(q.w)
    BY <1>2, <1>3, <1>5, <1>6, InvIs, WorldIs DEF Change
<1> QED BY <1>7, Changed

-----------------------------------------------------------------------------
LEMMA AllAre ==
    ASSUME SrcInv
    PROVE  /\ AllRegistered \in Seq(Srcs) /\ ToSet(AllRegistered) = Members(tree)
           /\ Once(AllRegistered) /\ \A o \in ToSet(AllRegistered) : src[o].refs > 0
           /\ \A k \in {kind, "TMR"} : ToSet(Registered(k)) = TreeData(tree[k])
<1>1. made \in 0..MaxSrcs /\ Forest(tree, made) /\ setup \in Setups
    BY InvIs DEF Base
<1>2. /\ AllRegistered \in Seq(Srcs) /\ ToSet(AllRegistered) = Members(tree)
      /\ Once(AllRegistered)
    BY <1>1, AllRegisteredAre
<1>3. ASSUME NEW k \in {kind, "TMR"} PROVE ToSet(Registered(k)) = TreeData(tree[k])
    <2>1. GoodTree(tree[k], made)
        BY <1>1 DEF Forest
    <2> QED BY <1>1, <2>1, InOrderOnce DEF Registered
<1> QED BY <1>2, <1>3, InvIs

(* Every source is polled, or no longer.                                    *)
Managed(op, v) ==
    /\ v = Manage(op) /\ Install(v) /\ tb'.period = tb.period
    /\ UNCHANGED <<setup, tree, made, ready, events, undefined>>
    /\ hurt \cup Harm(v) \subseteq hurt' /\ tasks' \in {tasks, StartedTasks}

LEMMA ManagedInv ==
    ASSUME SrcInv, NEW op \in {"ADD", "RM"}, NEW v, Managed(op, v)
    PROVE  SrcInv'
<1>1. /\ v = Manage(op) /\ Install(v) /\ tb'.period = tb.period
      /\ UNCHANGED <<setup, tree, made, ready, events, undefined>>
      /\ hurt \cup Harm(v) \subseteq hurt' /\ tasks' \in {tasks, StartedTasks}
    BY DEF Managed
<1>2. /\ v \in Worlds /\ SameSources(World, v)
      /\ \A e \in v.interest : e \in World.interest \/ e[2] \in Members(tree)
    <2>1. World \in Worlds /\ World.interest = interest
        BY InvIs, WorldIs
    <2> QED BY <1>1, <2>1, AllAre, ManagePolls
<1>3. PICK j : j = tasks' /\ j \in [Srcs -> Nat] /\ \A p \in Srcs : j[p] = tasks[p] \/ p \in Members(tree)
    <2>1. CASE tasks' = tasks
        BY <2>1, InvIs
    <2>2. CASE tasks' = StartedTasks
        <3>1. ToSet(Registered(kind)) = TreeData(tree[kind]) /\ TreeData(tree[kind]) \subseteq Members(tree)
            <4>1. ToSet(Registered(kind)) = TreeData(tree[kind])
                BY AllAre
            <4> QED BY <4>1, InvIs DEF Members
        <3>2. tasks \in [Srcs -> Nat]
            BY InvIs
        <3> QED BY <2>2, <3>1, <3>2 DEF StartedTasks
    <2> QED BY <1>1, <2>1, <2>2
<1>4. /\ Base(tree, v, made, HeldBy(events), ready, tasks) /\ Fewer(tree, World.src, tree, v.src)
    <2>1. Base(tree, World, made, HeldBy(events), ready, tasks)
        BY InvIs
    <2> QED BY <1>2, <2>1, PollStep
<1>5. Members(tree) \subseteq Srcs /\ made \in Nat /\ \A o \in Members(tree) : o <= made /\ src[o].refs > 0
    BY InvIs, ConstantsAre
<1>6. Base(tree, v, made, HeldBy(events), ready, j)
    <2>1. Fresh(v.src, v.interest, ready, tasks, made) /\ ready \subseteq Srcs
        BY <1>4 DEF Base
    <2>2. \A o \in Srcs : o > made => o \notin ready /\ j[o] = 0
        BY <1>3, <1>5, <2>1, ConstantsAre DEF Fresh
    <2> QED BY <1>2, <1>3, <1>4, <2>1, <2>2, BaseKeeps
<1>7. TimerOK(hurt', tree, v, tb')
    <2>1. TimerOK(hurt, tree, World, tb) /\ hurt \subseteq hurt'
        BY <1>1 DEF SrcInv
    <2> QED BY <1>1, <1>4, <2>1, FewerKeeps
<1>8. \A p \in Members(tree) : p \in Srcs /\ v.src[p].refs = src[p].refs /\ v.src[p].refs > 0
    BY <1>2, <1>5, WorldIs DEF SameSources
<1>9. Change(v)
    BY <1>1, <1>2, <1>3, <1>5, <1>6, <1>7, <1>8, InvIs, WorldIs DEF Change
<1> QED BY <1>9, Changed

LEMMA StartInv ==
    ASSUME SrcInv, BucketOK(tb), NEW evaluated \in BOOLEAN, Start(evaluated)
    PROVE  SrcInv'
<1>1. PICK b : b = IF evaluated THEN tb ELSE Spend(tb)
    OBVIOUS
<1>2. BucketOK(b) /\ b.period = tb.period
    BY <1>1, SpendKeeps DEF Start
<1>3. tb' = IF b.tokens > 0 THEN Spend(b) ELSE b
    BY <1>1 DEF Start
<1>4. tb'.period = tb.period
    BY <1>2, <1>3, SpendKeeps
<1>5. Managed("ADD", Manage("ADD"))
    BY <1>4 DEF Start, Managed
<1> QED BY <1>5, ManagedInv

LEMMA ResumeInv ==
    ASSUME SrcInv, BucketOK(tb), Resume
    PROVE  SrcInv'
<1>1. Managed("ADD", Manage("ADD"))
    BY SpendKeeps DEF Resume, Managed
<1> QED BY <1>1, ManagedInv

LEMMA PauseInv ==
    ASSUME SrcInv, BucketOK(tb), Pause
    PROVE  SrcInv'
<1>1. Managed("RM", Manage("RM"))
    BY SpendKeeps DEF Pause, Managed
<1> QED BY <1>1, ManagedInv

LEMMA StopInv ==
    ASSUME SrcInv, Stop
    PROVE  SrcInv'
<1>1. PICK v : v = Manage("STOP")
    OBVIOUS
<1>2. /\ Install(v) /\ tree' = [k \in {kind, "TMR"} |-> EmptyTree]
      /\ UNCHANGED <<setup, made, tasks, ready, undefined>> /\ hurt' = hurt \cup Harm(v)
      /\ events' = Free({"batch", "stash"})
    BY <1>1, InvIs DEF Stop
<1>12. EventsOK(events') /\ HeldBy(events') = HeldBy(events)
    BY <1>2, InvIs, FreeSame DEF SameEvents
<1>3. v \in Worlds /\ v.interest \subseteq interest /\ AllDropped(v, Members(tree))
    <2>1. World \in Worlds
        BY InvIs
    <2> QED BY <1>1, <2>1, AllAre, ManageStops
<1>4. PICK u : u = tree' /\ Forest(u, made) /\ Members(u) = {}
    BY <1>2, EmptyForest
<1>5. \A o \in Members(tree) : o <= made
    BY InvIs
<1>6. Counted(u, v.src, HeldBy(events))
    <2>1. SUFFICES ASSUME NEW o \in Srcs PROVE v.src[o].refs = 0 + HeldBy(events)[o]
        BY <1>4 DEF Counted
    <2>2. src[o].refs = (IF o \in Members(tree) THEN 1 ELSE 0) + HeldBy(events)[o]
          /\ HeldBy(events)[o] \in Nat
        BY InvIs
    <2>3. CASE o \in Members(tree)
        <3>1. v.src[o].refs = src[o].refs - 1
            BY <1>3, <2>3 DEF AllDropped
        <3> QED BY <2>2, <2>3, <3>1
    <2>4. CASE o \notin Members(tree)
        <3>1. v.src[o].refs = src[o].refs
            BY <1>3, <2>4 DEF AllDropped
        <3> QED BY <2>2, <2>4, <3>1
    <2> QED BY <2>3, <2>4
<1>7. Bucketed(u, v.src) = {}
    BY <1>4 DEF Bucketed
<1>8. TimersOK(u, v.src) /\ TimerOK(hurt', u, v, tb')
    BY <1>7 DEF TimersOK, TimerOK, OneTimer
<1>9. Fresh(v.src, v.interest, ready, tasks, made)
    <2>1. SUFFICES ASSUME NEW o \in Srcs, o > made
                   PROVE  v.src[o].refs = 0 /\ o \notin ready /\ tasks[o] = 0 /\ \A e \in v.interest : e[2] # o
        BY DEF Fresh
    <2>2. src[o].refs = 0 /\ o \notin ready /\ tasks[o] = 0 /\ \A e \in interest : e[2] # o
        BY <2>1, InvIs, WorldIs DEF Base, Fresh
    <2>3. o \notin Members(tree)
        <3>1. made \in Nat /\ o \in Nat
            BY InvIs, ConstantsAre
        <3> QED BY <1>5, <2>1, <3>1
    <2> QED BY <1>3, <2>2, <2>3 DEF AllDropped
<1>10. Base(u, v, made, HeldBy(events), ready, tasks)
    BY <1>3, <1>4, <1>6, <1>8, <1>9, InvIs DEF Base
<1>11. Change(v)
    BY <1>2, <1>3, <1>4, <1>8, <1>10, <1>12, InvIs DEF Change
<1> QED BY <1>11, Changed

(* The reference of an event is dropped.                                    *)
LEMMA LetGo ==
    ASSUME NEW t, NEW w, NEW m, NEW c, NEW r, NEW j, Base(t, w, m, c, r, j),
           NEW o \in Srcs, c[o] > 0, NEW v, v = Unref(w, o)
    PROVE  /\ Base(t, v, m, [c EXCEPT ![o] = @ - 1], r, j) /\ Fewer(t, w.src, t, v.src)
           /\ v.interest \subseteq w.interest
<1>1. w \in Worlds /\ m \in 0..MaxSrcs /\ o \in Nat /\ m \in Nat /\ c \in [Srcs -> Nat]
    BY ConstantsAre DEF Base
<1>2. /\ Members(t) \subseteq Srcs
      /\ \A p \in Srcs : w.src[p].refs = (IF p \in Members(t) THEN 1 ELSE 0) + c[p]
    BY BaseIs
<1>3. w.src[o].refs > 0
    <2>1. w.src[o].refs = (IF o \in Members(t) THEN 1 ELSE 0) + c[o] /\ c[o] \in Nat
        BY <1>1, <1>2
    <2> QED BY <2>1
<1>4. v \in Worlds /\ v.interest \subseteq w.interest /\ Dropped(w, v, o)
    BY <1>1, <1>3, UnrefIs
<1>9. PICK d : d = [c EXCEPT ![o] = @ - 1]
    OBVIOUS
<1>10. d \in [Srcs -> Nat] /\ d[o] = c[o] - 1 /\ \A p \in Srcs : p # o => d[p] = c[p]
    <2>1. c[o] \in Nat /\ c[o] - 1 \in Nat
        BY <1>1
    <2> QED BY <1>1, <1>9, <2>1
<1>5. Counted(t, v.src, d)
    <2>1. SUFFICES ASSUME NEW p \in Srcs
                   PROVE  v.src[p].refs = (IF p \in Members(t) THEN 1 ELSE 0) + d[p]
        BY DEF Counted
    <2>2. w.src[p].refs = (IF p \in Members(t) THEN 1 ELSE 0) + c[p] /\ c[p] \in Nat
        BY <1>1, <1>2
    <2>3. CASE p = o
        <3>1. v.src[p].refs = w.src[p].refs - 1 /\ d[p] = c[p] - 1
            BY <1>4, <1>10, <2>3 DEF Dropped
        <3> QED BY <2>2, <3>1
    <2>4. CASE p # o
        BY <1>4, <1>10, <2>2, <2>4 DEF Dropped
    <2> QED BY <2>3, <2>4
<1>6. \A p \in Bucketed(t, v.src) : p \in Bucketed(t, w.src) /\ v.src[p].id = w.src[p].id
    BY <1>2, <1>4 DEF Bucketed, Dropped
<1>7. TimersOK(t, v.src) /\ Fewer(t, w.src, t, v.src)
    BY <1>6 DEF Base, TimersOK, Fewer
<1>8. Fresh(v.src, v.interest, r, j, m)
    <2>1. \A p \in Srcs : p > m => p # o
        BY NoneHeld
    <2> QED BY <1>4, <2>1 DEF Base, Fresh, Dropped
<1>11. Base(t, v, m, d, r, j)
    BY <1>1, <1>4, <1>5, <1>7, <1>8, <1>10 DEF Base
<1> QED BY <1>4, <1>7, <1>9, <1>11

LEMMA EvtDtorInv ==
    ASSUME SrcInv, NEW e \in Events, evt_dtor(e)
    PROVE  SrcInv'
<1>1. PICK o : o = events[e].src
    OBVIOUS
<1>2. o \in Srcs
    BY <1>1, InvIs DEF evt_dtor, Unheld, EventsOK
<1>3. PICK v : v = Unref(World, o)
    OBVIOUS
<1>4. /\ Install(v) /\ hurt' = hurt \cup Harm(v) /\ events' = [events EXCEPT ![e] = NoEvent]
      /\ UNCHANGED <<setup, tree, made, tasks, ready, tb, undefined>>
    BY <1>1, <1>3 DEF evt_dtor
<1>5. /\ EventsOK(events') /\ HeldBy(events)[o] > 0
      /\ HeldBy(events') = [HeldBy(events) EXCEPT ![o] = @ - 1]
    <2>1. EventTaken(events, e, o, events')
        BY <1>1, <1>2, <1>4, InvIs DEF EventTaken
    <2> QED BY ONLY <2>1, EventGone
<1>6. /\ Base(tree, v, made, HeldBy(events'), ready, tasks) /\ Fewer(tree, World.src, tree, v.src)
      /\ v.interest \subseteq World.interest
    <2>1. Base(tree, World, made, HeldBy(events), ready, tasks)
        BY InvIs
    <2>2. /\ Base(tree, v, made, [HeldBy(events) EXCEPT ![o] = @ - 1], ready, tasks)
          /\ Fewer(tree, World.src, tree, v.src) /\ v.interest \subseteq World.interest
        BY ONLY <1>2, <1>3, <1>5, <2>1, LetGo
    <2> QED BY <1>5, <2>2
<1>7. TimerOK(hurt', tree, v, tb')
    <2>1. TimerOK(hurt, tree, World, tb) /\ hurt \subseteq hurt' /\ tb'.period = tb.period
        BY <1>4 DEF SrcInv
    <2> QED BY ONLY <1>6, <2>1, FewerKeeps
<1>8. Change(v)
    BY <1>4, <1>5, <1>6, <1>7, InvIs, WorldIs DEF Change
<1> QED BY <1>8, Changed

-----------------------------------------------------------------------------
(* The event takes a reference on its source.                               *)
Held(o) ==
    [World EXCEPT !.src[o].refs = @ + 1, !.src[o].fired = src[o].oneshot, !.signalled = @ \ {src[o].fd}]

LEMMA HeldIs ==
    ASSUME SrcInv, NEW o \in ready, src[o].refs > 0, NEW w, w = Held(o),
           NEW c, c = [HeldBy(events) EXCEPT ![o] = @ + 1]
    PROVE  /\ Base(tree, w, made, c, ready \ {o}, tasks) /\ w.interest = interest
           /\ \A p \in Srcs : w.src[p].id = src[p].id /\ w.src[p].tb = src[p].tb
           /\ \A p \in Srcs : p # o => w.src[p].refs = src[p].refs
           /\ w.src[o].refs > 0
<1>1. o \in Srcs /\ src[o] \in Source /\ World \in Worlds /\ made \in Nat /\ o \in Nat
      /\ src \in [Srcs -> Source] /\ signalled \subseteq Fds
    BY InvIs, ConstantsAre
<1>2. PICK s, n, b : n = src[o].refs + 1 /\ b = src[o].oneshot
                     /\ s = [src[o] EXCEPT !.refs = n, !.fired = b]
    OBVIOUS
<1>3. s \in Source /\ s.refs = src[o].refs + 1 /\ s.id = src[o].id /\ s.tb = src[o].tb
    <2>1. n \in Nat /\ b \in BOOLEAN
        BY <1>1, <1>2 DEF Source
    <2> QED BY <1>1, <1>2, <2>1 DEF Source
<1>4. PICK g : g = signalled \ {src[o].fd}
    OBVIOUS
<1>5. w = [World EXCEPT !.src = [src EXCEPT ![o] = s], !.signalled = g] /\ g \subseteq Fds
    BY <1>1, <1>2, <1>4 DEF Held, World
<1>6. /\ w \in Worlds /\ w.src[o] = s /\ (\A p \in Srcs : p # o => w.src[p] = src[p])
      /\ w.interest = interest
    <2>1. PICK x : x = [src EXCEPT ![o] = s]
        OBVIOUS
    <2>2. x \in [Srcs -> Source] /\ x[o] = s /\ \A p \in Srcs : p # o => x[p] = src[p]
        BY <1>1, <1>3, <2>1
    <2>3. w = [World EXCEPT !.src = x, !.signalled = g]
        BY <1>5, <2>1
    <2>4. w = [src |-> x, open |-> open, interest |-> interest, off |-> off, signalled |-> g]
        BY <2>3 DEF World
    <2>5. open \subseteq Fds /\ interest \subseteq Fds \X Srcs /\ off \subseteq Fds
        BY InvIs
    <2>6. g \subseteq Fds
        BY <1>5
    <2>7. w \in Worlds
        BY ONLY <2>2, <2>4, <2>5, <2>6 DEF Worlds
    <2>8. w.src = x /\ w.interest = interest
        BY ONLY <2>4
    <2> QED BY ONLY <2>2, <2>7, <2>8
<1>7. o <= made /\ o \in 0..made
    <2>1. o > made => src[o].refs = 0
        BY <1>1, InvIs, WorldIs DEF Base, Fresh
    <2> QED BY <1>1, <2>1
<1>13. /\ c \in [Srcs -> Nat] /\ c[o] = HeldBy(events)[o] + 1
       /\ \A p \in Srcs : p # o => c[p] = HeldBy(events)[p]
    <2>1. HeldBy(events) \in [Srcs -> Nat]
        BY InvIs
    <2>2. HeldBy(events)[o] \in Nat /\ HeldBy(events)[o] + 1 \in Nat
        BY <1>1, <2>1
    <2> QED BY <1>1, <2>1, <2>2
<1>8. Counted(tree, w.src, c)
    <2>1. SUFFICES ASSUME NEW p \in Srcs
                   PROVE  w.src[p].refs = (IF p \in Members(tree) THEN 1 ELSE 0) + c[p]
        BY DEF Counted
    <2>2. /\ src[p].refs = (IF p \in Members(tree) THEN 1 ELSE 0) + HeldBy(events)[p]
          /\ HeldBy(events)[p] \in Nat
        BY InvIs
    <2>3. CASE p = o
        <3>1. w.src[p].refs = src[p].refs + 1 /\ c[p] = HeldBy(events)[p] + 1
            BY <1>3, <1>6, <1>13, <2>3
        <3> QED BY <2>2, <3>1
    <2>4. CASE p # o
        <3>1. w.src[p] = src[p] /\ c[p] = HeldBy(events)[p]
            BY <1>6, <1>13, <2>4
        <3> QED BY <2>2, <3>1
    <2> QED BY <2>3, <2>4
<1>9. TimersOK(tree, w.src)
    <2>1. \A p \in Members(tree) : p \in Srcs /\ w.src[p].tb = src[p].tb /\ w.src[p].id = src[p].id
        BY <1>3, <1>6, InvIs
    <2>2. TimersOK(tree, src)
        BY InvIs, WorldIs DEF Base
    <2> QED BY <2>1, <2>2 DEF TimersOK, Bucketed
<1>10. Fresh(w.src, w.interest, ready \ {o}, tasks, made)
    <2>1. Fresh(src, interest, ready, tasks, made)
        BY InvIs, WorldIs DEF Base
    <2>2. \A p \in Srcs : p > made => p # o
        BY <1>1, <1>7
    <2> QED BY <1>6, <2>1, <2>2 DEF Fresh
<1>11. Base(tree, w, made, c, ready \ {o}, tasks)
    BY <1>6, <1>8, <1>9, <1>10, <1>13, InvIs DEF Base
<1>12. w.src[o].refs > 0 /\ src[o].refs \in Nat
    BY <1>1, <1>3, <1>6 DEF Source
<1> QED BY <1>3, <1>6, <1>11, <1>12

(* The event is made, and a one-shot source removed.                         *)
Handed(o, q) ==
    /\ o \in ready /\ src[o].refs > 0 /\ ready' = ready \ {o}
    /\ EventsOK(events') /\ HeldBy(events') = [HeldBy(events) EXCEPT ![o] = @ + 1]
    /\ tree' = q.tree /\ Install(q.w) /\ hurt \cup Harm(q.w) \subseteq hurt' /\ ~q.swap
    /\ UNCHANGED <<setup, made, tasks, tb, undefined>>

LEMMA HandedInv ==
    ASSUME SrcInv, NEW o, NEW q, Handed(o, q),
           \/ q = Removed(Held(o), AsKey(src[o]), kind)
           \/ q.tree = tree /\ q.w = Held(o)
    PROVE  SrcInv'
<1>1. PICK w, c : w = Held(o) /\ c = HeldBy(events') /\ c = [HeldBy(events) EXCEPT ![o] = @ + 1]
    BY DEF Handed
<1>2. /\ Base(tree, w, made, c, ready \ {o}, tasks) /\ w.interest = interest
      /\ \A p \in Srcs : w.src[p].id = src[p].id /\ w.src[p].tb = src[p].tb
    <2>1. o \in ready /\ src[o].refs > 0
        BY DEF Handed
    <2> QED BY ONLY SrcInv, <1>1, <2>1, HeldIs
<1>3. PICK u, v, r : u = q.tree /\ v = q.w /\ r = ready \ {o} /\ r = ready'
    BY DEF Handed
<1>4. /\ Base(u, v, made, c, r, tasks) /\ Fewer(tree, w.src, u, v.src)
      /\ v.interest \subseteq w.interest
    <2>1. CASE q = Removed(Held(o), AsKey(src[o]), kind)
        <3>1. PICK k, key : k = kind /\ key = AsKey(src[o]) /\ k \in {kind, "TMR"}
            OBVIOUS
        <3>2. q = Removed(w, key, k) /\ ~q.swap
            BY <1>1, <2>1, <3>1 DEF Handed
        <3>3. Base(tree, w, made, c, r, tasks)
            BY <1>2, <1>3
        <3>4. /\ Base(q.tree, q.w, made, c, r, tasks) /\ Fewer(tree, w.src, q.tree, q.w.src)
              /\ q.w.interest \subseteq w.interest
            BY ONLY <3>1, <3>2, <3>3, RemoveStep
        <3> QED BY <1>3, <3>4
    <2>2. CASE q.tree = tree /\ q.w = Held(o)
        <3>1. u = tree /\ v = w
            BY <1>1, <1>3, <2>2
        <3> QED BY <1>2, <1>3, <3>1 DEF Fewer
    <2> QED BY <2>1, <2>2
<1>5. Fewer(tree, World.src, u, v.src)
    <2>1. \A p \in Members(tree) : w.src[p].id = src[p].id /\ w.src[p].tb = src[p].tb
        BY <1>2, InvIs
    <2> QED BY <1>4, <2>1, WorldIs DEF Fewer, Bucketed
<1>6. /\ setup' = setup /\ made' = made /\ tasks' = tasks /\ tb' = tb /\ undefined' = undefined
      /\ tree' = u /\ Install(v) /\ hurt \cup Harm(v) \subseteq hurt' /\ EventsOK(events')
    BY <1>3 DEF Handed
<1>7. TimerOK(hurt', u, v, tb')
    <2>1. TimerOK(hurt, tree, World, tb) /\ hurt \subseteq hurt' /\ tb'.period = tb.period
        BY <1>6 DEF SrcInv
    <2> QED BY ONLY <1>5, <2>1, FewerKeeps
<1>8. Change(v)
    BY <1>1, <1>2, <1>3, <1>4, <1>6, <1>7, InvIs DEF Change
<1> QED BY <1>8, Changed

LEMMA TakeEventInv ==
    ASSUME SrcInv, NEW o \in Srcs, TakeEvent(o), "swap" \notin hurt'
    PROVE  SrcInv'
<1>1. PICK q : q = IF src[o].oneshot THEN Removed(Held(o), AsKey(src[o]), kind)
                   ELSE [tree |-> tree, w |-> Held(o), found |-> o, swap |-> FALSE]
    OBVIOUS
<1>2. /\ Takes(o, TRUE) /\ ready' = ready \ {o}
      /\ UNCHANGED <<setup, made, tasks, tb, undefined>>
    BY DEF TakeEvent
<1>5. EventsOK(events') /\ HeldBy(events') = [HeldBy(events) EXCEPT ![o] = @ + 1]
    <2>1. PICK unused : unused = {e \in Events : events[e].src = 0}
        OBVIOUS
    <2>2. PICK e : e = Min(unused)
        OBVIOUS
    <2>3. e \in Events /\ events[e].src = 0
        BY ZenonT(60), <2>1, <2>2, UnusedIs DEF TakeEvent
    <2>4. PICK b : b = [events EXCEPT ![e] = [src |-> o, at |-> {"batch"}]]
        OBVIOUS
    <2>5. events' = b \/ events' = HandOver(b)
        BY <2>1, <2>2, <2>4 DEF TakeEvent
    <2>6. EventsOK(b) /\ HeldBy(b) = [HeldBy(events) EXCEPT ![o] = @ + 1]
        <3>1. EventAdded(events, e, o, b)
            BY <2>3, <2>4, InvIs DEF EventAdded
        <3> QED BY ONLY <3>1, EventMade
    <2> QED BY <2>5, <2>6, HandOverSame DEF SameEvents
<1>7. tree' = q.tree
    <2>1. tree' = (IF src[o].oneshot THEN Removed(Held(o), AsKey(src[o]), kind)
                   ELSE [tree |-> tree, w |-> Held(o), found |-> o, swap |-> FALSE]).tree
        BY ZenonT(60) DEF TakeEvent, Held
    <2> QED BY ONLY <1>1, <2>1
<1>8. Install(q.w)
    BY ZenonT(60), <1>1 DEF TakeEvent, Held
<1>9. hurt \cup Harm(q.w) \cup (IF q.swap THEN {"swap"} ELSE {}) \subseteq hurt'
    BY <1>1 DEF TakeEvent, Held
<1>3. Handed(o, q)
    BY <1>2, <1>5, <1>7, <1>8, <1>9 DEF Handed, Takes
<1>4. \/ q = Removed(Held(o), AsKey(src[o]), kind)
      \/ q.tree = tree /\ q.w = Held(o)
    BY <1>1
<1> QED BY ONLY SrcInv, <1>3, <1>4, HandedInv

-----------------------------------------------------------------------------
(* m_mod_set_tokenbucket first removes the timer, if there is a token.       *)
Taken ==
    IF tb.period # 0 /\ tb.tokens > 0 THEN Removed(World, tb.period, "TMR")
    ELSE [tree |-> tree, w |-> World, found |-> 0, swap |-> FALSE]

LEMMA TakenIs ==
    ASSUME SrcInv, NEW q, q = Taken, ~q.swap
    PROVE  /\ Base(q.tree, q.w, made, HeldBy(events), ready, tasks) /\ q.w.interest \subseteq interest
           /\ Fewer(tree, World.src, q.tree, q.w.src)
           /\ \/ q.found = 0
              \/ /\ q.found \in TreeData(tree["TMR"])
                 /\ Members(q.tree) = Members(tree) \ {q.found}
<1>1. Base(tree, World, made, HeldBy(events), ready, tasks) /\ \A o \in Srcs : World.src[o].id = src[o].id
    BY InvIs, WorldIs
<1>2. CASE tb.period # 0 /\ tb.tokens > 0
    <2>1. PICK k, key : k = "TMR" /\ key = tb.period /\ k \in {kind, "TMR"}
        OBVIOUS
    <2>2. q = Removed(World, key, k)
        BY <1>2, <2>1 DEF Taken
    <2>3. /\ Base(q.tree, q.w, made, HeldBy(events), ready, tasks) /\ Fewer(tree, World.src, q.tree, q.w.src)
          /\ q.w.interest \subseteq World.interest
          /\ \/ q.found = 0 /\ q.tree = tree /\ q.w = World
             \/ TakenOut(World, q, k)
        <3>1. ~q.swap
            OBVIOUS
        <3> QED BY ONLY <1>1, <2>1, <2>2, <3>1, RemoveStep
    <2>4. TakenOut(World, q, k) =>
              /\ q.found \in TreeData(tree["TMR"])
              /\ Members(q.tree) = Members(tree) \ {q.found}
        BY <1>1, <2>1 DEF TakenOut
    <2> QED BY <2>3, <2>4, WorldIs
<1>3. CASE ~(tb.period # 0 /\ tb.tokens > 0)
    <2>1. q.tree = tree /\ q.w = World /\ q.found = 0
        BY <1>3 DEF Taken
    <2> QED BY <1>1, <2>1, WorldIs DEF Fewer
<1> QED BY <1>2, <1>3

(* No timer is left, unless it was lost or another was removed.              *)
LEMMA NoTimerLeft ==
    ASSUME SrcInv, BucketOK(tb), NEW q, q = Taken, ~q.swap,
           RemovalHarm(q, tb.period, "TMR", TRUE) \subseteq hurt', hurt \subseteq hurt',
           hurt' \cap {"lost", "wrong"} = {}
    PROVE  Bucketed(q.tree, q.w.src) = {}
<1>1. SUFFICES ASSUME NEW p \in Bucketed(q.tree, q.w.src) PROVE FALSE
    OBVIOUS
<1>2. Fewer(tree, World.src, q.tree, q.w.src)
      /\ \/ q.found = 0
         \/ /\ q.found \in TreeData(tree["TMR"])
            /\ Members(q.tree) = Members(tree) \ {q.found}
    BY TakenIs
<1>3. p \in Bucketed(tree, src)
    BY <1>1, <1>2, WorldIs DEF Fewer
<1>4. OneTimer(tree, src, tb)
    <2>1. hurt \cap {"lost", "wrong"} = {}
        OBVIOUS
    <2> QED BY <2>1, WorldIs DEF SrcInv, TimerOK
<1>5. p \in TreeData(tree["TMR"]) /\ src[p].id = tb.period
    BY <1>3, <1>4, InvIs, WorldIs DEF Base, TimersOK, OneTimer
<1>6. ToSet(Registered("TMR")) = TreeData(tree["TMR"])
    BY AllAre
<1>7. IsRegistered(tb.period, "TMR")
    BY <1>5, <1>6 DEF IsRegistered
<1>8. q.found # 0
    <2>1. "lost" \notin RemovalHarm(q, tb.period, "TMR", TRUE)
        OBVIOUS
    <2> QED BY <1>7, <2>1 DEF RemovalHarm
<1>9. src[q.found].tb = TRUE
    <2>1. "wrong" \notin RemovalHarm(q, tb.period, "TMR", TRUE)
        OBVIOUS
    <2> QED BY <1>8, <2>1 DEF RemovalHarm
<1>10. q.found \in Bucketed(tree, src)
    <2>1. q.found \in TreeData(tree["TMR"])
        BY <1>2, <1>8
    <2>2. q.found \in Members(tree)
        BY <2>1, InvIs DEF Members
    <2> QED BY <1>9, <2>2 DEF Bucketed
<1>11. q.found = p
    BY <1>3, <1>4, <1>10 DEF OneTimer
<1>12. p \in Members(q.tree)
    BY <1>1 DEF Bucketed
<1> QED BY <1>2, <1>8, <1>11, <1>12

LEMMA TimerIs ==
    ASSUME NEW period \in Nat,
           NEW s, s = [NoSrc EXCEPT !.type = "TMR", !.id = period, !.tb = TRUE, !.refs = 1]
    PROVE  s \in Source /\ s.refs = 1 /\ s.tb /\ s.id = period
<1>3. PICK fd, k : fd = -1 /\ k = "TMR"
    OBVIOUS
<1>1. s = [type |-> k, id |-> period, oneshot |-> FALSE, autoclose |-> FALSE, tb |-> TRUE,
           fd |-> fd, ev |-> FALSE, fresh |-> FALSE, fired |-> FALSE, refs |-> 1]
    BY <1>3 DEF NoSrc
<1>2. fd \in Fds /\ k \in Kinds
    BY <1>3 DEF Fds, Kinds
<1>4. period \in Nat
    OBVIOUS
<1> QED BY ONLY <1>1, <1>2, <1>4 DEF Source

(* The parts of m_mod_set_tokenbucket.                                      *)
TimerAdded(q, period, s, l, z, v) ==
    /\ s = [NoSrc EXCEPT !.type = "TMR", !.id = period, !.tb = TRUE, !.refs = 1]
    /\ l = bst_find(q.tree["TMR"], Cmp(AsKey(s)))
    /\ z = Created(q.w, made + 1, s) /\ Install(v)
    /\ \/ tree' = q.tree /\ v = Unref(z, made + 1)
       \/ /\ q.tree["TMR"].child[l] = 0 /\ Polled(z, made + 1, v)
          /\ tree' = [q.tree EXCEPT !["TMR"] = insert_node(@, l, made + 1)]
BucketSet(q, period, burst) ==
    /\ hurt' = hurt \cup RemovalHarm(q, tb.period, "TMR", TRUE)
    /\ UNCHANGED <<setup, tasks, ready, events, undefined>>
    /\ \/ tree' = q.tree /\ Install(q.w) /\ made' = made
       \/ /\ period # 0 /\ burst > 0 /\ made < setup.max /\ made' = made + 1
          /\ tb' = Spend([tokens |-> burst, burst |-> burst, period |-> period])
          /\ \E s, l, z, v : TimerAdded(q, period, s, l, z, v)

LEMMA SetIs ==
    ASSUME NEW period, NEW burst, SetTokenBucket(period, burst), NEW q, q = Taken
    PROVE  BucketSet(q, period, burst)
<1>1. /\ hurt' = hurt \cup RemovalHarm(q, tb.period, "TMR", TRUE)
      /\ UNCHANGED <<setup, tasks, ready, events, undefined>>
    BY DEF SetTokenBucket, Taken
<1>2. CASE ~(period # 0 /\ burst > 0)
    <2>1. tree' = q.tree
        BY <1>2 DEF SetTokenBucket, Taken
    <2>2. Install(q.w)
        BY <1>2 DEF SetTokenBucket, Taken
    <2>3. made' = made
        BY <1>2 DEF SetTokenBucket
    <2> QED BY <1>1, <2>1, <2>2, <2>3 DEF BucketSet
<1>3. CASE period # 0 /\ burst > 0
    <2>1. /\ made < setup.max /\ made' = made + 1
          /\ tb' = Spend([tokens |-> burst, burst |-> burst, period |-> period])
        BY <1>3 DEF SetTokenBucket
    <2>2. PICK s, l, z : /\ s = [NoSrc EXCEPT !.type = "TMR", !.id = period, !.tb = TRUE, !.refs = 1]
                         /\ l = bst_find(q.tree["TMR"], Cmp(AsKey(s)))
                         /\ z = Created(q.w, made + 1, s)
        OBVIOUS
    <2>3. PICK a : a = Added(q.tree, q.w, made + 1, s, "TMR")
        OBVIOUS
    <2>4. tree' = a.tree
        BY <1>3, <2>2, <2>3 DEF SetTokenBucket, Taken
    <2>5. Install(a.w)
        BY <1>3, <2>2, <2>3 DEF SetTokenBucket, Taken
    <2>6. /\ a.tree = IF q.tree["TMR"].child[l] # 0 THEN q.tree
                      ELSE [q.tree EXCEPT !["TMR"] = insert_node(@, l, made + 1)]
          /\ a.w = IF q.tree["TMR"].child[l] # 0 THEN Unref(z, made + 1)
                   ELSE IF Running THEN PollAdd(z, made + 1) ELSE z
        BY <2>2, <2>3 DEF Added, Created
    <2>7. PICK v : v = a.w
        OBVIOUS
    <2>8. TimerAdded(q, period, s, l, z, v)
        <3>1. CASE q.tree["TMR"].child[l] # 0
            BY <2>2, <2>4, <2>5, <2>6, <2>7, <3>1 DEF TimerAdded
        <3>2. CASE q.tree["TMR"].child[l] = 0
            <4>1. Polled(z, made + 1, v)
                BY <2>6, <2>7, <3>2 DEF Polled
            <4>2. tree' = [q.tree EXCEPT !["TMR"] = insert_node(@, l, made + 1)]
                BY <2>4, <2>6, <3>2
            <4> QED BY <2>2, <2>5, <2>7, <3>2, <4>1, <4>2 DEF TimerAdded
        <3> QED BY <3>1, <3>2
    <2> QED BY <1>1, <1>3, <2>1, <2>8 DEF BucketSet
<1> QED BY <1>2, <1>3

(* The new timer is planted where no timer is found.                         *)
LEMMA FreePlace ==
    ASSUME NEW t, NEW w, NEW m, NEW c, NEW r, NEW j, Base(t, w, m, c, r, j),
           NEW cmp, NEW l, l = bst_find(t["TMR"], cmp), t["TMR"].child[l] = 0,
           NEW o, NEW u, u = [t EXCEPT !["TMR"] = insert_node(@, l, o)]
    PROVE  Planted(t, "TMR", l, o, u)
<1>1. GoodTree(t["TMR"], m)
    BY DEF Base, Forest
<1>2. l \in Links /\ (l = Root \/ l[1] \in TreeNodes(t["TMR"]))
    BY <1>1, FindGood
<1> QED BY <1>2 DEF Planted

(* The refs of no source fall to 0, and epoll knows no more of a freed one.   *)
LEMMA QuietKeeps ==
    ASSUME NEW h, NEW w, NEW r, NEW j, NEW x, QuietOK(h, w, r, j, x), NEW v,
           \A p \in Srcs : v.src[p].refs = 0 => w.src[p].refs = 0 /\ \A e \in v.interest : e \in w.interest \/ e[2] # p
    PROVE  QuietOK(h, v, r, j, x)
BY DEF QuietOK, Quiet

LEMMA SetTokenBucketInv ==
    ASSUME SrcInv, BucketOK(tb), NEW period \in Periods \cup {0}, NEW burst \in setup.bursts,
           SetTokenBucket(period, burst), "swap" \notin hurt'
    PROVE  SrcInv'
<1>1. PICK q : q = Taken
    OBVIOUS
<1>2. /\ hurt' = hurt \cup RemovalHarm(q, tb.period, "TMR", TRUE)
      /\ UNCHANGED <<setup, tasks, ready, events, undefined>>
      /\ \/ tree' = q.tree /\ Install(q.w) /\ made' = made
         \/ /\ period # 0 /\ burst > 0 /\ made < setup.max /\ made' = made + 1
            /\ tb' = Spend([tokens |-> burst, burst |-> burst, period |-> period])
            /\ \E s, l, z, v : TimerAdded(q, period, s, l, z, v)
    BY <1>1, SetIs DEF BucketSet
<1>3. ~q.swap /\ Harm(q.w) \subseteq hurt' /\ hurt \subseteq hurt'
      /\ RemovalHarm(q, tb.period, "TMR", TRUE) \subseteq hurt'
    BY <1>2 DEF RemovalHarm
<1>4. PICK t, w : t = q.tree /\ w = q.w
    OBVIOUS
<1>5. Base(t, w, made, HeldBy(events), ready, tasks) /\ w.interest \subseteq interest
    BY <1>1, <1>3, <1>4, TakenIs
<1>6. hurt' \cap {"lost", "wrong"} = {} => Bucketed(t, w.src) = {}
    BY <1>1, <1>3, <1>4, NoTimerLeft
<1>7. QuietOK(hurt', w, ready, tasks, undefined)
    <2>1. QuietOK(hurt, World, ready, tasks, undefined) /\ hurt \cup Harm(w) \subseteq hurt'
        BY <1>3, <1>4 DEF SrcInv
    <2>2. tasks \in [Srcs -> Nat] /\ (\A o \in Srcs : src[o].refs \in Nat)
        BY InvIs
    <2> QED BY <1>5, <2>1, <2>2, HarmQuiet
<1>8. CASE tree' = q.tree /\ Install(q.w) /\ made' = made
    <2>1. TimerOK(hurt', t, w, tb')
        BY <1>6 DEF TimerOK, OneTimer
    <2>2. InvAt(w)
        BY <1>2, <1>4, <1>5, <1>7, <1>8, <2>1, InvIs DEF InvAt
    <2> QED BY <2>2, Reached
<1>9. ASSUME period # 0, made < setup.max, made' = made + 1,
             tb' = Spend([tokens |-> burst, burst |-> burst, period |-> period]),
             NEW s, NEW l, NEW z, NEW v, TimerAdded(q, period, s, l, z, v)
      PROVE  SrcInv'
    <2>0. /\ s = [NoSrc EXCEPT !.type = "TMR", !.id = period, !.tb = TRUE, !.refs = 1]
          /\ l = bst_find(t["TMR"], Cmp(AsKey(s)))
          /\ z = Created(w, made + 1, s) /\ Install(v)
          /\ \/ tree' = t /\ v = Unref(z, made + 1)
             \/ /\ t["TMR"].child[l] = 0 /\ Polled(z, made + 1, v)
                /\ tree' = [t EXCEPT !["TMR"] = insert_node(@, l, made + 1)]
        BY <1>4, <1>9 DEF TimerAdded
    <2>1. PICK o, u : o = made + 1 /\ o = made' /\ u = tree'
        BY <1>9
    <2>2. s \in Source /\ s.refs = 1 /\ s.tb /\ s.id = period
        <3>1. period \in Nat
            BY <1>9, ConstantsAre
        <3> QED BY <2>0, <3>1, TimerIs
    <2>12. made < MaxSrcs
        <3>1. PICK x : x = setup.max /\ made < x /\ x \in Nat /\ x <= MaxSrcs
            BY <1>9, InvIs
        <3> QED BY <3>1, InvIs, ConstantsAre
    <2>13. z = Created(w, o, s)
        BY <2>0, <2>1
    <2>8. tb'.period = period
        BY <1>9 DEF Spend
    <2>10. o <= setup.max
        BY <1>9, <2>1, InvIs
    <2>14. /\ Base(u, v, o, HeldBy(events), ready, tasks) /\ TimerOK(hurt', u, v, tb')
           /\ QuietOK(hurt', v, ready, tasks, undefined)
        <3>1. CASE t["TMR"].child[l] = 0 /\ Polled(z, made + 1, v)
                   /\ tree' = [t EXCEPT !["TMR"] = insert_node(@, l, made + 1)]
            <4>3. PICK cmp : cmp = Cmp(AsKey(s)) /\ l = bst_find(t["TMR"], cmp)
                BY <2>0
            <4>4. u = [t EXCEPT !["TMR"] = insert_node(@, l, o)] /\ t["TMR"].child[l] = 0
                BY <2>1, <3>1
            <4>5. Planted(t, "TMR", l, o, u)
                BY ONLY <1>5, <4>3, <4>4, FreePlace
            <4>6. Adding(t, w, made, HeldBy(events), ready, tasks, s, o, "TMR", l, u, z, v, tasks)
                <5>1. tasks \in [Srcs -> Nat]
                    BY InvIs
                <5>2. Polled(z, o, v)
                    BY <2>1, <3>1
                <5> QED BY <1>5, <1>9, <2>1, <2>2, <2>12, <2>13, <4>5, <5>1, <5>2 DEF Adding
            <4>7. Additions(t, w, HeldBy(events), ready, s, o, u, v, tasks)
                BY ONLY <4>6, AddStep
            <4>8. /\ Base(u, v, o, HeldBy(events), ready, tasks) /\ o \in Srcs
                  /\ v.src[o].refs = 1 /\ v.src[o].id = period
                  /\ \A p \in Srcs : p # o => v.src[p].refs = w.src[p].refs
                  /\ \A e \in v.interest : e \in w.interest \/ e[2] = o
                  /\ Bucketed(u, v.src) = Bucketed(t, w.src) \cup {o}
                BY <2>2, <4>7 DEF Additions
            <4>9. QuietOK(hurt', v, ready, tasks, undefined)
                BY <1>7, <4>8, QuietKeeps
            <4>10. TimerOK(hurt', u, v, tb')
                BY <1>6, <2>8, <4>8 DEF TimerOK, OneTimer
            <4> QED BY <4>8, <4>9, <4>10
        <3>2. CASE tree' = t /\ v = Unref(z, made + 1)
            <4>1. v = Unref(z, o) /\ u = t
                BY <2>1, <3>2
            <4>2. /\ Base(t, v, o, HeldBy(events), ready, tasks) /\ Fewer(t, w.src, t, v.src)
                  /\ v.interest \subseteq w.interest
                  /\ w.src[o].refs = 0 /\ \A p \in Srcs : p # o => v.src[p] = w.src[p]
                <5>1. o = made + 1 /\ s \in Source /\ s.refs = 1
                    BY <2>1, <2>2
                <5> QED BY ONLY <1>5, <2>12, <2>13, <4>1, <5>1, RefusedStep
            <4>3. QuietOK(hurt', v, ready, tasks, undefined)
                BY <1>7, <4>2, QuietKeeps
            <4>4. TimerOK(hurt', u, v, tb')
                BY <1>6, <4>1, <4>2 DEF TimerOK, OneTimer, Fewer
            <4> QED BY <4>1, <4>2, <4>3, <4>4
        <3> QED BY <2>0, <3>1, <3>2
    <2>11. InvAt(v)
        <3>1. EventsOK(events)
            BY InvIs
        <3> QED BY <1>2, <2>0, <2>1, <2>10, <2>14, <3>1 DEF InvAt
    <2> QED BY <2>11, Reached
<1> QED BY <1>2, <1>8, <1>9

-----------------------------------------------------------------------------
(***************************************************************************)
(* The invariant holds.                                                     *)
(***************************************************************************)
LEMMA HurtStays ==
    ASSUME [Next]_vars
    PROVE  hurt \subseteq hurt' /\ setup' = setup
<1>1. ASSUME NEW id, NEW oneshot, NEW autoclose, Register(id, oneshot, autoclose)
      PROVE  hurt \subseteq hurt' /\ setup' = setup
    BY <1>1 DEF Register
<1>2. ASSUME NEW id, Deregister(id) PROVE hurt \subseteq hurt' /\ setup' = setup
    BY <1>2 DEF Deregister
<1>3. ASSUME NEW b, Start(b) PROVE hurt \subseteq hurt' /\ setup' = setup
    BY <1>3 DEF Start
<1>4. ASSUME NEW p, NEW b, SetTokenBucket(p, b) PROVE hurt \subseteq hurt' /\ setup' = setup
    BY <1>4 DEF SetTokenBucket
<1>5. ASSUME NEW o, TakeEvent(o) PROVE hurt \subseteq hurt' /\ setup' = setup
    BY <1>5 DEF TakeEvent
<1>6. ASSUME NEW o, TakeRefused(o) \/ TakeToken(o) PROVE hurt \subseteq hurt' /\ setup' = setup
    BY <1>6 DEF TakeRefused, TakeToken
<1>7. ASSUME NEW o, Alarm(o) \/ TaskDone(o) PROVE hurt \subseteq hurt' /\ setup' = setup
    BY <1>7 DEF Alarm, TaskDone
<1>8. ASSUME StartRefused \/ Resume \/ Pause \/ Stop PROVE hurt \subseteq hurt' /\ setup' = setup
    BY <1>8 DEF StartRefused, Resume, Pause, Stop
<1>11. ASSUME NEW e, m_mod_stash(e) \/ m_mod_unstash(e) \/ evt_dtor(e)
       PROVE  hurt \subseteq hurt' /\ setup' = setup
    BY <1>11 DEF m_mod_stash, m_mod_unstash, evt_dtor
<1>9. ASSUME PollWait \/ TakeFreed \/ CallbackReturns \/ TouchFreed PROVE hurt \subseteq hurt' /\ setup' = setup
    BY <1>9 DEF PollWait, TakeFreed, CallbackReturns, TouchFreed
<1>10. ASSUME UNCHANGED vars PROVE hurt \subseteq hurt' /\ setup' = setup
    BY <1>10 DEF vars
<1> QED BY <1>1, <1>2, <1>3, <1>4, <1>5, <1>6, <1>7, <1>8, <1>9, <1>10, <1>11 DEF Next, User, Loop

LEMMA NoBucketIs == BucketOK(NoBucket)
BY SourcesAssumption DEF NoBucket, BucketOK

LEMMA SetBucketOK ==
    ASSUME setup \in Setups, NEW period \in Periods \cup {0}, NEW burst \in setup.bursts,
           SetTokenBucket(period, burst)
    PROVE  BucketOK(tb')
<1>6. burst \in Nat
    BY SetupIs
<1>7. period \in Nat
    BY ConstantsAre
<1>1. burst \in Nat /\ period \in Nat
    BY <1>6, <1>7
<1>2. PICK full : full = [tokens |-> burst, burst |-> burst, period |-> period]
    OBVIOUS
<1>3. BucketOK(full) /\ full.tokens = burst
    BY <1>1, <1>2 DEF BucketOK
<1>4. burst > 0 => BucketOK(Spend(full))
    BY <1>3, SpendKeeps
<1>5. tb' = IF period = 0 THEN NoBucket ELSE IF period # 0 /\ burst > 0 THEN Spend(full) ELSE full
    BY <1>2 DEF SetTokenBucket
<1> QED BY <1>3, <1>4, <1>5, NoBucketIs

LEMMA BucketKept ==
    ASSUME setup \in Setups, BucketOK(tb), [Next]_vars
    PROVE  BucketOK(tb')
<1>1. ASSUME NEW id, NEW oneshot, NEW autoclose, Register(id, oneshot, autoclose) PROVE BucketOK(tb')
    BY <1>1, SpendKeeps DEF Register, Call
<1>2. ASSUME NEW id, Deregister(id) PROVE BucketOK(tb')
    BY <1>2, SpendKeeps DEF Deregister, Call
<1>3. ASSUME NEW evaluated, Start(evaluated) PROVE BucketOK(tb')
    <2>1. PICK b : b = IF evaluated THEN tb ELSE Spend(tb)
        OBVIOUS
    <2>2. BucketOK(b)
        BY <1>3, <2>1, SpendKeeps DEF Start
    <2>3. tb' = IF b.tokens > 0 THEN Spend(b) ELSE b
        BY <1>3, <2>1 DEF Start
    <2> QED BY <2>2, <2>3, SpendKeeps
<1>4. ASSUME NEW p \in Periods \cup {0}, NEW b \in setup.bursts, SetTokenBucket(p, b) PROVE BucketOK(tb')
    BY <1>4, SetBucketOK
<1>5. ASSUME NEW o, TakeEvent(o) PROVE BucketOK(tb')
    <2>1. tb' = tb
        BY <1>5 DEF TakeEvent
    <2> QED BY <2>1
<1>6. ASSUME NEW o, TakeRefused(o) PROVE BucketOK(tb')
    BY <1>6 DEF TakeRefused
<1>7. ASSUME NEW o, TakeToken(o) PROVE BucketOK(tb')
    <2>1. tb' = IF tb.tokens < tb.burst THEN [tb EXCEPT !.tokens = @ + 1] ELSE tb
        BY <1>7 DEF TakeToken
    <2> QED BY <2>1 DEF BucketOK
<1>8. ASSUME NEW o, Alarm(o) \/ TaskDone(o) PROVE BucketOK(tb')
    BY <1>8 DEF Alarm, TaskDone
<1>9. ASSUME StartRefused PROVE BucketOK(tb')
    <2>1. tb.tokens = 1 /\ tb' = Spend(tb)
        BY <1>9 DEF StartRefused
    <2>2. tb.tokens > 0
        BY <2>1
    <2> QED BY <2>1, <2>2, SpendKeeps
<1>10. ASSUME Resume \/ Pause PROVE BucketOK(tb')
    BY <1>10, SpendKeeps DEF Resume, Pause, Call
<1>11. ASSUME Stop PROVE BucketOK(tb')
    BY <1>11, NoBucketIs DEF Stop
<1>12. ASSUME PollWait \/ TakeFreed \/ CallbackReturns \/ TouchFreed \/ UNCHANGED vars PROVE BucketOK(tb')
    BY <1>12 DEF PollWait, TakeFreed, CallbackReturns, TouchFreed, vars
<1>13. ASSUME NEW e, m_mod_stash(e) \/ m_mod_unstash(e) PROVE BucketOK(tb')
    BY <1>13, SpendKeeps DEF m_mod_stash, m_mod_unstash, Call
<1>14. ASSUME NEW e, evt_dtor(e) PROVE BucketOK(tb')
    BY <1>14 DEF evt_dtor
<1> QED BY <1>1, <1>2, <1>3, <1>4, <1>5, <1>6, <1>7, <1>8, <1>9, <1>10, <1>11, <1>12, <1>13, <1>14
    DEF Next, User, Loop

LEMMA UserKeeps ==
    ASSUME SrcInv, BucketOK(tb), User, "swap" \notin hurt'
    PROVE  SrcInv'
<1>1. ASSUME NEW id \in setup.ids, NEW oneshot \in BOOLEAN, NEW autoclose \in BOOLEAN,
             Register(id, oneshot, autoclose)
      PROVE  SrcInv'
    BY <1>1, RegisterInv
<1>2. ASSUME NEW id \in setup.ids, Deregister(id) PROVE SrcInv'
    BY <1>2, DeregisterInv
<1>3. ASSUME NEW b \in BOOLEAN, Start(b) PROVE SrcInv'
    BY <1>3, StartInv
<1>4. ASSUME NEW p \in Periods \cup {0}, NEW b \in setup.bursts, SetTokenBucket(p, b) PROVE SrcInv'
    BY <1>4, SetTokenBucketInv
<1>5. StartRefused \/ Resume \/ Pause \/ Stop => SrcInv'
    BY StartRefusedInv, ResumeInv, PauseInv, StopInv
<1>6. ASSUME NEW e \in Events, m_mod_stash(e) PROVE SrcInv'
    BY <1>6, StashInv
<1>7. ASSUME NEW some, m_mod_unstash(some) PROVE SrcInv'
    BY <1>7, UnstashInv
<1> QED BY <1>1, <1>2, <1>3, <1>4, <1>5, <1>6, <1>7 DEF User

LEMMA LoopKeeps ==
    ASSUME SrcInv, BucketOK(tb), Loop, "swap" \notin hurt'
    PROVE  SrcInv'
<1>1. ASSUME NEW o \in Srcs, TakeRefused(o) \/ TakeToken(o) \/ TakeEvent(o) PROVE SrcInv'
    BY <1>1, TakeRefusedInv, TakeTokenInv, TakeEventInv
<1>2. ASSUME NEW o \in Srcs, Alarm(o) \/ TaskDone(o) PROVE SrcInv'
    BY <1>2, AlarmInv, TaskDoneInv
<1>3. PollWait \/ TakeFreed \/ CallbackReturns \/ TouchFreed => SrcInv'
    BY PollWaitInv, TakeFreedInv, CallbackReturnsInv, NoTouch
<1>4. ASSUME NEW e \in Events, evt_dtor(e) PROVE SrcInv'
    BY <1>4, EvtDtorInv
<1> QED BY <1>1, <1>2, <1>3, <1>4 DEF Loop

LEMMA InvKept ==
    ASSUME Inv, [Next]_vars
    PROVE  Inv'
<1>1. setup \in Setups /\ BucketOK(tb) /\ ("swap" \notin hurt => SrcInv)
    BY DEF Inv
<1>2. setup' \in Setups /\ BucketOK(tb') /\ hurt \subseteq hurt'
    BY <1>1, HurtStays, BucketKept
<1>3. ASSUME "swap" \notin hurt' PROVE SrcInv'
    <2>1. SrcInv
        BY <1>1, <1>2, <1>3
    <2>2. CASE Next
        BY <1>1, <1>3, <2>1, <2>2, UserKeeps, LoopKeeps DEF Next
    <2>3. CASE UNCHANGED vars
        BY <2>1, <2>3, StillInv, SameAsEver DEF vars
    <2> QED BY <2>2, <2>3
<1> QED BY <1>2, <1>3 DEF Inv, BucketOK

LEMMA InvStarts ==
    ASSUME Init
    PROVE  Inv
<1>1. /\ setup \in Setups /\ tree = [k \in {kind, "TMR"} |-> EmptyTree] /\ src = [o \in Srcs |-> NoSrc]
      /\ made = 0 /\ open = (IF kind = "FD" THEN setup.ids ELSE {}) /\ interest = {} /\ off = {}
      /\ signalled = {} /\ tasks = [o \in Srcs |-> 0] /\ ready = {} /\ tb = NoBucket
      /\ hurt = {} /\ undefined = FALSE /\ events = [e \in Events |-> NoEvent]
    BY DEF Init
<1>2. setup.max \in 0..MaxSrcs /\ setup.ids \subseteq Nat /\ MaxSrcs \in Nat
    BY <1>1, SetupIs, ConstantsAre
<1>3. World \in Worlds
    <2>1. open \subseteq Fds
        BY <1>1, <1>2 DEF Fds
    <2>2. src \in [Srcs -> Source]
        BY <1>1, NoSrcIs
    <2> QED BY <1>1, <2>1, <2>2 DEF Worlds, World
<1>4. Forest(tree, made) /\ Members(tree) = {}
    BY <1>1, EmptyForest
<1>12. EventsOK(events)
    BY <1>1 DEF EventsOK, NoEvent
<1>5. \A o \in Srcs : src[o].refs = 0 /\ tasks[o] = 0 /\ HeldBy(events)[o] = 0
    <2>1. \A o \in Srcs : {e \in Events : events[e].src = o} = {}
        BY <1>1, ConstantsAre DEF NoEvent
    <2> QED BY <1>1, <2>1, NoSrcIs, FS_EmptySet DEF HeldBy
<1>6. Counted(tree, src, HeldBy(events)) /\ Fresh(src, interest, ready, tasks, made)
      /\ Quiet(src, interest, ready, tasks)
    BY <1>1, <1>4, <1>5 DEF Counted, Fresh, Quiet
<1>7. Bucketed(tree, src) = {}
    BY <1>4 DEF Bucketed
<1>8. TimersOK(tree, src) /\ OneTimer(tree, src, tb)
    BY <1>7 DEF TimersOK, OneTimer
<1>9. Base(tree, World, made, HeldBy(events), ready, tasks)
    BY <1>1, <1>2, <1>3, <1>4, <1>6, <1>8, HeldTyped, WorldIs DEF Base
<1>10. QuietOK(hurt, World, ready, tasks, undefined) /\ TimerOK(hurt, tree, World, tb)
    BY <1>1, <1>6, <1>8, WorldIs DEF QuietOK, TimerOK
<1>11. made <= setup.max
    BY <1>1, <1>2
<1> QED BY <1>1, <1>9, <1>10, <1>11, <1>12, NoBucketIs DEF Inv, SrcInv

(* The inductive invariant: at every state of the loop and of the user's     *)
(* calls the counts, the trees and the timers of the bucket agree.          *)
THEOREM Invariant == Spec => []Inv
<1>1. Init => Inv
    BY InvStarts
<1>2. Inv /\ [Next]_vars => Inv'
    BY InvKept
<1> QED BY <1>1, <1>2, PTL DEF Spec

-----------------------------------------------------------------------------
LEMMA InTreeIs ==
    ASSUME SrcInv, NEW o \in Srcs
    PROVE  InTree(o) = IF o \in Members(tree) THEN 1 ELSE 0
<1>1. Forest(tree, made) /\ DOMAIN tree = {kind, "TMR"}
    BY InvIs DEF Base
<1> DEFINE S == {l \in (DOMAIN tree) \X BstNodes : tree[l[1]].data[l[2]] = o}
<1>2. o # NoData
    BY ConstantsAre, ElemsAssumption
<1>3. ASSUME NEW l \in S PROVE /\ l[1] \in {kind, "TMR"} /\ l[2] \in TreeNodes(tree[l[1]])
                               /\ l = <<l[1], l[2]>> /\ o \in TreeData(tree[l[1]])
    <2>1. l[1] \in {kind, "TMR"} /\ l[2] \in BstNodes /\ l = <<l[1], l[2]>> /\ tree[l[1]].data[l[2]] = o
        BY <1>1
    <2>2. l[2] \in TreeNodes(tree[l[1]])
        BY <1>2, <2>1 DEF TreeNodes
    <2> QED BY <2>1, <2>2 DEF TreeData
<1>4. CASE o \notin Members(tree)
    <2>1. S = {}
        BY <1>1, <1>3, <1>4 DEF Members
    <2> QED BY <1>4, <2>1, FS_EmptySet DEF InTree
<1>5. CASE o \in Members(tree)
    <2>1. PICK k \in {kind, "TMR"} : o \in TreeData(tree[k])
        BY <1>1, <1>5 DEF Members
    <2>2. PICK n \in TreeNodes(tree[k]) : tree[k].data[n] = o
        BY <2>1 DEF TreeData
    <2>3. PICK x : x = <<k, n>>
        OBVIOUS
    <2>4. x \in S
        BY <1>1, <2>2, <2>3 DEF TreeNodes
    <2>5. ASSUME NEW l \in S PROVE l = x
        <3>1. /\ l[1] \in {kind, "TMR"} /\ l[2] \in TreeNodes(tree[l[1]])
              /\ l = <<l[1], l[2]>> /\ o \in TreeData(tree[l[1]]) /\ tree[l[1]].data[l[2]] = o
            BY <1>3
        <3>2. l[1] = k
            BY <1>1, <2>1, <3>1 DEF Forest
        <3>3. Distinct(tree[k])
            BY <1>1, <2>1 DEF Forest, GoodTree
        <3>4. l[2] = n
            BY <2>2, <3>1, <3>2, <3>3 DEF Distinct
        <3> QED BY <2>3, <3>1, <3>2, <3>4
    <2>6. S = {x}
        BY <2>4, <2>5
    <2>7. Cardinality(S) = 1
        BY <2>6, FS_Singleton
    <2> QED BY <1>5, <2>7 DEF InTree
<1> QED BY <1>4, <1>5

(* src.c:69-92, ctx.c and evts.c: a source has one reference for its place   *)
(* in the tree and one for each of its events, in the batch, in the stash or *)
(* with a callback, so it is freed when all are gone and not before; one     *)
(* that was freed is used only after a hazard was met.                      *)
THEOREM ReferencesKept == Spec => []SourceAlive
<1>1. ASSUME Inv PROVE SourceAlive
    <2>1. CASE "swap" \in hurt
        BY <2>1 DEF SourceAlive
    <2>2. CASE "swap" \notin hurt
        <3>1. SrcInv
            BY <1>1, <2>2 DEF Inv
        <3>2. undefined => hurt \cap {"swap", "late", "stale", "task"} # {}
            BY <3>1 DEF SrcInv, QuietOK
        <3>3. \A o \in Srcs : src[o].refs = InTree(o) + HeldBy(events)[o]
            BY <3>1, InvIs, InTreeIs
        <3>4. \A o \in Srcs : HeldBy(events)[o] = Cardinality(EventsOf(o))
            BY DEF HeldBy, EventsOf
        <3> QED BY <3>2, <3>3, <3>4 DEF SourceAlive
    <2> QED BY <2>1, <2>2
<1> QED BY <1>1, Invariant, PTL

(* mod.c, m_mod_set_tokenbucket: the bucket is no fuller than its burst, and  *)
(* one timer with its period fills it, unless the removal of the one before  *)
(* was refused, did not find it or took another source.                     *)
THEOREM OneTimerFills == Spec => []BucketTimer
<1>1. ASSUME Inv PROVE BucketTimer
    <2>1. tb.tokens <= tb.burst
        BY <1>1 DEF Inv, BucketOK
    <2>2. ASSUME hurt \cap {"lost", "swap", "wrong"} = {}
          PROVE  Cardinality(BucketTimers) <= 1 /\ \A o \in BucketTimers : src[o].id = tb.period
        <3>1. SrcInv
            BY <1>1, <2>2 DEF Inv
        <3>2. BucketTimers \subseteq Bucketed(tree, src)
            BY <3>1, InTreeIs DEF BucketTimers, Bucketed
        <3>3. OneTimer(tree, src, tb)
            BY <2>2, <3>1, WorldIs DEF SrcInv, TimerOK
        <3>4. \A o, p \in BucketTimers : o = p
            BY <3>2, <3>3 DEF OneTimer
        <3>5. Cardinality(BucketTimers) <= 1
            <4>1. CASE BucketTimers = {}
                BY <4>1, FS_EmptySet
            <4>2. CASE BucketTimers # {}
                <5>1. PICK o : BucketTimers = {o}
                    BY <3>4, <4>2
                <5>2. Cardinality({o}) = 1
                    BY FS_Singleton
                <5> QED BY <5>1, <5>2
            <4> QED BY <4>1, <4>2
        <3> QED BY <3>2, <3>3, <3>5 DEF OneTimer
    <2> QED BY <2>1, <2>2 DEF BucketTimer
<1> QED BY <1>1, Invariant, PTL
=============================================================================
