------------------------------ MODULE TreeProofs ------------------------------
(***************************************************************************)
(* Lemmas about the operators on a binary search tree, for any bound on its *)
(* nodes and any data they may hold: what a search, an insertion, a removal, *)
(* the step of an iterator and a traversal do to the shape of a tree.       *)
(***************************************************************************)
EXTENDS BstOps, SequencesExt, FiniteSetTheorems, WellFoundedInduction, TLAPS

(***************************************************************************)
(* Induction, and recursion along a rank.                                  *)
(***************************************************************************)
LEMMA LeastNat ==
    ASSUME NEW T, T \subseteq Nat, T # {}
    PROVE  \E x \in T : \A y \in T : x <= y
<1> DEFINE R == {ss \in Nat \X Nat : ss[1] < ss[2]}
<1>1. IsWellFoundedOn(R, Nat)
    BY NatLessThanWellFounded DEF OpToRel
<1>2. PICK x \in T : \A y \in T : ~(<<y, x>> \in R)
    <2> HIDE DEF R
    <2> QED BY <1>1, WFMin
<1>3. \A y \in T : ~(y < x)
    BY <1>2
<1> QED BY <1>3

(* A set of numbers that has 0 and with every number the next one.          *)
LEMMA UpTo ==
    ASSUME NEW n \in Nat, NEW T, 0 \in T, \A i \in 1..n : i - 1 \in T => i \in T
    PROVE  \A i \in 0..n : i \in T
<1> DEFINE F == {i \in 0..n : i \notin T}
<1>1. SUFFICES ASSUME F # {} PROVE FALSE
    OBVIOUS
<1>2. F \subseteq Nat
    OBVIOUS
<1>3. PICK i \in F : \A j \in F : i <= j
    <2> HIDE DEF F
    <2> QED BY <1>1, <1>2, LeastNat
<1>4. i \in 1..n /\ i - 1 \in 0..n /\ i - 1 \notin F
    BY <1>3
<1> QED BY <1>3, <1>4

(* A set that has every element of S whose lower ones it has.               *)
Ranked(S, r, B) == B \in Nat /\ r \in [S -> 0..B]
Heritable(S, r, T) == \A x \in S : (\A y \in S : r[y] < r[x] => y \in T) => x \in T

LEMMA ByRank ==
    ASSUME NEW S, NEW B, NEW r, Ranked(S, r, B), NEW T, Heritable(S, r, T)
    PROVE  \A x \in S : x \in T
<1> USE DEF Ranked, Heritable
<1> DEFINE F == {x \in S : x \notin T}
           N == {r[x] : x \in F}
<1>1. SUFFICES ASSUME F # {} PROVE FALSE
    OBVIOUS
<1>2. N \subseteq Nat /\ N # {}
    BY <1>1
<1>3. PICK m \in N : \A k \in N : m <= k
    <2> HIDE DEF F, N
    <2> QED BY <1>2, LeastNat
<1>4. PICK x \in F : m = r[x]
    BY <1>3
<1>5. \A y \in S : r[y] < r[x] => y \in T
    <2> SUFFICES ASSUME NEW y \in S, r[y] < r[x], y \notin T PROVE FALSE
        OBVIOUS
    <2>1. r[y] \in N /\ r[y] \in Nat /\ r[x] \in Nat
        OBVIOUS
    <2> QED BY <1>3, <1>4, <2>1
<1> QED BY <1>4, <1>5

(* f is given by base on E, by step from two other values elsewhere.        *)
Solves(f, S, E, base, step, a, b) ==
    f = [x \in S |-> IF x \in E THEN base[x] ELSE step[<<x, f[a[x]], f[b[x]]>>]]

LEMMA RankRecursion ==
    ASSUME NEW S, NEW B \in Nat, NEW r \in [S -> 0..B], NEW V, NEW E, NEW base \in [S -> V],
           NEW step \in [S \X V \X V -> V], NEW a \in [S -> S], NEW b \in [S -> S],
           \A x \in S : x \notin E => r[a[x]] < r[x] /\ r[b[x]] < r[x]
    PROVE  \E f \in [S -> V] : Solves(f, S, E, base, step, a, b)
<1> DEFINE Val(f, x) == IF x \in E THEN base[x] ELSE step[<<x, f[a[x]], f[b[x]]>>]
           Upto(d, f) == \A x \in S : r[x] <= d => f[x] = Val(f, x)
           T == {d \in 0..B : \E f \in [S -> V] : Upto(d, f)}
<1>1. ASSUME NEW f \in [S -> V] PROVE \A x \in S : Val(f, x) \in V
    <2> SUFFICES ASSUME NEW x \in S PROVE Val(f, x) \in V
        OBVIOUS
    <2>1. f[a[x]] \in V /\ f[b[x]] \in V /\ base[x] \in V
        OBVIOUS
    <2> QED BY <2>1
<1>2. ASSUME NEW d \in 0..B, NEW f \in [S -> V], d = 0 \/ Upto(d - 1, f)
      PROVE  d \in T
    <2> DEFINE g == [x \in S |-> IF r[x] < d THEN f[x] ELSE Val(f, x)]
    <2>1. g \in [S -> V]
        BY <1>1
    <2>2. ASSUME NEW x \in S, r[x] <= d PROVE g[x] = Val(f, x)
        <3>1. r[x] \in Nat /\ d \in Nat
            OBVIOUS
        <3>2. CASE r[x] < d
            <4>1. d # 0 /\ r[x] <= d - 1
                BY <3>1, <3>2
            <4> QED BY <1>2, <3>2, <4>1
        <3>3. CASE ~(r[x] < d)
            BY <3>3
        <3> QED BY <3>2, <3>3
    <2>3. ASSUME NEW x \in S, r[x] <= d PROVE Val(f, x) = Val(g, x)
        <3>1. CASE x \in E
            BY <3>1
        <3>2. CASE x \notin E
            <4>1. /\ a[x] \in S /\ b[x] \in S /\ r[a[x]] < r[x] /\ r[b[x]] < r[x]
                  /\ r[a[x]] \in Nat /\ r[b[x]] \in Nat /\ r[x] \in Nat /\ d \in Nat
                BY <3>2
            <4>2. r[a[x]] < d /\ r[b[x]] < d
                BY <2>3, <4>1
            <4>3. g[a[x]] = f[a[x]] /\ g[b[x]] = f[b[x]]
                BY <4>1, <4>2
            <4> QED BY <4>3
        <3> QED BY <3>1, <3>2
    <2> HIDE DEF g
    <2>4. Upto(d, g)
        BY <2>2, <2>3
    <2> HIDE DEF Upto
    <2> QED BY <2>1, <2>4
<1>3. 0 \in T
    <2>1. CASE S = {}
        <3>1. PICK f : f = [x \in S |-> x]
            OBVIOUS
        <3>2. f \in [S -> V]
            BY <2>1, <3>1
        <3> HIDE DEF T, Upto
        <3> QED BY <1>2, <3>2
    <2>2. CASE S # {}
        <3> HIDE DEF T, Upto
        <3> QED BY <1>2
    <2> QED BY <2>1, <2>2
<1>4. ASSUME NEW d \in 1..B, d - 1 \in T PROVE d \in T
    <2>1. PICK f \in [S -> V] : Upto(d - 1, f)
        BY <1>4
    <2>2. d \in 0..B
        OBVIOUS
    <2> HIDE DEF T, Upto
    <2> QED BY <1>2, <2>1, <2>2
<1>5. B \in T
    <2> HIDE DEF T
    <2>1. \A d \in 0..B : d \in T
        BY <1>3, <1>4, UpTo
    <2> QED BY <2>1
<1>6. PICK f \in [S -> V] : Upto(B, f)
    BY <1>5
<1>7. \A x \in S : f[x] = Val(f, x)
    <2>1. \A x \in S : r[x] <= B
        OBVIOUS
    <2> QED BY <1>6, <2>1
<1>8. f = [x \in S |-> Val(f, x)]
    <2> HIDE DEF Val
    <2> QED BY <1>7
<1> QED BY <1>6, <1>8 DEF Solves

(***************************************************************************)
(* The shape of a tree: D[n] are the nodes of the subtree at n.            *)
(***************************************************************************)
Trees == [child : [Links -> 0..BstMax], parent : [BstNodes -> 0..BstMax],
          data : [BstNodes -> Elems \cup {NoData}], len : Int]

(* A free node has no children and no parent; the subtrees of another are   *)
(* disjoint and do not have it.                                            *)
NodeOK(t, D, n) ==
    IF t.data[n] = NoData THEN D[n] = {} /\ t.parent[n] = 0 /\ Left(t, n) = 0 /\ Right(t, n) = 0
    ELSE /\ D[n] = {n} \cup D[Left(t, n)] \cup D[Right(t, n)]
         /\ n \notin D[Left(t, n)] /\ n \notin D[Right(t, n)]
         /\ D[Left(t, n)] \cap D[Right(t, n)] = {}

LinkOK(t, l) ==
    t.child[l] # 0 => t.data[t.child[l]] # NoData /\ t.parent[t.child[l]] = l[1]

Shape(t, D) ==
    /\ t \in Trees /\ D \in [0..BstMax -> SUBSET BstNodes] /\ D[0] = {}
    /\ \A n \in BstNodes : NodeOK(t, D, n)
    /\ \A n \in BstNodes : \A m \in D[n] : D[m] \subseteq D[n]
    /\ D[t.child[Root]] = TreeNodes(t) /\ t.child[<<0, "left">>] = 0
    /\ \A l \in Links : LinkOK(t, l)
    /\ \A n \in TreeNodes(t) : \E l \in Links : t.child[l] = n
    /\ Cardinality(TreeNodes(t)) = t.len

LEMMA LinksAre ==
    /\ BstMax \in Nat /\ Root \in Links /\ Root = <<0, "right">> /\ BstNodes = 1..BstMax
    /\ \A n \in 0..BstMax : <<n, "left">> \in Links /\ <<n, "right">> \in Links
    /\ \A n \in BstNodes : n \in 0..BstMax /\ n # 0
    /\ \A n \in 0..BstMax : n # 0 => n \in BstNodes
    /\ \A l \in Links : l[1] \in 0..BstMax /\ (l = <<l[1], "left">> \/ l = <<l[1], "right">>)
BY BstMaxAssumption DEF Links, Root, BstNodes

LEMMA TreeIs ==
    ASSUME NEW t, NEW D, Shape(t, D)
    PROVE  /\ \A l \in Links : t.child[l] \in 0..BstMax
           /\ \A n \in BstNodes : /\ Left(t, n) \in 0..BstMax /\ Right(t, n) \in 0..BstMax
                                  /\ t.parent[n] \in 0..BstMax /\ t.data[n] \in Elems \cup {NoData}
           /\ Left(t, 0) = 0 /\ D[0] = {}
           /\ \A n \in 0..BstMax : D[n] \subseteq TreeNodes(t)
           /\ \A n \in TreeNodes(t) : n \in BstNodes /\ n \in D[n] /\ NodeOK(t, D, n)
           /\ \A n \in BstNodes : n \in TreeNodes(t) <=> t.data[n] # NoData
           /\ \A n \in BstNodes : n \notin TreeNodes(t) => Left(t, n) = 0 /\ Right(t, n) = 0
<1>1. \A l \in Links : t.child[l] \in 0..BstMax
    BY DEF Shape, Trees
<1>2. \A n \in BstNodes : /\ Left(t, n) \in 0..BstMax /\ Right(t, n) \in 0..BstMax
                          /\ t.parent[n] \in 0..BstMax /\ t.data[n] \in Elems \cup {NoData}
    BY <1>1, LinksAre DEF Shape, Trees, Left, Right
<1>3. Left(t, 0) = 0 /\ D[0] = {}
    BY DEF Shape, Left
<1>4. \A n \in BstNodes : n \in TreeNodes(t) <=> t.data[n] # NoData
    BY DEF TreeNodes
<1>5. \A n \in TreeNodes(t) : n \in BstNodes /\ n \in D[n] /\ NodeOK(t, D, n)
    <2> SUFFICES ASSUME NEW n \in TreeNodes(t) PROVE n \in BstNodes /\ n \in D[n] /\ NodeOK(t, D, n)
        OBVIOUS
    <2>1. n \in BstNodes /\ t.data[n] # NoData
        BY DEF TreeNodes
    <2> QED BY <2>1 DEF Shape, NodeOK
<1>6. \A n \in BstNodes : n \notin TreeNodes(t) => D[n] = {} /\ Left(t, n) = 0 /\ Right(t, n) = 0
    BY <1>4 DEF Shape, NodeOK
<1>7. ASSUME NEW n \in 0..BstMax PROVE D[n] \subseteq TreeNodes(t)
    <2>1. CASE n = 0
        BY <1>3, <2>1
    <2>2. CASE n # 0 /\ n \notin TreeNodes(t)
        BY <1>6, <2>2, LinksAre
    <2>3. CASE n \in TreeNodes(t)
        <3>1. PICK r : r = t.child[Root] /\ D[r] = TreeNodes(t) /\ r \in 0..BstMax
            BY <1>1, LinksAre DEF Shape
        <3>2. r # 0
            BY <1>3, <2>3, <3>1
        <3>3. r \in BstNodes /\ n \in D[r]
            BY <2>3, <3>1, <3>2, LinksAre
        <3> QED BY <3>1, <3>3 DEF Shape
    <2> QED BY <2>1, <2>2, <2>3
<1> QED BY <1>1, <1>2, <1>3, <1>4, <1>5, <1>6, <1>7

LEMMA DataIs ==
    ASSUME NEW t, NEW D, Shape(t, D)
    PROVE  /\ \A n \in TreeNodes(t) : t.data[n] \in Elems /\ t.data[n] \in Int /\ t.data[n] # NoData
           /\ TreeData(t) \subseteq Elems
<1>1. \A n \in TreeNodes(t) : t.data[n] \in Elems /\ t.data[n] # NoData
    BY TreeIs
<1>2. \A x \in Elems : x \in Int
    BY ElemsAssumption
<1> QED BY <1>1, <1>2 DEF TreeData

(* The size of a subtree is its rank.                                       *)
Rank(D) == [n \in 0..BstMax |-> Cardinality(D[n])]

LEMMA RankIs ==
    ASSUME NEW t, NEW D, Shape(t, D)
    PROVE  /\ Rank(D) \in [0..BstMax -> 0..BstMax]
           /\ \A n \in TreeNodes(t) : /\ Rank(D)[Left(t, n)] < Rank(D)[n]
                                      /\ Rank(D)[Right(t, n)] < Rank(D)[n]
           /\ \A n \in 0..BstMax : IsFiniteSet(D[n])
<1>1. IsFiniteSet(BstNodes) /\ Cardinality(BstNodes) = BstMax
    BY LinksAre, FS_Interval
<1>2. ASSUME NEW n \in 0..BstMax PROVE IsFiniteSet(D[n]) /\ Cardinality(D[n]) \in 0..BstMax
    <2>1. D[n] \subseteq BstNodes
        BY DEF Shape
    <2>2. IsFiniteSet(D[n]) /\ Cardinality(D[n]) <= BstMax
        BY <1>1, <2>1, FS_Subset
    <2>3. Cardinality(D[n]) \in Nat
        BY <2>2, FS_CardinalityType
    <2> QED BY <2>2, <2>3, LinksAre
<1>3. ASSUME NEW n \in TreeNodes(t), NEW m \in {Left(t, n), Right(t, n)}
      PROVE  Cardinality(D[m]) < Cardinality(D[n])
    <2>1. /\ n \in BstNodes /\ n \in 0..BstMax /\ m \in 0..BstMax
          /\ D[n] = {n} \cup D[Left(t, n)] \cup D[Right(t, n)]
          /\ n \notin D[Left(t, n)] /\ n \notin D[Right(t, n)]
        BY TreeIs, LinksAre DEF NodeOK
    <2>2. D[m] \subseteq D[n] /\ n \in D[n] /\ n \notin D[m]
        BY <2>1
    <2>3. IsFiniteSet(D[n])
        BY <1>2, <2>1
    <2>4. PICK S, U : S = D[m] /\ U = D[n] /\ IsFiniteSet(U) /\ S \in SUBSET U /\ S # U
        BY <2>2, <2>3
    <2>5. Cardinality(S) <= Cardinality(U) /\ Cardinality(S) # Cardinality(U) /\ IsFiniteSet(S)
        BY <2>4, FS_Subset
    <2>6. Cardinality(S) \in Nat /\ Cardinality(U) \in Nat
        BY <2>4, <2>5, FS_CardinalityType
    <2> QED BY <2>4, <2>5, <2>6
<1>4. Rank(D) \in [0..BstMax -> 0..BstMax]
    BY <1>2 DEF Rank
<1>5. \A n \in TreeNodes(t) : /\ Rank(D)[Left(t, n)] < Rank(D)[n]
                              /\ Rank(D)[Right(t, n)] < Rank(D)[n]
    <2>1. \A n \in TreeNodes(t) : n \in 0..BstMax /\ Left(t, n) \in 0..BstMax /\ Right(t, n) \in 0..BstMax
        BY TreeIs, LinksAre
    <2> QED BY <1>3, <2>1 DEF Rank
<1> QED BY <1>2, <1>4, <1>5

(* What holds of a node when it holds of its children holds of all.         *)
LEMMA TreeInduction ==
    ASSUME NEW t, NEW D, Shape(t, D), NEW T, 0 \in T, \A n \in BstNodes : n \notin TreeNodes(t) => n \in T,
           \A n \in TreeNodes(t) : Left(t, n) \in T /\ Right(t, n) \in T => n \in T
    PROVE  \A n \in 0..BstMax : n \in T
<1>1. PICK r : r = Rank(D)
    OBVIOUS
<1>2. r \in [0..BstMax -> 0..BstMax] /\ BstMax \in Nat
    BY <1>1, RankIs, LinksAre
<1>3. ASSUME NEW n \in 0..BstMax, \A m \in 0..BstMax : r[m] < r[n] => m \in T PROVE n \in T
    <2>1. CASE n = 0 \/ n \notin TreeNodes(t)
        BY <2>1, LinksAre
    <2>2. CASE n \in TreeNodes(t)
        <3>1. Left(t, n) \in 0..BstMax /\ Right(t, n) \in 0..BstMax
            BY <2>2, TreeIs
        <3>2. r[Left(t, n)] < r[n] /\ r[Right(t, n)] < r[n]
            BY <1>1, <2>2, RankIs
        <3> QED BY <1>3, <2>2, <3>1, <3>2
    <2> QED BY <2>1, <2>2
<1>4. PICK S : S = 0..BstMax
    OBVIOUS
<1>5. Ranked(S, r, BstMax) /\ Heritable(S, r, T)
    BY <1>2, <1>3, <1>4 DEF Ranked, Heritable
<1>6. \A n \in S : n \in T
    BY <1>5, ByRank
<1> QED BY <1>4, <1>6

LEMMA OneLink ==
    ASSUME NEW t, NEW D, Shape(t, D), NEW l \in Links, NEW k \in Links, t.child[l] = t.child[k],
           t.child[l] # 0
    PROVE  l = k
<1>1. PICK n : n = t.child[l] /\ n = t.child[k] /\ n \in TreeNodes(t)
    <2>1. t.child[l] \in BstNodes /\ t.data[t.child[l]] # NoData
        BY TreeIs, LinksAre DEF Shape, LinkOK
    <2> QED BY <2>1 DEF TreeNodes
<1>2. t.parent[n] = l[1] /\ t.parent[n] = k[1] /\ n # 0
    BY <1>1 DEF Shape, LinkOK
<1>3. PICK p : p = l[1] /\ p = k[1] /\ p \in 0..BstMax
    BY <1>2, LinksAre
<1>4. \/ l = k
      \/ l = <<p, "left">> /\ k = <<p, "right">>
      \/ l = <<p, "right">> /\ k = <<p, "left">>
    BY <1>3, LinksAre
<1>5. ASSUME t.child[<<p, "left">>] = n, t.child[<<p, "right">>] = n PROVE FALSE
    <2>1. Left(t, p) = n /\ Right(t, p) = n
        BY <1>5 DEF Left, Right
    <2>2. p # 0
        BY <1>2, <2>1, TreeIs
    <2>3. p \in TreeNodes(t)
        BY <1>2, <1>3, <2>1, <2>2, LinksAre, TreeIs
    <2>4. n \in D[n] /\ D[Left(t, p)] \cap D[Right(t, p)] = {}
        BY <1>1, <2>3, TreeIs DEF NodeOK
    <2> QED BY <2>1, <2>4
<1> QED BY <1>1, <1>4, <1>5

(* A link that leads somewhere, or is held by a node of the tree.           *)
LEMMA LinkHolder ==
    ASSUME NEW t, NEW D, Shape(t, D), NEW l \in Links, t.child[l] # 0
    PROVE  /\ l = Root \/ l[1] \in TreeNodes(t)
           /\ t.child[l] \in TreeNodes(t) /\ t.parent[t.child[l]] = l[1]
           /\ l[1] \in TreeNodes(t) => D[t.child[l]] \subseteq D[l[1]] /\ l[1] \notin D[t.child[l]]
<1>1. t.child[l] \in BstNodes /\ t.data[t.child[l]] # NoData /\ t.parent[t.child[l]] = l[1]
    BY TreeIs, LinksAre DEF Shape, LinkOK
<1>2. t.child[l] = Left(t, l[1]) \/ t.child[l] = Right(t, l[1])
    BY LinksAre DEF Left, Right
<1>3. l = Root \/ l[1] \in TreeNodes(t)
    <2>1. CASE l[1] = 0
        <3>1. l # <<0, "left">>
            BY DEF Shape
        <3> QED BY <2>1, <3>1, LinksAre
    <2>2. CASE l[1] # 0
        <3>1. l[1] \in BstNodes
            BY <2>2, LinksAre
        <3> QED BY <1>2, <3>1, TreeIs
    <2> QED BY <2>1, <2>2
<1>4. ASSUME l[1] \in TreeNodes(t) PROVE D[t.child[l]] \subseteq D[l[1]] /\ l[1] \notin D[t.child[l]]
    <2>1. NodeOK(t, D, l[1]) /\ t.data[l[1]] # NoData
        BY <1>4, TreeIs DEF TreeNodes
    <2> QED BY <1>2, <2>1 DEF NodeOK
<1> QED BY <1>1, <1>3, <1>4 DEF TreeNodes

(***************************************************************************)
(* The walks.  Each follows links: next[l] is the link after l, and the     *)
(* walk stops at the links in E.                                           *)
(***************************************************************************)
Follows(w, E, next) ==
    w = [l \in Links |-> IF l \in E THEN l ELSE w[next[l]]]

LEMMA WalkExists ==
    ASSUME NEW t, NEW D, Shape(t, D), NEW E, NEW next \in [Links -> Links],
           \A l \in Links : l \notin E =>
               t.child[l] \in TreeNodes(t)
               /\ t.child[next[l]] \in {Left(t, t.child[l]), Right(t, t.child[l])}
    PROVE  \E w : Follows(w, E, next)
<1> DEFINE base == [l \in Links |-> l]
           step == [q \in Links \X Links \X Links |-> q[2]]
           r == [l \in Links |-> Rank(D)[t.child[l]]]
<1>1. base \in [Links -> Links] /\ step \in [Links \X Links \X Links -> Links]
    OBVIOUS
<1>2. r \in [Links -> 0..BstMax]
    <2>1. PICK R : R = Rank(D) /\ R \in [0..BstMax -> 0..BstMax]
        BY RankIs
    <2>2. \A l \in Links : t.child[l] \in 0..BstMax
        BY TreeIs
    <2>3. \A l \in Links : R[t.child[l]] \in 0..BstMax
        BY <2>1, <2>2
    <2> QED BY <2>1, <2>3
<1>3. \A l \in Links : l \notin E => r[next[l]] < r[l] /\ r[next[l]] < r[l]
    BY RankIs
<1> HIDE DEF r
<1>4. \E f \in [Links -> Links] : Solves(f, Links, E, base, step, next, next)
    <2> HIDE DEF base, step
    <2> QED BY <1>1, <1>2, <1>3, LinksAre, RankRecursion
<1>5. PICK f \in [Links -> Links] : Solves(f, Links, E, base, step, next, next)
    BY <1>4
<1>6. f = [l \in Links |-> IF l \in E THEN l ELSE f[next[l]]]
    <2>1. \A l \in Links : base[l] = l /\ step[<<l, f[next[l]], f[next[l]]>>] = f[next[l]]
        OBVIOUS
    <2> HIDE DEF base, step
    <2> QED BY <1>5, <2>1 DEF Solves
<1> QED BY <1>6 DEF Follows

(* What holds of links that stop, and of a link if of the next, holds of    *)
(* every link.                                                             *)
GoesDown(t, E, next) ==
    /\ next \in [Links -> Links]
    /\ \A l \in Links : l \notin E =>
           t.child[l] \in TreeNodes(t)
           /\ t.child[next[l]] \in {Left(t, t.child[l]), Right(t, t.child[l])}
WalkClosed(T, E, next) ==
    \A l \in Links : l \in E \/ next[l] \in T => l \in T

LEMMA WalkInduction ==
    ASSUME NEW t, NEW D, Shape(t, D), NEW E, NEW next, GoesDown(t, E, next),
           NEW T, WalkClosed(T, E, next)
    PROVE  \A l \in Links : l \in T
<1> USE DEF GoesDown, WalkClosed
<1> DEFINE r == [l \in Links |-> Rank(D)[t.child[l]]]
<1>1. Ranked(Links, r, BstMax)
    BY TreeIs, RankIs, LinksAre DEF Ranked
<1>2. \A l \in Links : l \notin E => r[next[l]] < r[l]
    BY RankIs
<1> HIDE DEF r
<1>3. Heritable(Links, r, T)
    BY <1>2 DEF Heritable
<1> QED BY <1>1, <1>3, ByRank

(* bst_find.                                                               *)
Turn(t, cmp, n) == <<n, IF cmp[t.data[n]] > 0 THEN "right" ELSE "left">>
FindStops(t, cmp) == {l \in Links : t.child[l] = 0 \/ cmp[t.data[t.child[l]]] = 0}
FindNext(t, cmp) ==
    [l \in Links |-> IF l \in FindStops(t, cmp) THEN l ELSE Turn(t, cmp, t.child[l])]

LEMMA FindSteps ==
    ASSUME NEW t, NEW D, Shape(t, D), NEW cmp, NEW E, E = FindStops(t, cmp), NEW next,
           next = FindNext(t, cmp)
    PROVE  /\ next \in [Links -> Links]
           /\ \A l \in Links : l \notin E =>
                  t.child[l] \in TreeNodes(t)
                  /\ t.child[next[l]] \in {Left(t, t.child[l]), Right(t, t.child[l])}
<1>1. ASSUME NEW l \in Links, l \notin E
      PROVE  /\ t.child[l] \in TreeNodes(t) /\ next[l] = Turn(t, cmp, t.child[l])
             /\ Turn(t, cmp, t.child[l]) \in Links
             /\ t.child[Turn(t, cmp, t.child[l])] \in {Left(t, t.child[l]), Right(t, t.child[l])}
    <2>1. t.child[l] # 0
        BY <1>1 DEF FindStops
    <2>2. t.child[l] \in TreeNodes(t)
        BY <2>1, LinkHolder
    <2>3. t.child[l] \in 0..BstMax
        BY TreeIs
    <2>4. Turn(t, cmp, t.child[l]) \in {<<t.child[l], "right">>, <<t.child[l], "left">>}
        BY DEF Turn
    <2> QED BY <1>1, <2>2, <2>3, <2>4, LinksAre DEF FindNext, Left, Right
<1>2. next \in [Links -> Links]
    <2>1. \A l \in Links : next[l] \in Links
        BY <1>1 DEF FindNext
    <2> QED BY <2>1 DEF FindNext
<1> QED BY <1>1, <1>2

LEMMA FindWalk ==
    ASSUME NEW t, NEW D, Shape(t, D), NEW cmp
    PROVE  \E w : Follows(w, FindStops(t, cmp), FindNext(t, cmp)) /\ bst_find(t, cmp) = w[Root]
<1> DEFINE w == CHOOSE w : w = [l \in Links |->
                    LET n == t.child[l]
                    IN  IF n = 0 THEN l
                        ELSE IF cmp[t.data[n]] = 0 THEN l
                        ELSE w[<<n, IF cmp[t.data[n]] > 0 THEN "right" ELSE "left">>]]
<1>1. bst_find(t, cmp) = w[Root]
    BY DEF bst_find
<1>2. PICK E, next : E = FindStops(t, cmp) /\ next = FindNext(t, cmp)
    OBVIOUS
<1>3. PICK f : Follows(f, E, next)
    BY <1>2, FindSteps, WalkExists
<1>4. \A l \in Links : l \in E <=> t.child[l] = 0 \/ cmp[t.data[t.child[l]]] = 0
    BY <1>2 DEF FindStops
<1>5. \A l \in Links : l \notin E => next[l] = <<t.child[l], IF cmp[t.data[t.child[l]]] > 0 THEN "right" ELSE "left">>
    BY <1>2 DEF FindNext, Turn
<1>6. \A v : Follows(v, E, next) <=>
                 v = [l \in Links |-> LET n == t.child[l]
                                      IN  IF n = 0 THEN l
                                          ELSE IF cmp[t.data[n]] = 0 THEN l
                                          ELSE v[<<n, IF cmp[t.data[n]] > 0 THEN "right" ELSE "left">>]]
    <2> SUFFICES ASSUME NEW v
                 PROVE  Follows(v, E, next) <=>
                            v = [l \in Links |-> LET n == t.child[l]
                                 IN  IF n = 0 THEN l
                                     ELSE IF cmp[t.data[n]] = 0 THEN l
                                     ELSE v[<<n, IF cmp[t.data[n]] > 0 THEN "right" ELSE "left">>]]
        OBVIOUS
    <2>1. ASSUME NEW l \in Links
          PROVE  (IF l \in E THEN l ELSE v[next[l]])
                 = LET n == t.child[l]
                   IN  IF n = 0 THEN l
                       ELSE IF cmp[t.data[n]] = 0 THEN l
                       ELSE v[<<n, IF cmp[t.data[n]] > 0 THEN "right" ELSE "left">>]
        <3>1. CASE l \in E
            BY <1>4, <3>1
        <3>2. CASE l \notin E
            BY <1>4, <1>5, <3>2
        <3> QED BY <3>1, <3>2
    <2> QED BY <2>1 DEF Follows
<1>7. Follows(w, E, next)
    BY <1>3, <1>6
<1> QED BY <1>1, <1>2, <1>7

(***************************************************************************)
(* Where a search ends.                                                    *)
(***************************************************************************)
(* Link l is in the left, or right, subtree of m.                           *)
Under(t, D, l, m, side) == l = <<m, side>> \/ l[1] \in D[t.child[<<m, side>>]]

Ordered(t, D) ==
    \A n \in TreeNodes(t) : /\ \A m \in D[Left(t, n)] : t.data[m] < t.data[n]
                            /\ \A m \in D[Right(t, n)] : t.data[m] > t.data[n]

(* The link that a search from l finds, and where its key belongs.          *)
FoundFrom(t, D, cmp, l, k) ==
    /\ k \in Links /\ (k = l \/ k[1] \in D[t.child[l]])
    /\ t.child[k] = 0 \/ cmp[t.data[t.child[k]]] = 0
    /\ \A m \in D[t.child[l]] : /\ Under(t, D, k, m, "left") => ~(cmp[t.data[m]] > 0)
                                /\ Under(t, D, k, m, "left") => cmp[t.data[m]] # 0
                                /\ Under(t, D, k, m, "right") => cmp[t.data[m]] > 0

LEMMA NotUnder ==
    ASSUME NEW t, NEW D, Shape(t, D), NEW n \in BstNodes, NEW k \in Links,
           k[1] \notin D[n], NEW m \in D[n], NEW side \in {"left", "right"}
    PROVE  ~Under(t, D, k, m, side)
<1>1. m \in BstNodes /\ m \in TreeNodes(t) /\ D[m] \subseteq D[n]
    <2>1. D[n] \subseteq TreeNodes(t)
        BY TreeIs, LinksAre
    <2> QED BY <2>1, TreeIs DEF Shape
<1>2. D[m] = {m} \cup D[Left(t, m)] \cup D[Right(t, m)]
    BY <1>1, TreeIs DEF NodeOK
<1>3. k[1] # m /\ k[1] \notin D[Left(t, m)] /\ k[1] \notin D[Right(t, m)]
    BY <1>1, <1>2
<1> QED BY <1>3 DEF Under, Left, Right

LEMMA FindIs ==
    ASSUME NEW t, NEW D, Shape(t, D), NEW cmp
    PROVE  FoundFrom(t, D, cmp, Root, bst_find(t, cmp))
<1>1. PICK E, next : E = FindStops(t, cmp) /\ next = FindNext(t, cmp)
    OBVIOUS
<1>2. PICK w : Follows(w, E, next) /\ bst_find(t, cmp) = w[Root]
    BY <1>1, FindWalk
<1>3. /\ next \in [Links -> Links]
      /\ \A l \in Links : l \notin E =>
             t.child[l] \in TreeNodes(t)
             /\ t.child[next[l]] \in {Left(t, t.child[l]), Right(t, t.child[l])}
    BY <1>1, FindSteps
<1> DEFINE T == {l \in Links : FoundFrom(t, D, cmp, l, w[l])}
<1>4. ASSUME NEW l \in Links, l \in E PROVE l \in T
    <2>1. w[l] = l
        BY <1>2, <1>4 DEF Follows
    <2>2. CASE t.child[l] = 0
        BY <2>1, <2>2, TreeIs DEF FoundFrom
    <2>3. CASE t.child[l] # 0
        <3>1. cmp[t.data[t.child[l]]] = 0
            BY <1>1, <1>4, <2>3 DEF FindStops
        <3>2. PICK n : n = t.child[l] /\ n \in BstNodes
            BY <2>3, TreeIs, LinksAre
        <3>3. l[1] \notin D[n]
            <4>1. CASE l = Root
                <5>1. l[1] = 0
                    BY <4>1 DEF Root
                <5>2. D[n] \subseteq TreeNodes(t)
                    BY <3>2, TreeIs, LinksAre
                <5>3. 0 \notin TreeNodes(t)
                    BY TreeIs, LinksAre
                <5> QED BY <5>1, <5>2, <5>3
            <4> QED BY <2>3, <3>2, <4>1, LinkHolder
        <3>4. \A m \in D[n] : ~Under(t, D, l, m, "left") /\ ~Under(t, D, l, m, "right")
            BY <3>2, <3>3, NotUnder
        <3> QED BY <2>1, <3>1, <3>2, <3>4 DEF FoundFrom
    <2> QED BY <2>2, <2>3
<1>5. ASSUME NEW l \in Links, l \notin E, next[l] \in T PROVE l \in T
    <2>1. PICK n, j, k : n = t.child[l] /\ j = next[l] /\ k = w[j]
        OBVIOUS
    <2>2. w[l] = k /\ FoundFrom(t, D, cmp, j, k) /\ j \in Links
        BY <1>2, <1>3, <1>5, <2>1 DEF Follows
    <2>3. n \in TreeNodes(t) /\ j = Turn(t, cmp, n) /\ cmp[t.data[n]] # 0
        BY <1>1, <1>3, <1>5, <2>1 DEF FindNext, FindStops
    <2>4. n \in BstNodes /\ D[n] = {n} \cup D[Left(t, n)] \cup D[Right(t, n)]
          /\ n \notin D[Left(t, n)] /\ n \notin D[Right(t, n)]
          /\ D[Left(t, n)] \cap D[Right(t, n)] = {}
        BY <2>3, TreeIs DEF NodeOK
    <2>5. Left(t, n) = t.child[<<n, "left">>] /\ Right(t, n) = t.child[<<n, "right">>]
        BY DEF Left, Right
    <2>6. /\ k \in Links /\ (k = j \/ k[1] \in D[t.child[j]])
          /\ t.child[k] = 0 \/ cmp[t.data[t.child[k]]] = 0
          /\ \A m \in D[t.child[j]] : /\ Under(t, D, k, m, "left") => ~(cmp[t.data[m]] > 0)
                                      /\ Under(t, D, k, m, "left") => cmp[t.data[m]] # 0
                                      /\ Under(t, D, k, m, "right") => cmp[t.data[m]] > 0
        BY <2>2 DEF FoundFrom
    <2>7. ASSUME NEW a \in {"left", "right"}, NEW b \in {"left", "right"}, a # b, j = <<n, a>>
          PROVE  /\ k[1] \in D[n]
                 /\ ~Under(t, D, k, n, b)
                 /\ \A m \in D[t.child[<<n, b>>]] : ~Under(t, D, k, m, "left") /\ ~Under(t, D, k, m, "right")
        <3>1. D[t.child[<<n, a>>]] \cap D[t.child[<<n, b>>]] = {} /\ n \notin D[t.child[<<n, b>>]]
              /\ D[t.child[<<n, a>>]] \subseteq D[n]
            BY <2>4, <2>5, <2>7
        <3>2. k[1] = n \/ k[1] \in D[t.child[<<n, a>>]]
            BY <2>6, <2>7
        <3>3. k # <<n, b>>
            <4>1. k = <<n, a>> \/ k[1] \in D[t.child[<<n, a>>]]
                BY <2>6, <2>7
            <4>2. n \notin D[t.child[<<n, a>>]]
                BY <2>4, <2>5, <2>7
            <4> QED BY <2>7, <4>1, <4>2
        <3>4. k[1] \notin D[t.child[<<n, b>>]]
            BY <3>1, <3>2
        <3>5. \A m \in D[t.child[<<n, b>>]] : ~Under(t, D, k, m, "left") /\ ~Under(t, D, k, m, "right")
            <4>1. PICK c : c = t.child[<<n, b>>] /\ c \in 0..BstMax
                BY <2>4, <2>7, LinksAre, TreeIs
            <4>2. CASE c = 0
                BY <4>1, <4>2, TreeIs
            <4>3. CASE c # 0
                BY <2>6, <3>4, <4>1, <4>3, LinksAre, NotUnder
            <4> QED BY <4>1, <4>2, <4>3
        <3> QED BY <2>4, <3>1, <3>2, <3>3, <3>4, <3>5 DEF Under
    <2>8. CASE cmp[t.data[n]] > 0
        <3>1. j = <<n, "right">>
            BY <2>3, <2>8 DEF Turn
        <3>2. /\ k[1] \in D[n] /\ ~Under(t, D, k, n, "left")
              /\ \A m \in D[Left(t, n)] : ~Under(t, D, k, m, "left") /\ ~Under(t, D, k, m, "right")
            BY <2>5, <2>7, <3>1
        <3>3. \A m \in D[n] : /\ Under(t, D, k, m, "left") => ~(cmp[t.data[m]] > 0)
                              /\ Under(t, D, k, m, "left") => cmp[t.data[m]] # 0
                              /\ Under(t, D, k, m, "right") => cmp[t.data[m]] > 0
            BY <2>4, <2>5, <2>6, <2>8, <3>1, <3>2
        <3> QED BY <2>1, <2>2, <2>6, <3>2, <3>3 DEF FoundFrom
    <2>9. CASE ~(cmp[t.data[n]] > 0)
        <3>1. j = <<n, "left">>
            BY <2>3, <2>9 DEF Turn
        <3>2. /\ k[1] \in D[n] /\ ~Under(t, D, k, n, "right")
              /\ \A m \in D[Right(t, n)] : ~Under(t, D, k, m, "left") /\ ~Under(t, D, k, m, "right")
            BY <2>5, <2>7, <3>1
        <3>3. \A m \in D[n] : /\ Under(t, D, k, m, "left") => ~(cmp[t.data[m]] > 0)
                              /\ Under(t, D, k, m, "left") => cmp[t.data[m]] # 0
                              /\ Under(t, D, k, m, "right") => cmp[t.data[m]] > 0
            BY <2>3, <2>4, <2>5, <2>6, <2>9, <3>1, <3>2
        <3> QED BY <2>1, <2>2, <2>6, <3>2, <3>3 DEF FoundFrom
    <2> QED BY <2>8, <2>9
<1> HIDE DEF T
<1>6. \A l \in Links : l \in T
    <2>1. GoesDown(t, E, next)
        BY <1>3 DEF GoesDown
    <2>2. WalkClosed(T, E, next)
        BY <1>4, <1>5 DEF WalkClosed
    <2> QED BY <2>1, <2>2, WalkInduction
<1> QED BY <1>2, <1>6, LinksAre DEF T

(* A search for a key that compares to every element as the difference      *)
(* finds the element if the tree has it.                                   *)
Exact(t, cmp, x) == x \in Int /\ \A n \in TreeNodes(t) : t.data[n] \in Int /\ cmp[t.data[n]] = x - t.data[n]

LEMMA FindExact ==
    ASSUME NEW t, NEW D, Shape(t, D), Ordered(t, D), NEW cmp, NEW x, Exact(t, cmp, x)
    PROVE  /\ Found(t, cmp) # 0 => t.data[Found(t, cmp)] = x
           /\ Found(t, cmp) = 0 => x \notin TreeData(t)
<1>1. PICK E, next : E = FindStops(t, cmp) /\ next = FindNext(t, cmp)
    OBVIOUS
<1>2. PICK w : Follows(w, E, next) /\ bst_find(t, cmp) = w[Root]
    BY <1>1, FindWalk
<1>3. /\ next \in [Links -> Links]
      /\ \A l \in Links : l \notin E =>
             t.child[l] \in TreeNodes(t)
             /\ t.child[next[l]] \in {Left(t, t.child[l]), Right(t, t.child[l])}
    BY <1>1, FindSteps
<1> DEFINE T == {l \in Links : t.child[w[l]] = 0 => \A m \in D[t.child[l]] : t.data[m] # x}
<1>4. ASSUME NEW l \in Links, l \in E PROVE l \in T
    <2>1. w[l] = l
        BY <1>2, <1>4 DEF Follows
    <2> QED BY <2>1, TreeIs
<1>5. ASSUME NEW l \in Links, l \notin E, next[l] \in T PROVE l \in T
    <2>1. PICK n, j : n = t.child[l] /\ j = next[l]
        OBVIOUS
    <2>2. w[l] = w[j] /\ j \in Links
        BY <1>2, <1>3, <1>5, <2>1 DEF Follows
    <2>3. n \in TreeNodes(t) /\ j = Turn(t, cmp, n) /\ cmp[t.data[n]] # 0
        BY <1>1, <1>3, <1>5, <2>1 DEF FindNext, FindStops
    <2>4. D[n] = {n} \cup D[Left(t, n)] \cup D[Right(t, n)] /\ n \in BstNodes
        BY <2>3, TreeIs DEF NodeOK
    <2>5. /\ \A m \in D[Left(t, n)] : m \in TreeNodes(t) /\ t.data[m] < t.data[n]
          /\ \A m \in D[Right(t, n)] : m \in TreeNodes(t) /\ t.data[m] > t.data[n]
        <3>1. D[Left(t, n)] \subseteq TreeNodes(t) /\ D[Right(t, n)] \subseteq TreeNodes(t)
            BY <2>4, TreeIs
        <3> QED BY <2>3, <3>1 DEF Ordered
    <2>6. /\ t.data[n] \in Int /\ cmp[t.data[n]] = x - t.data[n] /\ x \in Int
          /\ \A m \in TreeNodes(t) : t.data[m] \in Int
        BY <2>3 DEF Exact
    <2>7. ASSUME t.child[w[l]] = 0 PROVE \A m \in D[n] : t.data[m] # x
        <3>1. \A m \in D[t.child[j]] : t.data[m] # x
            BY <1>5, <2>1, <2>2, <2>7
        <3>2. t.data[n] # x
            BY <2>3, <2>6
        <3>3. CASE x > t.data[n]
            <4>1. t.child[j] = Right(t, n)
                BY <2>3, <2>6, <3>3 DEF Turn, Right
            <4>2. \A m \in D[Left(t, n)] : t.data[m] # x
                BY <2>5, <2>6, <3>3
            <4> QED BY <2>4, <3>1, <3>2, <4>1, <4>2
        <3>4. CASE x < t.data[n]
            <4>1. t.child[j] = Left(t, n)
                BY <2>3, <2>6, <3>4 DEF Turn, Left
            <4>2. \A m \in D[Right(t, n)] : t.data[m] # x
                BY <2>5, <2>6, <3>4
            <4> QED BY <2>4, <3>1, <3>2, <4>1, <4>2
        <3> QED BY <2>6, <3>2, <3>3, <3>4
    <2> QED BY <2>1, <2>7
<1> HIDE DEF T
<1>6. \A l \in Links : l \in T
    <2>1. GoesDown(t, E, next)
        BY <1>3 DEF GoesDown
    <2>2. WalkClosed(T, E, next)
        BY <1>4, <1>5 DEF WalkClosed
    <2> QED BY <2>1, <2>2, WalkInduction
<1>7. Found(t, cmp) = 0 => x \notin TreeData(t)
    <2>1. t.child[w[Root]] = 0 => \A m \in TreeNodes(t) : t.data[m] # x
        <3>1. Root \in T /\ D[t.child[Root]] = TreeNodes(t)
            BY <1>6, LinksAre DEF Shape
        <3> QED BY <3>1 DEF T
    <2> QED BY <1>2, <2>1 DEF Found, TreeData
<1>8. Found(t, cmp) # 0 => t.data[Found(t, cmp)] = x
    <2>1. PICK k : k = bst_find(t, cmp)
        OBVIOUS
    <2>2. k \in Links /\ (t.child[k] = 0 \/ cmp[t.data[t.child[k]]] = 0)
        BY <2>1, FindIs DEF FoundFrom
    <2>3. ASSUME t.child[k] # 0 PROVE t.data[t.child[k]] = x
        <3>1. t.child[k] \in TreeNodes(t)
            BY <2>2, <2>3, LinkHolder
        <3>2. t.data[t.child[k]] \in Int /\ cmp[t.data[t.child[k]]] = x - t.data[t.child[k]] /\ x \in Int
            BY <3>1 DEF Exact
        <3> QED BY <2>2, <2>3, <3>2
    <2> QED BY <2>1, <2>3 DEF Found
<1> QED BY <1>7, <1>8

(***************************************************************************)
(* find_min_subtree.                                                       *)
(***************************************************************************)
MinStops(t) == {l \in Links : Left(t, t.child[l]) = 0}
MinNext(t) == [l \in Links |-> IF l \in MinStops(t) THEN l ELSE <<t.child[l], "left">>]

LEMMA MinSteps ==
    ASSUME NEW t, NEW D, Shape(t, D), NEW E, E = MinStops(t), NEW next, next = MinNext(t)
    PROVE  /\ next \in [Links -> Links]
           /\ \A l \in Links : l \notin E =>
                  t.child[l] \in TreeNodes(t)
                  /\ t.child[next[l]] \in {Left(t, t.child[l]), Right(t, t.child[l])}
<1>1. ASSUME NEW l \in Links, l \notin E
      PROVE  /\ t.child[l] \in TreeNodes(t) /\ next[l] = <<t.child[l], "left">> /\ next[l] \in Links
             /\ t.child[next[l]] = Left(t, t.child[l])
    <2>1. Left(t, t.child[l]) # 0
        BY <1>1 DEF MinStops
    <2>2. t.child[l] \in TreeNodes(t)
        BY <2>1, TreeIs, LinkHolder
    <2>3. t.child[l] \in 0..BstMax
        BY TreeIs
    <2> QED BY <1>1, <2>2, <2>3, LinksAre DEF MinNext, Left
<1>2. next \in [Links -> Links]
    <2>1. \A l \in Links : next[l] \in Links
        BY <1>1 DEF MinNext
    <2> QED BY <2>1 DEF MinNext
<1> QED BY <1>1, <1>2

LEMMA MinWalk ==
    ASSUME NEW t, NEW D, Shape(t, D)
    PROVE  \E w : Follows(w, MinStops(t), MinNext(t)) /\ \A l : find_min_subtree(t, l) = w[l]
<1> DEFINE w == CHOOSE w : w = [l \in Links |-> LET n == t.child[l]
                                                IN  IF Left(t, n) = 0 THEN l ELSE w[<<n, "left">>]]
<1>1. \A l : find_min_subtree(t, l) = w[l]
    BY DEF find_min_subtree
<1>2. PICK E, next : E = MinStops(t) /\ next = MinNext(t)
    OBVIOUS
<1>3. PICK f : Follows(f, E, next)
    BY <1>2, MinSteps, WalkExists
<1>4. /\ \A l \in Links : l \in E <=> Left(t, t.child[l]) = 0
      /\ \A l \in Links : l \notin E => next[l] = <<t.child[l], "left">>
    BY <1>2 DEF MinStops, MinNext
<1>5. \A v : Follows(v, E, next) <=>
                 v = [l \in Links |-> LET n == t.child[l]
                                      IN  IF Left(t, n) = 0 THEN l ELSE v[<<n, "left">>]]
    BY <1>4 DEF Follows
<1>6. Follows(w, E, next)
    BY <1>3, <1>5
<1> HIDE DEF w
<1> QED BY <1>1, <1>2, <1>6

(* The least of a subtree.                                                  *)
LeastFrom(t, D, l, k) ==
    /\ k \in Links /\ (k = l \/ k[1] \in D[t.child[l]])
    /\ t.child[l] # 0 => t.child[k] \in D[t.child[l]] /\ Left(t, t.child[k]) = 0
    /\ Ordered(t, D) => \A m \in D[t.child[l]] : m = t.child[k] \/ t.data[m] > t.data[t.child[k]]

LEMMA MinIs ==
    ASSUME NEW t, NEW D, Shape(t, D), NEW from \in Links
    PROVE  LeastFrom(t, D, from, find_min_subtree(t, from))
<1>1. PICK E, next : E = MinStops(t) /\ next = MinNext(t)
    OBVIOUS
<1>2. PICK w : Follows(w, E, next) /\ \A l : find_min_subtree(t, l) = w[l]
    BY <1>1, MinWalk
<1>3. /\ next \in [Links -> Links]
      /\ \A l \in Links : l \notin E =>
             t.child[l] \in TreeNodes(t)
             /\ t.child[next[l]] \in {Left(t, t.child[l]), Right(t, t.child[l])}
    BY <1>1, MinSteps
<1> DEFINE T == {l \in Links : LeastFrom(t, D, l, w[l])}
<1>4. ASSUME NEW l \in Links, l \in E PROVE l \in T
    <2>1. w[l] = l
        BY <1>2, <1>4 DEF Follows
    <2>2. Left(t, t.child[l]) = 0
        BY <1>1, <1>4 DEF MinStops
    <2>3. CASE t.child[l] = 0
        BY <2>1, <2>3, TreeIs DEF LeastFrom
    <2>4. CASE t.child[l] # 0
        <3>1. PICK n : n = t.child[l] /\ n \in TreeNodes(t)
            BY <2>4, LinkHolder
        <3>2. D[n] = {n} \cup D[Right(t, n)]
            BY <2>2, <3>1, TreeIs DEF NodeOK
        <3>3. Ordered(t, D) => \A m \in D[Right(t, n)] : t.data[m] > t.data[n]
            BY <3>1 DEF Ordered
        <3> QED BY <2>1, <2>2, <3>1, <3>2, <3>3 DEF LeastFrom
    <2> QED BY <2>3, <2>4
<1>5. ASSUME NEW l \in Links, l \notin E, next[l] \in T PROVE l \in T
    <2>1. PICK n, j, k : n = t.child[l] /\ j = next[l] /\ k = w[j]
        OBVIOUS
    <2>2. w[l] = k /\ LeastFrom(t, D, j, k) /\ j = <<n, "left">> /\ n \in TreeNodes(t)
        BY <1>1, <1>2, <1>3, <1>5, <2>1 DEF Follows, MinNext
    <2>3. t.child[j] = Left(t, n) /\ Left(t, n) # 0
        BY <1>1, <1>5, <2>1, <2>2 DEF Left, MinStops
    <2>4. /\ k \in Links /\ (k = j \/ k[1] \in D[Left(t, n)])
          /\ t.child[k] \in D[Left(t, n)] /\ Left(t, t.child[k]) = 0
          /\ Ordered(t, D) => \A m \in D[Left(t, n)] : m = t.child[k] \/ t.data[m] > t.data[t.child[k]]
        BY <2>2, <2>3 DEF LeastFrom
    <2>5. D[n] = {n} \cup D[Left(t, n)] \cup D[Right(t, n)]
        BY <2>2, TreeIs DEF NodeOK
    <2>6. k[1] \in D[n] /\ t.child[k] \in D[n]
        BY <2>2, <2>4, <2>5
    <2>7. ASSUME Ordered(t, D), NEW m \in D[n] PROVE m = t.child[k] \/ t.data[m] > t.data[t.child[k]]
        <3>1. t.data[t.child[k]] < t.data[n] /\ \A i \in D[Right(t, n)] : t.data[i] > t.data[n]
            BY <2>2, <2>4, <2>7 DEF Ordered
        <3>2. \A i \in D[n] : t.data[i] \in Int
            <4>1. D[n] \subseteq TreeNodes(t) /\ n \in BstNodes
                BY <2>2, TreeIs, LinksAre
            <4> QED BY <4>1, DataIs
        <3>3. n \in D[n] /\ t.child[k] \in D[n]
            BY <2>5, <2>6
        <3>4. CASE m \in D[Left(t, n)]
            BY <2>4, <2>7, <3>4
        <3>5. CASE m = n
            BY <3>1, <3>2, <3>3, <3>5
        <3>6. CASE m \in D[Right(t, n)]
            <4>1. t.data[m] > t.data[n]
                BY <3>1, <3>6
            <4> QED BY <2>7, <3>1, <3>2, <3>3, <4>1
        <3> QED BY <2>5, <3>4, <3>5, <3>6
    <2> QED BY <2>1, <2>2, <2>4, <2>6, <2>7 DEF LeastFrom
<1> HIDE DEF T
<1>6. \A l \in Links : l \in T
    <2>1. GoesDown(t, E, next)
        BY <1>3 DEF GoesDown
    <2>2. WalkClosed(T, E, next)
        BY <1>4, <1>5 DEF WalkClosed
    <2> QED BY <2>1, <2>2, WalkInduction
<1> QED BY <1>2, <1>6 DEF T

(***************************************************************************)
(* insert_node.                                                            *)
(***************************************************************************)
IsInserted(t, l, x, n, u) ==
    /\ u \in Trees /\ n \in BstNodes /\ n \notin TreeNodes(t)
    /\ u.child[l] = n /\ \A k \in Links : k # l => u.child[k] = t.child[k]
    /\ u.parent[n] = l[1] /\ u.data[n] = x /\ u.len = t.len + 1
    /\ \A m \in BstNodes : m # n => u.parent[m] = t.parent[m] /\ u.data[m] = t.data[m]

LEMMA InsertIs ==
    ASSUME NEW t \in Trees, NEW l \in Links, NEW x \in Elems, TreeNodes(t) # BstNodes
    PROVE  \E n : IsInserted(t, l, x, n, insert_node(t, l, x))
<1>1. PICK S : S = BstNodes \ TreeNodes(t) /\ S # {} /\ S \subseteq Nat
    <2>1. BstNodes \subseteq Nat /\ TreeNodes(t) \subseteq BstNodes
        BY LinksAre DEF TreeNodes
    <2> QED BY <2>1
<1>2. PICK n : n = Min(S) /\ n \in S
    BY <1>1, LeastNat DEF Min
<1>3. PICK u : u = insert_node(t, l, x)
    OBVIOUS
<1>4. u = [child  |-> [t.child EXCEPT ![l] = n], parent |-> [t.parent EXCEPT ![n] = l[1]],
           data   |-> [t.data EXCEPT ![n] = x], len    |-> t.len + 1]
    BY <1>1, <1>2, <1>3 DEF insert_node
<1>5. n \in BstNodes /\ n \notin TreeNodes(t) /\ n \in 0..BstMax /\ l[1] \in 0..BstMax
    BY <1>1, <1>2, LinksAre
<1>6. /\ t.child \in [Links -> 0..BstMax] /\ t.parent \in [BstNodes -> 0..BstMax]
      /\ t.data \in [BstNodes -> Elems \cup {NoData}] /\ t.len \in Int
    BY DEF Trees
<1>7. PICK c, p, d : /\ c = [t.child EXCEPT ![l] = n] /\ p = [t.parent EXCEPT ![n] = l[1]]
                     /\ d = [t.data EXCEPT ![n] = x]
    OBVIOUS
<1>8. /\ c \in [Links -> 0..BstMax] /\ p \in [BstNodes -> 0..BstMax]
      /\ d \in [BstNodes -> Elems \cup {NoData}] /\ t.len + 1 \in Int
    BY <1>5, <1>6, <1>7
<1>9. /\ c[l] = n /\ \A k \in Links : k # l => c[k] = t.child[k]
      /\ p[n] = l[1] /\ d[n] = x
      /\ \A m \in BstNodes : m # n => p[m] = t.parent[m] /\ d[m] = t.data[m]
    BY <1>5, <1>6, <1>7
<1>10. u.child = c /\ u.parent = p /\ u.data = d /\ u.len = t.len + 1 /\ u \in Trees
    BY <1>4, <1>7, <1>8 DEF Trees
<1> QED BY <1>3, <1>5, <1>9, <1>10 DEF IsInserted

(* Where x belongs.                                                        *)
Belongs(t, D, l, x) ==
    \A m \in TreeNodes(t) : /\ Under(t, D, l, m, "left") => x < t.data[m]
                            /\ Under(t, D, l, m, "right") => x > t.data[m]

(* The subtrees that have the new node.                                     *)
Grown(D, p, n) ==
    [m \in 0..BstMax |-> IF m = n THEN {n} ELSE IF p \in D[m] THEN D[m] \cup {n} ELSE D[m]]

Inserting(t, D, l, x, n, u, F) ==
    /\ Shape(t, D) /\ l \in Links /\ t.child[l] = 0 /\ (l = Root \/ l[1] \in TreeNodes(t))
    /\ x \in Elems /\ IsInserted(t, l, x, n, u) /\ F = Grown(D, l[1], n)

GrownFrom(t, D, l, n, u, F) ==
    /\ F \in [0..BstMax -> SUBSET BstNodes] /\ F[n] = {n} /\ F[0] = {}
    /\ \A m \in 0..BstMax : m # n => F[m] = IF l[1] \in D[m] THEN D[m] \cup {n} ELSE D[m]
    /\ TreeNodes(u) = TreeNodes(t) \cup {n}
    /\ Left(u, n) = 0 /\ Right(u, n) = 0
    /\ \A m \in BstNodes : m # n =>
           /\ Left(u, m) = IF l = <<m, "left">> THEN n ELSE Left(t, m)
           /\ Right(u, m) = IF l = <<m, "right">> THEN n ELSE Right(t, m)
    /\ \A m \in 0..BstMax : n \notin D[m]

LEMMA InsertGrows ==
    ASSUME NEW t, NEW D, NEW l, NEW x, NEW n, NEW u, NEW F, Inserting(t, D, l, x, n, u, F)
    PROVE  GrownFrom(t, D, l, n, u, F)
<1>0. /\ Shape(t, D) /\ l \in Links /\ t.child[l] = 0 /\ (l = Root \/ l[1] \in TreeNodes(t))
      /\ x \in Elems /\ IsInserted(t, l, x, n, u) /\ F = Grown(D, l[1], n)
    BY DEF Inserting
<1> USE <1>0 DEF IsInserted
<1>1. n \in 0..BstMax /\ n # 0 /\ l[1] \in 0..BstMax
    BY LinksAre
<1>2. D \in [0..BstMax -> SUBSET BstNodes] /\ D[0] = {}
    BY DEF Shape
<1>3. F \in [0..BstMax -> SUBSET BstNodes]
    BY <1>2 DEF Grown
<1>4. \A m \in 0..BstMax : F[m] = IF m = n THEN {n} ELSE IF l[1] \in D[m] THEN D[m] \cup {n} ELSE D[m]
    BY DEF Grown
<1>5. \A m \in 0..BstMax : n \notin D[m]
    BY TreeIs
<1>6. TreeNodes(u) = TreeNodes(t) \cup {n}
    <2>1. x # NoData
        BY ElemsAssumption
    <2> QED BY <2>1 DEF TreeNodes
<1>7. l[1] # n
    <2>1. l # Root => l[1] \in TreeNodes(t)
        OBVIOUS
    <2>2. l = Root => l[1] = 0
        BY DEF Root
    <2> QED BY <1>1, <2>1, <2>2
<1>8. Left(t, n) = 0 /\ Right(t, n) = 0 /\ D[n] = {}
    <2>1. Left(t, n) = 0 /\ Right(t, n) = 0
        BY TreeIs
    <2>2. t.data[n] = NoData /\ NodeOK(t, D, n)
        BY DEF TreeNodes, Shape
    <2> QED BY <2>1, <2>2 DEF NodeOK
<1>9. Left(u, n) = 0 /\ Right(u, n) = 0
    <2>1. l # <<n, "left">> /\ l # <<n, "right">>
        BY <1>7
    <2> QED BY <1>1, <1>8, <2>1, LinksAre DEF Left, Right
<1>10. \A m \in BstNodes : /\ Left(u, m) = IF l = <<m, "left">> THEN n ELSE Left(t, m)
                           /\ Right(u, m) = IF l = <<m, "right">> THEN n ELSE Right(t, m)
    BY LinksAre DEF Left, Right
<1>11. F[n] = {n} /\ F[0] = {} /\ t.child[l] # n
    <2>1. 0 \in 0..BstMax
        BY LinksAre
    <2> QED BY <1>1, <1>2, <1>4, <2>1
<1>12. \A m \in 0..BstMax : m # n => F[m] = IF l[1] \in D[m] THEN D[m] \cup {n} ELSE D[m]
    BY <1>4
<1>13. \A m \in BstNodes : m # n =>
                  /\ Left(u, m) = IF l = <<m, "left">> THEN n ELSE Left(t, m)
                  /\ Right(u, m) = IF l = <<m, "right">> THEN n ELSE Right(t, m)
    BY <1>10
<1> QED BY ONLY <1>3, <1>5, <1>6, <1>8, <1>9, <1>11, <1>12, <1>13 DEF GrownFrom

LEMMA InsertNodes ==
    ASSUME NEW t, NEW D, NEW l, NEW x, NEW n, NEW u, NEW F, Inserting(t, D, l, x, n, u, F),
           NEW m \in TreeNodes(t)
    PROVE  /\ F[m] = {m} \cup F[Left(u, m)] \cup F[Right(u, m)]
           /\ m \notin F[Left(u, m)] /\ m \notin F[Right(u, m)]
           /\ F[Left(u, m)] \cap F[Right(u, m)] = {}
           /\ F[Left(u, m)] = D[Left(t, m)] \cup (IF Under(t, D, l, m, "left") THEN {n} ELSE {})
           /\ F[Right(u, m)] = D[Right(t, m)] \cup (IF Under(t, D, l, m, "right") THEN {n} ELSE {})
<1>i. Inserting(t, D, l, x, n, u, F)
    OBVIOUS
<1>g. GrownFrom(t, D, l, n, u, F)
    BY ONLY <1>i, InsertGrows
<1>0. /\ Shape(t, D) /\ l \in Links /\ t.child[l] = 0 /\ (l = Root \/ l[1] \in TreeNodes(t))
      /\ x \in Elems /\ IsInserted(t, l, x, n, u) /\ F = Grown(D, l[1], n)
    BY DEF Inserting
<1> USE <1>0
<1>1. PICK p : p = l[1] /\ p \in 0..BstMax
    BY LinksAre
<1>2. /\ F[n] = {n} /\ n \notin D[m] /\ m # n /\ n \in BstNodes
      /\ Left(u, m) = IF l = <<m, "left">> THEN n ELSE Left(t, m)
      /\ Right(u, m) = IF l = <<m, "right">> THEN n ELSE Right(t, m)
      /\ \A k \in 0..BstMax : k # n => F[k] = IF p \in D[k] THEN D[k] \cup {n} ELSE D[k]
    <2>1. n \in BstNodes /\ n \notin TreeNodes(t) /\ m \in BstNodes /\ m \in 0..BstMax
        BY TreeIs, LinksAre DEF IsInserted
    <2> QED BY <1>1, <1>g, <2>1 DEF GrownFrom
<1>3. PICK a, b : /\ a = Left(t, m) /\ b = Right(t, m) /\ a \in 0..BstMax /\ b \in 0..BstMax
                  /\ D[m] = {m} \cup D[a] \cup D[b] /\ m \notin D[a] /\ m \notin D[b] /\ D[a] \cap D[b] = {}
    BY TreeIs DEF NodeOK
<1>4. a # n /\ b # n
    <2>1. a # 0 => a \in TreeNodes(t)
        BY <1>3, TreeIs, LinksAre, LinkHolder DEF Left
    <2>2. b # 0 => b \in TreeNodes(t)
        BY <1>3, TreeIs, LinksAre, LinkHolder DEF Right
    <2>3. n \notin TreeNodes(t) /\ n # 0
        BY LinksAre DEF IsInserted
    <2> QED BY <2>1, <2>2, <2>3
<1>5. /\ F[a] = IF p \in D[a] THEN D[a] \cup {n} ELSE D[a]
      /\ F[b] = IF p \in D[b] THEN D[b] \cup {n} ELSE D[b]
      /\ F[m] = IF p \in D[m] THEN D[m] \cup {n} ELSE D[m]
    BY <1>2, <1>3, <1>4, TreeIs, LinksAre
<1>6. /\ Under(t, D, l, m, "left") <=> l = <<m, "left">> \/ p \in D[a]
      /\ Under(t, D, l, m, "right") <=> l = <<m, "right">> \/ p \in D[b]
    BY <1>1, <1>3 DEF Under, Left, Right
<1>7. CASE l = <<m, "left">>
    <2>1. p = m /\ a = 0 /\ l # <<m, "right">>
        BY <1>1, <1>3, <1>7 DEF Left
    <2>2. D[a] = {}
        BY <2>1, TreeIs
    <2>3. Left(u, m) = n /\ Right(u, m) = b /\ F[b] = D[b] /\ F[m] = D[m] \cup {n}
        BY <1>2, <1>3, <1>5, <1>7, <2>1
    <2> QED BY <1>2, <1>3, <1>6, <1>7, <2>1, <2>2, <2>3
<1>8. CASE l = <<m, "right">>
    <2>1. p = m /\ b = 0 /\ l # <<m, "left">>
        BY <1>1, <1>3, <1>8 DEF Right
    <2>2. D[b] = {}
        BY <2>1, TreeIs
    <2>3. Right(u, m) = n /\ Left(u, m) = a /\ F[a] = D[a] /\ F[m] = D[m] \cup {n}
        BY <1>2, <1>3, <1>5, <1>8, <2>1
    <2> QED BY <1>2, <1>3, <1>6, <1>8, <2>1, <2>2, <2>3
<1>9. CASE l # <<m, "left">> /\ l # <<m, "right">>
    <2>1. Left(u, m) = a /\ Right(u, m) = b
        BY <1>2, <1>3, <1>9
    <2>2. p # m
        BY <1>1, <1>9, LinksAre
    <2> QED BY <1>2, <1>3, <1>5, <1>6, <1>9, <2>1, <2>2
<1> QED BY <1>7, <1>8, <1>9

LEMMA InsertShape ==
    ASSUME NEW t, NEW D, NEW l, NEW x, NEW n, NEW u, NEW F, Inserting(t, D, l, x, n, u, F)
    PROVE  Shape(u, F)
<1>1. /\ F \in [0..BstMax -> SUBSET BstNodes] /\ F[n] = {n} /\ F[0] = {}
      /\ \A m \in 0..BstMax : m # n => F[m] = IF l[1] \in D[m] THEN D[m] \cup {n} ELSE D[m]
      /\ TreeNodes(u) = TreeNodes(t) \cup {n}
      /\ Left(u, n) = 0 /\ Right(u, n) = 0
      /\ \A m \in BstNodes : m # n =>
             /\ Left(u, m) = IF l = <<m, "left">> THEN n ELSE Left(t, m)
             /\ Right(u, m) = IF l = <<m, "right">> THEN n ELSE Right(t, m)
      /\ \A m \in 0..BstMax : n \notin D[m]
    BY InsertGrows DEF GrownFrom
<1>0. /\ Shape(t, D) /\ l \in Links /\ t.child[l] = 0 /\ (l = Root \/ l[1] \in TreeNodes(t))
      /\ x \in Elems /\ IsInserted(t, l, x, n, u) /\ F = Grown(D, l[1], n)
    BY DEF Inserting
<1> USE <1>0
<1>2. /\ u \in Trees /\ n \in BstNodes /\ n \notin TreeNodes(t)
      /\ u.child[l] = n /\ \A k \in Links : k # l => u.child[k] = t.child[k]
      /\ u.parent[n] = l[1] /\ u.data[n] = x /\ u.len = t.len + 1
      /\ \A m \in BstNodes : m # n => u.parent[m] = t.parent[m] /\ u.data[m] = t.data[m]
    BY DEF IsInserted
<1>3. n # 0 /\ x # NoData
    BY <1>2, LinksAre, ElemsAssumption
<1>4. ASSUME NEW m \in BstNodes PROVE NodeOK(u, F, m)
    <2>1. CASE m = n
        BY <1>1, <1>2, <1>3, <2>1 DEF NodeOK
    <2>2. CASE m \in TreeNodes(t)
        <3>1. m # n /\ u.data[m] # NoData
            BY <1>2, <2>2 DEF TreeNodes
        <3> QED BY <2>2, <3>1, InsertNodes DEF NodeOK
    <2>3. CASE m # n /\ m \notin TreeNodes(t)
        <3>1. t.data[m] = NoData /\ NodeOK(t, D, m)
            BY <2>3 DEF TreeNodes, Shape
        <3>2. D[m] = {} /\ t.parent[m] = 0 /\ Left(t, m) = 0 /\ Right(t, m) = 0
            BY <3>1 DEF NodeOK
        <3>3. l[1] # m
            BY <2>3, LinksAre DEF Root
        <3>4. F[m] = {} /\ u.parent[m] = 0
            BY <1>1, <1>2, <2>3, <3>2, LinksAre
        <3>5. Left(u, m) = 0 /\ Right(u, m) = 0
            <4>1. l # <<m, "left">> /\ l # <<m, "right">>
                BY <3>3
            <4> QED BY <1>1, <2>3, <3>2, <4>1
        <3> QED BY <1>2, <2>3, <3>1, <3>4, <3>5 DEF NodeOK
    <2> QED BY <2>1, <2>2, <2>3
<1>5. \A m \in BstNodes : \A k \in F[m] : F[k] \subseteq F[m]
    <2> SUFFICES ASSUME NEW m \in BstNodes, NEW k \in F[m] PROVE F[k] \subseteq F[m]
        OBVIOUS
    <2>1. CASE k = n
        BY <1>1, <2>1
    <2>2. CASE k # n
        <3>0. m # n /\ m \in 0..BstMax
            BY <1>1, <2>2, LinksAre
        <3>1. m # n /\ k \in D[m]
            BY <1>1, <2>2, <3>0
        <3>2. D[k] \subseteq D[m] /\ k \in BstNodes
            BY <3>1, LinksAre DEF Shape
        <3>3. l[1] \in D[k] => l[1] \in D[m]
            BY <3>2
        <3>4. k \in 0..BstMax /\ F[k] = IF l[1] \in D[k] THEN D[k] \cup {n} ELSE D[k]
            BY <1>1, <2>2, <3>2, LinksAre
        <3>5. F[m] = IF l[1] \in D[m] THEN D[m] \cup {n} ELSE D[m]
            BY <1>1, <3>0
        <3>6. CASE l[1] \in D[k]
            BY <3>2, <3>3, <3>4, <3>5, <3>6
        <3>7. CASE l[1] \notin D[k]
            BY <3>2, <3>4, <3>5, <3>7
        <3> QED BY <3>6, <3>7
    <2> QED BY <2>1, <2>2
<1>6. F[u.child[Root]] = TreeNodes(u) /\ u.child[<<0, "left">>] = 0
    <2>1. l # <<0, "left">> /\ <<0, "left">> \in Links
        <3>1. 0 \notin TreeNodes(t)
            BY TreeIs, LinksAre
        <3>2. l[1] # 0 \/ l = <<0, "right">>
            BY <3>1 DEF Root
        <3> QED BY <3>2, LinksAre
    <2>2. u.child[<<0, "left">>] = 0
        BY <1>2, <2>1 DEF Shape
    <2>3. D[t.child[Root]] = TreeNodes(t) /\ t.child[Root] \in 0..BstMax /\ Root \in Links
        BY TreeIs, LinksAre DEF Shape
    <2>4. CASE l = Root
        <3>1. TreeNodes(t) = {}
            BY <2>3, <2>4, TreeIs
        <3> QED BY <1>1, <1>2, <2>2, <2>4, <3>1
    <2>5. CASE l # Root
        <3>1. l[1] \in D[t.child[Root]] /\ t.child[Root] # n
            BY <1>2, <2>3, <2>5, LinkHolder, TreeIs
        <3> QED BY <1>1, <1>2, <2>2, <2>3, <2>5, <3>1
    <2> QED BY <2>4, <2>5
<1>7. ASSUME NEW k \in Links PROVE LinkOK(u, k)
    <2>1. CASE k = l
        BY <1>2, <1>3, <2>1 DEF LinkOK
    <2>2. CASE k # l /\ t.child[k] # 0
        <3>1. t.child[k] \in TreeNodes(t) /\ t.parent[t.child[k]] = k[1]
            BY <2>2, LinkHolder
        <3>2. t.child[k] # n /\ t.child[k] \in BstNodes /\ t.data[t.child[k]] # NoData
            BY <1>2, <3>1 DEF TreeNodes
        <3> QED BY <1>2, <2>2, <3>1, <3>2 DEF LinkOK
    <2>3. CASE k # l /\ t.child[k] = 0
        BY <1>2, <2>3 DEF LinkOK
    <2> QED BY <2>1, <2>2, <2>3
<1>8. ASSUME NEW m \in TreeNodes(u) PROVE \E k \in Links : u.child[k] = m
    <2>1. CASE m = n
        BY <1>2, <2>1
    <2>2. CASE m # n
        <3>1. m \in TreeNodes(t)
            BY <1>1, <2>2
        <3>2. PICK k \in Links : t.child[k] = m
            BY <3>1 DEF Shape
        <3>3. k # l
            BY <3>1, <3>2, TreeIs, LinksAre
        <3> QED BY <1>2, <3>2, <3>3
    <2> QED BY <2>1, <2>2
<1>9. Cardinality(TreeNodes(u)) = u.len
    <2>1. PICK S : S = TreeNodes(t) /\ S \in SUBSET BstNodes /\ n \notin S /\ Cardinality(S) = t.len
        BY <1>2 DEF TreeNodes, Shape
    <2>2. IsFiniteSet(BstNodes)
        BY LinksAre, FS_Interval
    <2>3. IsFiniteSet(S)
        BY <2>1, <2>2, FS_Subset
    <2>4. Cardinality(S \cup {n}) = Cardinality(S) + 1
        <3> HIDE <1>0
        <3>1. IF n \in S THEN Cardinality(S \cup {n}) = Cardinality(S)
                         ELSE Cardinality(S \cup {n}) = Cardinality(S) + 1
            BY <2>3, FS_AddElement
        <3> QED BY <2>1, <3>1
    <2> QED BY <1>1, <1>2, <2>1, <2>4
<1> QED BY <1>1, <1>2, <1>4, <1>5, <1>6, <1>7, <1>8, <1>9 DEF Shape

(* Insertion as a whole.                                                   *)
LEMMA InsertTree ==
    ASSUME NEW t, NEW D, Shape(t, D), NEW l \in Links, t.child[l] = 0, l = Root \/ l[1] \in TreeNodes(t),
           NEW x \in Elems, TreeNodes(t) # BstNodes, NEW u, u = insert_node(t, l, x)
    PROVE  \E F : /\ Shape(u, F) /\ TreeData(u) = TreeData(t) \cup {x}
                  /\ Ordered(t, D) /\ Belongs(t, D, l, x) => Ordered(u, F)
                  /\ (\A a, b \in TreeNodes(t) : t.data[a] = t.data[b] => a = b) /\ x \notin TreeData(t)
                        => \A a, b \in TreeNodes(u) : u.data[a] = u.data[b] => a = b
<1>1. PICK n : IsInserted(t, l, x, n, u)
    <2>1. t \in Trees
        BY DEF Shape
    <2> QED BY <2>1, InsertIs
<1>2. PICK F : F = Grown(D, l[1], n)
    OBVIOUS
<1>0. Inserting(t, D, l, x, n, u, F)
    BY <1>1, <1>2 DEF Inserting
<1>3. Shape(u, F)
    BY <1>0, InsertShape
<1>4. TreeNodes(u) = TreeNodes(t) \cup {n} /\ Left(u, n) = 0 /\ Right(u, n) = 0 /\ F[0] = {}
    BY <1>0, InsertGrows DEF GrownFrom
<1>5. /\ u.data[n] = x /\ n \in BstNodes /\ n \notin TreeNodes(t)
      /\ \A m \in TreeNodes(t) : m # n /\ u.data[m] = t.data[m]
    BY <1>1 DEF IsInserted, TreeNodes
<1>6. TreeData(u) = TreeData(t) \cup {x}
    BY <1>4, <1>5 DEF TreeData
<1>7. ASSUME Ordered(t, D), Belongs(t, D, l, x) PROVE Ordered(u, F)
    <2>1. ASSUME NEW m \in TreeNodes(t)
          PROVE  /\ \A k \in F[Left(u, m)] : u.data[k] < u.data[m]
                 /\ \A k \in F[Right(u, m)] : u.data[k] > u.data[m]
        <3>1. /\ F[Left(u, m)] = D[Left(t, m)] \cup (IF Under(t, D, l, m, "left") THEN {n} ELSE {})
              /\ F[Right(u, m)] = D[Right(t, m)] \cup (IF Under(t, D, l, m, "right") THEN {n} ELSE {})
            BY <1>0, InsertNodes
        <3>2. D[Left(t, m)] \subseteq TreeNodes(t) /\ D[Right(t, m)] \subseteq TreeNodes(t)
            BY TreeIs
        <3>3. /\ \A k \in D[Left(t, m)] : u.data[k] < u.data[m]
              /\ \A k \in D[Right(t, m)] : u.data[k] > u.data[m]
            BY <1>5, <1>7, <3>2 DEF Ordered
        <3>4. /\ Under(t, D, l, m, "left") => u.data[n] < u.data[m]
              /\ Under(t, D, l, m, "right") => u.data[n] > u.data[m]
            BY <1>5, <1>7 DEF Belongs
        <3> QED BY <3>1, <3>3, <3>4
    <2> QED BY <1>4, <2>1 DEF Ordered
<1>8. ASSUME \A a, b \in TreeNodes(t) : t.data[a] = t.data[b] => a = b, x \notin TreeData(t)
      PROVE  \A a, b \in TreeNodes(u) : u.data[a] = u.data[b] => a = b
    <2>1. \A a \in TreeNodes(t) : u.data[a] # u.data[n]
        BY <1>5, <1>8 DEF TreeData
    <2> QED BY <1>4, <1>5, <1>8, <2>1
<1> QED BY <1>3, <1>6, <1>7, <1>8

(***************************************************************************)
(* Unlink.                                                                 *)
(***************************************************************************)
IsUnlinked(t, l, n, c, u) ==
    /\ u \in Trees /\ n = t.child[l] /\ n \in TreeNodes(t)
    /\ c \in 0..BstMax /\ c # n /\ l # <<n, "left">> /\ l # <<n, "right">>
    /\ \/ c = Left(t, n) /\ Right(t, n) = 0
       \/ c = Right(t, n) /\ Left(t, n) = 0
    /\ u.child[l] = c /\ u.child[<<n, "left">>] = 0 /\ u.child[<<n, "right">>] = 0
    /\ \A k \in Links : k # l /\ k # <<n, "left">> /\ k # <<n, "right">> => u.child[k] = t.child[k]
    /\ u.parent[n] = 0 /\ (c # 0 => u.parent[c] = l[1])
    /\ \A m \in BstNodes : m # n /\ m # c => u.parent[m] = t.parent[m]
    /\ u.data[n] = NoData /\ u.len = t.len - 1
    /\ \A m \in BstNodes : m # n => u.data[m] = t.data[m]

LEMMA UnlinkIs ==
    ASSUME NEW t, NEW D, Shape(t, D), NEW l \in Links, t.child[l] # 0, ~TwoChildren(t, l)
    PROVE  \E n, c : IsUnlinked(t, l, n, c, Unlink(t, l))
<1>1. PICK n : n = t.child[l] /\ n \in TreeNodes(t) /\ n \in BstNodes /\ n \in 0..BstMax /\ n # 0
               /\ t.parent[n] = l[1] /\ (l = Root \/ l[1] \in TreeNodes(t))
               /\ (l[1] \in TreeNodes(t) => l[1] \notin D[n])
    BY LinkHolder, TreeIs, LinksAre
<1>2. PICK c : c = IF Left(t, n) # 0 THEN Left(t, n) ELSE Right(t, n)
    OBVIOUS
<1>3. \/ c = Left(t, n) /\ Right(t, n) = 0
      \/ c = Right(t, n) /\ Left(t, n) = 0
    BY <1>1, <1>2 DEF TwoChildren
<1>4. c \in 0..BstMax /\ c # n
    <2>1. c \in 0..BstMax
        BY <1>1, <1>2, TreeIs
    <2>2. n \in D[n] /\ n \notin D[Left(t, n)] /\ n \notin D[Right(t, n)]
        BY <1>1, TreeIs DEF NodeOK
    <2> QED BY <1>3, <2>1, <2>2
<1>5. l[1] # n
    <2>1. l = Root => l[1] = 0
        BY DEF Root
    <2>2. n \in D[n]
        BY <1>1, TreeIs
    <2> QED BY <1>1, <2>1, <2>2
<1>6. l # <<n, "left">> /\ l # <<n, "right">> /\ <<n, "left">> \in Links /\ <<n, "right">> \in Links
      /\ l[1] \in 0..BstMax /\ <<n, "left">> # <<n, "right">>
    BY <1>1, <1>5, LinksAre
<1>7. /\ t.child \in [Links -> 0..BstMax] /\ t.parent \in [BstNodes -> 0..BstMax]
      /\ t.data \in [BstNodes -> Elems \cup {NoData}] /\ t.len \in Int
    BY DEF Shape, Trees
<1>8. PICK ch, pa, da :
          /\ ch = [t.child EXCEPT ![l] = c, ![<<n, "left">>] = 0, ![<<n, "right">>] = 0]
          /\ pa = [m \in BstNodes |-> IF m = c THEN t.parent[n] ELSE IF m = n THEN 0 ELSE t.parent[m]]
          /\ da = [t.data EXCEPT ![n] = NoData]
    OBVIOUS
<1>9. 0 \in 0..BstMax
    BY LinksAre
<1>10. /\ ch \in [Links -> 0..BstMax] /\ ch[l] = c /\ ch[<<n, "left">>] = 0 /\ ch[<<n, "right">>] = 0
       /\ \A k \in Links : k # l /\ k # <<n, "left">> /\ k # <<n, "right">> => ch[k] = t.child[k]
    BY <1>4, <1>6, <1>7, <1>8, <1>9
<1>11. /\ pa \in [BstNodes -> 0..BstMax] /\ pa[n] = 0
       /\ \A m \in BstNodes : m # n /\ m # c => pa[m] = t.parent[m]
    BY <1>1, <1>4, <1>6, <1>7, <1>8, <1>9
<1>12. c # 0 => pa[c] = l[1]
    BY <1>1, <1>4, <1>8, LinksAre
<1>13. da \in [BstNodes -> Elems \cup {NoData}] /\ da[n] = NoData
       /\ \A m \in BstNodes : m # n => da[m] = t.data[m]
    BY <1>1, <1>7, <1>8
<1>14. PICK u : u = Unlink(t, l)
    OBVIOUS
<1>15. u = [child |-> ch, parent |-> pa, data |-> da, len |-> t.len - 1]
    BY <1>1, <1>2, <1>8, <1>14 DEF Unlink
<1>16. u.child = ch /\ u.parent = pa /\ u.data = da /\ u.len = t.len - 1 /\ u \in Trees
    BY <1>7, <1>10, <1>11, <1>13, <1>15 DEF Trees
<1>17. /\ u.child[l] = c /\ u.child[<<n, "left">>] = 0 /\ u.child[<<n, "right">>] = 0
       /\ \A k \in Links : k # l /\ k # <<n, "left">> /\ k # <<n, "right">> => u.child[k] = t.child[k]
    BY <1>10, <1>16
<1>18. /\ u.parent[n] = 0 /\ (c # 0 => u.parent[c] = l[1])
       /\ \A m \in BstNodes : m # n /\ m # c => u.parent[m] = t.parent[m]
    BY <1>11, <1>12, <1>16
<1>19. u.data[n] = NoData /\ \A m \in BstNodes : m # n => u.data[m] = t.data[m]
    BY <1>13, <1>16
<1>20. IsUnlinked(t, l, n, c, u)
    BY ONLY <1>1, <1>3, <1>4, <1>6, <1>16, <1>17, <1>18, <1>19 DEF IsUnlinked
<1> QED BY <1>14, <1>20

(* The subtrees without the node.                                           *)
Without(D, n) == [m \in 0..BstMax |-> IF m = n THEN {} ELSE D[m] \ {n}]

Unlinking(t, D, l, n, c, u, F) ==
    /\ Shape(t, D) /\ l \in Links /\ IsUnlinked(t, l, n, c, u) /\ F = Without(D, n)

Pruned(t, D, n, u, F) ==
    /\ F \in [0..BstMax -> SUBSET BstNodes] /\ F[n] = {} /\ F[0] = {}
    /\ \A m \in 0..BstMax : m # n => F[m] = D[m] \ {n}
    /\ TreeNodes(u) = TreeNodes(t) \ {n}
    /\ Left(u, n) = 0 /\ Right(u, n) = 0
    /\ \A m \in BstNodes : m # n => F[Left(u, m)] = D[Left(t, m)] \ {n}
                                    /\ F[Right(u, m)] = D[Right(t, m)] \ {n}

LEMMA UnlinkPrunes ==
    ASSUME NEW t, NEW D, NEW l, NEW n, NEW c, NEW u, NEW F, Unlinking(t, D, l, n, c, u, F)
    PROVE  Pruned(t, D, n, u, F)
<1>0. Shape(t, D) /\ l \in Links /\ IsUnlinked(t, l, n, c, u) /\ F = Without(D, n)
    BY DEF Unlinking
<1>1. n \in BstNodes /\ n \in 0..BstMax /\ n # 0 /\ n \in TreeNodes(t) /\ n \in D[n]
    BY <1>0, TreeIs, LinksAre DEF IsUnlinked
<1>2. D \in [0..BstMax -> SUBSET BstNodes] /\ D[0] = {}
    BY <1>0 DEF Shape
<1>3. F \in [0..BstMax -> SUBSET BstNodes]
    BY <1>0, <1>2 DEF Without
<1>4. F[n] = {} /\ F[0] = {} /\ \A m \in 0..BstMax : m # n => F[m] = D[m] \ {n}
    BY <1>0, <1>1, <1>2, LinksAre DEF Without
<1>5. TreeNodes(u) = TreeNodes(t) \ {n}
    BY <1>0 DEF IsUnlinked, TreeNodes
<1>6. Left(u, n) = 0 /\ Right(u, n) = 0
    BY <1>0 DEF IsUnlinked, Left, Right
<1>7. c # n /\ c \in 0..BstMax /\ F[c] = D[n] \ {n}
    <2>1. c # n /\ c \in 0..BstMax
          /\ ((c = Left(t, n) /\ Right(t, n) = 0) \/ (c = Right(t, n) /\ Left(t, n) = 0))
        BY <1>0 DEF IsUnlinked
    <2>2. D[n] = {n} \cup D[Left(t, n)] \cup D[Right(t, n)] /\ n \notin D[Left(t, n)] /\ n \notin D[Right(t, n)]
        BY <1>0, <1>1, TreeIs DEF NodeOK
    <2> QED BY <1>2, <1>4, <2>1, <2>2
<1>8. ASSUME NEW m \in BstNodes, m # n, NEW s \in {"left", "right"}
      PROVE  F[u.child[<<m, s>>]] = D[t.child[<<m, s>>]] \ {n}
    <2>1. <<m, s>> \in Links /\ <<m, s>> # <<n, "left">> /\ <<m, s>> # <<n, "right">>
        BY <1>8, LinksAre
    <2>2. CASE <<m, s>> = l
        BY <1>0, <1>7, <2>2 DEF IsUnlinked
    <2>3. CASE <<m, s>> # l
        <3>1. u.child[<<m, s>>] = t.child[<<m, s>>] /\ n = t.child[l]
            BY <1>0, <2>1, <2>3 DEF IsUnlinked
        <3>2. t.child[<<m, s>>] # n
            BY <1>0, <1>1, <2>1, <2>3, <3>1, OneLink
        <3>3. t.child[<<m, s>>] \in 0..BstMax
            BY <1>0, <2>1, TreeIs
        <3> QED BY <1>4, <3>1, <3>2, <3>3
    <2> QED BY <2>2, <2>3
<1> QED BY <1>3, <1>4, <1>5, <1>6, <1>8 DEF Pruned, Left, Right

LEMMA UnlinkShape ==
    ASSUME NEW t, NEW D, NEW l, NEW n, NEW c, NEW u, NEW F, Unlinking(t, D, l, n, c, u, F)
    PROVE  Shape(u, F)
<1>0. /\ F \in [0..BstMax -> SUBSET BstNodes] /\ F[n] = {} /\ F[0] = {}
      /\ \A m \in 0..BstMax : m # n => F[m] = D[m] \ {n}
      /\ TreeNodes(u) = TreeNodes(t) \ {n}
      /\ Left(u, n) = 0 /\ Right(u, n) = 0
      /\ \A m \in BstNodes : m # n => F[Left(u, m)] = D[Left(t, m)] \ {n}
                                      /\ F[Right(u, m)] = D[Right(t, m)] \ {n}
    BY UnlinkPrunes DEF Pruned
<1>1. Shape(t, D) /\ l \in Links
    BY DEF Unlinking
<1>2. /\ u \in Trees /\ n = t.child[l] /\ n \in TreeNodes(t)
      /\ c \in 0..BstMax /\ c # n /\ l # <<n, "left">> /\ l # <<n, "right">>
      /\ ((c = Left(t, n) /\ Right(t, n) = 0) \/ (c = Right(t, n) /\ Left(t, n) = 0))
      /\ u.child[l] = c /\ u.child[<<n, "left">>] = 0 /\ u.child[<<n, "right">>] = 0
      /\ \A k \in Links : k # l /\ k # <<n, "left">> /\ k # <<n, "right">> => u.child[k] = t.child[k]
      /\ u.parent[n] = 0 /\ (c # 0 => u.parent[c] = l[1])
      /\ \A m \in BstNodes : m # n /\ m # c => u.parent[m] = t.parent[m]
      /\ u.data[n] = NoData /\ u.len = t.len - 1
      /\ \A m \in BstNodes : m # n => u.data[m] = t.data[m]
    BY DEF Unlinking, IsUnlinked
<1>3. /\ n \in BstNodes /\ n \in 0..BstMax /\ n # 0
      /\ \A k \in Links : t.child[k] = n => k = l
      /\ \A m \in TreeNodes(t) : m \in BstNodes /\ m \in 0..BstMax /\ m # 0 /\ t.data[m] # NoData
      /\ \A m \in 0..BstMax : m # 0 => m \in BstNodes
      /\ \A m \in BstNodes : m \in 0..BstMax
    <2>1. n # 0 /\ \A k \in Links : t.child[k] = n => k = l
        <3>1. n # 0
            BY <1>2, LinksAre DEF TreeNodes
        <3> QED BY <1>1, <1>2, <3>1, OneLink
    <2> QED BY <1>2, <2>1, LinksAre DEF TreeNodes
<1>4. ASSUME c # 0 PROVE c \in TreeNodes(t) /\ \A k \in Links : t.child[k] = c => k[1] = n /\ k # l
    <2>1. PICK s \in {"left", "right"} : c = t.child[<<n, s>>]
        BY <1>2 DEF Left, Right
    <2>2. <<n, s>> \in Links
        BY <1>3, LinksAre
    <2>3. c \in TreeNodes(t)
        BY <1>1, <1>4, <2>1, <2>2, LinkHolder
    <2>4. \A k \in Links : t.child[k] = c => k = <<n, s>>
        BY <1>1, <1>4, <2>1, <2>2, OneLink
    <2>5. l # <<n, s>>
        BY <1>2
    <2> QED BY <2>3, <2>4, <2>5
<1>5. ASSUME NEW m \in BstNodes PROVE NodeOK(u, F, m)
    <2>1. CASE m = n
        BY <1>0, <1>2, <2>1 DEF NodeOK
    <2>2. CASE m # n /\ m \in TreeNodes(t)
        <3>1. /\ D[m] = {m} \cup D[Left(t, m)] \cup D[Right(t, m)]
              /\ m \notin D[Left(t, m)] /\ m \notin D[Right(t, m)]
              /\ D[Left(t, m)] \cap D[Right(t, m)] = {}
            BY <1>1, <2>2, TreeIs DEF NodeOK, TreeNodes
        <3>2. F[m] = D[m] \ {n} /\ F[Left(u, m)] = D[Left(t, m)] \ {n} /\ F[Right(u, m)] = D[Right(t, m)] \ {n}
            BY <1>0, <1>3, <2>2
        <3>3. u.data[m] # NoData
            BY <1>2, <1>3, <2>2
        <3> QED BY <2>2, <3>1, <3>2, <3>3 DEF NodeOK
    <2>3. CASE m \notin TreeNodes(t)
        <3>1. t.data[m] = NoData /\ NodeOK(t, D, m)
            BY <1>1, <2>3 DEF TreeNodes, Shape
        <3>2. D[m] = {} /\ t.parent[m] = 0 /\ Left(t, m) = 0 /\ Right(t, m) = 0
            BY <3>1 DEF NodeOK
        <3>3. m # n /\ m # c
            BY <1>2, <1>4, <2>3, LinksAre
        <3>4. F[m] = {} /\ u.parent[m] = 0 /\ u.data[m] = NoData
            BY <1>0, <1>2, <1>3, <3>1, <3>2, <3>3
        <3>5. Left(u, m) = 0 /\ Right(u, m) = 0
            <4>1. <<m, "left">> \in Links /\ <<m, "right">> \in Links
                BY <1>3, LinksAre
            <4>2. t.child[<<m, "left">>] # n /\ t.child[<<m, "right">>] # n
                BY <1>3, <3>2 DEF Left, Right
            <4>3. <<m, "left">> # l /\ <<m, "right">> # l
                BY <1>2, <4>2
            <4> QED BY <1>2, <3>2, <3>3, <4>1, <4>3 DEF Left, Right
        <3> QED BY <3>4, <3>5 DEF NodeOK
    <2> QED BY <2>1, <2>2, <2>3
<1>6. \A m \in BstNodes : \A k \in F[m] : F[k] \subseteq F[m]
    <2> SUFFICES ASSUME NEW m \in BstNodes, NEW k \in F[m] PROVE F[k] \subseteq F[m]
        OBVIOUS
    <2>1. m # n /\ F[m] = D[m] \ {n} /\ k \in D[m] /\ k # n
        BY <1>0, <1>3
    <2>2. D[k] \subseteq D[m] /\ k \in BstNodes
        BY <1>1, <1>3, <2>1 DEF Shape
    <2>3. F[k] = D[k] \ {n}
        BY <1>0, <1>3, <2>1, <2>2
    <2> QED BY <2>1, <2>2, <2>3
<1>7. F[u.child[Root]] = TreeNodes(u)
    <2>1. D[t.child[Root]] = TreeNodes(t) /\ t.child[Root] \in 0..BstMax /\ Root \in Links
          /\ Root # <<n, "left">> /\ Root # <<n, "right">>
        BY <1>1, <1>3, TreeIs, LinksAre DEF Shape
    <2>2. CASE l = Root
        <3>1. D[n] = {n} \cup D[Left(t, n)] \cup D[Right(t, n)] /\ n \notin D[Left(t, n)] /\ n \notin D[Right(t, n)]
            BY <1>1, <1>2, TreeIs DEF NodeOK
        <3>2. D[0] = {}
            BY <1>1 DEF Shape
        <3>3. F[c] = TreeNodes(t) \ {n}
            BY <1>0, <1>2, <2>1, <2>2, <3>1, <3>2
        <3> QED BY <1>0, <1>2, <2>2, <3>3
    <2>3. CASE l # Root
        <3>1. u.child[Root] = t.child[Root] /\ t.child[Root] # n
            BY <1>2, <1>3, <2>1, <2>3
        <3> QED BY <1>0, <2>1, <3>1
    <2> QED BY <2>2, <2>3
<1>8. u.child[<<0, "left">>] = 0
    <2>1. <<0, "left">> \in Links /\ t.child[<<0, "left">>] = 0
        BY <1>1, LinksAre DEF Shape
    <2>2. l # <<0, "left">>
        BY <1>2, <1>3, <2>1
    <2> QED BY <1>2, <1>3, <2>1, <2>2
<1>9. ASSUME NEW k \in Links PROVE LinkOK(u, k)
    <2>1. CASE k = l
        BY <1>2, <1>3, <1>4, <2>1 DEF LinkOK
    <2>2. CASE k = <<n, "left">> \/ k = <<n, "right">>
        BY <1>2, <2>2 DEF LinkOK
    <2>3. CASE k # l /\ k # <<n, "left">> /\ k # <<n, "right">> /\ t.child[k] # 0
        <3>1. t.child[k] \in TreeNodes(t) /\ t.parent[t.child[k]] = k[1]
            BY <1>1, <2>3, LinkHolder
        <3>2. t.child[k] # n /\ t.child[k] # c
            <4>1. k[1] # n
                BY <2>3, LinksAre
            <4> QED BY <1>3, <1>4, <2>3, <4>1
        <3>3. u.child[k] = t.child[k]
            BY <1>2, <2>3
        <3>4. /\ u.parent[t.child[k]] = t.parent[t.child[k]] /\ u.data[t.child[k]] = t.data[t.child[k]]
              /\ t.data[t.child[k]] # NoData
            BY <1>2, <1>3, <3>1, <3>2
        <3> QED BY <3>1, <3>3, <3>4 DEF LinkOK
    <2>4. CASE k # l /\ k # <<n, "left">> /\ k # <<n, "right">> /\ t.child[k] = 0
        BY <1>2, <2>4 DEF LinkOK
    <2> QED BY <2>1, <2>2, <2>3, <2>4
<1>10. ASSUME NEW m \in TreeNodes(u) PROVE \E k \in Links : u.child[k] = m
    <2>1. m \in TreeNodes(t) /\ m # n
        BY <1>0
    <2>2. CASE m = c
        BY <1>1, <1>2, <2>2
    <2>3. CASE m # c
        <3>1. PICK k \in Links : t.child[k] = m
            BY <1>1, <2>1 DEF Shape
        <3>2. k # l
            BY <1>2, <2>1, <3>1
        <3>3. m # 0
            BY <1>3, <2>1
        <3>4. k # <<n, "left">> /\ k # <<n, "right">>
            BY <1>2, <2>3, <3>1, <3>3 DEF Left, Right
        <3> QED BY <1>2, <3>1, <3>2, <3>4
    <2> QED BY <2>2, <2>3
<1>11. Cardinality(TreeNodes(u)) = u.len
    <2>1. PICK S : S = TreeNodes(t) /\ S \in SUBSET BstNodes /\ n \in S /\ Cardinality(S) = t.len
        BY <1>1, <1>2 DEF TreeNodes, Shape
    <2>2. IsFiniteSet(BstNodes)
        BY LinksAre, FS_Interval
    <2>3. IsFiniteSet(S)
        BY <2>1, <2>2, FS_Subset
    <2>4. Cardinality(S \ {n}) = Cardinality(S) - 1
        <3>1. IF n \in S THEN Cardinality(S \ {n}) = Cardinality(S) - 1
                         ELSE Cardinality(S \ {n}) = Cardinality(S)
            BY <2>3, FS_RemoveElement
        <3> QED BY <2>1, <3>1
    <2> QED BY <1>0, <1>2, <2>1, <2>4
<1> QED BY <1>0, <1>2, <1>5, <1>6, <1>7, <1>8, <1>9, <1>10, <1>11 DEF Shape

(***************************************************************************)
(* remove_node.                                                            *)
(***************************************************************************)
OrderedBut(t, D, n) ==
    \A m \in TreeNodes(t) \ {n} : /\ \A k \in D[Left(t, m)] \ {n} : t.data[k] < t.data[m]
                                  /\ \A k \in D[Right(t, m)] \ {n} : t.data[k] > t.data[m]
Distinct(t) == \A a, b \in TreeNodes(t) : t.data[a] = t.data[b] => a = b

LEMMA UnlinkTree ==
    ASSUME NEW t, NEW D, Shape(t, D), NEW l \in Links, t.child[l] # 0, ~TwoChildren(t, l),
           NEW u, u = Unlink(t, l), NEW n, n = t.child[l]
    PROVE  \E F : /\ Shape(u, F) /\ TreeNodes(u) = TreeNodes(t) \ {n}
                  /\ \A m \in TreeNodes(u) : u.data[m] = t.data[m]
                  /\ OrderedBut(t, D, n) => Ordered(u, F)
<1>1. PICK i, c : IsUnlinked(t, l, i, c, u)
    BY UnlinkIs
<1>2. PICK F : F = Without(D, i)
    OBVIOUS
<1>3. Unlinking(t, D, l, i, c, u, F)
    BY <1>1, <1>2 DEF Unlinking
<1>4. Shape(u, F)
    BY <1>3, UnlinkShape
<1>5. i = n /\ \A m \in BstNodes : m # n => u.data[m] = t.data[m]
    BY <1>1 DEF IsUnlinked
<1>6. Pruned(t, D, i, u, F)
    BY <1>3, UnlinkPrunes
<1>7. TreeNodes(u) = TreeNodes(t) \ {n}
      /\ \A m \in BstNodes : m # n => F[Left(u, m)] = D[Left(t, m)] \ {n}
                                      /\ F[Right(u, m)] = D[Right(t, m)] \ {n}
    BY <1>5, <1>6 DEF Pruned
<1>8. \A m \in TreeNodes(u) : m \in BstNodes /\ m \in TreeNodes(t) /\ m # n /\ u.data[m] = t.data[m]
    BY <1>5, <1>7 DEF TreeNodes
<1>9. ASSUME OrderedBut(t, D, n), NEW m \in TreeNodes(u)
      PROVE  /\ \A k \in F[Left(u, m)] : u.data[k] < u.data[m]
             /\ \A k \in F[Right(u, m)] : u.data[k] > u.data[m]
    <2>1. /\ \A k \in D[Left(t, m)] \ {n} : t.data[k] < t.data[m]
          /\ \A k \in D[Right(t, m)] \ {n} : t.data[k] > t.data[m]
        BY <1>8, <1>9 DEF OrderedBut
    <2>2. F[Left(u, m)] = D[Left(t, m)] \ {n} /\ F[Right(u, m)] = D[Right(t, m)] \ {n}
        BY <1>7, <1>8
    <2>3. F[Left(u, m)] \subseteq TreeNodes(u) /\ F[Right(u, m)] \subseteq TreeNodes(u)
        BY <1>4, <1>8, TreeIs
    <2> QED BY <1>8, <2>1, <2>2, <2>3
<1> QED BY <1>4, <1>7, <1>8, <1>9 DEF Ordered

(* The tree with other data in one node.                                    *)
IsRelabelled(t, n, y, u) ==
    /\ u \in Trees /\ u.child = t.child /\ u.parent = t.parent /\ u.len = t.len
    /\ u.data[n] = y /\ \A m \in BstNodes : m # n => u.data[m] = t.data[m]

LEMMA Relabelled ==
    ASSUME NEW t, NEW D, Shape(t, D), NEW n \in TreeNodes(t), NEW y \in Elems, NEW u,
           u = [t EXCEPT !.data[n] = y]
    PROVE  /\ IsRelabelled(t, n, y, u) /\ Shape(u, D) /\ TreeNodes(u) = TreeNodes(t)
           /\ \A m : Left(u, m) = Left(t, m) /\ Right(u, m) = Right(t, m)
<1>1. n \in BstNodes /\ t.data[n] # NoData /\ y # NoData
    BY ElemsAssumption DEF TreeNodes
<1>2. t.data \in [BstNodes -> Elems \cup {NoData}] /\ t \in Trees
    BY DEF Shape, Trees
<1>3. PICK d : d = [t.data EXCEPT ![n] = y]
    OBVIOUS
<1>4. d \in [BstNodes -> Elems \cup {NoData}] /\ d[n] = y /\ \A m \in BstNodes : m # n => d[m] = t.data[m]
    BY <1>1, <1>2, <1>3
<1>5. u = [t EXCEPT !.data = d]
    BY <1>2, <1>3 DEF Trees
<1>6. u.child = t.child /\ u.parent = t.parent /\ u.len = t.len /\ u.data = d /\ u \in Trees
    BY <1>2, <1>4, <1>5 DEF Trees
<1>7. \A m : Left(u, m) = Left(t, m) /\ Right(u, m) = Right(t, m)
    BY <1>6 DEF Left, Right
<1>8. \A m \in BstNodes : u.data[m] = NoData <=> t.data[m] = NoData
    BY <1>1, <1>4, <1>6
<1>9. TreeNodes(u) = TreeNodes(t)
    BY <1>8 DEF TreeNodes
<1>10. \A m \in BstNodes : NodeOK(t, D, m) => NodeOK(u, D, m)
    <2> SUFFICES ASSUME NEW m \in BstNodes, NodeOK(t, D, m) PROVE NodeOK(u, D, m)
        OBVIOUS
    <2>1. Left(u, m) = Left(t, m) /\ Right(u, m) = Right(t, m) /\ u.parent[m] = t.parent[m]
        BY <1>6, <1>7
    <2> QED BY <1>8, <2>1 DEF NodeOK
<1>11. \A k \in Links : LinkOK(t, k) => LinkOK(u, k)
    <2>1. \A k \in Links : t.child[k] # 0 => t.child[k] \in BstNodes
        BY TreeIs, LinksAre
    <2> QED BY <1>6, <1>8, <2>1 DEF LinkOK
<1>12. Shape(u, D)
    BY <1>6, <1>9, <1>10, <1>11 DEF Shape
<1> QED BY <1>4, <1>6, <1>7, <1>9, <1>12 DEF IsRelabelled

(* The node v that goes, and where the data of n is.                        *)
Removes(t, D, l, v, u, F) ==
    /\ Shape(u, F) /\ v \in TreeNodes(t) /\ v = t.child[Victim(t, l)]
    /\ TreeNodes(u) = TreeNodes(t) \ {v}
    /\ \A m \in TreeNodes(u) : u.data[m] = IF m = t.child[l] THEN t.data[v] ELSE t.data[m]
    /\ Ordered(t, D) => Ordered(u, F)

LEMMA RemoveOne ==
    ASSUME NEW t, NEW D, Shape(t, D), NEW l \in Links, t.child[l] # 0, ~TwoChildren(t, l)
    PROVE  \E F : Removes(t, D, l, t.child[l], remove_node(t, l), F)
<1>1. PICK n : n = t.child[l] /\ n \in TreeNodes(t)
    BY LinkHolder
<1>2. PICK u : u = remove_node(t, l) /\ u = Unlink(t, l) /\ Victim(t, l) = l
    BY DEF remove_node, Victim
<1>3. PICK F : /\ Shape(u, F) /\ TreeNodes(u) = TreeNodes(t) \ {n}
               /\ \A m \in TreeNodes(u) : u.data[m] = t.data[m]
               /\ OrderedBut(t, D, n) => Ordered(u, F)
    BY <1>1, <1>2, UnlinkTree
<1>4. Ordered(t, D) => OrderedBut(t, D, n)
    BY DEF Ordered, OrderedBut
<1> QED BY <1>1, <1>2, <1>3, <1>4 DEF Removes

LEMMA VictimIs ==
    ASSUME NEW t, NEW D, Shape(t, D), NEW l \in Links, t.child[l] # 0, TwoChildren(t, l),
           NEW n, n = t.child[l], NEW k, k = Victim(t, l), NEW v, v = t.child[k]
    PROVE  /\ k \in Links /\ v # 0 /\ Left(t, v) = 0 /\ v # n
           /\ n \in TreeNodes(t) /\ v \in TreeNodes(t) /\ v \in D[Right(t, n)]
           /\ Ordered(t, D) => \A m \in D[Right(t, n)] : m = v \/ t.data[m] > t.data[v]
<1>1. n \in TreeNodes(t)
    BY LinkHolder
<1>2. PICK from : from = <<n, "right">> /\ from \in Links /\ t.child[from] = Right(t, n) /\ Right(t, n) # 0
    BY <1>1, TreeIs, LinksAre DEF TwoChildren, Right
<1>3. k = find_min_subtree(t, from)
    BY <1>2 DEF Victim
<1>4. LeastFrom(t, D, from, k)
    BY <1>2, <1>3, MinIs
<1>5. k \in Links /\ v \in D[Right(t, n)] /\ Left(t, v) = 0
      /\ (Ordered(t, D) => \A m \in D[Right(t, n)] : m = v \/ t.data[m] > t.data[v])
    BY <1>2, <1>4 DEF LeastFrom
<1>6. D[Right(t, n)] \subseteq TreeNodes(t) /\ n \notin D[Right(t, n)]
    <2>1. n \in BstNodes
        BY <1>1, TreeIs
    <2> QED BY <1>1, <2>1, TreeIs DEF NodeOK, TreeNodes
<1>7. \A m \in TreeNodes(t) : m # 0
    BY TreeIs, LinksAre
<1> QED BY <1>1, <1>5, <1>6, <1>7

LEMMA RelabelledOrder ==
    ASSUME NEW t, NEW D, Shape(t, D), Ordered(t, D), NEW n \in TreeNodes(t), NEW v \in D[Right(t, n)],
           v # n, v \in TreeNodes(t), \A m \in D[Right(t, n)] : m = v \/ t.data[m] > t.data[v],
           NEW u, IsRelabelled(t, n, t.data[v], u), TreeNodes(u) = TreeNodes(t),
           \A m : Left(u, m) = Left(t, m) /\ Right(u, m) = Right(t, m)
    PROVE  OrderedBut(u, D, v)
<1>1. \A m \in TreeNodes(t) : /\ t.data[m] \in Int /\ m \in BstNodes
                              /\ m # n => u.data[m] = t.data[m]
    BY DataIs, TreeIs DEF IsRelabelled
<1>2. u.data[n] = t.data[v]
    BY DEF IsRelabelled
<1>3. t.data[n] < t.data[v] /\ \A k \in D[Left(t, n)] : t.data[k] < t.data[n]
    BY DEF Ordered
<1>4. \A m \in TreeNodes(t) : /\ D[Left(t, m)] \subseteq TreeNodes(t) /\ D[Right(t, m)] \subseteq TreeNodes(t)
                              /\ m \notin D[Left(t, m)] /\ m \notin D[Right(t, m)]
    BY TreeIs DEF NodeOK
<1>5. \A i \in BstNodes : n \in D[i] => v \in D[i]
    <2>1. v \in D[n]
        BY TreeIs DEF NodeOK
    <2> QED BY <2>1 DEF Shape
<1>6. \A m \in TreeNodes(t) : /\ n \in D[Left(t, m)] => v \in D[Left(t, m)]
                              /\ n \in D[Right(t, m)] => v \in D[Right(t, m)]
    BY <1>5, TreeIs, LinksAre
<1>7. ASSUME NEW m \in TreeNodes(t), m # v
      PROVE  /\ \A k \in D[Left(t, m)] \ {v} : u.data[k] < u.data[m]
             /\ \A k \in D[Right(t, m)] \ {v} : u.data[k] > u.data[m]
    <2>1. /\ \A k \in D[Left(t, m)] : k \in TreeNodes(t) /\ t.data[k] < t.data[m]
          /\ \A k \in D[Right(t, m)] : k \in TreeNodes(t) /\ t.data[k] > t.data[m]
        BY <1>4 DEF Ordered
    <2>2. CASE m = n
        <3>1. \A k \in D[Left(t, m)] \ {v} : u.data[k] < u.data[m]
            BY <1>1, <1>2, <1>3, <1>4, <2>1, <2>2
        <3>2. \A k \in D[Right(t, m)] \ {v} : u.data[k] > u.data[m]
            BY <1>1, <1>2, <1>4, <2>1, <2>2
        <3> QED BY <3>1, <3>2
    <2>3. CASE m # n
        <3>1. ASSUME NEW k \in D[Left(t, m)] \ {v} PROVE u.data[k] < u.data[m]
            <4>1. CASE k = n
                BY <1>1, <1>2, <1>6, <2>1, <2>3, <4>1
            <4>2. CASE k # n
                BY <1>1, <2>1, <2>3, <4>2
            <4> QED BY <4>1, <4>2
        <3>2. ASSUME NEW k \in D[Right(t, m)] \ {v} PROVE u.data[k] > u.data[m]
            <4>1. CASE k = n
                BY <1>1, <1>2, <1>6, <2>1, <2>3, <4>1
            <4>2. CASE k # n
                BY <1>1, <2>1, <2>3, <4>2
            <4> QED BY <4>1, <4>2
        <3> QED BY <3>1, <3>2
    <2> QED BY <2>2, <2>3
<1> QED BY <1>7 DEF OrderedBut

LEMMA RemoveTwo ==
    ASSUME NEW t, NEW D, Shape(t, D), NEW l \in Links, t.child[l] # 0, TwoChildren(t, l)
    PROVE  \E v, F : Removes(t, D, l, v, remove_node(t, l), F)
<1>1. PICK n, k, v : n = t.child[l] /\ k = Victim(t, l) /\ v = t.child[k]
    OBVIOUS
<1>2. /\ k \in Links /\ v # 0 /\ Left(t, v) = 0 /\ v # n
      /\ n \in TreeNodes(t) /\ v \in TreeNodes(t) /\ v \in D[Right(t, n)]
      /\ Ordered(t, D) => \A m \in D[Right(t, n)] : m = v \/ t.data[m] > t.data[v]
    BY <1>1, VictimIs
<1>3. PICK y : y = t.data[v] /\ y = DtorArg(t, l) /\ y \in Elems
    BY <1>1, <1>2, DataIs DEF DtorArg
<1>4. PICK s : s = [t EXCEPT !.data[n] = y]
    OBVIOUS
<1>5. /\ IsRelabelled(t, n, y, s) /\ Shape(s, D) /\ TreeNodes(s) = TreeNodes(t)
      /\ \A m : Left(s, m) = Left(t, m) /\ Right(s, m) = Right(t, m)
    BY <1>2, <1>3, <1>4, Relabelled
<1>6. PICK u : u = remove_node(t, l) /\ u = Unlink(s, k)
    BY <1>1, <1>3, <1>4 DEF remove_node
<1>7. s.child = t.child /\ s.data[n] = y /\ \A m \in BstNodes : m # n => s.data[m] = t.data[m]
    BY <1>5 DEF IsRelabelled
<1>8. ~TwoChildren(s, k) /\ s.child[k] # 0 /\ v = s.child[k]
    BY <1>1, <1>2, <1>5, <1>7 DEF TwoChildren
<1>9. PICK F : /\ Shape(u, F) /\ TreeNodes(u) = TreeNodes(s) \ {v}
               /\ \A m \in TreeNodes(u) : u.data[m] = s.data[m]
               /\ OrderedBut(s, D, v) => Ordered(u, F)
    BY <1>2, <1>5, <1>6, <1>8, UnlinkTree
<1>10. ASSUME Ordered(t, D) PROVE OrderedBut(s, D, v)
    BY <1>2, <1>3, <1>5, <1>10, RelabelledOrder
<1>11. \A m \in TreeNodes(u) : u.data[m] = IF m = n THEN t.data[v] ELSE t.data[m]
    BY <1>3, <1>7, <1>9 DEF TreeNodes
<1> QED BY <1>1, <1>2, <1>5, <1>6, <1>9, <1>10, <1>11 DEF Removes

LEMMA RemoveTree ==
    ASSUME NEW t, NEW D, Shape(t, D), NEW l \in Links, t.child[l] # 0,
           NEW u, u = remove_node(t, l), NEW x, x = t.data[t.child[l]]
    PROVE  \E v, F : /\ Removes(t, D, l, v, u, F)
                     /\ Distinct(t) => Distinct(u) /\ TreeData(u) = TreeData(t) \ {x}
                     /\ ~TwoChildren(t, l) => v = t.child[l] /\ DtorArg(t, l) = x
                     /\ v \in D[t.child[l]]
<1>1. PICK v, F : Removes(t, D, l, v, u, F)
    BY RemoveOne, RemoveTwo
<1>2. PICK n : n = t.child[l] /\ n \in TreeNodes(t)
    BY LinkHolder
<1>3. /\ v \in TreeNodes(t) /\ v = t.child[Victim(t, l)]
      /\ TreeNodes(u) = TreeNodes(t) \ {v}
      /\ \A m \in TreeNodes(u) : u.data[m] = IF m = n THEN t.data[v] ELSE t.data[m]
    BY <1>1, <1>2 DEF Removes
<1>4. Distinct(t) => Distinct(u)
    BY <1>3 DEF Distinct
<1>5. Distinct(t) => TreeData(u) = TreeData(t) \ {x}
    <2> SUFFICES ASSUME Distinct(t) PROVE TreeData(u) = TreeData(t) \ {x}
        OBVIOUS
    <2>1. ASSUME NEW y \in TreeData(u) PROVE y \in TreeData(t) /\ y # x
        <3>1. PICK m \in TreeNodes(u) : y = u.data[m]
            BY DEF TreeData
        <3>2. PICK k \in TreeNodes(t) : y = t.data[k] /\ k # n
            BY <1>2, <1>3, <3>1
        <3> QED BY <1>2, <3>2 DEF TreeData, Distinct
    <2>2. ASSUME NEW y \in TreeData(t), y # x PROVE y \in TreeData(u)
        <3>1. PICK k \in TreeNodes(t) : y = t.data[k] /\ k # n
            BY <1>2, <2>2 DEF TreeData
        <3>2. CASE k # v
            BY <1>3, <3>1, <3>2 DEF TreeData
        <3>3. CASE k = v
            BY <1>2, <1>3, <3>1, <3>3 DEF TreeData
        <3> QED BY <3>2, <3>3
    <2> QED BY <2>1, <2>2
<1>6. ~TwoChildren(t, l) => v = t.child[l] /\ DtorArg(t, l) = x
    BY <1>3 DEF Victim, DtorArg
<1>7. v \in D[n]
    <2>1. n \in D[n] /\ D[Right(t, n)] \subseteq D[n]
        BY <1>2, TreeIs DEF NodeOK, TreeNodes
    <2>2. CASE TwoChildren(t, l)
        BY <1>2, <1>3, <2>1, <2>2, VictimIs
    <2>3. CASE ~TwoChildren(t, l)
        BY <1>2, <1>6, <2>1, <2>3
    <2> QED BY <2>2, <2>3
<1> QED BY <1>1, <1>2, <1>4, <1>5, <1>6, <1>7

(***************************************************************************)
(* Upwards: LinkOf, and bst_next, which gives the next of the order.        *)
(***************************************************************************)
LEMMA ParentIs ==
    ASSUME NEW t, NEW D, Shape(t, D), NEW m \in TreeNodes(t), NEW p, p = t.parent[m]
    PROVE  /\ p = 0 => t.child[Root] = m /\ D[m] = TreeNodes(t)
           /\ p # 0 => /\ p \in TreeNodes(t) /\ m \in D[p] /\ p \notin D[m] /\ D[m] \subseteq D[p]
                       /\ Left(t, p) = m \/ Right(t, p) = m
           /\ LinkOf(t, m) \in Links /\ t.child[LinkOf(t, m)] = m
<1>1. PICK k \in Links : t.child[k] = m
    BY DEF Shape
<1>2. m # 0 /\ p = k[1] /\ (k = Root \/ p \in TreeNodes(t))
      /\ (p \in TreeNodes(t) => D[m] \subseteq D[p] /\ p \notin D[m])
    <2>1. m # 0
        BY TreeIs, LinksAre
    <2> QED BY <1>1, <2>1, LinkHolder
<1>3. m \in D[m] /\ 0 \notin TreeNodes(t)
    BY TreeIs, LinksAre
<1>4. CASE k = Root
    <2>1. p = 0
        BY <1>2, <1>4 DEF Root
    <2>2. t.child[Root] = m /\ D[m] = TreeNodes(t)
        BY <1>1, <1>4 DEF Shape
    <2>3. LinkOf(t, m) = Root
        BY <2>1 DEF LinkOf
    <2> QED BY <1>3, <2>1, <2>2, <2>3, LinksAre
<1>5. CASE k # Root
    <2>1. p \in TreeNodes(t) /\ p # 0 /\ p \in 0..BstMax
        BY <1>2, <1>3, <1>5, TreeIs, LinksAre
    <2>2. k = <<p, "left">> \/ k = <<p, "right">>
        BY <1>2, LinksAre
    <2>3. (k = <<p, "left">> /\ Left(t, p) = m) \/ (k = <<p, "right">> /\ Right(t, p) = m)
        BY <1>1, <2>2 DEF Left, Right
    <2>4. LinkOf(t, m) = IF Right(t, p) = m THEN <<p, "right">> ELSE <<p, "left">>
        BY <2>1 DEF LinkOf
    <2>5. LinkOf(t, m) \in Links /\ t.child[LinkOf(t, m)] = m
        BY <1>1, <2>1, <2>3, <2>4, LinksAre DEF Left, Right
    <2> QED BY <1>2, <1>3, <2>1, <2>3, <2>5
<1> QED BY <1>4, <1>5

(* What holds of a node when it has no parent or holds of its parent.       *)
LEMMA RootInduction ==
    ASSUME NEW t, NEW D, Shape(t, D), NEW T,
           \A n \in TreeNodes(t) : t.parent[n] = 0 \/ t.parent[n] \in T => n \in T
    PROVE  \A n \in TreeNodes(t) : n \in T
<1>1. PICK R : R = Rank(D) /\ R \in [0..BstMax -> 0..BstMax] /\ BstMax \in Nat
    BY RankIs, LinksAre
<1>2. PICK r, S : r = [n \in TreeNodes(t) |-> BstMax - R[n]] /\ S = TreeNodes(t)
    OBVIOUS
<1>3. \A n \in S : n \in 0..BstMax /\ r[n] = BstMax - R[n] /\ r[n] \in 0..BstMax
    <2>1. \A n \in S : n \in 0..BstMax
        BY <1>2, TreeIs, LinksAre
    <2>2. \A n \in S : R[n] \in 0..BstMax
        BY <1>1, <2>1
    <2>3. ASSUME NEW n \in S PROVE BstMax - R[n] \in 0..BstMax
        <3>1. R[n] \in Nat /\ R[n] <= BstMax /\ BstMax \in Nat
            BY <1>1, <2>2
        <3> QED BY <3>1
    <2>4. \A n \in S : r[n] = BstMax - R[n]
        BY <1>2
    <2> QED BY <2>1, <2>3, <2>4
<1>4. Ranked(S, r, BstMax)
    BY <1>1, <1>2, <1>3 DEF Ranked
<1>5. ASSUME NEW n \in S, \A y \in S : r[y] < r[n] => y \in T PROVE n \in T
    <2>1. PICK p : p = t.parent[n]
        OBVIOUS
    <2>2. CASE p = 0
        BY <1>2, <2>1, <2>2
    <2>3. CASE p # 0
        <3>1. p \in S /\ (Left(t, p) = n \/ Right(t, p) = n)
            BY <1>2, <2>1, <2>3, ParentIs
        <3>2. R[n] < R[p]
            BY <1>1, <1>2, <3>1, RankIs
        <3>3. r[p] < r[n]
            <4>1. R[n] \in Int /\ R[p] \in Int
                BY <1>1, <1>3, <3>1
            <4> QED BY <1>1, <1>3, <3>1, <3>2, <4>1
        <3> QED BY <1>2, <1>5, <2>1, <3>1, <3>3
    <2> QED BY <2>2, <2>3
<1>6. Heritable(S, r, T)
    BY <1>5 DEF Heritable
<1>7. \A n \in S : n \in T
    BY <1>4, <1>6, ByRank
<1> QED BY <1>2, <1>7

(* A subtree is an interval of the order.                                   *)
LEMMA Intervals ==
    ASSUME NEW t, NEW D, Shape(t, D), Ordered(t, D)
    PROVE  \A n \in TreeNodes(t) : \A k \in TreeNodes(t) \ D[n] :
               \/ \A i \in D[n] : t.data[k] < t.data[i]
               \/ \A i \in D[n] : t.data[k] > t.data[i]
<1> DEFINE T == {n \in TreeNodes(t) : \A k \in TreeNodes(t) \ D[n] :
                                         \/ \A i \in D[n] : t.data[k] < t.data[i]
                                         \/ \A i \in D[n] : t.data[k] > t.data[i]}
<1>1. ASSUME NEW n \in TreeNodes(t), t.parent[n] = 0 \/ t.parent[n] \in T PROVE n \in T
    <2>1. PICK p : p = t.parent[n]
        OBVIOUS
    <2>2. CASE p = 0
        BY <2>1, <2>2, ParentIs
    <2>3. CASE p # 0
        <3>1. p \in TreeNodes(t) /\ (Left(t, p) = n \/ Right(t, p) = n) /\ D[n] \subseteq D[p] /\ p \in T
            BY <1>1, <2>1, <2>3, ParentIs
        <3>2. D[p] = {p} \cup D[Left(t, p)] \cup D[Right(t, p)] /\ D[p] \subseteq TreeNodes(t)
            BY <3>1, TreeIs, LinksAre DEF NodeOK, TreeNodes
        <3>3. /\ \A m \in D[Left(t, p)] : t.data[m] < t.data[p]
              /\ \A m \in D[Right(t, p)] : t.data[m] > t.data[p]
            BY <3>1 DEF Ordered
        <3>4. \A m \in TreeNodes(t) : t.data[m] \in Int
            BY DataIs
        <3>5. ASSUME NEW k \in TreeNodes(t) \ D[n]
              PROVE  \/ \A i \in D[n] : t.data[k] < t.data[i]
                     \/ \A i \in D[n] : t.data[k] > t.data[i]
            <4>1. CASE k \notin D[p]
                BY <3>1, <4>1
            <4>2. CASE k \in D[p] /\ Left(t, p) = n
                <5>1. k = p \/ k \in D[Right(t, p)]
                    BY <3>2, <4>2
                <5>2. t.data[k] = t.data[p] \/ t.data[k] > t.data[p]
                    BY <3>3, <5>1
                <5>3. \A i \in D[n] : t.data[i] < t.data[p] /\ t.data[i] \in Int
                    BY <3>1, <3>2, <3>3, <3>4, <4>2
                <5> QED BY <3>1, <3>4, <5>2, <5>3
            <4>3. CASE k \in D[p] /\ Right(t, p) = n
                <5>1. k = p \/ k \in D[Left(t, p)]
                    BY <3>2, <4>3
                <5>2. t.data[k] = t.data[p] \/ t.data[k] < t.data[p]
                    BY <3>3, <5>1
                <5>3. \A i \in D[n] : t.data[i] > t.data[p] /\ t.data[i] \in Int
                    BY <3>1, <3>2, <3>3, <3>4, <4>3
                <5> QED BY <3>1, <3>4, <5>2, <5>3
            <4> QED BY <3>1, <4>1, <4>2, <4>3
        <3> QED BY <3>5
    <2> QED BY <2>2, <2>3
<1> HIDE DEF T
<1>2. \A n \in TreeNodes(t) : n \in T
    BY <1>1, RootInduction
<1> QED BY <1>2 DEF T

Climbs(t, w) ==
    w = [m \in BstNodes |-> IF t.parent[m] # 0 /\ Right(t, t.parent[m]) = m THEN w[t.parent[m]]
                            ELSE t.parent[m]]

LEMMA ClimbExists ==
    ASSUME NEW t, NEW D, Shape(t, D)
    PROVE  \E w : Climbs(t, w)
<1> DEFINE E == {m \in BstNodes : ~(t.parent[m] # 0 /\ Right(t, t.parent[m]) = m)}
           base == [m \in BstNodes |-> t.parent[m]]
           step == [q \in BstNodes \X (0..BstMax) \X (0..BstMax) |-> q[2]]
           a == [m \in BstNodes |-> IF m \in E THEN m ELSE t.parent[m]]
           r == [m \in BstNodes |-> BstMax - Rank(D)[m]]
<1>1. base \in [BstNodes -> 0..BstMax] /\ step \in [BstNodes \X (0..BstMax) \X (0..BstMax) -> 0..BstMax]
    BY TreeIs
<1>2. PICK R : R = Rank(D) /\ R \in [0..BstMax -> 0..BstMax] /\ BstMax \in Nat
    BY RankIs, LinksAre
<1>3. r \in [BstNodes -> 0..BstMax]
    <2>1. \A m \in BstNodes : R[m] \in 0..BstMax
        BY <1>2, LinksAre
    <2>2. ASSUME NEW m \in BstNodes PROVE BstMax - R[m] \in 0..BstMax
        <3>1. R[m] \in Nat /\ R[m] <= BstMax /\ BstMax \in Nat
            BY <1>2, <2>1
        <3> QED BY <3>1
    <2>3. r = [m \in BstNodes |-> BstMax - R[m]]
        BY <1>2
    <2> HIDE DEF r
    <2> QED BY <2>2, <2>3
<1>4. ASSUME NEW m \in BstNodes, m \notin E
      PROVE  t.parent[m] \in BstNodes /\ r[t.parent[m]] < r[m]
    <2>1. PICK p : p = t.parent[m] /\ p # 0 /\ Right(t, p) = m
        BY <1>4
    <2>2. p \in BstNodes /\ m # 0
        BY <2>1, TreeIs, LinksAre
    <2>3. p \in TreeNodes(t)
        BY <2>1, <2>2, TreeIs
    <2>4. R[m] < R[p] /\ m \in 0..BstMax /\ p \in 0..BstMax
        BY <1>2, <2>1, <2>2, <2>3, RankIs, LinksAre
    <2>5. R[m] \in 0..BstMax /\ R[p] \in 0..BstMax
        BY <1>2, <2>4
    <2>6. BstMax - R[p] < BstMax - R[m]
        BY <1>2, <2>4, <2>5
    <2> QED BY <1>2, <2>1, <2>2, <2>6
<1>5. a \in [BstNodes -> BstNodes]
    BY <1>4
<1>6. \A m \in BstNodes : m \notin E => r[a[m]] < r[m] /\ r[a[m]] < r[m]
    BY <1>4
<1>7. \E f \in [BstNodes -> 0..BstMax] : Solves(f, BstNodes, E, base, step, a, a)
    <2> HIDE DEF base, step, a, r, E
    <2> QED BY <1>1, <1>2, <1>3, <1>5, <1>6, RankRecursion
<1>8. PICK f \in [BstNodes -> 0..BstMax] : Solves(f, BstNodes, E, base, step, a, a)
    BY <1>7
<1>9. ASSUME NEW m \in BstNodes
      PROVE  (IF m \in E THEN base[m] ELSE step[<<m, f[a[m]], f[a[m]]>>])
             = IF t.parent[m] # 0 /\ Right(t, t.parent[m]) = m THEN f[t.parent[m]] ELSE t.parent[m]
    <2>1. CASE m \in E
        BY <2>1
    <2>2. CASE m \notin E
        <3>1. a[m] = t.parent[m] /\ a[m] \in BstNodes
            BY <1>5, <2>2
        <3>2. f[a[m]] \in 0..BstMax
            BY <3>1
        <3>3. step[<<m, f[a[m]], f[a[m]]>>] = f[a[m]]
            <4> HIDE DEF a
            <4> QED BY <3>2
        <3> QED BY <2>2, <3>1, <3>3
    <2> QED BY <2>1, <2>2
<1>10. f = [m \in BstNodes |-> IF m \in E THEN base[m] ELSE step[<<m, f[a[m]], f[a[m]]>>]]
    <2> HIDE DEF base, step, a, E
    <2> QED BY <1>8 DEF Solves
<1>11. f = [m \in BstNodes |-> IF t.parent[m] # 0 /\ Right(t, t.parent[m]) = m THEN f[t.parent[m]]
                               ELSE t.parent[m]]
    <2> HIDE DEF base, step, a, E
    <2> QED BY <1>9, <1>10
<1> QED BY <1>11 DEF Climbs

LEMMA ClimbWalk ==
    ASSUME NEW t, NEW D, Shape(t, D)
    PROVE  \E w : /\ Climbs(t, w)
                  /\ \A n : bst_next(t, n) = IF Right(t, n) # 0
                                             THEN t.child[find_min_subtree(t, <<n, "right">>)] ELSE w[n]
<1> DEFINE w == CHOOSE w : w = [m \in BstNodes |-> LET p == t.parent[m]
                                                   IN  IF p # 0 /\ Right(t, p) = m THEN w[p] ELSE p]
<1>1. \A n : bst_next(t, n) = IF Right(t, n) # 0
                              THEN t.child[find_min_subtree(t, <<n, "right">>)] ELSE w[n]
    BY DEF bst_next
<1>2. Climbs(t, w)
    BY ClimbExists DEF Climbs
<1> HIDE DEF w
<1> QED BY <1>1, <1>2

(* Where the climb from n ends.                                             *)
ClimbedTo(t, D, n, q) ==
    /\ q = 0 \/ (q \in TreeNodes(t) /\ n \in D[Left(t, q)])
    /\ Ordered(t, D) => \A k \in TreeNodes(t) \ D[n] : \/ \A i \in D[n] : t.data[k] < t.data[i]
                                                       \/ q # 0 /\ t.data[k] >= t.data[q]

LEMMA ClimbIs ==
    ASSUME NEW t, NEW D, Shape(t, D), NEW w, Climbs(t, w)
    PROVE  /\ \A n \in TreeNodes(t) : ClimbedTo(t, D, n, w[n])
           /\ \A n \in BstNodes : n \notin TreeNodes(t) => w[n] = 0
<1> DEFINE T == {n \in TreeNodes(t) : ClimbedTo(t, D, n, w[n])}
<1>1. ASSUME NEW n \in TreeNodes(t), t.parent[n] = 0 \/ t.parent[n] \in T PROVE n \in T
    <2>1. PICK p, q : p = t.parent[n] /\ q = w[n]
        OBVIOUS
    <2>2. n \in BstNodes
        BY TreeIs
    <2>3. q = IF p # 0 /\ Right(t, p) = n THEN w[p] ELSE p
        BY <2>1, <2>2 DEF Climbs
    <2>4. CASE p = 0
        <3>1. D[n] = TreeNodes(t) /\ q = 0
            <4>1. D[n] = TreeNodes(t)
                BY <2>1, <2>4, ParentIs
            <4> QED BY <2>3, <2>4, <4>1
        <3>2. ClimbedTo(t, D, n, q)
            BY <3>1 DEF ClimbedTo
        <3> QED BY <2>1, <3>2
    <2>5. CASE p # 0
        <3>1. /\ p \in TreeNodes(t) /\ (Left(t, p) = n \/ Right(t, p) = n) /\ D[n] \subseteq D[p]
              /\ n \in D[p] /\ ClimbedTo(t, D, p, w[p])
            BY <1>1, <2>1, <2>5, ParentIs
        <3>2. D[p] = {p} \cup D[Left(t, p)] \cup D[Right(t, p)] /\ D[p] \subseteq TreeNodes(t)
            BY <3>1, TreeIs, LinksAre DEF NodeOK, TreeNodes
        <3>3. Ordered(t, D) => /\ \A m \in D[Left(t, p)] : t.data[m] < t.data[p]
                               /\ \A m \in D[Right(t, p)] : t.data[m] > t.data[p]
            BY <3>1 DEF Ordered
        <3>4. \A m \in TreeNodes(t) : t.data[m] \in Int
            BY DataIs
        <3>5. p \in D[p] /\ n \in D[n]
            BY <3>1, TreeIs
        <3>6. CASE Right(t, p) = n
            <4>1. q = w[p]
                BY <2>3, <2>5, <3>6
            <4>2. q = 0 \/ (q \in TreeNodes(t) /\ n \in D[Left(t, q)])
                <5>1. SUFFICES ASSUME q # 0 PROVE q \in TreeNodes(t) /\ n \in D[Left(t, q)]
                    OBVIOUS
                <5>2. q \in TreeNodes(t) /\ p \in D[Left(t, q)]
                    BY <3>1, <4>1, <5>1 DEF ClimbedTo
                <5>3. Left(t, q) # 0 /\ Left(t, q) \in 0..BstMax
                    BY <5>2, TreeIs
                <5>4. D[p] \subseteq D[Left(t, q)]
                    BY <5>2, <5>3, LinksAre DEF Shape
                <5> QED BY <3>1, <5>2, <5>4
            <4>3. ASSUME Ordered(t, D), NEW k \in TreeNodes(t) \ D[n]
                  PROVE  \/ \A i \in D[n] : t.data[k] < t.data[i]
                         \/ q # 0 /\ t.data[k] >= t.data[q]
                <5>1. CASE k \in D[p]
                    <6>1. k = p \/ k \in D[Left(t, p)]
                        BY <3>2, <3>6, <5>1
                    <6>2. t.data[k] = t.data[p] \/ t.data[k] < t.data[p]
                        BY <3>3, <4>3, <6>1
                    <6>3. \A i \in D[n] : t.data[i] > t.data[p] /\ t.data[i] \in Int
                        BY <3>1, <3>2, <3>3, <3>4, <3>6, <4>3
                    <6> QED BY <3>1, <3>4, <6>2, <6>3
                <5>2. CASE k \notin D[p]
                    BY <3>1, <4>1, <4>3, <5>2 DEF ClimbedTo
                <5> QED BY <5>1, <5>2
            <4> QED BY <2>1, <4>2, <4>3 DEF ClimbedTo
        <3>7. CASE Right(t, p) # n
            <4>1. q = p /\ Left(t, p) = n
                BY <2>3, <3>1, <3>7
            <4>2. ASSUME Ordered(t, D), NEW k \in TreeNodes(t) \ D[n]
                  PROVE  \/ \A i \in D[n] : t.data[k] < t.data[i]
                         \/ t.data[k] >= t.data[p]
                <5>1. CASE k \in D[p]
                    <6>1. k = p \/ k \in D[Right(t, p)]
                        BY <3>2, <4>1, <5>1
                    <6> QED BY <3>1, <3>3, <3>4, <4>2, <6>1
                <5>2. CASE k \notin D[p]
                    <6>1. \/ \A i \in D[p] : t.data[k] < t.data[i]
                          \/ \A i \in D[p] : t.data[k] > t.data[i]
                        BY <3>1, <4>2, <5>2, Intervals
                    <6> QED BY <3>1, <3>4, <3>5, <6>1
                <5> QED BY <5>1, <5>2
            <4> QED BY <2>1, <2>5, <3>1, <3>5, <4>1, <4>2 DEF ClimbedTo
        <3> QED BY <3>6, <3>7
    <2> QED BY <2>4, <2>5
<1>2. ASSUME NEW n \in BstNodes, n \notin TreeNodes(t) PROVE w[n] = 0
    <2>1. t.parent[n] = 0
        <3>1. t.data[n] = NoData /\ NodeOK(t, D, n)
            BY <1>2 DEF TreeNodes, Shape
        <3> QED BY <3>1 DEF NodeOK
    <2> QED BY <2>1 DEF Climbs
<1> HIDE DEF T
<1>3. \A n \in TreeNodes(t) : n \in T
    BY <1>1, RootInduction
<1> QED BY <1>2, <1>3 DEF T

(* The next of n in the order.                                              *)
NextOf(t, D, n, q) ==
    /\ q = 0 \/ q \in TreeNodes(t)
    /\ n \in TreeNodes(t) /\ Ordered(t, D) =>
           /\ q # 0 => t.data[q] > t.data[n]
           /\ \A k \in TreeNodes(t) : t.data[k] <= t.data[n] \/ (q # 0 /\ t.data[k] >= t.data[q])

LEMMA NextIs ==
    ASSUME NEW t, NEW D, Shape(t, D), NEW n \in BstNodes
    PROVE  NextOf(t, D, n, bst_next(t, n))
<1>1. PICK w : /\ Climbs(t, w)
               /\ \A m : bst_next(t, m) = IF Right(t, m) # 0
                                          THEN t.child[find_min_subtree(t, <<m, "right">>)] ELSE w[m]
    BY ClimbWalk
<1>2. PICK q : q = bst_next(t, n)
    OBVIOUS
<1>3. CASE n \notin TreeNodes(t)
    <2>1. Right(t, n) = 0 /\ w[n] = 0
        BY <1>1, <1>3, TreeIs, ClimbIs
    <2> QED BY <1>1, <1>3, <2>1 DEF NextOf
<1>4. CASE n \in TreeNodes(t)
    <2>1. ClimbedTo(t, D, n, w[n])
        BY <1>1, <1>4, ClimbIs
    <2>2. D[n] = {n} \cup D[Left(t, n)] \cup D[Right(t, n)] /\ D[n] \subseteq TreeNodes(t)
        BY <1>4, TreeIs, LinksAre DEF NodeOK, TreeNodes
    <2>3. Ordered(t, D) => /\ \A m \in D[Left(t, n)] : t.data[m] < t.data[n]
                           /\ \A m \in D[Right(t, n)] : t.data[m] > t.data[n]
        BY <1>4 DEF Ordered
    <2>4. \A m \in TreeNodes(t) : t.data[m] \in Int
        BY DataIs
    <2>5. CASE Right(t, n) = 0
        <3>1. q = w[n]
            BY <1>1, <1>2, <2>5
        <3>2. D[n] = {n} \cup D[Left(t, n)]
            BY <2>2, <2>5, TreeIs
        <3>3. q = 0 \/ (q \in TreeNodes(t) /\ n \in D[Left(t, q)])
            BY <2>1, <3>1 DEF ClimbedTo
        <3>4. ASSUME Ordered(t, D), q # 0 PROVE t.data[q] > t.data[n]
            <4>1. t.data[n] < t.data[q]
                BY <3>3, <3>4 DEF Ordered
            <4> QED BY <1>4, <2>4, <3>3, <3>4, <4>1
        <3>5. ASSUME Ordered(t, D), NEW k \in TreeNodes(t)
              PROVE  t.data[k] <= t.data[n] \/ (q # 0 /\ t.data[k] >= t.data[q])
            <4>1. CASE k \in D[n]
                BY <1>4, <2>3, <2>4, <3>2, <3>5, <4>1
            <4>2. CASE k \notin D[n]
                <5>1. \/ \A i \in D[n] : t.data[k] < t.data[i]
                      \/ q # 0 /\ t.data[k] >= t.data[q]
                    BY <2>1, <3>1, <3>5, <4>2 DEF ClimbedTo
                <5>2. n \in D[n]
                    BY <3>2
                <5> QED BY <1>4, <2>4, <5>1, <5>2
            <4> QED BY <4>1, <4>2
        <3> QED BY <1>2, <3>3, <3>4, <3>5 DEF NextOf
    <2>6. CASE Right(t, n) # 0
        <3>1. PICK from, k : from = <<n, "right">> /\ from \in Links /\ k = find_min_subtree(t, from)
            BY LinksAre
        <3>2. q = t.child[k] /\ t.child[from] = Right(t, n)
            BY <1>1, <1>2, <2>6, <3>1 DEF Right
        <3>3. LeastFrom(t, D, from, k)
            BY <3>1, MinIs
        <3>4. q \in D[Right(t, n)]
              /\ (Ordered(t, D) => \A m \in D[Right(t, n)] : m = q \/ t.data[m] > t.data[q])
            BY <2>6, <3>2, <3>3 DEF LeastFrom
        <3>5. q \in TreeNodes(t) /\ q # 0 /\ q \in D[n]
            <4>1. 0 \notin TreeNodes(t)
                BY TreeIs, LinksAre
            <4> QED BY <2>2, <3>4, <4>1
        <3>6. ASSUME Ordered(t, D), NEW i \in TreeNodes(t)
              PROVE  t.data[i] <= t.data[n] \/ t.data[i] >= t.data[q]
            <4>1. CASE i \in D[Right(t, n)]
                BY <2>4, <3>4, <3>5, <3>6, <4>1
            <4>2. CASE i = n \/ i \in D[Left(t, n)]
                BY <1>4, <2>3, <2>4, <3>6, <4>2
            <4>3. CASE i \notin D[n]
                <5>1. \/ \A m \in D[n] : t.data[i] < t.data[m]
                      \/ \A m \in D[n] : t.data[i] > t.data[m]
                    BY <1>4, <3>6, <4>3, Intervals
                <5>2. n \in D[n]
                    BY <2>2
                <5> QED BY <1>4, <2>4, <3>5, <5>1, <5>2
            <4> QED BY <2>2, <4>1, <4>2, <4>3
        <3> QED BY <1>2, <2>3, <3>4, <3>5, <3>6 DEF NextOf
    <2> QED BY <2>5, <2>6
<1> QED BY <1>3, <1>4

(***************************************************************************)
(* Traversals.                                                             *)
(***************************************************************************)
Data == Elems \cup {NoData}

Traverses(t, none, step, f) ==
    f = [n \in 0..BstMax |-> IF n = 0 THEN none ELSE step[<<n, f[Left(t, n)], f[Right(t, n)]>>]]

LEMMA TraversalExists ==
    ASSUME NEW t, NEW D, Shape(t, D), NEW W, NEW none \in W,
           NEW step \in [(0..BstMax) \X W \X W -> W]
    PROVE  \E f \in [0..BstMax -> W] : Traverses(t, none, step, f)
<1> DEFINE S == 0..BstMax
           base == [n \in S |-> none]
           a == [n \in S |-> IF n = 0 THEN 0 ELSE Left(t, n)]
           b == [n \in S |-> IF n = 0 THEN 0 ELSE Right(t, n)]
           r == [n \in S |-> IF n = 0 THEN 0 ELSE Rank(D)[n] + 1]
           B == BstMax + 1
<1>1. PICK R : R = Rank(D) /\ R \in [0..BstMax -> 0..BstMax] /\ BstMax \in Nat
    BY RankIs, LinksAre
<1>2. B \in Nat /\ r \in [S -> 0..B]
    <2>1. \A n \in S : R[n] \in 0..BstMax
        BY <1>1
    <2>2. B \in Nat /\ 0 \in 0..B /\ \A n \in S : R[n] + 1 \in 0..B
        <3>1. ASSUME NEW n \in S PROVE R[n] + 1 \in 0..BstMax + 1
            <4>1. R[n] \in 0..BstMax
                BY <2>1
            <4> QED BY <1>1, <4>1
        <3>2. B \in Nat /\ 0 \in 0..B
            BY <1>1
        <3> QED BY <3>1, <3>2
    <2>3. \A n \in S : r[n] \in 0..B
        <3> HIDE DEF B
        <3> QED BY <1>1, <2>2
    <2> HIDE DEF B
    <2> QED BY <2>2, <2>3
<1>3. a \in [S -> S] /\ b \in [S -> S] /\ base \in [S -> W]
    <2>1. \A n \in S : n # 0 => Left(t, n) \in S /\ Right(t, n) \in S
        BY TreeIs, LinksAre
    <2>2. 0 \in S
        BY <1>1
    <2> QED BY <2>1, <2>2
<1>4. ASSUME NEW n \in S, n \notin {0} PROVE r[a[n]] < r[n] /\ r[b[n]] < r[n]
    <2>1. /\ n \in BstNodes /\ a[n] = Left(t, n) /\ b[n] = Right(t, n) /\ a[n] \in S /\ b[n] \in S
          /\ r[n] = R[n] + 1
        BY <1>1, <1>3, <1>4, LinksAre
    <2>2. R[n] \in Nat /\ \A m \in S : R[m] \in Nat /\ r[m] = IF m = 0 THEN 0 ELSE R[m] + 1
        BY <1>1
    <2>3. ASSUME NEW m \in {Left(t, n), Right(t, n)}, m # 0 PROVE R[m] < R[n]
        <3>1. n \in TreeNodes(t)
            BY <2>1, <2>3, TreeIs
        <3> QED BY <1>1, <2>3, <3>1, RankIs
    <2>4. ASSUME NEW m \in {Left(t, n), Right(t, n)}, m \in S PROVE r[m] < r[n]
        BY <2>1, <2>2, <2>3, <2>4
    <2> QED BY <2>1, <2>4
<1>5. \A n \in S : n \notin {0} => r[a[n]] < r[n] /\ r[b[n]] < r[n]
    BY <1>4
<1>6. \E f \in [S -> W] : Solves(f, S, {0}, base, step, a, b)
    <2>1. step \in [S \X W \X W -> W]
        OBVIOUS
    <2> HIDE DEF S, base, a, b, r, B
    <2> QED BY <1>2, <1>3, <1>5, <2>1, RankRecursion
<1>7. PICK f \in [S -> W] : Solves(f, S, {0}, base, step, a, b)
    BY <1>6
<1>8. \A n \in S : (IF n \in {0} THEN base[n] ELSE step[<<n, f[a[n]], f[b[n]]>>])
                   = IF n = 0 THEN none ELSE step[<<n, f[Left(t, n)], f[Right(t, n)]>>]
    OBVIOUS
<1>9. f = [n \in S |-> IF n \in {0} THEN base[n] ELSE step[<<n, f[a[n]], f[b[n]]>>]]
    <2> HIDE DEF S, base, a, b
    <2> QED BY <1>7 DEF Solves
<1>10. f = [n \in S |-> IF n = 0 THEN none ELSE step[<<n, f[Left(t, n)], f[Right(t, n)]>>]]
    <2> HIDE DEF base, a, b
    <2> QED BY <1>8, <1>9
<1> QED BY <1>10 DEF Traverses

(* The two traversals, w[n] of the subtree at n.                            *)
InWalk(t, w) ==
    w = [n \in 0..BstMax |-> IF n = 0 THEN <<>>
                             ELSE w[Left(t, n)] \o <<t.data[n]>> \o w[Right(t, n)]]
PreWalk(t, w) ==
    w = [n \in 0..BstMax |-> IF n = 0 THEN <<>>
                             ELSE <<t.data[n]>> \o w[Left(t, n)] \o w[Right(t, n)]]

LEMMA Joined ==
    ASSUME NEW S
    PROVE  /\ <<>> \in Seq(S)
           /\ \A s, r \in Seq(S), d \in S : s \o <<d>> \o r \in Seq(S) /\ <<d>> \o s \o r \in Seq(S)
<1>1. \A d \in S : <<d>> \in Seq(S)
    OBVIOUS
<1>2. \A s, r \in Seq(S) : s \o r \in Seq(S)
    OBVIOUS
<1> QED BY <1>1, <1>2

LEMMA WalkTyped ==
    ASSUME NEW t, NEW D, Shape(t, D), NEW W, NEW v, v = [n \in 0..BstMax |-> v[n]], v[0] \in W,
           \A n \in BstNodes : v[Left(t, n)] \in W /\ v[Right(t, n)] \in W => v[n] \in W
    PROVE  v \in [0..BstMax -> W]
<1> DEFINE T == {n \in 0..BstMax : v[n] \in W}
<1>1. 0 \in T
    BY LinksAre
<1>2. \A n \in BstNodes : n \notin TreeNodes(t) => n \in T
    BY TreeIs, LinksAre
<1>3. \A n \in TreeNodes(t) : Left(t, n) \in T /\ Right(t, n) \in T => n \in T
    BY TreeIs, LinksAre
<1> HIDE DEF T
<1>4. \A n \in 0..BstMax : n \in T
    BY <1>1, <1>2, <1>3, TreeInduction
<1>5. \A n \in 0..BstMax : v[n] \in W
    BY <1>4 DEF T
<1> QED BY <1>5

LEMMA InWalkIs ==
    ASSUME NEW t, NEW D, Shape(t, D)
    PROVE  \E w \in [0..BstMax -> Seq(Data)] : InWalk(t, w) /\ InOrder(t) = w[t.child[Root]]
<1> DEFINE W == Seq(Data)
           step == [q \in (0..BstMax) \X W \X W |-> IF q[1] = 0 THEN <<>> ELSE q[2] \o <<t.data[q[1]]>> \o q[3]]
           v == CHOOSE v : v = [n \in 0..BstMax |-> IF n = 0 THEN <<>>
                                    ELSE v[Left(t, n)] \o <<t.data[n]>> \o v[Right(t, n)]]
<1>1. \A n \in BstNodes : <<t.data[n]>> \in W
    BY TreeIs DEF Data
<1>2. step \in [(0..BstMax) \X W \X W -> W]
    <2>1. ASSUME NEW n \in 0..BstMax, NEW s \in W, NEW r \in W, n # 0 PROVE s \o <<t.data[n]>> \o r \in W
        <3>1. <<t.data[n]>> \in W
            BY <1>1, <2>1, LinksAre
        <3> QED BY <3>1
    <2>2. <<>> \in W
        OBVIOUS
    <2> HIDE DEF W
    <2> QED BY <2>1, <2>2
<1>3. PICK f \in [0..BstMax -> W] :
          f = [n \in 0..BstMax |-> IF n = 0 THEN <<>> ELSE step[<<n, f[Left(t, n)], f[Right(t, n)]>>]]
    <2> HIDE DEF v
    <2>1. <<>> \in W
        BY Joined
    <2>2. PICK none, st : none = <<>> /\ none \in W /\ st = step /\ st \in [(0..BstMax) \X W \X W -> W]
        BY <1>2, <2>1
    <2> HIDE DEF W, step
    <2>3. PICK f \in [0..BstMax -> W] : Traverses(t, none, st, f)
        BY <2>2, TraversalExists
    <2> QED BY <2>2, <2>3 DEF Traverses
<1>4. ASSUME NEW n \in 0..BstMax, n # 0
      PROVE  step[<<n, f[Left(t, n)], f[Right(t, n)]>>] = f[Left(t, n)] \o <<t.data[n]>> \o f[Right(t, n)]
    <2>1. Left(t, n) \in 0..BstMax /\ Right(t, n) \in 0..BstMax
        BY <1>4, TreeIs, LinksAre
    <2>2. f[Left(t, n)] \in W /\ f[Right(t, n)] \in W
        <3> HIDE DEF W, step
        <3> QED BY <1>3, <2>1
    <2> HIDE DEF W
    <2> QED BY <1>4, <2>2
<1>5. InWalk(t, f)
    <2> HIDE DEF W, step
    <2>1. \A n \in 0..BstMax : f[n] = IF n = 0 THEN <<>> ELSE f[Left(t, n)] \o <<t.data[n]>> \o f[Right(t, n)]
        BY <1>3, <1>4
    <2>2. f = [n \in 0..BstMax |-> f[n]]
        BY <1>3
    <2> QED BY <2>1, <2>2 DEF InWalk
<1>6. InWalk(t, v)
    BY <1>5 DEF InWalk
<1>7. InOrder(t) = v[t.child[Root]]
    BY DEF InOrder
<1>8. v \in [0..BstMax -> W]
    <2> HIDE DEF v
    <2>1. /\ v = [n \in 0..BstMax |-> v[n]] /\ v[0] = <<>>
          /\ \A n \in BstNodes : v[n] = v[Left(t, n)] \o <<t.data[n]>> \o v[Right(t, n)]
        BY <1>6, LinksAre DEF InWalk
    <2>2. ASSUME NEW n \in BstNodes, v[Left(t, n)] \in W, v[Right(t, n)] \in W PROVE v[n] \in W
        <3>1. t.data[n] \in Data
            BY TreeIs DEF Data
        <3> QED BY <2>1, <2>2, <3>1, Joined
    <2>3. v[0] \in W
        BY <2>1, Joined
    <2> HIDE DEF W
    <2> QED BY <2>1, <2>2, <2>3, WalkTyped
<1> HIDE DEF v
<1> QED BY <1>6, <1>7, <1>8

LEMMA PreWalkIs ==
    ASSUME NEW t, NEW D, Shape(t, D)
    PROVE  \E w \in [0..BstMax -> Seq(Data)] : PreWalk(t, w) /\ PreOrder(t) = w[t.child[Root]]
<1> DEFINE W == Seq(Data)
           step == [q \in (0..BstMax) \X W \X W |-> IF q[1] = 0 THEN <<>> ELSE <<t.data[q[1]]>> \o q[2] \o q[3]]
           v == CHOOSE v : v = [n \in 0..BstMax |-> IF n = 0 THEN <<>>
                                    ELSE <<t.data[n]>> \o v[Left(t, n)] \o v[Right(t, n)]]
<1>1. \A n \in BstNodes : <<t.data[n]>> \in W
    BY TreeIs DEF Data
<1>2. step \in [(0..BstMax) \X W \X W -> W]
    <2>1. ASSUME NEW n \in 0..BstMax, NEW s \in W, NEW r \in W, n # 0 PROVE <<t.data[n]>> \o s \o r \in W
        <3>1. <<t.data[n]>> \in W
            BY <1>1, <2>1, LinksAre
        <3> QED BY <3>1
    <2>2. <<>> \in W
        OBVIOUS
    <2> HIDE DEF W
    <2> QED BY <2>1, <2>2
<1>3. PICK f \in [0..BstMax -> W] :
          f = [n \in 0..BstMax |-> IF n = 0 THEN <<>> ELSE step[<<n, f[Left(t, n)], f[Right(t, n)]>>]]
    <2> HIDE DEF v
    <2>1. <<>> \in W
        BY Joined
    <2>2. PICK none, st : none = <<>> /\ none \in W /\ st = step /\ st \in [(0..BstMax) \X W \X W -> W]
        BY <1>2, <2>1
    <2> HIDE DEF W, step
    <2>3. PICK f \in [0..BstMax -> W] : Traverses(t, none, st, f)
        BY <2>2, TraversalExists
    <2> QED BY <2>2, <2>3 DEF Traverses
<1>4. ASSUME NEW n \in 0..BstMax, n # 0
      PROVE  step[<<n, f[Left(t, n)], f[Right(t, n)]>>] = <<t.data[n]>> \o f[Left(t, n)] \o f[Right(t, n)]
    <2>1. Left(t, n) \in 0..BstMax /\ Right(t, n) \in 0..BstMax
        BY <1>4, TreeIs, LinksAre
    <2>2. f[Left(t, n)] \in W /\ f[Right(t, n)] \in W
        <3> HIDE DEF W, step
        <3> QED BY <1>3, <2>1
    <2> HIDE DEF W
    <2> QED BY <1>4, <2>2
<1>5. PreWalk(t, f)
    <2> HIDE DEF W, step
    <2>1. \A n \in 0..BstMax : f[n] = IF n = 0 THEN <<>> ELSE <<t.data[n]>> \o f[Left(t, n)] \o f[Right(t, n)]
        BY <1>3, <1>4
    <2>2. f = [n \in 0..BstMax |-> f[n]]
        BY <1>3
    <2> QED BY <2>1, <2>2 DEF PreWalk
<1>6. PreWalk(t, v)
    BY <1>5 DEF PreWalk
<1>7. PreOrder(t) = v[t.child[Root]]
    BY DEF PreOrder
<1>8. v \in [0..BstMax -> W]
    <2> HIDE DEF v
    <2>1. /\ v = [n \in 0..BstMax |-> v[n]] /\ v[0] = <<>>
          /\ \A n \in BstNodes : v[n] = <<t.data[n]>> \o v[Left(t, n)] \o v[Right(t, n)]
        BY <1>6, LinksAre DEF PreWalk
    <2>2. ASSUME NEW n \in BstNodes, v[Left(t, n)] \in W, v[Right(t, n)] \in W PROVE v[n] \in W
        <3>1. t.data[n] \in Data
            BY TreeIs DEF Data
        <3> QED BY <2>1, <2>2, <3>1, Joined
    <2>3. v[0] \in W
        BY <2>1, Joined
    <2> HIDE DEF W
    <2> QED BY <2>1, <2>2, <2>3, WalkTyped
<1> HIDE DEF v
<1> QED BY <1>6, <1>7, <1>8

LEMMA JoinIs ==
    ASSUME NEW S, NEW s \in Seq(S), NEW r \in Seq(S), NEW d \in S, NEW q, q = s \o <<d>> \o r
    PROVE  /\ Len(q) = Len(s) + 1 + Len(r) /\ Len(s) \in Nat /\ Len(r) \in Nat
           /\ \A i \in 1..Len(q) : q[i] = IF i <= Len(s) THEN s[i]
                                        ELSE IF i = Len(s) + 1 THEN d ELSE r[i - Len(s) - 1]
           /\ q \in Seq(S)
<1>1. PICK p : p = s \o <<d>>
    OBVIOUS
<1>2. p \in Seq(S) /\ Len(p) = Len(s) + 1 /\ Len(s) \in Nat /\ Len(r) \in Nat
      /\ \A i \in 1..Len(p) : p[i] = IF i <= Len(s) THEN s[i] ELSE d
    BY <1>1
<1>3. q = p \o r
    BY <1>1
<1>4. q \in Seq(S) /\ Len(q) = Len(p) + Len(r)
      /\ \A i \in 1..Len(q) : q[i] = IF i <= Len(p) THEN p[i] ELSE r[i - Len(p)]
    BY <1>2, <1>3
<1>5. ASSUME NEW i \in 1..Len(q)
      PROVE  q[i] = IF i <= Len(s) THEN s[i] ELSE IF i = Len(s) + 1 THEN d ELSE r[i - Len(s) - 1]
    <2>1. i - (Len(s) + 1) = i - Len(s) - 1
        BY <1>2
    <2>2. CASE i <= Len(s) + 1
        <3>1. i \in 1..Len(p) /\ q[i] = p[i]
            BY <1>2, <1>4, <2>2
        <3> QED BY <1>2, <2>2, <3>1
    <2>3. CASE ~(i <= Len(s) + 1)
        BY <1>2, <1>4, <2>1, <2>3
    <2> QED BY <2>2, <2>3
<1> QED BY <1>2, <1>4, <1>5

LEMMA EmptyShape == Shape(EmptyTree, [n \in 0..BstMax |-> {}])
<1>1. PICK t, D : t = EmptyTree /\ D = [n \in 0..BstMax |-> {}]
    OBVIOUS
<1>2. /\ t.child = [l \in Links |-> 0] /\ t.parent = [n \in BstNodes |-> 0]
      /\ t.data = [n \in BstNodes |-> NoData] /\ t.len = 0
      /\ t = [child |-> [l \in Links |-> 0], parent |-> [n \in BstNodes |-> 0],
              data |-> [n \in BstNodes |-> NoData], len |-> 0]
    BY <1>1 DEF EmptyTree
<1>3. t \in Trees
    <2>1. 0 \in 0..BstMax
        BY LinksAre
    <2> QED BY <1>2, <2>1 DEF Trees
<1>4. TreeNodes(t) = {} /\ \A n \in BstNodes : t.data[n] = NoData /\ t.parent[n] = 0
    BY <1>2 DEF TreeNodes
<1>5. \A l \in Links : t.child[l] = 0
    BY <1>2
<1>6. \A n \in BstNodes : Left(t, n) = 0 /\ Right(t, n) = 0 /\ D[n] = {}
    BY <1>1, <1>5, LinksAre DEF Left, Right
<1>7. \A n \in BstNodes : NodeOK(t, D, n)
    BY <1>4, <1>6 DEF NodeOK
<1>8. Cardinality(TreeNodes(t)) = t.len
    BY <1>2, <1>4, FS_EmptySet
<1>9. D \in [0..BstMax -> SUBSET BstNodes] /\ D[0] = {}
    BY <1>1, LinksAre
<1>10. t.child[Root] = 0 /\ t.child[<<0, "left">>] = 0 /\ \A l \in Links : LinkOK(t, l)
    BY <1>5, LinksAre DEF LinkOK
<1>11. Shape(t, D)
    BY <1>3, <1>4, <1>6, <1>7, <1>8, <1>9, <1>10 DEF Shape
<1> QED BY <1>1, <1>11
=============================================================================
