------------------------------ MODULE BstProofs ------------------------------
(***************************************************************************)
(* Proofs about the binary search tree, for any elements, number of nodes   *)
(* and width of an int: the tree is in order and the iterations go along    *)
(* that order, as long as the distances of the elements fit in an int, and  *)
(* the destructor gets each element once, as long as no node with two       *)
(* children is removed.                                                    *)
(***************************************************************************)
EXTENDS Bst, TreeProofs

(***************************************************************************)
(* Traversals.                                                             *)
(***************************************************************************)
JoinsTo(s, d, r, q) ==
    /\ ToSet(q) = ToSet(s) \cup {d} \cup ToSet(r)
    /\ /\ d \in Int /\ ToSet(s) \subseteq Int /\ ToSet(r) \subseteq Int
       /\ Ascending(s) /\ Ascending(r)
       /\ \A y \in ToSet(s) : y < d
       /\ \A y \in ToSet(r) : y > d
       => Ascending(q)

LEMMA AscendingJoin ==
    ASSUME NEW S, NEW s \in Seq(S), NEW r \in Seq(S), NEW d \in S, NEW q, q = s \o <<d>> \o r
    PROVE  JoinsTo(s, d, r, q)
<1>1. /\ Len(q) = Len(s) + 1 + Len(r) /\ Len(s) \in Nat /\ Len(r) \in Nat
      /\ \A i \in 1..Len(q) : q[i] = IF i <= Len(s) THEN s[i]
                                   ELSE IF i = Len(s) + 1 THEN d ELSE r[i - Len(s) - 1]
      /\ q \in Seq(S)
    BY JoinIs
<1>2. DOMAIN q = 1..Len(q) /\ DOMAIN s = 1..Len(s) /\ DOMAIN r = 1..Len(r)
    BY <1>1
<1>3. ASSUME NEW y \in ToSet(q) PROVE y \in ToSet(s) \cup {d} \cup ToSet(r)
    <2>1. PICK i \in 1..Len(q) : y = q[i]
        BY <1>2 DEF ToSet
    <2>2. \/ i \in 1..Len(s) /\ y = s[i]
          \/ y = d
          \/ i - Len(s) - 1 \in 1..Len(r) /\ y = r[i - Len(s) - 1]
        BY <1>1, <2>1
    <2> QED BY <1>2, <2>2 DEF ToSet
<1>4. ASSUME NEW y \in ToSet(s) \cup {d} \cup ToSet(r) PROVE y \in ToSet(q)
    <2>1. SUFFICES \E i \in 1..Len(q) : y = q[i]
        BY <1>2 DEF ToSet
    <2>2. CASE y \in ToSet(s)
        <3>1. PICK i \in 1..Len(s) : y = s[i]
            BY <1>2, <2>2 DEF ToSet
        <3>2. i \in 1..Len(q) /\ q[i] = s[i]
            BY <1>1, <3>1
        <3> QED BY <3>1, <3>2
    <2>3. CASE y = d
        <3>1. Len(s) + 1 \in 1..Len(q) /\ q[Len(s) + 1] = d
            BY <1>1
        <3> QED BY <2>3, <3>1
    <2>4. CASE y \in ToSet(r)
        <3>1. PICK i \in 1..Len(r) : y = r[i]
            BY <1>2, <2>4 DEF ToSet
        <3>2. PICK j : j = i + Len(s) + 1
            OBVIOUS
        <3>3. j \in 1..Len(q) /\ j - Len(s) - 1 = i /\ ~(j <= Len(s)) /\ j # Len(s) + 1
            BY <1>1, <3>1, <3>2
        <3>4. q[j] = r[i]
            BY <1>1, <3>3
        <3> QED BY <3>1, <3>3, <3>4
    <2> QED BY <2>2, <2>3, <2>4
<1>5. ASSUME /\ d \in Int /\ ToSet(s) \subseteq Int /\ ToSet(r) \subseteq Int
             /\ Ascending(s) /\ Ascending(r)
             /\ \A y \in ToSet(s) : y < d
             /\ \A y \in ToSet(r) : y > d,
             NEW i \in 1..Len(q) - 1
      PROVE  q[i] < q[i + 1]
    <2>1. i \in 1..Len(q) /\ i + 1 \in 1..Len(q) /\ i \in Int
        BY <1>1
    <2>2. /\ \A j \in 1..Len(s) : s[j] \in ToSet(s)
          /\ \A j \in 1..Len(r) : r[j] \in ToSet(r)
        BY <1>2 DEF ToSet
    <2>3. CASE i < Len(s)
        <3>1. q[i] = s[i] /\ q[i + 1] = s[i + 1] /\ i \in 1..Len(s) - 1
            BY <1>1, <2>1, <2>3
        <3> QED BY <1>5, <3>1 DEF Ascending
    <2>4. CASE i = Len(s)
        <3>1. q[i] = s[i] /\ q[i + 1] = d /\ i \in 1..Len(s)
            BY <1>1, <2>1, <2>4
        <3> QED BY <1>5, <2>2, <3>1
    <2>5. CASE i = Len(s) + 1
        <3>1. ~(i <= Len(s)) /\ ~(i + 1 <= Len(s)) /\ i + 1 # Len(s) + 1 /\ i + 1 - Len(s) - 1 = 1
              /\ 1 \in 1..Len(r)
            BY <1>1, <2>1, <2>5
        <3>2. q[i] = d /\ q[i + 1] = r[1]
            BY <1>1, <2>1, <2>5, <3>1
        <3>3. r[1] \in Int /\ r[1] > d
            BY <1>5, <2>2, <3>1
        <3> QED BY <1>5, <3>2, <3>3
    <2>6. CASE i > Len(s) + 1
        <3>1. PICK j : j = i - Len(s) - 1
            OBVIOUS
        <3>2. ~(i <= Len(s)) /\ ~(i + 1 <= Len(s)) /\ i # Len(s) + 1 /\ i + 1 # Len(s) + 1
              /\ i + 1 - Len(s) - 1 = j + 1 /\ j \in 1..Len(r) - 1
            BY <1>1, <2>1, <2>6, <3>1
        <3>3. q[i] = r[j] /\ q[i + 1] = r[j + 1]
            BY <1>1, <2>1, <3>1, <3>2
        <3> QED BY <1>5, <3>2, <3>3 DEF Ascending
    <2> QED BY <1>1, <2>1, <2>3, <2>4, <2>5, <2>6
<1>6. ToSet(q) = ToSet(s) \cup {d} \cup ToSet(r)
    BY <1>3, <1>4
<1>7. ASSUME /\ d \in Int /\ ToSet(s) \subseteq Int /\ ToSet(r) \subseteq Int
             /\ Ascending(s) /\ Ascending(r)
             /\ \A y \in ToSet(s) : y < d
             /\ \A y \in ToSet(r) : y > d
      PROVE  Ascending(q)
    BY <1>5, <1>7 DEF Ascending
<1> QED BY <1>6, <1>7 DEF JoinsTo

(* A traversal in order shows the data of the subtree, ascending.           *)
LEMMA InWalkShows ==
    ASSUME NEW t, NEW D, Shape(t, D), NEW w \in [0..BstMax -> Seq(Data)], InWalk(t, w)
    PROVE  \A n \in 0..BstMax : n = 0 \/ n \in TreeNodes(t) =>
               /\ ToSet(w[n]) = {t.data[m] : m \in D[n]}
               /\ Ordered(t, D) => Ascending(w[n])
<1> DEFINE P(n) == /\ ToSet(w[n]) = {t.data[m] : m \in D[n]}
                   /\ Ordered(t, D) => Ascending(w[n])
           T == {n \in 0..BstMax : n = 0 \/ n \in TreeNodes(t) => P(n)}
<1>1. P(0)
    <2>1. w[0] = <<>> /\ D[0] = {}
        BY LinksAre, TreeIs DEF InWalk
    <2>2. ToSet(<<>>) = {} /\ Ascending(<<>>)
        BY DEF ToSet, Ascending
    <2> QED BY <2>1, <2>2
<1>2. ASSUME NEW n \in TreeNodes(t), Left(t, n) \in T, Right(t, n) \in T PROVE P(n)
    <2>1. PICK a, b : a = Left(t, n) /\ b = Right(t, n)
        OBVIOUS
    <2>2. a = 0 \/ a \in TreeNodes(t)
        BY <2>1, TreeIs, LinksAre, LinkHolder DEF Left
    <2>3. b = 0 \/ b \in TreeNodes(t)
        BY <2>1, TreeIs, LinksAre, LinkHolder DEF Right
    <2>4. P(a) /\ P(b) /\ a \in 0..BstMax /\ b \in 0..BstMax
        BY <1>2, <2>1, <2>2, <2>3
    <2>5. D[n] = {n} \cup D[a] \cup D[b] /\ n \in 0..BstMax /\ n # 0 /\ t.data[n] \in Data
        BY <2>1, TreeIs, LinksAre DEF NodeOK, TreeNodes, Data
    <2>6. PICK s, r, d, q : s = w[a] /\ r = w[b] /\ d = t.data[n] /\ q = w[n]
        OBVIOUS
    <2>7. s \in Seq(Data) /\ r \in Seq(Data) /\ d \in Data
        BY <2>4, <2>5, <2>6
    <2>8. q = s \o <<d>> \o r
        BY <2>1, <2>5, <2>6 DEF InWalk
    <2>9. /\ ToSet(q) = ToSet(s) \cup {d} \cup ToSet(r)
          /\ /\ d \in Int /\ ToSet(s) \subseteq Int /\ ToSet(r) \subseteq Int
             /\ Ascending(s) /\ Ascending(r)
             /\ \A y \in ToSet(s) : y < d
             /\ \A y \in ToSet(r) : y > d
             => Ascending(q)
        <3>1. JoinsTo(s, d, r, q)
            BY <2>7, <2>8, AscendingJoin
        <3> QED BY <3>1 DEF JoinsTo
    <2>10. ToSet(s) = {t.data[m] : m \in D[a]} /\ ToSet(r) = {t.data[m] : m \in D[b]}
        BY <2>4, <2>6
    <2>11. ToSet(q) = {t.data[m] : m \in D[n]}
        BY <2>5, <2>6, <2>9, <2>10
    <2>12. ASSUME Ordered(t, D) PROVE Ascending(q)
        <3>1. Ascending(s) /\ Ascending(r)
            BY <2>4, <2>6, <2>12
        <3>2. (\A m \in D[a] : t.data[m] < d) /\ (\A m \in D[b] : t.data[m] > d)
            BY <2>1, <2>6, <2>12 DEF Ordered
        <3>3. d \in Int /\ (\A m \in D[a] : t.data[m] \in Int) /\ (\A m \in D[b] : t.data[m] \in Int)
            <4>1. D[a] \subseteq TreeNodes(t) /\ D[b] \subseteq TreeNodes(t)
                BY <2>4, TreeIs
            <4> QED BY <2>6, <4>1, DataIs
        <3> QED BY <2>9, <2>10, <3>1, <3>2, <3>3
    <2> QED BY <2>6, <2>11, <2>12
<1> HIDE DEF P
<1>3. 0 \in T /\ \A n \in BstNodes : n \notin TreeNodes(t) => n \in T
    BY <1>1, LinksAre
<1>4. \A n \in TreeNodes(t) : Left(t, n) \in T /\ Right(t, n) \in T => n \in T
    BY <1>2, TreeIs, LinksAre
<1> HIDE DEF T
<1>5. \A n \in 0..BstMax : n \in T
    BY <1>3, <1>4, TreeInduction
<1> QED BY <1>5 DEF T, P

LEMMA PreWalkShows ==
    ASSUME NEW t, NEW D, Shape(t, D), NEW w \in [0..BstMax -> Seq(Data)], PreWalk(t, w)
    PROVE  \A n \in 0..BstMax : n = 0 \/ n \in TreeNodes(t) => Len(w[n]) = Cardinality(D[n])
<1> DEFINE T == {n \in 0..BstMax : n = 0 \/ n \in TreeNodes(t) => Len(w[n]) = Cardinality(D[n])}
<1>1. Len(w[0]) = Cardinality(D[0])
    <2>1. w[0] = <<>> /\ D[0] = {}
        BY LinksAre, TreeIs DEF PreWalk
    <2>2. Cardinality({}) = 0 /\ Len(<<>>) = 0
        BY FS_EmptySet
    <2> QED BY <2>1, <2>2
<1>2. ASSUME NEW n \in TreeNodes(t), Left(t, n) \in T, Right(t, n) \in T
      PROVE  Len(w[n]) = Cardinality(D[n])
    <2>1. PICK a, b : a = Left(t, n) /\ b = Right(t, n)
        OBVIOUS
    <2>2. a = 0 \/ a \in TreeNodes(t)
        BY <2>1, TreeIs, LinksAre, LinkHolder DEF Left
    <2>3. b = 0 \/ b \in TreeNodes(t)
        BY <2>1, TreeIs, LinksAre, LinkHolder DEF Right
    <2>4. Len(w[a]) = Cardinality(D[a]) /\ Len(w[b]) = Cardinality(D[b])
          /\ a \in 0..BstMax /\ b \in 0..BstMax
        BY <1>2, <2>1, <2>2, <2>3
    <2>5. D[n] = {n} \cup D[a] \cup D[b] /\ n \in 0..BstMax /\ n # 0 /\ t.data[n] \in Data
          /\ n \notin D[a] /\ n \notin D[b] /\ D[a] \cap D[b] = {}
        BY <2>1, TreeIs, LinksAre DEF NodeOK, TreeNodes, Data
    <2>6. PICK A, B : A = D[a] /\ B = D[b] /\ IsFiniteSet(A) /\ IsFiniteSet(B)
        BY <2>4, RankIs
    <2>7. IsFiniteSet(A \cup B) /\ Cardinality(A \cup B) = Cardinality(A) + Cardinality(B) - Cardinality(A \cap B)
        BY <2>6, FS_Union
    <2>8. PICK U : U = A \cup B /\ IsFiniteSet(U) /\ n \notin U
        BY <2>5, <2>6, <2>7
    <2>9. Cardinality(U \cup {n}) = Cardinality(U) + 1
        <3>1. IF n \in U THEN Cardinality(U \cup {n}) = Cardinality(U)
                         ELSE Cardinality(U \cup {n}) = Cardinality(U) + 1
            BY <2>8, FS_AddElement
        <3> QED BY <2>8, <3>1
    <2>10. Cardinality(A) \in Nat /\ Cardinality(B) \in Nat /\ Cardinality(A \cap B) = 0
        <3>1. A \cap B = {}
            BY <2>5, <2>6
        <3>2. Cardinality(A \cap B) = 0
            BY <3>1, FS_EmptySet
        <3> QED BY <2>6, <3>2, FS_CardinalityType
    <2>11. D[n] = U \cup {n}
        BY <2>5, <2>6, <2>8
    <2>12. Cardinality(D[n]) = Cardinality(A) + Cardinality(B) + 1
        BY <2>7, <2>8, <2>9, <2>10, <2>11
    <2>13. PICK s, r, d, q : s = w[a] /\ r = w[b] /\ d = t.data[n] /\ q = w[n]
        OBVIOUS
    <2>14. s \in Seq(Data) /\ r \in Seq(Data) /\ d \in Data
        BY <2>4, <2>5, <2>13
    <2>15. q = <<d>> \o s \o r
        BY <2>1, <2>5, <2>13 DEF PreWalk
    <2>16. Len(q) = 1 + Len(s) + Len(r)
        BY <2>14, <2>15
    <2> QED BY <2>4, <2>6, <2>10, <2>12, <2>13, <2>16
<1>3. 0 \in T /\ \A n \in BstNodes : n \notin TreeNodes(t) => n \in T
    BY <1>1, LinksAre
<1>4. \A n \in TreeNodes(t) : Left(t, n) \in T /\ Right(t, n) \in T => n \in T
    BY <1>2, TreeIs, LinksAre
<1> HIDE DEF T
<1>5. \A n \in 0..BstMax : n \in T
    BY <1>3, <1>4, TreeInduction
<1> QED BY <1>5 DEF T

LEMMA Traversals ==
    ASSUME NEW t, NEW D, Shape(t, D)
    PROVE  /\ ToSet(InOrder(t)) = TreeData(t) /\ (Ordered(t, D) => Ascending(InOrder(t)))
           /\ Len(PreOrder(t)) = t.len
<1>1. PICK r : r = t.child[Root] /\ r \in 0..BstMax /\ D[r] = TreeNodes(t)
               /\ (r = 0 \/ r \in TreeNodes(t))
    <2>1. t.child[Root] = 0 \/ t.child[Root] \in TreeNodes(t)
        BY LinksAre, LinkHolder
    <2> QED BY <2>1, LinksAre, TreeIs DEF Shape
<1>2. PICK w \in [0..BstMax -> Seq(Data)] : InWalk(t, w) /\ InOrder(t) = w[r]
    BY <1>1, InWalkIs
<1>3. PICK v \in [0..BstMax -> Seq(Data)] : PreWalk(t, v) /\ PreOrder(t) = v[r]
    BY <1>1, PreWalkIs
<1>4. ToSet(w[r]) = {t.data[m] : m \in D[r]} /\ (Ordered(t, D) => Ascending(w[r]))
    <2>1. \A n \in 0..BstMax : n = 0 \/ n \in TreeNodes(t) =>
               /\ ToSet(w[n]) = {t.data[m] : m \in D[n]}
               /\ Ordered(t, D) => Ascending(w[n])
        BY ONLY Shape(t, D), <1>2, InWalkShows
    <2> QED BY <1>1, <2>1
<1>5. Len(v[r]) = Cardinality(D[r])
    BY <1>1, <1>3, PreWalkShows
<1>6. Cardinality(TreeNodes(t)) = t.len
    BY DEF Shape
<1> QED BY <1>1, <1>2, <1>3, <1>4, <1>5, <1>6 DEF TreeData

(***************************************************************************)
(* The comparator, and what the steps do to the tree.                       *)
(***************************************************************************)
LEMMA SmallMod ==
    ASSUME NEW a \in Nat, NEW b \in Nat, a < b
    PROVE  a % b = a
OBVIOUS

Near(x, y) == x - y \in -IntHalf..IntHalf - 1

LEMMA PtrExact ==
    ASSUME NEW t, NEW D, Shape(t, D), NEW x \in Elems, \A y \in TreeData(t) : Near(x, y)
    PROVE  Exact(t, ptrcmp(x), x)
<1>1. x \in Int /\ IntHalf \in Nat /\ IntHalf > 0
    BY BstAssumption, ElemsAssumption
<1>2. ASSUME NEW y \in Elems, y \in Int, Near(x, y) PROVE ptrcmp(x)[y] = x - y
    <2>1. PICK a, b : a = x - y + IntHalf /\ b = 2 * IntHalf /\ a \in Nat /\ b \in Nat /\ a < b
        BY <1>1, <1>2 DEF Near
    <2>2. a % b = a
        BY <2>1, SmallMod
    <2>3. ptrcmp(x)[y] = (a % b) - IntHalf
        BY <2>1 DEF ptrcmp
    <2> QED BY <1>1, <1>2, <2>1, <2>2, <2>3
<1>3. \A n \in TreeNodes(t) : t.data[n] \in TreeData(t) /\ t.data[n] \in Elems /\ t.data[n] \in Int
    BY DataIs DEF TreeData
<1> QED BY <1>1, <1>2, <1>3 DEF Exact

(* The tree t of elements st, ow of which are owned; f, sw and br are far,  *)
(* swapped and bbroken.                                                    *)
InOrderOf(t, D, st) ==
    Ordered(t, D) /\ st = TreeData(t) /\ \A x, y \in st : Near(x, y)
TreeOK(t, st, ow, f, sw, br) ==
    \E D : /\ Shape(t, D)
           /\ ~f => InOrderOf(t, D, st)
           /\ ~sw => ow = TreeData(t) /\ ~br
           /\ ~f \/ ~sw => Distinct(t)

LEMMA InsertKeeps ==
    ASSUME NEW t, NEW st, NEW ow, NEW f, NEW sw, NEW br, TreeOK(t, st, ow, f, sw, br),
           NEW x \in Elems, x \notin ow, TreeNodes(t) # BstNodes, Found(t, ptrcmp(x)) = 0,
           NEW g, ~g => ~f /\ \A y \in st : Near(x, y) /\ Near(y, x)
    PROVE  TreeOK(insert_node(t, bst_find(t, ptrcmp(x)), x), st \cup {x}, ow \cup {x}, g, sw, br)
<1>1. PICK D : /\ Shape(t, D)
               /\ ~f => InOrderOf(t, D, st)
               /\ ~sw => ow = TreeData(t) /\ ~br
               /\ ~f \/ ~sw => Distinct(t)
    BY DEF TreeOK
<1>2. PICK cmp, l, u : cmp = ptrcmp(x) /\ l = bst_find(t, cmp) /\ u = insert_node(t, l, x)
    OBVIOUS
<1>3. FoundFrom(t, D, cmp, Root, l)
    BY <1>1, <1>2, FindIs
<1>4. l \in Links /\ t.child[l] = 0 /\ (l = Root \/ l[1] \in TreeNodes(t))
      /\ \A m \in TreeNodes(t) : /\ Under(t, D, l, m, "left") => ~(cmp[t.data[m]] > 0)
                                 /\ Under(t, D, l, m, "left") => cmp[t.data[m]] # 0
                                 /\ Under(t, D, l, m, "right") => cmp[t.data[m]] > 0
    <2>1. D[t.child[Root]] = TreeNodes(t)
        BY <1>1 DEF Shape
    <2> QED BY <1>2, <1>3, <2>1 DEF FoundFrom, Found
<1>5. PICK F : /\ Shape(u, F) /\ TreeData(u) = TreeData(t) \cup {x}
               /\ Ordered(t, D) /\ Belongs(t, D, l, x) => Ordered(u, F)
               /\ (\A a, b \in TreeNodes(t) : t.data[a] = t.data[b] => a = b) /\ x \notin TreeData(t)
                     => \A a, b \in TreeNodes(u) : u.data[a] = u.data[b] => a = b
    BY <1>1, <1>2, <1>4, InsertTree
<1>6. ASSUME ~g PROVE InOrderOf(u, F, st \cup {x}) /\ x \notin TreeData(t)
    <2>1. Ordered(t, D) /\ st = TreeData(t) /\ \A y, z \in st : Near(y, z)
        BY <1>1, <1>6 DEF InOrderOf
    <2>2. Exact(t, cmp, x)
        BY <1>1, <1>2, <1>6, <2>1, PtrExact
    <2>3. x \notin TreeData(t)
        BY <1>1, <1>2, <2>1, <2>2, FindExact
    <2>4. Belongs(t, D, l, x)
        <3>1. x \in Int /\ \A n \in TreeNodes(t) : t.data[n] \in Int /\ cmp[t.data[n]] = x - t.data[n]
            BY <2>2 DEF Exact
        <3> QED BY <1>4, <3>1 DEF Belongs
    <2>5. Near(x, x)
        BY BstAssumption, ElemsAssumption DEF Near
    <2> QED BY <1>5, <1>6, <2>1, <2>3, <2>4, <2>5 DEF InOrderOf
<1>7. ASSUME ~sw PROVE ow \cup {x} = TreeData(u) /\ ~br /\ x \notin TreeData(t)
    BY <1>1, <1>5, <1>7
<1>8. ASSUME ~g \/ ~sw PROVE Distinct(u)
    BY <1>1, <1>5, <1>6, <1>7, <1>8 DEF Distinct
<1> QED BY <1>2, <1>5, <1>6, <1>7, <1>8 DEF TreeOK

(* The node v goes; it is not before n in the order.                        *)
Goes(t, n, v, u) ==
    /\ v \in TreeNodes(t) /\ TreeNodes(u) = TreeNodes(t) \ {v}
    /\ \A m \in TreeNodes(u) : m # n => u.data[m] = t.data[m]

LEMMA RemoveKeeps ==
    ASSUME NEW t, NEW st, NEW ow, NEW f, NEW sw, NEW br, TreeOK(t, st, ow, f, sw, br),
           NEW l \in Links, t.child[l] # 0, NEW sx, NEW bx,
           ~sx => ~sw /\ ~TwoChildren(t, l), bx => br \/ DtorArg(t, l) \notin ow
    PROVE  TreeOK(remove_node(t, l), st \ {t.data[t.child[l]]}, ow \ {DtorArg(t, l)}, f, sx, bx)
<1>1. PICK D : /\ Shape(t, D)
               /\ ~f => InOrderOf(t, D, st)
               /\ ~sw => ow = TreeData(t) /\ ~br
               /\ ~f \/ ~sw => Distinct(t)
    BY DEF TreeOK
<1>2. PICK n, x, u : n = t.child[l] /\ x = t.data[n] /\ u = remove_node(t, l) /\ n \in TreeNodes(t)
    BY <1>1, LinkHolder
<1>3. PICK v, F : /\ Removes(t, D, l, v, u, F)
                  /\ Distinct(t) => Distinct(u) /\ TreeData(u) = TreeData(t) \ {x}
                  /\ ~TwoChildren(t, l) => v = t.child[l] /\ DtorArg(t, l) = x
                  /\ v \in D[t.child[l]]
    BY <1>1, <1>2, RemoveTree
<1>4. /\ Shape(u, F) /\ v \in TreeNodes(t)
      /\ TreeNodes(u) = TreeNodes(t) \ {v}
      /\ \A m \in TreeNodes(u) : u.data[m] = IF m = n THEN t.data[v] ELSE t.data[m]
      /\ Ordered(t, D) => Ordered(u, F)
    BY <1>2, <1>3 DEF Removes
<1>6. ASSUME ~f PROVE InOrderOf(u, F, st \ {x})
    BY <1>1, <1>3, <1>4, <1>6 DEF InOrderOf
<1>7. ASSUME ~sx PROVE ow \ {DtorArg(t, l)} = TreeData(u) /\ ~bx
    <2>1. ~sw /\ ~TwoChildren(t, l) /\ ow = TreeData(t) /\ ~br /\ Distinct(t) /\ DtorArg(t, l) = x
        BY <1>1, <1>3, <1>7
    <2>2. x \in TreeData(t)
        BY <1>2 DEF TreeData
    <2> QED BY <1>3, <2>1, <2>2
<1>8. ASSUME ~f \/ ~sx PROVE Distinct(u)
    BY <1>1, <1>3, <1>8
<1>10. TreeOK(u, st \ {x}, ow \ {DtorArg(t, l)}, f, sx, bx)
    BY <1>4, <1>6, <1>7, <1>8 DEF TreeOK
<1> QED BY <1>2, <1>10

LEMMA RemoveGoes ==
    ASSUME NEW t, NEW st, NEW ow, NEW f, NEW sw, NEW br, TreeOK(t, st, ow, f, sw, br),
           NEW l \in Links, t.child[l] # 0
    PROVE  \E v : Goes(t, t.child[l], v, remove_node(t, l)) /\ (~f => t.data[v] >= t.data[t.child[l]])
<1>1. PICK D : Shape(t, D) /\ (~f => InOrderOf(t, D, st))
    BY DEF TreeOK
<1>2. PICK n, x, u : n = t.child[l] /\ x = t.data[n] /\ u = remove_node(t, l) /\ n \in TreeNodes(t)
    BY <1>1, LinkHolder
<1>3. PICK v, F : /\ Removes(t, D, l, v, u, F)
                  /\ ~TwoChildren(t, l) => v = t.child[l] /\ DtorArg(t, l) = x
    BY <1>1, <1>2, RemoveTree
<1>4. /\ v \in TreeNodes(t) /\ TreeNodes(u) = TreeNodes(t) \ {v}
      /\ \A m \in TreeNodes(u) : u.data[m] = IF m = n THEN t.data[v] ELSE t.data[m]
    BY <1>2, <1>3 DEF Removes
<1>5. Goes(t, n, v, u)
    BY <1>4 DEF Goes
<1>9. ASSUME ~f PROVE t.data[v] >= t.data[n]
    <2>1. D[n] = {n} \cup D[Left(t, n)] \cup D[Right(t, n)]
        BY <1>1, <1>2, TreeIs DEF NodeOK, TreeNodes
    <2>2. t.data[n] \in Int /\ t.data[v] \in Int
        BY <1>1, <1>2, <1>4, DataIs
    <2>3. CASE v = n
        BY <2>2, <2>3
    <2>4. CASE v \in D[Right(t, n)]
        BY <1>1, <1>2, <1>9, <2>2, <2>4 DEF InOrderOf, Ordered
    <2>5. v = n \/ v \in D[Right(t, n)]
        <3>1. CASE TwoChildren(t, l)
            <4>1. v = t.child[Victim(t, l)]
                BY <1>3 DEF Removes
            <4> QED BY <1>1, <1>2, <3>1, <4>1, VictimIs
        <3>2. CASE ~TwoChildren(t, l)
            BY <1>2, <1>3, <3>2
        <3> QED BY <3>1, <3>2
    <2> QED BY <2>3, <2>4, <2>5
<1> QED BY <1>2, <1>5, <1>9

LEMMA TreeOKIs ==
    ASSUME NEW t, NEW st, NEW ow, NEW f, NEW sw, NEW br, TreeOK(t, st, ow, f, sw, br)
    PROVE  /\ \A l \in Links : t.child[l] # 0 => t.parent[t.child[l]] = l[1]
           /\ Cardinality(TreeNodes(t)) = t.len /\ Len(PreOrder(t)) = t.len
           /\ ~f => /\ Ascending(InOrder(t)) /\ ToSet(InOrder(t)) = st
                    /\ \A x \in st : t.data[Found(t, ptrcmp(x))] = x
           /\ ~sw => ow = TreeData(t) /\ ~br
<1>1. PICK D : /\ Shape(t, D)
               /\ ~f => InOrderOf(t, D, st)
               /\ ~sw => ow = TreeData(t) /\ ~br
    BY DEF TreeOK
<1>2. /\ \A l \in Links : t.child[l] # 0 => t.parent[t.child[l]] = l[1]
      /\ Cardinality(TreeNodes(t)) = t.len
    BY <1>1 DEF Shape, LinkOK
<1>3. /\ ToSet(InOrder(t)) = TreeData(t) /\ (Ordered(t, D) => Ascending(InOrder(t)))
      /\ Len(PreOrder(t)) = t.len
    BY <1>1, Traversals
<1>4. ASSUME ~f, NEW x \in st PROVE t.data[Found(t, ptrcmp(x))] = x
    <2>1. Ordered(t, D) /\ st = TreeData(t) /\ \A y \in TreeData(t) : Near(x, y)
        BY <1>1, <1>4 DEF InOrderOf
    <2>2. x \in Elems
        BY <1>1, <2>1, DataIs
    <2>3. Exact(t, ptrcmp(x), x)
        BY <1>1, <2>1, <2>2, PtrExact
    <2> QED BY <1>1, <2>1, <2>3, FindExact
<1> QED BY <1>1, <1>2, <1>3, <1>4 DEF InOrderOf

(***************************************************************************)
(* Iterations.                                                             *)
(***************************************************************************)
Iterators == [on : BOOLEAN, cur : 0..BstMax, prev : 0..BstMax, removed : BOOLEAN,
              start : SUBSET Elems, seen : Seq(Elems)]
LastSeen(b) == b.seen[Len(b.seen)]

(* What was shown and what is to come, and where the walk goes on.          *)
SeenOK(t, st, b) ==
    /\ b.seen # <<>> /\ Ascending(b.seen)
    /\ b.start = ToSet(b.seen) \cup {y \in st : y > LastSeen(b)}
    /\ b.removed => LastSeen(b) \notin st
    /\ ~b.removed => t.data[b.cur] = LastSeen(b)
    /\ b.prev = 0 => \A y \in st : y >= LastSeen(b)
    /\ b.prev # 0 => /\ b.prev \in TreeNodes(t) /\ t.data[b.prev] < LastSeen(b)
                     /\ \A y \in st : y <= t.data[b.prev] \/ y >= LastSeen(b)

ItrOK(t, st, f, b) ==
    /\ b \in Iterators
    /\ b.on /\ ~b.removed => b.cur \in TreeNodes(t)
    /\ b.on /\ ~f => SeenOK(t, st, b)

LEMMA AppendSeen ==
    ASSUME NEW s \in Seq(Elems), s # <<>>, Ascending(s), NEW x \in Elems, x > s[Len(s)],
           NEW q, q = Append(s, x)
    PROVE  /\ q \in Seq(Elems) /\ q # <<>> /\ Ascending(q) /\ ToSet(q) = ToSet(s) \cup {x}
           /\ q[Len(q)] = x
<1>1. Len(s) \in Nat /\ Len(s) > 0 /\ Len(q) = Len(s) + 1 /\ q \in Seq(Elems)
      /\ q[Len(q)] = x /\ \A i \in 1..Len(s) : q[i] = s[i] /\ s[i] \in Elems
    OBVIOUS
<1>2. q # <<>>
    BY <1>1
<1>3. Ascending(q)
    <2> SUFFICES ASSUME NEW i \in 1..Len(q) - 1 PROVE q[i] < q[i + 1]
        BY DEF Ascending
    <2>1. x \in Int /\ s[Len(s)] \in Int
        <3>1. s[Len(s)] \in Elems
            BY <1>1
        <3>2. \A y \in Elems : y \in Int
            BY ElemsAssumption
        <3> QED BY <3>1, <3>2
    <2>2. CASE i = Len(s)
        BY <1>1, <2>1, <2>2
    <2>3. CASE i # Len(s)
        <3>1. i \in 1..Len(s) - 1 /\ i + 1 \in 1..Len(s) /\ i \in 1..Len(s)
            BY <1>1, <2>3
        <3> QED BY <1>1, <3>1 DEF Ascending
    <2> QED BY <2>2, <2>3
<1>4. DOMAIN q = 1..Len(s) + 1 /\ DOMAIN s = 1..Len(s)
    BY <1>1
<1>5. ToSet(q) = ToSet(s) \cup {x}
    <2>1. ASSUME NEW y \in ToSet(q) PROVE y \in ToSet(s) \cup {x}
        <3>1. PICK i \in 1..Len(s) + 1 : y = q[i]
            BY <1>4 DEF ToSet
        <3>2. i \in 1..Len(s) \/ i = Len(q)
            BY <1>1, <3>1
        <3> QED BY <1>1, <1>4, <3>1, <3>2 DEF ToSet
    <2>2. ASSUME NEW y \in ToSet(s) \cup {x} PROVE y \in ToSet(q)
        <3>1. PICK i \in 1..Len(s) + 1 : y = q[i]
            <4>1. CASE y = x
                <5>1. Len(q) \in 1..Len(s) + 1
                    BY <1>1
                <5> QED BY <1>1, <4>1, <5>1
            <4>2. CASE y \in ToSet(s)
                <5>1. PICK i \in 1..Len(s) : y = s[i]
                    BY <1>4, <4>2 DEF ToSet
                <5>2. i \in 1..Len(s) + 1
                    BY <1>1, <5>1
                <5> QED BY <1>1, <5>1, <5>2
            <4> QED BY <4>1, <4>2
        <3> QED BY <1>4, <3>1 DEF ToSet
    <2> QED BY <2>1, <2>2
<1> QED BY <1>1, <1>2, <1>3, <1>5

(* First(t).                                                               *)
LEMMA FirstIs ==
    ASSUME NEW t, NEW st, NEW ow, NEW f, NEW sw, NEW br, TreeOK(t, st, ow, f, sw, br), t.child[Root] # 0
    PROVE  /\ First(t) \in TreeNodes(t) /\ First(t) # 0 /\ t.data[First(t)] \in Elems
           /\ ~f => t.data[First(t)] \in st /\ \A y \in st : y >= t.data[First(t)]
<1>1. PICK D : Shape(t, D) /\ (~f => InOrderOf(t, D, st))
    BY DEF TreeOK
<1>2. PICK k : k = find_min_subtree(t, Root)
    OBVIOUS
<1>3. LeastFrom(t, D, Root, k)
    BY <1>1, <1>2, LinksAre, MinIs
<1>4. First(t) = t.child[k] /\ D[t.child[Root]] = TreeNodes(t)
    BY <1>1, <1>2 DEF First, Shape
<1>5. /\ First(t) \in TreeNodes(t)
      /\ Ordered(t, D) => \A m \in TreeNodes(t) : m = First(t) \/ t.data[m] > t.data[First(t)]
    BY <1>3, <1>4 DEF LeastFrom
<1>6. First(t) # 0 /\ \A m \in TreeNodes(t) : t.data[m] \in Int /\ t.data[m] \in Elems
    BY <1>1, <1>5, TreeIs, LinksAre, DataIs
<1>7. ASSUME ~f PROVE t.data[First(t)] \in st /\ \A y \in st : y >= t.data[First(t)]
    <2>1. Ordered(t, D) /\ st = TreeData(t)
        BY <1>1, <1>7 DEF InOrderOf
    <2>2. \A m \in TreeNodes(t) : t.data[m] >= t.data[First(t)]
        BY <1>5, <1>6, <2>1
    <2> QED BY <1>5, <2>1, <2>2 DEF TreeData
<1> QED BY <1>5, <1>6, <1>7

LEMMA EmptyIs ==
    ASSUME NEW t, NEW st, NEW ow, NEW f, NEW sw, NEW br, TreeOK(t, st, ow, f, sw, br)
    PROVE  /\ t.child[Root] = 0 => (~f => st = {})
           /\ t.len > 0 => t.child[Root] # 0
<1>1. PICK D : Shape(t, D) /\ (~f => InOrderOf(t, D, st))
    BY DEF TreeOK
<1>2. D[t.child[Root]] = TreeNodes(t) /\ Cardinality(TreeNodes(t)) = t.len /\ D[0] = {}
    BY <1>1 DEF Shape
<1>3. Cardinality({}) = 0
    BY FS_EmptySet
<1>4. ASSUME t.child[Root] = 0 PROVE TreeNodes(t) = {} /\ t.len = 0 /\ TreeData(t) = {}
    BY <1>2, <1>3, <1>4 DEF TreeData
<1> QED BY <1>1, <1>4 DEF InOrderOf

LEMMA NextFrom ==
    ASSUME NEW t, NEW st, NEW ow, NEW f, NEW sw, NEW br, TreeOK(t, st, ow, f, sw, br),
           NEW n \in BstNodes, NEW q, q = bst_next(t, n)
    PROVE  /\ q = 0 \/ (q \in TreeNodes(t) /\ q # 0 /\ t.data[q] \in Elems)
           /\ ~f /\ n \in TreeNodes(t) =>
                  /\ t.data[n] \in st
                  /\ q # 0 => t.data[q] > t.data[n] /\ t.data[q] \in st
                  /\ \A y \in st : y <= t.data[n] \/ (q # 0 /\ y >= t.data[q])
<1>1. PICK D : Shape(t, D) /\ (~f => InOrderOf(t, D, st))
    BY DEF TreeOK
<1>2. NextOf(t, D, n, q)
    BY <1>1, NextIs
<1>3. /\ q = 0 \/ q \in TreeNodes(t)
      /\ n \in TreeNodes(t) /\ Ordered(t, D) =>
             /\ q # 0 => t.data[q] > t.data[n]
             /\ \A k \in TreeNodes(t) : t.data[k] <= t.data[n] \/ (q # 0 /\ t.data[k] >= t.data[q])
    BY <1>2 DEF NextOf
<1>4. q = 0 \/ (q \in TreeNodes(t) /\ q # 0 /\ t.data[q] \in Elems)
    BY <1>1, <1>3, DataIs
<1>5. ASSUME ~f, n \in TreeNodes(t)
      PROVE  /\ t.data[n] \in st
             /\ q # 0 => t.data[q] > t.data[n] /\ t.data[q] \in st
             /\ \A y \in st : y <= t.data[n] \/ (q # 0 /\ y >= t.data[q])
    <2>1. Ordered(t, D) /\ st = TreeData(t)
        BY <1>1, <1>5 DEF InOrderOf
    <2> QED BY <1>3, <1>4, <1>5, <2>1 DEF TreeData
<1> QED BY <1>4, <1>5

(* BstItrStart.                                                            *)
LEMMA StartKeeps ==
    ASSUME NEW t, NEW st \in SUBSET Elems, NEW ow, NEW f, NEW sw, NEW br, TreeOK(t, st, ow, f, sw, br), t.len > 0,
           NEW b, b = [NoBstItr EXCEPT !.on = TRUE, !.cur = First(t), !.start = st,
                                       !.seen = <<t.data[First(t)]>>]
    PROVE  ItrOK(t, st, f, b) /\ b.on /\ b.prev = 0 /\ ~b.removed
<1>1. t.child[Root] # 0
    BY EmptyIs
<1>2. PICK n, x : n = First(t) /\ x = t.data[n]
    OBVIOUS
<1>3. /\ n \in TreeNodes(t) /\ n # 0 /\ x \in Elems
      /\ ~f => x \in st /\ \A y \in st : y >= x
    BY <1>1, <1>2, FirstIs
<1>4. n \in 0..BstMax /\ 0 \in 0..BstMax
    BY <1>3, LinksAre DEF TreeNodes
<1>5. PICK s : s = <<x>> /\ s \in Seq(Elems) /\ s # <<>> /\ Len(s) = 1 /\ s[1] = x /\ DOMAIN s = 1..1
    <2>1. PICK s : s = <<x>>
        OBVIOUS
    <2>2. Len(s) = 1 /\ s[1] = x /\ DOMAIN s = 1..1 /\ s # <<>>
        BY <2>1
    <2>3. s \in Seq(Elems)
        BY <1>3, <2>1
    <2> QED BY <2>1, <2>2, <2>3
<1>6. /\ b.on = TRUE /\ b.cur = n /\ b.prev = 0 /\ b.removed = FALSE /\ b.start = st /\ b.seen = s
      /\ b = [on |-> TRUE, cur |-> n, prev |-> 0, removed |-> FALSE, start |-> st, seen |-> s]
    BY <1>2, <1>5 DEF NoBstItr
<1>7. b \in Iterators
    BY <1>4, <1>5, <1>6 DEF Iterators
<1>8. ASSUME ~f PROVE SeenOK(t, st, b)
    <2>1. Ascending(s) /\ ToSet(s) = {x}
        BY <1>5 DEF Ascending, ToSet
    <2>2. st = {x} \cup {y \in st : y > x}
        <3>1. x \in Int /\ \A y \in st : y \in Int
            BY <1>3, ElemsAssumption
        <3> QED BY <1>3, <1>8, <3>1
    <2>3. LastSeen(b) = x
        BY <1>5, <1>6 DEF LastSeen
    <2> QED BY <1>2, <1>3, <1>5, <1>6, <1>8, <2>1, <2>2, <2>3 DEF SeenOK
<1> QED BY <1>3, <1>6, <1>7, <1>8 DEF ItrOK

(* BstItrAdvance.                                                          *)
ItrPrev(b) == IF b.removed THEN b.prev ELSE b.cur
ItrNext(t, b) ==
    IF ItrPrev(b) # 0 THEN bst_next(t, ItrPrev(b)) ELSE IF t.child[Root] # 0 THEN First(t) ELSE 0

Advanced(t, b) ==
    [b EXCEPT !.prev = ItrPrev(b), !.cur = ItrNext(t, b), !.removed = FALSE,
              !.seen = Append(@, t.data[ItrNext(t, b)])]

LEMMA NextKeeps ==
    ASSUME NEW t, NEW st \in SUBSET Elems, NEW ow, NEW f, NEW sw, NEW br, TreeOK(t, st, ow, f, sw, br),
           NEW b, ItrOK(t, st, f, b), b.on, NEW q, q = ItrNext(t, b), NEW c, c = Advanced(t, b)
    PROVE  /\ q # 0 => ItrOK(t, st, f, c) /\ c.on /\ c.prev = ItrPrev(b)
           /\ q = 0 /\ ~f => ToSet(b.seen) = b.start /\ Ascending(b.seen)
<1>1. PICK p : p = ItrPrev(b)
    OBVIOUS
<1>2. /\ b \in Iterators
      /\ ~b.removed => b.cur \in TreeNodes(t)
      /\ ~f => SeenOK(t, st, b)
    BY DEF ItrOK
<1>3. p \in 0..BstMax /\ b.cur \in 0..BstMax /\ b.prev \in 0..BstMax /\ b.seen \in Seq(Elems)
    BY <1>1, <1>2 DEF ItrPrev, Iterators
<1>4. /\ ~b.removed => p = b.cur /\ p \in TreeNodes(t) /\ p # 0
      /\ b.removed => p = b.prev
      /\ p # 0 => p \in BstNodes
    BY <1>1, <1>2, <1>3, LinksAre DEF ItrPrev, TreeNodes
<1>5. q = 0 \/ (q \in TreeNodes(t) /\ q # 0 /\ t.data[q] \in Elems)
    <2>1. CASE p # 0
        BY <1>1, <1>4, <2>1, NextFrom DEF ItrNext
    <2>2. CASE p = 0
        BY <1>1, <2>2, FirstIs DEF ItrNext
    <2> QED BY <2>1, <2>2
<1>6. \A y \in Elems : y \in Int
    BY ElemsAssumption
<1>7. ASSUME ~f
      PROVE  /\ \A y \in st : y > LastSeen(b) => q # 0 /\ y >= t.data[q]
             /\ q # 0 => /\ t.data[q] > LastSeen(b) /\ t.data[q] \in st
                         /\ p = 0 => \A y \in st : y >= t.data[q]
                         /\ p # 0 => /\ p \in TreeNodes(t) /\ t.data[p] < t.data[q]
                                     /\ \A y \in st : y <= t.data[p] \/ y >= t.data[q]
             /\ LastSeen(b) \in Elems
    <2>1. /\ b.seen # <<>>
          /\ b.removed => LastSeen(b) \notin st
          /\ ~b.removed => t.data[b.cur] = LastSeen(b)
          /\ b.prev = 0 => \A y \in st : y >= LastSeen(b)
          /\ b.prev # 0 => /\ b.prev \in TreeNodes(t) /\ t.data[b.prev] < LastSeen(b)
                           /\ \A y \in st : y <= t.data[b.prev] \/ y >= LastSeen(b)
        BY <1>2, <1>7 DEF SeenOK
    <2>2. PICK z : z = LastSeen(b)
        OBVIOUS
    <2>3. z \in Elems /\ z \in Int /\ \A y \in st : y \in Int
        <3>1. z \in Elems
            BY <1>3, <2>1, <2>2 DEF LastSeen
        <3> QED BY <1>6, <3>1
    <2>4. CASE p # 0
        <3>1. p \in TreeNodes(t) /\ t.data[p] <= z /\ (b.removed => t.data[p] < z)
            <4>1. PICK D : Shape(t, D)
                BY DEF TreeOK
            <4>2. \A m \in TreeNodes(t) : t.data[m] \in Int
                BY <4>1, DataIs
            <4>3. CASE b.removed
                <5>1. p \in TreeNodes(t) /\ t.data[p] < z
                    BY <1>4, <2>1, <2>2, <2>4, <4>3
                <5> QED BY <2>3, <4>2, <5>1
            <4>4. CASE ~b.removed
                BY <1>4, <2>1, <2>2, <2>3, <4>4
            <4> QED BY <4>3, <4>4
        <3>2. q = bst_next(t, p)
            BY <1>1, <2>4 DEF ItrNext
        <3>3. /\ t.data[p] \in st
              /\ q # 0 => t.data[q] > t.data[p] /\ t.data[q] \in st
              /\ \A y \in st : y <= t.data[p] \/ (q # 0 /\ y >= t.data[q])
            BY <1>4, <1>7, <2>4, <3>1, <3>2, NextFrom
        <3>4. ASSUME NEW y \in st, y > z PROVE q # 0 /\ y >= t.data[q]
            BY <2>3, <3>1, <3>3, <3>4
        <3>5. ASSUME q # 0 PROVE t.data[q] > z
            <4>1. CASE b.removed
                <5>1. t.data[q] # z /\ (t.data[q] <= t.data[p] \/ t.data[q] >= z)
                    BY <1>4, <2>1, <2>2, <2>4, <3>3, <3>5, <4>1
                <5>2. t.data[q] \in Int /\ t.data[p] \in Int
                    BY <2>3, <3>3, <3>5
                <5>3. ~(t.data[q] <= t.data[p])
                    BY <3>3, <3>5, <5>2
                <5> QED BY <2>3, <5>1, <5>2, <5>3
            <4>2. CASE ~b.removed
                BY <1>4, <2>1, <2>2, <3>3, <3>5, <4>2
            <4> QED BY <4>1, <4>2
        <3>6. ASSUME q # 0 PROVE t.data[p] < t.data[q] /\ \A y \in st : y <= t.data[p] \/ y >= t.data[q]
            BY <2>3, <3>3, <3>6
        <3> QED BY <2>2, <2>3, <2>4, <3>1, <3>3, <3>4, <3>5, <3>6
    <2>5. CASE p = 0
        <3>1. b.removed /\ z \notin st /\ \A y \in st : y >= z
            BY <1>4, <2>1, <2>2, <2>5
        <3>2. CASE t.child[Root] = 0
            <4>1. q = 0 /\ st = {}
                BY <1>1, <1>7, <2>5, <3>2, EmptyIs DEF ItrNext
            <4> QED BY <2>2, <2>3, <4>1
        <3>3. CASE t.child[Root] # 0
            <4>1. q = First(t)
                BY <1>1, <2>5, <3>3 DEF ItrNext
            <4>2. q # 0 /\ t.data[q] \in st /\ \A y \in st : y >= t.data[q]
                BY <1>7, <3>3, <4>1, FirstIs
            <4>3. t.data[q] > z
                <5>1. t.data[q] >= z /\ t.data[q] # z /\ t.data[q] \in Int
                    BY <2>3, <3>1, <4>2
                <5> QED BY <2>3, <5>1
            <4> QED BY <2>2, <2>3, <2>5, <4>2, <4>3
        <3> QED BY <3>2, <3>3
    <2> QED BY <2>4, <2>5
<1>8. ASSUME q # 0 PROVE ItrOK(t, st, f, c) /\ c.on /\ c.prev = p
    <2>1. PICK x, s : x = t.data[q] /\ s = Append(b.seen, x)
        OBVIOUS
    <2>2. x \in Elems /\ q \in TreeNodes(t) /\ q \in 0..BstMax /\ s \in Seq(Elems)
        <3>1. x \in Elems /\ q \in TreeNodes(t)
            BY <1>5, <1>8, <2>1
        <3> QED BY <1>3, <2>1, <3>1, LinksAre DEF TreeNodes
    <2>3. c = [b EXCEPT !.prev = p, !.cur = q, !.removed = FALSE, !.seen = s]
        BY <1>1, <1>2, <2>1 DEF Iterators, Advanced
    <2>4. /\ c.on = b.on /\ c.prev = p /\ c.cur = q /\ c.removed = FALSE /\ c.seen = s /\ c.start = b.start
          /\ c \in Iterators
        BY <1>2, <1>3, <2>2, <2>3 DEF Iterators
    <2>5. ASSUME ~f PROVE SeenOK(t, st, c)
        <3>1. PICK z : z = LastSeen(b)
            OBVIOUS
        <3>2. /\ \A y \in st : y > z => y >= x
              /\ x > z /\ x \in st
              /\ p = 0 => \A y \in st : y >= x
              /\ p # 0 => /\ p \in TreeNodes(t) /\ t.data[p] < x
                          /\ \A y \in st : y <= t.data[p] \/ y >= x
              /\ z \in Elems
            BY <1>7, <1>8, <2>1, <2>5, <3>1
        <3>3. b.seen # <<>> /\ Ascending(b.seen) /\ b.start = ToSet(b.seen) \cup {y \in st : y > z}
            BY <1>2, <2>5, <3>1 DEF SeenOK
        <3>4. /\ s # <<>> /\ Ascending(s) /\ ToSet(s) = ToSet(b.seen) \cup {x} /\ s[Len(s)] = x
            <4>1. PICK r : r = b.seen /\ r \in Seq(Elems) /\ r # <<>> /\ Ascending(r) /\ x > r[Len(r)]
                BY <1>3, <3>1, <3>2, <3>3 DEF LastSeen
            <4>2. s = Append(r, x)
                BY <2>1, <4>1
            <4>3. s # <<>> /\ Ascending(s) /\ ToSet(s) = ToSet(r) \cup {x} /\ s[Len(s)] = x
                BY <2>2, <4>1, <4>2, AppendSeen
            <4> QED BY <4>1, <4>3
        <3>5. LastSeen(c) = x
            BY <2>4, <3>4 DEF LastSeen
        <3>6. {y \in st : y > z} = {x} \cup {y \in st : y > x}
            <4>1. z \in Int /\ x \in Int /\ \A y \in st : y \in Int
                BY <1>6, <2>2, <3>2
            <4>2. ASSUME NEW y \in st PROVE y > z <=> y = x \/ y > x
                <5>1. x > z /\ y \in Int
                    BY <3>2, <4>1
                <5>2. CASE y > z
                    <6>1. y >= x
                        BY <3>2, <5>2
                    <6> QED BY <4>1, <5>1, <5>2, <6>1
                <5>3. CASE ~(y > z)
                    BY <4>1, <5>1, <5>3
                <5> QED BY <5>2, <5>3
            <4>3. x \in st
                BY <3>2
            <4> QED BY <4>2, <4>3
        <3>7. c.start = ToSet(s) \cup {y \in st : y > x}
            BY <2>4, <3>3, <3>4, <3>6
        <3> QED BY <2>1, <2>4, <3>2, <3>4, <3>5, <3>7 DEF SeenOK
    <2> QED BY <2>2, <2>4, <2>5 DEF ItrOK
<1>9. ASSUME q = 0, ~f PROVE ToSet(b.seen) = b.start /\ Ascending(b.seen)
    BY <1>2, <1>7, <1>9 DEF SeenOK
<1> QED BY <1>1, <1>8, <1>9

(* BstItrRemoveCur.                                                        *)
CurRemoved(b) == [b EXCEPT !.removed = TRUE]

RemoveCurPre(t, st, ow, f, sw, br, b) ==
    TreeOK(t, st, ow, f, sw, br) /\ ItrOK(t, st, f, b) /\ b.on /\ ~b.removed
RemoveCurPost(t, st, f, b, l) ==
    /\ l \in Links /\ t.child[l] = b.cur /\ t.child[l] # 0
    /\ ItrOK(remove_node(t, l), st \ {t.data[t.child[l]]}, f, CurRemoved(b))
    /\ CurRemoved(b).on /\ CurRemoved(b).prev = b.prev /\ CurRemoved(b).removed

LEMMA RemoveCurGoes ==
    ASSUME NEW t, NEW st \in SUBSET Elems, NEW ow, NEW f, NEW sw, NEW br, NEW b,
           RemoveCurPre(t, st, ow, f, sw, br, b)
    PROVE  RemoveCurPost(t, st, f, b, LinkOf(t, b.cur))
<1>0. TreeOK(t, st, ow, f, sw, br) /\ ItrOK(t, st, f, b) /\ b.on /\ ~b.removed
    BY DEF RemoveCurPre
<1> PICK l, c : l = LinkOf(t, b.cur) /\ c = CurRemoved(b)
    OBVIOUS
<1>1. PICK n, x, u : n = b.cur /\ x = t.data[n] /\ u = remove_node(t, l)
    OBVIOUS
<1>2. b \in Iterators /\ n \in TreeNodes(t) /\ (~f => SeenOK(t, st, b))
    BY <1>0, <1>1 DEF ItrOK
<1>3. PICK D : Shape(t, D) /\ (~f => InOrderOf(t, D, st))
    BY <1>0 DEF TreeOK
<1>4. l \in Links /\ t.child[l] = n /\ n # 0
    <2>1. LinkOf(t, n) \in Links /\ t.child[LinkOf(t, n)] = n
        BY <1>2, <1>3, ParentIs
    <2>2. n # 0
        BY <1>2, <1>3, TreeIs, LinksAre
    <2> QED BY <1>1, <2>1, <2>2
<1>5. PICK v : Goes(t, n, v, u) /\ (~f => t.data[v] >= t.data[n])
    <2>1. \E v : Goes(t, t.child[l], v, remove_node(t, l)) /\ (~f => t.data[v] >= t.data[t.child[l]])
        BY <1>0, <1>4, RemoveGoes
    <2> QED BY <1>1, <1>4, <2>1
<1>6. /\ c.on = b.on /\ c.prev = b.prev /\ c.cur = b.cur /\ c.removed = TRUE /\ c.seen = b.seen
      /\ c.start = b.start /\ c \in Iterators
    BY <1>2 DEF Iterators, CurRemoved
<1>7. ASSUME ~f PROVE SeenOK(u, st \ {x}, c)
    <2>1. /\ b.seen # <<>> /\ Ascending(b.seen)
          /\ b.start = ToSet(b.seen) \cup {y \in st : y > x} /\ LastSeen(b) = x
          /\ b.prev = 0 => \A y \in st : y >= x
          /\ b.prev # 0 => /\ b.prev \in TreeNodes(t) /\ t.data[b.prev] < x
                           /\ \A y \in st : y <= t.data[b.prev] \/ y >= x
        BY <1>0, <1>1, <1>2, <1>7 DEF SeenOK
    <2>2. \A m \in TreeNodes(t) : t.data[m] \in Int /\ t.data[m] \in Elems
        BY <1>3, DataIs
    <2>3. \A y \in st : y \in Int
        BY ElemsAssumption
    <2>4. x \in Int
        BY <1>1, <1>2, <2>2
    <2>5. ASSUME b.prev # 0 PROVE b.prev \in TreeNodes(u) /\ u.data[b.prev] = t.data[b.prev]
        <3>1. v \in TreeNodes(t) /\ TreeNodes(u) = TreeNodes(t) \ {v}
              /\ \A m \in TreeNodes(u) : m # n => u.data[m] = t.data[m]
            BY <1>5 DEF Goes
        <3>2. t.data[b.prev] < x /\ b.prev \in TreeNodes(t) /\ t.data[v] >= x
            BY <1>1, <1>5, <1>7, <2>1, <2>5
        <3>3. b.prev # v /\ b.prev # n
            <4>1. t.data[b.prev] \in Int /\ t.data[v] \in Int
                BY <2>2, <3>1, <3>2
            <4>2. t.data[b.prev] # t.data[v] /\ t.data[b.prev] # t.data[n]
                BY <1>1, <2>4, <3>2, <4>1
            <4> QED BY <4>2
        <3> QED BY <3>1, <3>2, <3>3
    <2>6. {y \in st : y > x} = {y \in st \ {x} : y > x}
        BY <2>3, <2>4
    <2>7. LastSeen(c) = x
        BY <1>6, <2>1 DEF LastSeen
    <2> QED BY <1>6, <2>1, <2>5, <2>6, <2>7 DEF SeenOK
<1>8. ItrOK(u, st \ {x}, f, c)
    BY <1>2, <1>6, <1>7 DEF ItrOK
<1> QED BY <1>0, <1>1, <1>4, <1>6, <1>8 DEF RemoveCurPost

(* The same, as one fact of the iterator before and after.                  *)
NextPre(t, st, ow, f, sw, br, b) == TreeOK(t, st, ow, f, sw, br) /\ ItrOK(t, st, f, b) /\ b.on
NextPost(t, st, f, b) ==
    /\ ItrNext(t, b) # 0 => /\ ItrOK(t, st, f, Advanced(t, b))
                            /\ Advanced(t, b).on /\ Advanced(t, b).prev = ItrPrev(b)
    /\ ItrNext(t, b) = 0 /\ ~f => ToSet(b.seen) = b.start /\ Ascending(b.seen)

LEMMA NextGoes ==
    ASSUME NEW t, NEW st \in SUBSET Elems, NEW ow, NEW f, NEW sw, NEW br, NEW b,
           NextPre(t, st, ow, f, sw, br, b)
    PROVE  NextPost(t, st, f, b)
<1>1. TreeOK(t, st, ow, f, sw, br) /\ ItrOK(t, st, f, b) /\ b.on
    BY DEF NextPre
<1>2. PICK q, c : q = ItrNext(t, b) /\ c = Advanced(t, b)
    OBVIOUS
<1>3. /\ q # 0 => ItrOK(t, st, f, c) /\ c.on /\ c.prev = ItrPrev(b)
      /\ q = 0 /\ ~f => ToSet(b.seen) = b.start /\ Ascending(b.seen)
    BY <1>1, <1>2, NextKeeps
<1> QED BY <1>2, <1>3 DEF NextPost

(***************************************************************************)
(* The invariant.                                                          *)
(***************************************************************************)
BstInv ==
    /\ stored \subseteq Elems
    /\ TreeOK(tree, stored, bowned, far, swapped, bbroken)
    /\ ItrOK(tree, stored, far, bitr)
    /\ bclearing => bitr.on /\ bitr.prev = 0

LEMMA NoItrIs == NoBstItr \in Iterators /\ ~NoBstItr.on
<1>1. <<>> \in Seq(Elems) /\ 0 \in 0..BstMax
    BY LinksAre
<1> QED BY <1>1 DEF NoBstItr, Iterators

LEMMA BstInitInv == BstInit => BstInv
<1> SUFFICES ASSUME BstInit PROVE BstInv
    OBVIOUS
<1>1. PICK D : D = [n \in 0..BstMax |-> {}] /\ Shape(EmptyTree, D)
    BY EmptyShape
<1>2. TreeNodes(EmptyTree) = {}
    BY DEF TreeNodes, EmptyTree
<1>3. TreeData(EmptyTree) = {} /\ Distinct(EmptyTree) /\ InOrderOf(EmptyTree, D, {})
    BY <1>2 DEF TreeData, Distinct, InOrderOf, Ordered
<1>4. TreeOK(EmptyTree, {}, {}, FALSE, FALSE, FALSE)
    BY <1>1, <1>3 DEF TreeOK
<1>5. ItrOK(EmptyTree, {}, FALSE, NoBstItr)
    BY NoItrIs DEF ItrOK
<1> QED BY <1>4, <1>5 DEF BstInv, BstInit

LEMMA BstInsertInv ==
    ASSUME BstInv, NEW x \in Elems, BstInsert(x)
    PROVE  BstInv'
<1>1. PICK t, u, g, st : /\ t = tree /\ st = stored /\ g = far'
                         /\ u = insert_node(t, bst_find(t, ptrcmp(x)), x)
    OBVIOUS
<1>2. /\ x \notin bowned /\ TreeNodes(t) # BstNodes /\ Found(t, ptrcmp(x)) = 0 /\ tree' = u
      /\ bowned' = bowned \cup {x} /\ stored' = stored \cup {x} /\ ~bitr.on /\ ~bclearing
      /\ bitr' = bitr /\ bclearing' = bclearing /\ swapped' = swapped /\ bbroken' = bbroken
    BY <1>1 DEF BstInsert, BstIdle
<1>3. ~g => ~far /\ \A y \in st : Near(x, y) /\ Near(y, x)
    BY <1>1 DEF BstInsert, Near
<1>4. TreeOK(t, st, bowned, far, swapped, bbroken)
    BY <1>1 DEF BstInv
<1>5. TreeOK(u, st \cup {x}, bowned \cup {x}, g, swapped, bbroken)
    BY <1>1, <1>2, <1>3, <1>4, InsertKeeps
<1>6. TreeOK(tree', stored', bowned', far', swapped', bbroken')
    BY <1>1, <1>2, <1>5
<1>7. ItrOK(tree', stored', far', bitr')
    BY <1>2 DEF BstInv, ItrOK
<1> QED BY <1>2, <1>6, <1>7 DEF BstInv

LEMMA RemoveInv ==
    ASSUME BstInv, NEW l \in Links, tree.child[l] # 0, RemoveAtLink(l), far' = far
    PROVE  TreeOK(tree', stored', bowned', far', swapped', bbroken') /\ stored' \subseteq Elems
<1>1. PICK t, st, u, sx, bx, ow : /\ t = tree /\ st = stored /\ u = remove_node(t, l)
                                  /\ sx = swapped' /\ bx = bbroken' /\ ow = bowned
    OBVIOUS
<1>2. TreeOK(t, st, ow, far, swapped, bbroken) /\ st \subseteq Elems
    BY <1>1 DEF BstInv
<1>3. /\ ~sx => ~swapped /\ ~TwoChildren(t, l)
      /\ bx => bbroken \/ DtorArg(t, l) \notin ow
    BY <1>1 DEF RemoveAtLink
<1>4. TreeOK(u, st \ {t.data[t.child[l]]}, ow \ {DtorArg(t, l)}, far, sx, bx)
    BY <1>1, <1>2, <1>3, RemoveKeeps
<1>5. tree' = u /\ stored' = st \ {t.data[t.child[l]]} /\ bowned' = ow \ {DtorArg(t, l)}
    BY <1>1 DEF RemoveAtLink
<1> QED BY <1>1, <1>2, <1>4, <1>5

LEMMA BstRemoveInv ==
    ASSUME BstInv, NEW x \in Elems, BstRemove(x)
    PROVE  BstInv'
<1>1. PICK l : l = bst_find(tree, ptrcmp(x))
    OBVIOUS
<1>2. PICK D : Shape(tree, D)
    BY DEF BstInv, TreeOK
<1>3. l \in Links
    BY <1>1, <1>2, FindIs DEF FoundFrom
<1>4. tree.child[l] # 0 /\ RemoveAtLink(l) /\ ~bitr.on /\ ~bclearing
      /\ bitr' = bitr /\ bclearing' = bclearing /\ far' = far
    BY <1>1 DEF BstRemove, Found, BstIdle
<1>5. TreeOK(tree', stored', bowned', far', swapped', bbroken') /\ stored' \subseteq Elems
    BY <1>3, <1>4, RemoveInv
<1>6. ItrOK(tree', stored', far', bitr')
    BY <1>4 DEF BstInv, ItrOK
<1> QED BY <1>4, <1>5, <1>6 DEF BstInv

LEMMA ItrStartInv ==
    ASSUME BstInv, BstItrStart, UNCHANGED <<tree, bowned, stored, far, swapped, bbroken>>
    PROVE  BstInv'
<1>1. PICK t, st, b : /\ t = tree /\ st = stored
                      /\ b = [NoBstItr EXCEPT !.on = TRUE, !.cur = First(t), !.start = st,
                                              !.seen = <<t.data[First(t)]>>]
    OBVIOUS
<1>2. TreeOK(t, st, bowned, far, swapped, bbroken) /\ st \in SUBSET Elems /\ t.len > 0 /\ bitr' = b
    BY <1>1 DEF BstInv, BstItrStart
<1>3. ItrOK(t, st, far, b) /\ b.on /\ b.prev = 0 /\ ~b.removed
    BY <1>1, <1>2, StartKeeps
<1> QED BY <1>1, <1>2, <1>3 DEF BstInv

LEMMA ItrAdvanceInv ==
    ASSUME BstInv, bitr.on, BstItrAdvance, UNCHANGED <<bowned, stored, far, swapped, bbroken>>
    PROVE  /\ ItrOK(tree, stored, far, bitr') /\ bitr' \in Iterators
           /\ bitr'.on => bitr'.prev = ItrPrev(bitr)
           /\ ~bitr'.on => /\ ~far => ToSet(bitr.seen) = bitr.start /\ Ascending(bitr.seen)
                           /\ ItrPrev(bitr) = 0 => tree.child[Root] = 0
<1>1. PICK t, st, b, q, c : /\ t = tree /\ st = stored /\ b = bitr /\ q = ItrNext(t, b)
                            /\ c = Advanced(t, b)
    OBVIOUS
<1>2. /\ TreeOK(t, st, bowned, far, swapped, bbroken) /\ st \in SUBSET Elems
      /\ NextPre(t, st, bowned, far, swapped, bbroken, b)
    BY <1>1 DEF BstInv, NextPre
<1>3. /\ q # 0 => ItrOK(t, st, far, c) /\ c.on /\ c.prev = ItrPrev(b)
      /\ q = 0 /\ ~far => ToSet(b.seen) = b.start /\ Ascending(b.seen)
    <2>1. NextPost(t, st, far, b)
        BY <1>2, NextGoes
    <2> QED BY <1>1, <2>1 DEF NextPost
<1>4. bitr' = IF q = 0 THEN NoBstItr ELSE c
    BY <1>1 DEF BstItrAdvance, ItrNext, ItrPrev, Advanced
<1>5. ASSUME q = 0, ItrPrev(b) = 0 PROVE t.child[Root] = 0
    BY <1>1, <1>2, <1>5, FirstIs DEF ItrNext, NextPre
<1>6. CASE q = 0
    <2>1. ~bitr'.on /\ bitr' \in Iterators
        BY <1>4, <1>6, NoItrIs
    <2> QED BY <1>1, <1>3, <1>5, <1>6, <2>1 DEF ItrOK
<1>7. CASE q # 0
    <2>1. bitr' = c /\ ItrOK(t, st, far, c) /\ c.on /\ c.prev = ItrPrev(b)
        BY <1>3, <1>4, <1>7
    <2> QED BY <1>1, <2>1 DEF ItrOK
<1> QED BY <1>6, <1>7

LEMMA ItrRemoveInv ==
    ASSUME BstInv, bitr.on, BstItrRemoveCur, far' = far
    PROVE  /\ TreeOK(tree', stored', bowned', far', swapped', bbroken') /\ stored' \subseteq Elems
           /\ ItrOK(tree', stored', far', bitr') /\ bitr'.on /\ bitr'.prev = bitr.prev /\ bitr'.removed
<1>1. PICK t, st, b, l, c : /\ t = tree /\ st = stored /\ b = bitr /\ l = LinkOf(t, b.cur)
                            /\ c = CurRemoved(b)
    OBVIOUS
<1>2. /\ TreeOK(t, st, bowned, far, swapped, bbroken) /\ st \in SUBSET Elems
      /\ RemoveCurPre(t, st, bowned, far, swapped, bbroken, b) /\ bitr' = c /\ RemoveAtLink(l)
    BY <1>1 DEF BstInv, BstItrRemoveCur, CurRemoved, RemoveCurPre
<1>3. /\ l \in Links /\ t.child[l] = b.cur /\ t.child[l] # 0
      /\ ItrOK(remove_node(t, l), st \ {t.data[t.child[l]]}, far, c) /\ c.on /\ c.prev = b.prev /\ c.removed
    <2>1. RemoveCurPost(t, st, far, b, LinkOf(t, b.cur))
        BY <1>2, RemoveCurGoes
    <2> QED BY <1>1, <2>1 DEF RemoveCurPost
<1>4. tree' = remove_node(t, l) /\ stored' = st \ {t.data[t.child[l]]}
    BY <1>1, <1>2 DEF RemoveAtLink
<1>5. TreeOK(tree', stored', bowned', far', swapped', bbroken') /\ stored' \subseteq Elems
    BY <1>1, <1>2, <1>3, RemoveInv
<1> QED BY <1>1, <1>2, <1>3, <1>4, <1>5

LEMMA ClearStepInv ==
    ASSUME BstInv, BstClearStep
    PROVE  BstInv'
<1>1. bclearing /\ bitr.on /\ bitr.prev = 0 /\ far' = far /\ bclearing' = bitr'.on
    BY DEF BstClearStep, BstInv
<1>2. CASE ~bitr.removed
    <2>1. BstItrRemoveCur
        BY <1>2 DEF BstClearStep
    <2>2. /\ TreeOK(tree', stored', bowned', far', swapped', bbroken') /\ stored' \subseteq Elems
          /\ ItrOK(tree', stored', far', bitr') /\ bitr'.on /\ bitr'.prev = bitr.prev /\ bitr'.removed
        BY <1>1, <2>1, ItrRemoveInv
    <2> QED BY <1>1, <2>2 DEF BstInv
<1>3. CASE bitr.removed
    <2>1. BstItrAdvance /\ UNCHANGED <<bowned, stored, far, swapped, bbroken>>
          /\ tree' = IF bitr'.on THEN tree ELSE [tree EXCEPT !.child[Root] = 0]
        BY <1>3 DEF BstClearStep
    <2>2. /\ ItrOK(tree, stored, far, bitr') /\ bitr' \in Iterators
          /\ bitr'.on => bitr'.prev = ItrPrev(bitr)
          /\ ~bitr'.on => (ItrPrev(bitr) = 0 => tree.child[Root] = 0)
        BY <1>1, <2>1, ItrAdvanceInv
    <2>3. ItrPrev(bitr) = 0
        BY <1>1, <1>3 DEF ItrPrev
    <2>4. tree' = tree
        <3>1. CASE bitr'.on
            BY <2>1, <3>1
        <3>2. CASE ~bitr'.on
            <4>1. tree.child[Root] = 0
                BY <2>2, <2>3, <3>2
            <4>2. tree \in Trees
                BY DEF BstInv, TreeOK, Shape
            <4>3. [tree.child EXCEPT ![Root] = 0] = tree.child
                BY <4>1, <4>2 DEF Trees
            <4>4. [tree EXCEPT !.child[Root] = 0] = tree
                BY <4>2, <4>3 DEF Trees
            <4> QED BY <2>1, <3>2, <4>4
        <3> QED BY <3>1, <3>2
    <2> QED BY <1>1, <2>1, <2>2, <2>3, <2>4 DEF BstInv
<1> QED BY <1>2, <1>3

LEMMA BstNextInv == BstInv /\ [BstNext]_bstVars => BstInv'
<1> SUFFICES ASSUME BstInv, [BstNext]_bstVars PROVE BstInv'
    OBVIOUS
<1>1. CASE UNCHANGED bstVars
    BY <1>1 DEF bstVars, BstInv
<1>2. ASSUME NEW x \in Elems, BstInsert(x) PROVE BstInv'
    BY <1>2, BstInsertInv
<1>3. ASSUME NEW x \in Elems, BstRemove(x) PROVE BstInv'
    BY <1>3, BstRemoveInv
<1>4. CASE BstItrNew
    <2>1. BstItrStart /\ UNCHANGED <<tree, bclearing, bowned, stored, far, swapped, bbroken>> /\ ~bclearing
        BY <1>4 DEF BstItrNew, BstIdle
    <2> QED BY <2>1, ItrStartInv
<1>5. CASE BstItrNext
    <2>1. /\ bitr.on /\ ~bclearing /\ BstItrAdvance
          /\ UNCHANGED <<tree, bclearing, bowned, stored, far, swapped, bbroken>>
        BY <1>5 DEF BstItrNext, BstIterating
    <2>2. ItrOK(tree, stored, far, bitr')
        BY <2>1, ItrAdvanceInv
    <2> QED BY <2>1, <2>2 DEF BstInv
<1>6. CASE BstItrRemove
    <2>1. bitr.on /\ ~bclearing /\ BstItrRemoveCur /\ UNCHANGED <<bclearing, far>>
        BY <1>6 DEF BstItrRemove, BstIterating
    <2>2. /\ TreeOK(tree', stored', bowned', far', swapped', bbroken') /\ stored' \subseteq Elems
          /\ ItrOK(tree', stored', far', bitr')
        BY <2>1, ItrRemoveInv
    <2> QED BY <2>1, <2>2 DEF BstInv
<1>7. CASE BstClear
    BY <1>7, ItrStartInv DEF BstClear
<1>8. CASE BstClearStep
    BY <1>8, ClearStepInv
<1> QED BY <1>1, <1>2, <1>3, <1>4, <1>5, <1>6, <1>7, <1>8 DEF BstNext

THEOREM BstInvariant == BstSpec => []BstInv
<1> QED BY BstInitInv, BstNextInv, PTL DEF BstSpec

(* Whatever is inserted and removed, the links, parents and length of the   *)
(* tree agree, and while the distances of the elements fit in an int it     *)
(* holds those inserted and not removed, in order, and each is found.       *)
THEOREM Searchable == BstSpec => []SearchTree
<1>1. BstInv => SearchTree
    BY TreeOKIs DEF BstInv, SearchTree
<1> QED BY <1>1, BstInvariant, PTL

(* Until a node with two children is removed, the destructor gets each      *)
(* element that was handed in once, when it leaves the tree.                *)
THEOREM DestroyedOnce == BstSpec => []DtorExact
<1>1. BstInv => DtorExact
    BY TreeOKIs DEF BstInv, DtorExact
<1> QED BY <1>1, BstInvariant, PTL

(* An iteration, m_bst_clear's too, shows the elements it began with, each  *)
(* once and ascending, whichever it removes: while distances fit in an int. *)
THEOREM IterationInOrder == BstSpec => BstIteration
<1>1. BstInv /\ [BstNext]_bstVars =>
        [bitr.on /\ ~bitr'.on => \/ far
                                 \/ ToSet(bitr.seen) = bitr.start /\ Ascending(bitr.seen)]_bstVars
    <2> SUFFICES ASSUME BstInv, BstNext, bitr.on, ~bitr'.on, ~far
                 PROVE  ToSet(bitr.seen) = bitr.start /\ Ascending(bitr.seen)
        BY DEF bstVars
    <2>1. BstItrNext \/ BstClearStep
        <3>1. ASSUME NEW x \in Elems, BstInsert(x) \/ BstRemove(x) PROVE FALSE
            BY <3>1 DEF BstInsert, BstRemove, BstIdle
        <3>2. ~BstItrNew /\ ~BstClear
            BY DEF BstItrNew, BstClear, BstIdle
        <3>3. ASSUME BstItrRemove PROVE FALSE
            <4>1. BstItrRemoveCur /\ far' = far
                BY <3>3 DEF BstItrRemove
            <4> QED BY <4>1, ItrRemoveInv
        <3> QED BY <3>1, <3>2, <3>3 DEF BstNext
    <2>2. CASE BstItrNext
        <3>1. BstItrAdvance /\ UNCHANGED <<bowned, stored, far, swapped, bbroken>>
            BY <2>2 DEF BstItrNext
        <3> QED BY <3>1, ItrAdvanceInv
    <2>3. CASE BstClearStep
        <3>1. bitr.removed
            <4>1. ASSUME BstItrRemoveCur PROVE FALSE
                <5>1. far' = far
                    BY <2>3 DEF BstClearStep
                <5> QED BY <4>1, <5>1, ItrRemoveInv
            <4> QED BY <2>3, <4>1 DEF BstClearStep
        <3>2. BstItrAdvance /\ UNCHANGED <<bowned, stored, far, swapped, bbroken>>
            BY <2>3, <3>1 DEF BstClearStep
        <3> QED BY <3>2, ItrAdvanceInv
    <2> QED BY <2>1, <2>2, <2>3
<1> QED BY <1>1, BstInvariant, PTL DEF BstSpec, BstIteration
=============================================================================
