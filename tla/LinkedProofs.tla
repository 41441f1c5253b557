---------------------------- MODULE LinkedProofs ----------------------------
EXTENDS Linked, TLAPS, FiniteSetTheorems, WellFoundedInduction

(***************************************************************************)
(* A nonempty set of naturals has a least element.  Inductions over the     *)
(* positions of a sequence are done with it.                                *)
(***************************************************************************)
LEMMA LeastNat ==
    ASSUME NEW T, T \subseteq Nat, T # {}
    PROVE  \E x \in T : \A y \in T : x <= y
<1> DEFINE R == {ss \in Nat \X Nat : ss[1] < ss[2]}
<1>1. IsWellFoundedOn(R, Nat)
    BY NatLessThanWellFounded DEF OpToRel
<1>2. PICK x \in T : \A y \in T : ~(<<y, x>> \in R)
    <2> HIDE DEF R
    <2> QED BY <1>1, WFMin
<1>3. \A y \in T : ~(y < x)
    BY <1>2
<1> QED BY <1>3

LEMMA MinNat ==
    ASSUME NEW T, T \subseteq Nat, T # {}
    PROVE  /\ Min(T) \in T
           /\ \A y \in T : Min(T) <= y
BY LeastNat DEF Min

(***************************************************************************)
(* Chains.                                                                 *)
(***************************************************************************)
Addresses == 0..LinkedMax

(* c lists the n nodes reached through the links l, each once.              *)
ChainOf(l, c, n) ==
    /\ n \in Nat /\ c \in [1..n -> Nodes]
    /\ \A i \in 1..n : c[i] = l[LinkTo(c, i)]
    /\ l[LinkTo(c, n + 1)] = 0
    /\ \A i, j \in 1..n : c[i] = c[j] => i = j

LEMMA ChainUnique ==
    ASSUME NEW l, NEW c, NEW n, NEW d, NEW m, ChainOf(l, c, n),
           m \in Nat, d \in [1..m -> Nodes],
           \A i \in 1..m : d[i] = l[LinkTo(d, i)],
           l[LinkTo(d, m + 1)] = 0
    PROVE  m = n /\ d = c
<1> USE LinkedAssumption
<1>1. \A i \in 1..n : i <= m => c[i] = d[i]
    <2> DEFINE T == {i \in 1..n : i <= m /\ c[i] # d[i]}
    <2>1. SUFFICES ASSUME T # {} PROVE FALSE
        OBVIOUS
    <2>2. T \subseteq Nat
        BY DEF ChainOf
    <2>3. PICK i \in T : \A j \in T : i <= j
        <3> HIDE DEF T
        <3> QED BY <2>1, <2>2, LeastNat
    <2>4. i \in 1..n /\ i \in 1..m /\ c[i] # d[i] /\ i \in Nat
        BY DEF ChainOf
    <2>5. i # 1
        BY <2>4 DEF ChainOf, LinkTo
    <2>6. i - 1 \in 1..n /\ i - 1 <= m /\ i - 1 \notin T
        BY <2>3, <2>4, <2>5 DEF ChainOf
    <2>7. c[i - 1] = d[i - 1]
        BY <2>6
    <2> QED BY <2>4, <2>5, <2>7 DEF ChainOf, LinkTo
<1>2. ~(n < m)
    <2>1. SUFFICES ASSUME n < m PROVE FALSE
        OBVIOUS
    <2>2. LinkTo(c, n + 1) = LinkTo(d, n + 1)
        BY <1>1, <2>1 DEF LinkTo, ChainOf
    <2>3. n + 1 \in 1..m /\ d[n + 1] = l[LinkTo(d, n + 1)]
        BY <2>1 DEF ChainOf
    <2>4. d[n + 1] = 0
        BY <2>2, <2>3 DEF ChainOf
    <2> QED BY <2>3, <2>4 DEF Nodes
<1>3. ~(m < n)
    <2>1. SUFFICES ASSUME m < n PROVE FALSE
        OBVIOUS
    <2>2. LinkTo(c, m + 1) = LinkTo(d, m + 1)
        BY <1>1, <2>1 DEF LinkTo, ChainOf
    <2>3. m + 1 \in 1..n /\ c[m + 1] = l[LinkTo(c, m + 1)] /\ c[m + 1] \in Nodes
        BY <2>1 DEF ChainOf
    <2> QED BY <2>2, <2>3 DEF Nodes
<1>4. m = n
    BY <1>2, <1>3 DEF ChainOf
<1> QED BY <1>1, <1>4 DEF ChainOf

(* The specification's Chain is the chain of link, whenever there is one.   *)
LEMMA ChainIs ==
    ASSUME NEW c, NEW n, ChainOf(link, c, n), n <= LinkedMax
    PROVE  Chain = c /\ Len(Chain) = n
<1> USE LinkedAssumption
<1> DEFINE P(x) == /\ \A i \in 1..Len(x) : x[i] = link[LinkTo(x, i)]
                   /\ link[LinkTo(x, Len(x) + 1)] = 0
<1>1. Len(c) = n /\ n \in 0..LinkedMax
    BY DEF ChainOf
<1>2. c \in SeqOf(Nodes, LinkedMax)
    BY <1>1 DEF SeqOf, ChainOf
<1>3. P(c)
    BY <1>1 DEF ChainOf
<1>4. ASSUME NEW x \in SeqOf(Nodes, LinkedMax), P(x) PROVE x = c
    <2>1. PICK m \in 0..LinkedMax : x \in [1..m -> Nodes]
        BY DEF SeqOf
    <2>2. Len(x) = m /\ m \in Nat
        BY <2>1
    <2> QED BY <1>4, <2>1, <2>2, ChainUnique
<1>5. Chain = CHOOSE x \in SeqOf(Nodes, LinkedMax) : P(x)
    BY DEF Chain
<1>6. Chain = c
    <2> HIDE DEF P
    <2> QED BY <1>2, <1>3, <1>4, <1>5
<1> QED BY <1>1, <1>6

(* c with node m at position i; c without position i.                      *)
With(c, n, i, m) == [j \in 1..n + 1 |-> IF j < i THEN c[j] ELSE IF j = i THEN m ELSE c[j - 1]]
Without(c, n, i) == [j \in 1..n - 1 |-> IF j < i THEN c[j] ELSE c[j + 1]]

LEMMA ChainInsert ==
    ASSUME NEW l, NEW c, NEW n, ChainOf(l, c, n),
           NEW i \in 1..n + 1, NEW m \in Nodes, \A j \in 1..n : c[j] # m,
           NEW k, k[LinkTo(c, i)] = m, k[m] = l[LinkTo(c, i)],
           \A a \in Addresses : a # LinkTo(c, i) /\ a # m => k[a] = l[a]
    PROVE  ChainOf(k, With(c, n, i, m), n + 1)
<1> USE LinkedAssumption
<1> DEFINE d == With(c, n, i, m)
           at == LinkTo(c, i)
<1>1. n \in Nat /\ c \in [1..n -> Nodes] /\ i \in Nat /\ i <= n + 1
    BY DEF ChainOf
<1>2. d \in [1..n + 1 -> Nodes]
    BY <1>1 DEF With
<1>4. /\ k[at] = m /\ k[m] = l[at]
      /\ \A a \in Addresses : a # at /\ a # m => k[a] = l[a]
    OBVIOUS
<1>5. \A j \in 1..n + 1 : LinkTo(d, j) = IF j <= i THEN LinkTo(c, j)
                                       ELSE IF j = i + 1 THEN m ELSE LinkTo(c, j - 1)
    BY <1>1 DEF LinkTo, With
<1>6. LinkTo(d, n + 2) = IF i = n + 1 THEN m ELSE LinkTo(c, n + 1)
    BY <1>1 DEF LinkTo, With
<1>7. \A j \in 1..n + 1 : j # i => LinkTo(c, j) # at /\ LinkTo(c, j) # m
                                   /\ LinkTo(c, j) \in Addresses
    BY <1>1 DEF ChainOf, LinkTo, Nodes, Addresses
<1>8. \A j \in 1..n + 1 : d[j] = k[LinkTo(d, j)]
    <2> TAKE j \in 1..n + 1
    <2>1. CASE j < i
        <3>1. d[j] = c[j] /\ j \in 1..n
            BY <1>1, <2>1 DEF With
        <3>2. k[LinkTo(c, j)] = l[LinkTo(c, j)]
            BY <1>4, <1>7, <2>1
        <3> QED BY <1>5, <2>1, <3>1, <3>2 DEF ChainOf
    <2>2. CASE j = i
        BY <1>1, <1>4, <1>5, <2>2 DEF With
    <2>3. CASE j = i + 1
        <3>1. d[j] = c[i] /\ i \in 1..n
            BY <1>1, <2>3 DEF With
        <3> QED BY <1>1, <1>4, <1>5, <2>3, <3>1 DEF ChainOf
    <2>4. CASE j > i + 1
        <3>1. d[j] = c[j - 1] /\ j - 1 \in 1..n /\ j - 1 # i
            BY <1>1, <2>4 DEF With
        <3>2. k[LinkTo(c, j - 1)] = l[LinkTo(c, j - 1)]
            BY <1>1, <1>4, <1>7, <3>1
        <3> QED BY <1>1, <1>5, <2>4, <3>1, <3>2 DEF ChainOf
    <2> QED BY <1>1, <2>1, <2>2, <2>3, <2>4
<1>9. k[LinkTo(d, n + 2)] = 0
    <2>1. CASE i = n + 1
        BY <1>4, <1>6, <2>1 DEF ChainOf
    <2>2. CASE i # n + 1
        <3>1. k[LinkTo(c, n + 1)] = l[LinkTo(c, n + 1)]
            BY <1>1, <1>4, <1>7, <2>2
        <3> QED BY <1>6, <2>2, <3>1 DEF ChainOf
    <2> QED BY <2>1, <2>2
<1>10. \A j1, j2 \in 1..n + 1 : d[j1] = d[j2] => j1 = j2
    BY <1>1 DEF With, ChainOf
<1>11. (n + 1) + 1 = n + 2
    BY <1>1
<1> HIDE DEF d
<1> QED BY <1>1, <1>2, <1>8, <1>9, <1>10, <1>11 DEF ChainOf, d

LEMMA ChainRemove ==
    ASSUME NEW l, NEW c, NEW n, ChainOf(l, c, n),
           NEW i \in 1..n, NEW k, k[LinkTo(c, i)] = l[c[i]],
           \A a \in Addresses : a # LinkTo(c, i) /\ a # c[i] => k[a] = l[a]
    PROVE  ChainOf(k, Without(c, n, i), n - 1)
<1> USE LinkedAssumption
<1> DEFINE d == Without(c, n, i)
           at == LinkTo(c, i)
<1>1. n \in Nat /\ c \in [1..n -> Nodes] /\ i \in Nat /\ i <= n /\ n - 1 \in Nat
    BY DEF ChainOf
<1>2. d \in [1..n - 1 -> Nodes]
    BY <1>1 DEF Without
<1>4. /\ k[at] = l[c[i]]
      /\ \A a \in Addresses : a # at /\ a # c[i] => k[a] = l[a]
    OBVIOUS
<1>5. \A j \in 1..n : LinkTo(d, j) = IF j <= i THEN LinkTo(c, j) ELSE LinkTo(c, j + 1)
    BY <1>1 DEF LinkTo, Without
<1>6. \A j \in 1..n + 1 : j # i /\ j # i + 1 => LinkTo(c, j) # at /\ LinkTo(c, j) # c[i]
                                               /\ LinkTo(c, j) \in Addresses
    <2> TAKE j \in 1..n + 1
    <2>1. CASE j = 1
        BY <1>1, <2>1 DEF LinkTo, Nodes, Addresses
    <2>2. CASE j # 1
        <3>1. j - 1 \in 1..n /\ LinkTo(c, j) = c[j - 1] /\ c[j - 1] \in Nodes
            BY <1>1, <2>2 DEF LinkTo
        <3>2. j # i + 1 => c[j - 1] # c[i]
            BY <1>1, <3>1 DEF ChainOf
        <3>3. j # i /\ i # 1 => c[j - 1] # c[i - 1]
            BY <1>1, <3>1 DEF ChainOf
        <3> QED BY <1>1, <3>1, <3>2, <3>3 DEF LinkTo, Nodes, Addresses
    <2> QED BY <2>1, <2>2
<1>7. LinkTo(c, i + 1) = c[i]
    BY <1>1 DEF LinkTo
<1>8. \A j \in 1..n - 1 : d[j] = k[LinkTo(d, j)]
    <2> TAKE j \in 1..n - 1
    <2>1. CASE j < i
        <3>1. d[j] = c[j] /\ j \in 1..n
            BY <1>1, <2>1 DEF Without
        <3>2. k[LinkTo(c, j)] = l[LinkTo(c, j)]
            BY <1>1, <1>4, <1>6, <2>1
        <3> QED BY <1>1, <1>5, <2>1, <3>1, <3>2 DEF ChainOf
    <2>2. CASE j = i
        <3>1. d[j] = c[i + 1] /\ i + 1 \in 1..n
            BY <1>1, <2>2 DEF Without
        <3> QED BY <1>1, <1>4, <1>5, <1>7, <2>2, <3>1 DEF ChainOf
    <2>3. CASE j > i
        <3>1. d[j] = c[j + 1] /\ j + 1 \in 1..n /\ j + 1 # i /\ j + 1 # i + 1
            BY <1>1, <2>3 DEF Without
        <3>2. k[LinkTo(c, j + 1)] = l[LinkTo(c, j + 1)]
            BY <1>1, <1>4, <1>6, <3>1
        <3> QED BY <1>1, <1>5, <2>3, <3>1, <3>2 DEF ChainOf
    <2> QED BY <1>1, <2>1, <2>2, <2>3
<1>9. k[LinkTo(d, n)] = 0
    <2>1. CASE i = n
        BY <1>1, <1>4, <1>5, <1>7, <2>1 DEF ChainOf
    <2>2. CASE i # n
        <3>1. k[LinkTo(c, n + 1)] = l[LinkTo(c, n + 1)]
            BY <1>1, <1>4, <1>6, <2>2
        <3> QED BY <1>1, <1>5, <2>2, <3>1 DEF ChainOf
    <2> QED BY <2>1, <2>2
<1>10. \A j1, j2 \in 1..n - 1 : d[j1] = d[j2] => j1 = j2
    BY <1>1 DEF Without, ChainOf
<1>11. (n - 1) + 1 = n
    BY <1>1
<1> HIDE DEF d
<1> QED BY <1>1, <1>2, <1>8, <1>9, <1>10, <1>11 DEF ChainOf, d

(* Links that the chain does not use may change.                           *)
LEMMA ChainSame ==
    ASSUME NEW l, NEW c, NEW n, ChainOf(l, c, n), NEW k,
           \A i \in 1..n + 1 : k[LinkTo(c, i)] = l[LinkTo(c, i)]
    PROVE  ChainOf(k, c, n)
BY DEF ChainOf

(* Positions of what was inserted or removed.                              *)
LEMMA WithIs ==
    ASSUME NEW n \in Nat, NEW c, NEW i \in 1..n + 1, NEW m
    PROVE  /\ With(c, n, i, m)[i] = m
           /\ \A j \in 1..n : j < i => With(c, n, i, m)[j] = c[j]
           /\ \A j \in 1..n : j >= i => With(c, n, i, m)[j + 1] = c[j]
           /\ \A j \in 1..n + 1 : j > i => With(c, n, i, m)[j] = c[j - 1]
           /\ DOMAIN With(c, n, i, m) = 1..n + 1
BY DEF With

LEMMA WithoutIs ==
    ASSUME NEW n \in Nat, NEW c, NEW i \in 1..n
    PROVE  /\ \A j \in 1..n - 1 : j < i => Without(c, n, i)[j] = c[j]
           /\ \A j \in 1..n - 1 : j >= i => Without(c, n, i)[j] = c[j + 1]
           /\ \A j \in 1..n : j > i => Without(c, n, i)[j - 1] = c[j]
           /\ DOMAIN Without(c, n, i) = 1..n - 1
BY DEF Without

LEMMA ConcatIs ==
    ASSUME NEW S, NEW s \in Seq(S), NEW t \in Seq(S)
    PROVE  /\ s \o t \in Seq(S) /\ Len(s \o t) = Len(s) + Len(t)
           /\ \A j \in 1..Len(s) : (s \o t)[j] = s[j]
           /\ \A j \in Len(s) + 1..Len(s) + Len(t) : (s \o t)[j] = t[j - Len(s)]
OBVIOUS

(* InsertAt and RemoveAt of SequencesExt are With and Without.              *)
LEMMA InsertAtIs ==
    ASSUME NEW S, NEW s \in Seq(S), NEW i \in 1..Len(s) + 1, NEW x \in S
    PROVE  InsertAt(s, i, x) \in Seq(S) /\ InsertAt(s, i, x) = With(s, Len(s), i, x)
           /\ Len(InsertAt(s, i, x)) = Len(s) + 1
<1>1. Len(s) \in Nat
    OBVIOUS
<1> DEFINE a == SubSeq(s, 1, i - 1)
           b == SubSeq(s, i, Len(s))
<1>2. a \in Seq(S) /\ Len(a) = i - 1 /\ \A j \in 1..i - 1 : a[j] = s[j]
    BY <1>1
<1>3. b \in Seq(S) /\ Len(b) = Len(s) - i + 1 /\ \A j \in 1..Len(s) - i + 1 : b[j] = s[i + j - 1]
    BY <1>1
<1> HIDE DEF a, b
<1> DEFINE ax == a \o <<x>>
<1>4. ax \in Seq(S) /\ Len(ax) = i /\ ax[i] = x /\ \A j \in 1..i - 1 : ax[j] = s[j]
    BY <1>1, <1>2
<1> HIDE DEF ax
<1> DEFINE t == ax \o b
<1>5. /\ t \in Seq(S) /\ Len(t) = Len(s) + 1
      /\ \A j \in 1..i : t[j] = ax[j]
      /\ \A j \in i + 1..Len(s) + 1 : t[j] = b[j - i]
    <2>1. Len(ax) + Len(b) = Len(s) + 1
        BY <1>1, <1>3, <1>4
    <2> QED BY <1>3, <1>4, <2>1, ConcatIs
<1> HIDE DEF t
<1>6. \A j \in 1..Len(s) + 1 : t[j] = IF j < i THEN s[j] ELSE IF j = i THEN x ELSE s[j - 1]
    <2> TAKE j \in 1..Len(s) + 1
    <2>1. CASE j <= i
        BY <1>1, <1>4, <1>5, <2>1
    <2>2. CASE j > i
        <3>1. t[j] = b[j - i] /\ j - i \in 1..Len(s) - i + 1
            BY <1>1, <1>5, <2>2
        <3> QED BY <1>1, <1>3, <2>2, <3>1
    <2> QED BY <1>1, <2>1, <2>2
<1>7. t = With(s, Len(s), i, x)
    BY <1>1, <1>5, <1>6 DEF With
<1>8. InsertAt(s, i, x) = t
    BY DEF InsertAt, t, ax, a, b
<1> QED BY <1>5, <1>7, <1>8

LEMMA RemoveAtIs ==
    ASSUME NEW S, NEW s \in Seq(S), NEW i \in 1..Len(s)
    PROVE  RemoveAt(s, i) \in Seq(S) /\ RemoveAt(s, i) = Without(s, Len(s), i)
           /\ Len(RemoveAt(s, i)) = Len(s) - 1
<1>1. Len(s) \in Nat
    OBVIOUS
<1> DEFINE a == SubSeq(s, 1, i - 1)
           b == SubSeq(s, i + 1, Len(s))
<1>2. a \in Seq(S) /\ Len(a) = i - 1 /\ \A j \in 1..i - 1 : a[j] = s[j]
    BY <1>1
<1>3. b \in Seq(S) /\ Len(b) = Len(s) - i /\ \A j \in 1..Len(s) - i : b[j] = s[i + j]
    BY <1>1
<1> HIDE DEF a, b
<1> DEFINE t == a \o b
<1>5. /\ t \in Seq(S) /\ Len(t) = Len(s) - 1
      /\ \A j \in 1..i - 1 : t[j] = a[j]
      /\ \A j \in i..Len(s) - 1 : t[j] = b[j - (i - 1)]
    <2>1. Len(a) + Len(b) = Len(s) - 1 /\ Len(a) + 1 = i
        BY <1>1, <1>2, <1>3
    <2>2. /\ t \in Seq(S) /\ Len(t) = Len(a) + Len(b)
          /\ \A j \in 1..Len(a) : t[j] = a[j]
          /\ \A j \in Len(a) + 1..Len(a) + Len(b) : t[j] = b[j - Len(a)]
        BY <1>2, <1>3, ConcatIs
    <2> HIDE DEF t
    <2>3. Len(a) = i - 1
        BY <1>2
    <2> QED BY <1>1, <2>1, <2>2, <2>3
<1> HIDE DEF t
<1>6. \A j \in 1..Len(s) - 1 : t[j] = IF j < i THEN s[j] ELSE s[j + 1]
    <2> TAKE j \in 1..Len(s) - 1
    <2>1. CASE j < i
        BY <1>1, <1>2, <1>5, <2>1
    <2>2. CASE j >= i
        <3>1. t[j] = b[j - (i - 1)] /\ j - (i - 1) \in 1..Len(s) - i
            BY <1>1, <1>5, <2>2
        <3> QED BY <1>1, <1>3, <2>2, <3>1
    <2> QED BY <1>1, <2>1, <2>2
<1>7. t = Without(s, Len(s), i)
    BY <1>1, <1>5, <1>6 DEF Without
<1>8. RemoveAt(s, i) = t
    BY DEF RemoveAt, t, a, b
<1> QED BY <1>5, <1>7, <1>8

(* The first item of s in S.                                               *)
LEMMA PositionIs ==
    ASSUME NEW X, NEW s \in Seq(X), NEW S
    PROVE  /\ Position(s, S) \in 1..Len(s) + 1
           /\ Position(s, S) <= Len(s) => s[Position(s, S)] \in S
           /\ \A i \in 1..Len(s) : s[i] \in S => Position(s, S) <= i
<1> DEFINE T == {i \in 1..Len(s) : s[i] \in S} \cup {Len(s) + 1}
<1>1. Len(s) \in Nat
    OBVIOUS
<1>2. T \subseteq Nat /\ T # {}
    BY <1>1
<1>3. Min(T) \in T /\ \A y \in T : Min(T) <= y
    <2> HIDE DEF T
    <2> QED BY <1>2, MinNat
<1>4. Position(s, S) = Min(T)
    BY DEF Position
<1> QED BY <1>1, <1>3, <1>4

(***************************************************************************)
(* The invariant.                                                          *)
(***************************************************************************)
Iterators == [on : BOOLEAN, at : Addresses, diff : Int, start : SUBSET Items,
              seen : Seq(Items), gone : SUBSET Items, inserted : BOOLEAN]

LinkedTypes ==
    /\ kind \in {"list", "keyed", "queue", "stack"}
    /\ link \in [Addresses -> Addresses]
    /\ data \in [Nodes -> Items \cup {NoItem}]
    /\ tail \in Addresses /\ len \in Nat
    /\ itr \in Iterators
    /\ clearing \in BOOLEAN /\ cut \in BOOLEAN /\ broken \in BOOLEAN
    /\ content \in Seq(Items) /\ owned \subseteq Items

(* The items that are owned are in the nodes, each once, and len counts.    *)
Held ==
    /\ \A m \in Nodes : data[m] # NoItem => data[m] \in owned
    /\ \A x \in owned : \E m \in Nodes : data[m] = x
    /\ \A m, k \in Nodes : data[m] = data[k] /\ data[m] # NoItem => m = k
    /\ Cardinality(Allocated) = len /\ Cardinality(owned) = len

(* A free node has no link, the tail is no free node.  Only a queue has a   *)
(* tail, or loses it; only then NULL is followed, or content is not exact.  *)
Loose ==
    /\ \A m \in Nodes : data[m] = NoItem => link[m] = 0
    /\ tail # 0 => data[tail] # NoItem
    /\ kind # "queue" => ~cut /\ tail = 0
    /\ broken => cut
    /\ len <= Len(content)

(* The chain of n nodes holds items; it spells content and has every node   *)
(* unless the queue lost its tail.  The tail, if it is in the chain, is its *)
(* last node.                                                              *)
Spelled(c, n) ==
    /\ ChainOf(link, c, n) /\ n <= len
    /\ \A i \in 1..n : data[c[i]] # NoItem
    /\ \A i \in 1..n : c[i] = tail => i = n
    /\ ~cut => /\ n = len /\ Len(content) = n
               /\ \A m \in Nodes : data[m] # NoItem => \E i \in 1..n : c[i] = m
               /\ \A i \in 1..n : content[i] = data[c[i]]
               /\ kind = "queue" /\ n > 0 => tail = c[n]

(* Position j is ahead of an iterator that holds the link to position p + 1: *)
(* of the elements from there on it has shown the first, and those inserted *)
(* before it, less those that were removed.                                 *)
Ahead(p, j) == j > p /\ j >= p + 2 + itr.diff
Seen(x) == \E i \in 1..Len(itr.seen) : itr.seen[i] = x

ItrOK(c, n, p) ==
    /\ p \in 0..n /\ itr.at = LinkTo(c, p + 1)
    /\ itr.on =>
        /\ \A x \in itr.start :
               \/ Seen(x) \/ x \in itr.gone
               \/ \E j \in 1..n : Ahead(p, j) /\ data[c[j]] = x
        /\ ~itr.inserted =>
               /\ itr.diff <= 0
               /\ \A i, j \in 1..Len(itr.seen) : itr.seen[i] = itr.seen[j] => i = j
               /\ \A j \in 1..n : Ahead(p, j) => ~Seen(data[c[j]])

(* An iterator that is freed holds nothing; m_list_clear has one, and        *)
(* m_queue_clear and m_stack_clear do not, and go on while len is not 0.    *)
ItrRests ==
    /\ ~itr.on => itr.at = 0
    /\ clearing => (itr.on <=> IsList) /\ (IsList \/ len > 0)

LinkedInv ==
    /\ LinkedTypes /\ Held /\ Loose /\ ItrRests
    /\ \E c, n : Spelled(c, n) /\ \E p : ItrOK(c, n, p)

(***************************************************************************)
(* What the invariant gives.                                               *)
(***************************************************************************)
LEMMA AllocatedFinite ==
    ASSUME LinkedTypes
    PROVE  /\ IsFiniteSet(Allocated) /\ Cardinality(Allocated) <= LinkedMax
           /\ Cardinality(Allocated) \in Nat /\ IsFiniteSet(owned)
<1> USE LinkedAssumption
<1>1. IsFiniteSet(Nodes) /\ Cardinality(Nodes) = LinkedMax
    BY FS_Interval DEF Nodes
<1>2. Allocated \subseteq Nodes
    BY DEF Allocated
<1>3. IsFiniteSet(owned)
    BY FS_Subset DEF LinkedTypes
<1> QED BY <1>1, <1>2, <1>3, FS_Subset, FS_CardinalityType

LEMMA ChainKnown ==
    ASSUME LinkedTypes, Held, NEW c, NEW n, Spelled(c, n)
    PROVE  /\ Chain = c /\ Len(Chain) = n
           /\ Traversed = [i \in 1..n |-> data[c[i]]]
           /\ n \in Nat /\ n <= LinkedMax /\ c \in [1..n -> Nodes]
<1>1. n \in Nat /\ c \in [1..n -> Nodes]
    BY DEF Spelled, ChainOf
<1>2. n <= LinkedMax
    <2>1. n <= Cardinality(Allocated)
        BY DEF Spelled, Held
    <2> QED BY <1>1, <2>1, AllocatedFinite, LinkedAssumption
<1>3. Chain = c /\ Len(Chain) = n
    BY <1>2, ChainIs DEF Spelled
<1> QED BY <1>1, <1>2, <1>3 DEF Traversed

(* The items met on the way, as a sequence.                                *)
LEMMA TraversedIs ==
    ASSUME LinkedTypes, Held, NEW c, NEW n, Spelled(c, n)
    PROVE  /\ Traversed \in Seq(Items) /\ Len(Traversed) = n
           /\ \A i \in 1..n : Traversed[i] = data[c[i]]
           /\ ~cut => Traversed = content
<1>1. /\ Traversed = [i \in 1..n |-> data[c[i]]] /\ n \in Nat /\ c \in [1..n -> Nodes]
    BY ChainKnown
<1>2. \A i \in 1..n : data[c[i]] \in Items
    BY <1>1 DEF Spelled, LinkedTypes
<1>3. Traversed \in Seq(Items) /\ Len(Traversed) = n
    BY <1>1, <1>2
<1>4. ASSUME ~cut PROVE Traversed = content
    <2>1. content \in Seq(Items) /\ Len(content) = n /\ \A i \in 1..n : content[i] = data[c[i]]
        BY <1>4 DEF Spelled, LinkedTypes
    <2>2. content = [i \in 1..n |-> content[i]]
        BY <2>1
    <2> QED BY <1>1, <2>1, <2>2
<1> QED BY <1>1, <1>3, <1>4

LEMMA InvContent == LinkedInv => LinkedContent
<1>1. SUFFICES ASSUME LinkedInv, ~cut
               PROVE  /\ Traversed = content /\ len = Len(content)
                      /\ kind = "queue" => tail = IF Chain = <<>> THEN 0 ELSE Last(Chain)
    BY DEF LinkedContent
<1>2. PICK c, n : Spelled(c, n)
    BY <1>1 DEF LinkedInv
<1> USE <1>1 DEF LinkedInv
<1>3. Traversed = content /\ len = Len(content)
    BY <1>2, TraversedIs DEF Spelled
<1>4. Chain = c /\ Len(Chain) = n /\ n \in Nat /\ c \in [1..n -> Nodes]
    BY <1>2, ChainKnown
<1>5. CASE n = 0
    <2>1. tail \notin Nodes
        BY <1>1, <1>2, <1>5, LinkedAssumption DEF Spelled, Loose, Nodes
    <2>2. tail = 0
        BY <2>1, LinkedAssumption DEF LinkedTypes, Addresses, Nodes
    <2>3. Chain = <<>>
        BY <1>4, <1>5
    <2> QED BY <1>3, <2>2, <2>3
<1>6. CASE n # 0
    <2>1. Chain # <<>> /\ Last(Chain) = c[n]
        BY <1>4, <1>6 DEF Last
    <2>2. kind = "queue" => tail = c[n]
        BY <1>2, <1>4, <1>6 DEF Spelled
    <2> QED BY <1>3, <2>1, <2>2
<1> QED BY <1>5, <1>6

LEMMA InvOwned == LinkedInv => LinkedOwned
<1>1. SUFFICES ASSUME LinkedInv PROVE LinkedOwned
    OBVIOUS
<1>2. owned = {data[n] : n \in Allocated}
    BY <1>1, LinkedAssumption DEF LinkedInv, Held, Allocated, LinkedTypes
<1> QED BY <1>1, <1>2 DEF LinkedOwned, LinkedInv, Held, Loose

(***************************************************************************)
(* What the operations do to the nodes.                                    *)
(***************************************************************************)
LEMMA HeldAdd ==
    ASSUME LinkedTypes, Held, NEW m \in Nodes, data[m] = NoItem,
           NEW x \in Items, x \notin owned,
           data' = [data EXCEPT ![m] = x], owned' = owned \cup {x}, len' = len + 1
    PROVE  /\ Held' /\ data' \in [Nodes -> Items \cup {NoItem}] /\ owned' \subseteq Items
           /\ len' \in Nat
<1> USE LinkedAssumption
<1>1. data \in [Nodes -> Items \cup {NoItem}] /\ x # NoItem
    BY DEF LinkedTypes
<1>2. /\ data'[m] = x /\ \A k \in Nodes : k # m => data'[k] = data[k]
    BY <1>1
<1>3. Allocated' = Allocated \cup {m} /\ m \notin Allocated
    BY <1>1, <1>2 DEF Allocated
<1>4. Cardinality(Allocated') = len' /\ Cardinality(owned') = len' /\ len' \in Nat
    <2>1. Cardinality(Allocated \cup {m}) = Cardinality(Allocated) + 1
        BY <1>3, AllocatedFinite, FS_AddElement
    <2>2. Cardinality(owned \cup {x}) = Cardinality(owned) + 1
        BY AllocatedFinite, FS_AddElement
    <2> QED BY <1>3, <2>1, <2>2 DEF Held, LinkedTypes
<1>5. \A k \in Nodes : data'[k] # NoItem => data'[k] \in owned'
    BY <1>2 DEF Held
<1>6. \A y \in owned' : \E k \in Nodes : data'[k] = y
    BY <1>2, <1>1 DEF Held, LinkedTypes
<1>7. \A k, j \in Nodes : data'[k] = data'[j] /\ data'[k] # NoItem => k = j
    BY <1>2 DEF Held
<1>8. data' \in [Nodes -> Items \cup {NoItem}] /\ owned' \subseteq Items
    BY <1>1 DEF LinkedTypes
<1> QED BY <1>4, <1>5, <1>6, <1>7, <1>8 DEF Held

LEMMA HeldDel ==
    ASSUME LinkedTypes, Held, NEW m \in Nodes, data[m] # NoItem,
           data' = [data EXCEPT ![m] = NoItem], owned' = owned \ {data[m]}, len' = len - 1
    PROVE  /\ Held' /\ data' \in [Nodes -> Items \cup {NoItem}] /\ owned' \subseteq Items
           /\ len' \in Nat /\ len > 0 /\ data[m] \in owned
<1> USE LinkedAssumption
<1>1. data \in [Nodes -> Items \cup {NoItem}] /\ data[m] \in owned
    BY DEF LinkedTypes, Held
<1>2. /\ data'[m] = NoItem /\ \A k \in Nodes : k # m => data'[k] = data[k]
    BY <1>1
<1>3. Allocated' = Allocated \ {m} /\ m \in Allocated
    BY <1>1, <1>2 DEF Allocated
<1>4. Cardinality(Allocated') = len' /\ Cardinality(owned') = len' /\ len' \in Nat /\ len > 0
    <2>1. Cardinality(Allocated \ {m}) = Cardinality(Allocated) - 1
        BY <1>3, AllocatedFinite, FS_RemoveElement
    <2>2. Cardinality(owned \ {data[m]}) = Cardinality(owned) - 1
        BY <1>1, AllocatedFinite, FS_RemoveElement
    <2>3. IsFiniteSet(Allocated \ {m})
        BY AllocatedFinite, FS_Subset
    <2>4. Cardinality(Allocated \ {m}) \in Nat
        BY <2>3, FS_CardinalityType
    <2> QED BY <1>3, <2>1, <2>2, <2>4 DEF Held, LinkedTypes
<1>5. \A k \in Nodes : data'[k] # NoItem => data'[k] \in owned'
    BY <1>2 DEF Held
<1>6. \A y \in owned' : \E k \in Nodes : data'[k] = y
    BY <1>2, <1>1 DEF Held, LinkedTypes
<1>7. \A k, j \in Nodes : data'[k] = data'[j] /\ data'[k] # NoItem => k = j
    BY <1>2 DEF Held
<1>8. data' \in [Nodes -> Items \cup {NoItem}] /\ owned' \subseteq Items
    BY <1>1 DEF LinkedTypes
<1> QED BY <1>1, <1>4, <1>5, <1>6, <1>7, <1>8 DEF Held

LEMMA HeldSet ==
    ASSUME LinkedTypes, Held, NEW m \in Nodes, data[m] # NoItem,
           NEW x \in Items, x \notin owned,
           data' = [data EXCEPT ![m] = x], owned' = (owned \ {data[m]}) \cup {x}, len' = len
    PROVE  /\ Held' /\ data' \in [Nodes -> Items \cup {NoItem}] /\ owned' \subseteq Items
<1> USE LinkedAssumption
<1>1. data \in [Nodes -> Items \cup {NoItem}] /\ data[m] \in owned /\ x # NoItem
    BY DEF LinkedTypes, Held
<1>2. /\ data'[m] = x /\ \A k \in Nodes : k # m => data'[k] = data[k]
    BY <1>1
<1>3. Allocated' = Allocated
    BY <1>1, <1>2 DEF Allocated
<1>4. Cardinality(owned') = len
    <2>1. Cardinality(owned \ {data[m]}) = Cardinality(owned) - 1 /\ IsFiniteSet(owned \ {data[m]})
        BY <1>1, AllocatedFinite, FS_RemoveElement
    <2>2. Cardinality((owned \ {data[m]}) \cup {x}) = Cardinality(owned \ {data[m]}) + 1
        BY <2>1, FS_AddElement
    <2> QED BY <2>1, <2>2 DEF Held, LinkedTypes
<1>5. \A k \in Nodes : data'[k] # NoItem => data'[k] \in owned'
    BY <1>2 DEF Held
<1>6. \A y \in owned' : \E k \in Nodes : data'[k] = y
    BY <1>2, <1>1 DEF Held, LinkedTypes
<1>7. \A k, j \in Nodes : data'[k] = data'[j] /\ data'[k] # NoItem => k = j
    BY <1>2, <1>5 DEF Held
<1>8. data' \in [Nodes -> Items \cup {NoItem}] /\ owned' \subseteq Items
    BY <1>1 DEF LinkedTypes
<1> QED BY <1>3, <1>4, <1>5, <1>6, <1>7, <1>8 DEF Held

(* malloc gives a free node.                                               *)
LEMMA FreeNode ==
    ASSUME LinkedTypes, Allocated # Nodes
    PROVE  Min(Nodes \ Allocated) \in Nodes /\ data[Min(Nodes \ Allocated)] = NoItem
<1> DEFINE F == Nodes \ Allocated
<1>1. F \subseteq Nat /\ F # {}
    BY LinkedAssumption DEF Nodes, Allocated
<1>2. Min(F) \in F
    <2> HIDE DEF F
    <2> QED BY <1>1, MinNat
<1> QED BY <1>2 DEF Allocated

(* The address of the link to a position.                                  *)
LEMMA LinkToIs ==
    ASSUME NEW c, NEW n, ChainOf(link, c, n), NEW i \in 1..n + 1
    PROVE  /\ LinkTo(c, i) \in Addresses
           /\ i <= n => link[LinkTo(c, i)] = c[i] /\ c[i] \in Nodes /\ c[i] # LinkTo(c, i)
           /\ i = n + 1 => link[LinkTo(c, i)] = 0
           /\ link[LinkTo(c, i)] # 0 => i <= n
           /\ LinkTo(c, i) = 0 => i = 1
<1> USE LinkedAssumption
<1>1. n \in Nat /\ c \in [1..n -> Nodes] /\ i \in Nat
    BY DEF ChainOf
<1>2. LinkTo(c, i) \in Addresses /\ (LinkTo(c, i) = 0 => i = 1)
    BY <1>1 DEF LinkTo, Addresses, Nodes
<1>3. i <= n => link[LinkTo(c, i)] = c[i] /\ c[i] \in Nodes
    BY <1>1 DEF ChainOf
<1>4. i <= n => c[i] # LinkTo(c, i)
    <2>1. CASE i = 1
        BY <1>3, <2>1 DEF LinkTo, Nodes
    <2>2. CASE i # 1
        BY <1>1, <2>2 DEF LinkTo, ChainOf
    <2> QED BY <2>1, <2>2
<1>5. i = n + 1 => link[LinkTo(c, i)] = 0
    BY DEF ChainOf
<1> QED BY <1>1, <1>2, <1>3, <1>4, <1>5

(* insert_node in a list, and m_stack_push: a node comes in at position i.  *)
LEMMA InsertEffect ==
    ASSUME LinkedTypes, Held, Loose, NEW c, NEW n, Spelled(c, n), kind # "queue",
           NEW i \in 1..n + 1, NEW x \in Items, Accept(x), InsertNode(LinkTo(c, i), x),
           content' = InsertAt(content, i, x), UNCHANGED <<kind, tail, cut>>
    PROVE  \E m \in Nodes :
             /\ data' = [data EXCEPT ![m] = x] /\ data[m] = NoItem
             /\ Held' /\ Loose' /\ Spelled(With(c, n, i, m), n + 1)'
             /\ link' \in [Addresses -> Addresses] /\ data' \in [Nodes -> Items \cup {NoItem}]
             /\ len' \in Nat /\ content' \in Seq(Items) /\ owned' \subseteq Items
<1> USE LinkedAssumption
<1>0. PICK m \in Nodes : m = Min(Nodes \ Allocated) /\ data[m] = NoItem
    BY FreeNode DEF InsertNode
<1> DEFINE at == LinkTo(c, i)
           d == With(c, n, i, m)
<1>1. m \in Nodes /\ data[m] = NoItem
    BY <1>0
<1>2. /\ link' = [link EXCEPT ![m] = link[at], ![at] = m]
      /\ data' = [data EXCEPT ![m] = x] /\ len' = len + 1
    BY <1>0 DEF InsertNode
<1>3. x \notin owned /\ owned' = owned \cup {x} /\ broken' = broken
    BY DEF Accept
<1>4. ChainOf(link, c, n) /\ n \in Nat /\ c \in [1..n -> Nodes]
    BY DEF Spelled, ChainOf
<1>5. at \in Addresses /\ m \in Addresses /\ link \in [Addresses -> Addresses]
    <2>1. at \in Addresses
        BY <1>4, LinkToIs
    <2>2. m \in Addresses
        BY <1>1 DEF Addresses, Nodes
    <2> QED BY <2>1, <2>2 DEF LinkedTypes
<1>6. \A j \in 1..n : c[j] # m /\ data[c[j]] # NoItem
    BY <1>1 DEF Spelled
<1>7. at # m
    BY <1>1, <1>4, <1>6 DEF LinkTo, Nodes
<1> HIDE DEF at
<1>8. link' \in [Addresses -> Addresses]
    BY <1>2, <1>5
<1>9. /\ link'[at] = m /\ link'[m] = link[at]
      /\ \A a \in Addresses : a # at /\ a # m => link'[a] = link[a]
    BY <1>2, <1>5, <1>7
<1>10. ChainOf(link', d, n + 1)
    BY <1>1, <1>4, <1>6, <1>9, ChainInsert DEF at
<1>11. /\ Held' /\ data' \in [Nodes -> Items \cup {NoItem}] /\ owned' \subseteq Items
       /\ len' \in Nat
    BY <1>1, <1>2, <1>3, HeldAdd
<1>12. data'[m] = x /\ x # NoItem /\ \A k \in Nodes : k # m => data'[k] = data[k]
    BY <1>1, <1>2 DEF LinkedTypes
<1>13. ~cut /\ tail = 0 /\ ~cut' /\ tail' = 0 /\ kind' = kind
    BY DEF Loose
<1>14. /\ n = len /\ Len(content) = n /\ content \in Seq(Items)
       /\ \A k \in Nodes : data[k] # NoItem => \E j \in 1..n : c[j] = k
       /\ \A j \in 1..n : content[j] = data[c[j]]
    BY <1>13 DEF Spelled, LinkedTypes
<1>15. content' \in Seq(Items) /\ content' = With(content, n, i, x) /\ Len(content') = n + 1
    <2>1. i \in 1..Len(content) + 1
        BY <1>14
    <2> QED BY <1>14, <2>1, InsertAtIs
<1>16. Loose'
    <2>1. \A k \in Nodes : data'[k] = NoItem => link'[k] = 0
        <3> TAKE k \in Nodes
        <3>1. k # m /\ data'[k] = NoItem => data[k] = NoItem /\ link[k] = 0 /\ k \in Addresses
            BY <1>12 DEF Loose, Nodes, Addresses
        <3>2. data[k] = NoItem => k # at
            BY <1>4, <1>6 DEF at, LinkTo, Nodes
        <3> QED BY <1>9, <1>12, <3>1, <3>2
    <2>2. ~broken'
        BY <1>3, <1>13 DEF Loose
    <2>3. len' <= Len(content')
        BY <1>2, <1>4, <1>14, <1>15
    <2> QED BY <1>13, <2>1, <2>2, <2>3 DEF Loose
<1>17. Spelled(d, n + 1)'
    <2>1. /\ d[i] = m /\ \A j \in 1..n : j < i => d[j] = c[j]
          /\ \A j \in 1..n : j >= i => d[j + 1] = c[j]
          /\ \A j \in 1..n + 1 : j > i => d[j] = c[j - 1]
        BY <1>4 DEF With
    <2>2. /\ content'[i] = x /\ \A j \in 1..n : j < i => content'[j] = content[j]
          /\ \A j \in 1..n + 1 : j > i => content'[j] = content[j - 1]
        <3> DEFINE e == With(content, n, i, x)
        <3>1. /\ e[i] = x /\ \A j \in 1..n : j < i => e[j] = content[j]
              /\ \A j \in 1..n + 1 : j > i => e[j] = content[j - 1]
            BY <1>4 DEF With
        <3>2. content' = e
            BY <1>15
        <3> HIDE DEF e
        <3> QED BY <1>4, <3>1, <3>2
    <2> HIDE DEF d
    <2>3. \A j \in 1..n + 1 : data'[d[j]] # NoItem /\ content'[j] = data'[d[j]] /\ d[j] # 0
        <3> TAKE j \in 1..n + 1
        <3>1. CASE j = i
            BY <1>1, <1>12, <2>1, <2>2, <3>1 DEF Nodes
        <3>2. CASE j < i
            <4>1. j \in 1..n
                BY <1>4, <3>2
            <4> QED BY <1>4, <1>6, <1>12, <1>14, <2>1, <2>2, <3>2, <4>1 DEF Nodes
        <3>3. CASE j > i
            <4>1. j - 1 \in 1..n /\ d[j] = c[j - 1] /\ content'[j] = content[j - 1]
                BY <1>4, <2>1, <2>2, <3>3
            <4>2. c[j - 1] \in Nodes /\ c[j - 1] # m
                BY <1>4, <1>6, <4>1
            <4> QED BY <1>6, <1>12, <1>14, <4>1, <4>2 DEF Nodes
        <3> QED BY <1>4, <3>1, <3>2, <3>3
    <2>4. ASSUME NEW k \in Nodes, data'[k] # NoItem PROVE \E j \in 1..n + 1 : d[j] = k
        <3>1. CASE k = m
            BY <1>4, <2>1, <3>1
        <3>2. CASE k # m
            <4>1. PICK j \in 1..n : c[j] = k
                BY <1>12, <1>14, <2>4, <3>2
            <4>2. (j < i /\ d[j] = k) \/ (j >= i /\ d[j + 1] = k)
                BY <1>4, <2>1, <4>1
            <4> QED BY <1>4, <4>2
        <3> QED BY <3>1, <3>2
    <2>5. n + 1 = len' /\ Len(content') = n + 1
        BY <1>2, <1>14, <1>15
    <2>6. \A j \in 1..n + 1 : d[j] # tail'
        BY <2>3, <1>13
    <2>7. n + 1 <= len'
        BY <1>4, <2>5
    <2> QED BY <1>10, <1>13, <2>3, <2>4, <2>5, <2>6, <2>7 DEF Spelled
<1> QED BY <1>1, <1>2, <1>8, <1>11, <1>15, <1>16, <1>17

(* remove_node, m_queue_dequeue, m_stack_pop and m_*_itr_remove: the node    *)
(* at position i goes.                                                     *)
LEMMA RemoveEffect ==
    ASSUME LinkedTypes, Held, Loose, NEW c, NEW n, Spelled(c, n),
           NEW i \in 1..n, UnlinkNode(LinkTo(c, i)),
           owned' = owned \ {data[c[i]]}, broken' = (data[c[i]] \notin owned),
           tail' = IF kind = "queue" /\ tail = c[i] THEN 0 ELSE tail,
           cut' = (cut \/ (kind = "queue" /\ tail = c[i] /\ LinkTo(c, i) # 0)),
           content' \in Seq(Items), len' <= Len(content'),
           ~cut => content' = RemoveAt(content, i), kind' = kind
    PROVE  /\ data' = [data EXCEPT ![c[i]] = NoItem]
           /\ Held' /\ Loose' /\ Spelled(Without(c, n, i), n - 1)'
           /\ link' \in [Addresses -> Addresses] /\ data' \in [Nodes -> Items \cup {NoItem}]
           /\ len' \in Nat /\ owned' \subseteq Items /\ tail' \in Addresses
           /\ cut' \in BOOLEAN /\ ~broken'
<1> USE LinkedAssumption
<1> DEFINE m == c[i]
           at == LinkTo(c, i)
           d == Without(c, n, i)
<1>1. ChainOf(link, c, n) /\ n \in Nat /\ c \in [1..n -> Nodes] /\ n - 1 \in Nat
    BY DEF Spelled, ChainOf
<1>2. at \in Addresses /\ m \in Addresses /\ link \in [Addresses -> Addresses]
      /\ m \in Nodes /\ at # m /\ link[at] = m /\ (at = 0 => i = 1)
    <2>1. i \in 1..n + 1 /\ i <= n
        BY <1>1
    <2>2. at \in Addresses /\ m \in Nodes /\ at # m /\ link[at] = m /\ (at = 0 => i = 1)
        BY <1>1, <2>1, LinkToIs
    <2>3. m \in Addresses
        BY <2>2 DEF Addresses, Nodes
    <2> QED BY <2>2, <2>3 DEF LinkedTypes
<1>3. /\ link' = [link EXCEPT ![at] = link[m], ![m] = 0]
      /\ data' = [data EXCEPT ![m] = NoItem] /\ len' = len - 1
    BY <1>2 DEF UnlinkNode
<1>4. data[m] # NoItem
    BY DEF Spelled
<1> HIDE DEF at, m
<1>5. link' \in [Addresses -> Addresses]
    <2>1. link[m] \in Addresses /\ 0 \in Addresses
        BY <1>2 DEF Addresses
    <2> QED BY <1>2, <1>3, <2>1
<1>6. /\ link'[at] = link[m] /\ link'[m] = 0
      /\ \A a \in Addresses : a # at /\ a # m => link'[a] = link[a]
    BY <1>2, <1>3
<1>7. ChainOf(link', d, n - 1)
    BY <1>1, <1>6, ChainRemove DEF at, m
<1>8. /\ Held' /\ data' \in [Nodes -> Items \cup {NoItem}] /\ owned' \subseteq Items
      /\ len' \in Nat /\ len > 0 /\ data[m] \in owned
    BY <1>2, <1>3, <1>4, HeldDel DEF m
<1>9. data'[m] = NoItem /\ \A k \in Nodes : k # m => data'[k] = data[k]
    BY <1>2, <1>3 DEF LinkedTypes
<1>10. ~broken' /\ tail' \in Addresses /\ cut' \in BOOLEAN
    <2>1. ~broken'
        BY <1>8 DEF m
    <2>2. tail' \in Addresses
        BY DEF LinkedTypes, Addresses
    <2> QED BY <2>1, <2>2 DEF LinkedTypes
<1>11. kind # "queue" => ~cut' /\ tail' = 0
    BY DEF Loose
<1>12. tail' # 0 => tail' = tail /\ tail # m
    BY <1>2, <1>11 DEF m, Loose
<1>13. /\ \A j \in 1..n - 1 : j < i => d[j] = c[j]
       /\ \A j \in 1..n - 1 : j >= i => d[j] = c[j + 1]
       /\ \A j \in 1..n : j > i => d[j - 1] = c[j]
    BY <1>1, WithoutIs
<1> HIDE DEF d
<1>14. Loose'
    <2>1. \A k \in Nodes : data'[k] = NoItem => link'[k] = 0
        <3> TAKE k \in Nodes
        <3>1. k # m /\ data'[k] = NoItem => data[k] = NoItem /\ link[k] = 0 /\ k \in Addresses
            BY <1>9 DEF Loose, Nodes, Addresses
        <3>2. data[k] = NoItem => k # at
            <4>1. i # 1 => i - 1 \in 1..n
                BY <1>1
            <4> QED BY <4>1 DEF at, LinkTo, Nodes, Spelled
        <3> QED BY <1>6, <3>1, <3>2
    <2>2. tail' # 0 => data'[tail'] # NoItem
        <3>1. tail # 0 => tail \in Nodes
            BY DEF LinkedTypes, Addresses, Nodes
        <3> QED BY <1>9, <1>12, <3>1 DEF Loose
    <2> QED BY <1>10, <1>11, <2>1, <2>2 DEF Loose
<1>15. \A j \in 1..n - 1 : \E q \in 1..n : q # i /\ d[j] = c[q] /\ (q = n => j = n - 1)
    <2> TAKE j \in 1..n - 1
    <2>1. CASE j < i
        BY <1>1, <1>13, <2>1
    <2>2. CASE j >= i
        BY <1>1, <1>13, <2>2
    <2> QED BY <1>1, <2>1, <2>2
<1>16. \A j \in 1..n : j # i => c[j] # m /\ c[j] \in Nodes
    BY <1>1 DEF ChainOf, m
<1>17. Spelled(d, n - 1)'
    <2>1. n - 1 <= len'
        BY <1>1, <1>3 DEF Spelled, LinkedTypes
    <2>2. \A j \in 1..n - 1 : data'[d[j]] # NoItem
        BY <1>9, <1>15, <1>16 DEF Spelled
    <2>3. \A j \in 1..n - 1 : d[j] = tail' => j = n - 1
        <3> TAKE j \in 1..n - 1
        <3>1. PICK q \in 1..n : q # i /\ d[j] = c[q] /\ (q = n => j = n - 1)
            BY <1>15
        <3>2. c[q] # 0
            BY <3>1, <1>16 DEF Nodes
        <3>3. c[q] = tail => q = n
            BY DEF Spelled
        <3> QED BY <1>12, <3>1, <3>2, <3>3
    <2>4. ASSUME ~cut'
          PROVE  /\ n - 1 = len' /\ Len(content') = n - 1
                 /\ \A k \in Nodes : data'[k] # NoItem => \E j \in 1..n - 1 : d[j] = k
                 /\ \A j \in 1..n - 1 : content'[j] = data'[d[j]]
                 /\ kind = "queue" /\ n - 1 > 0 => tail' = d[n - 1]
        <3>1. ~cut /\ (kind = "queue" /\ tail = m => at = 0)
            BY <2>4 DEF m, at, LinkedTypes
        <3>2. /\ n = len /\ Len(content) = n /\ content \in Seq(Items)
              /\ \A k \in Nodes : data[k] # NoItem => \E j \in 1..n : c[j] = k
              /\ \A j \in 1..n : content[j] = data[c[j]]
              /\ kind = "queue" /\ n > 0 => tail = c[n]
            BY <3>1 DEF Spelled, LinkedTypes
        <3>3. content' = Without(content, n, i) /\ Len(content') = n - 1
            BY <3>1, <3>2, RemoveAtIs
        <3>4. /\ \A j \in 1..n - 1 : j < i => content'[j] = content[j]
              /\ \A j \in 1..n - 1 : j >= i => content'[j] = content[j + 1]
            BY <1>1, <3>3, WithoutIs
        <3>5. \A j \in 1..n - 1 : content'[j] = data'[d[j]]
            <4> TAKE j \in 1..n - 1
            <4>1. CASE j < i
                <5>1. j \in 1..n /\ j # i
                    BY <1>1, <4>1
                <5> QED BY <1>9, <1>13, <1>16, <3>2, <3>4, <4>1, <5>1
            <4>2. CASE j >= i
                <5>1. j + 1 \in 1..n /\ j + 1 # i
                    BY <1>1, <4>2
                <5> QED BY <1>9, <1>13, <1>16, <3>2, <3>4, <4>2, <5>1
            <4> QED BY <1>1, <4>1, <4>2
        <3>6. ASSUME NEW k \in Nodes, data'[k] # NoItem PROVE \E j \in 1..n - 1 : d[j] = k
            <4>1. k # m /\ data[k] # NoItem
                BY <1>9, <3>6
            <4>2. PICK j \in 1..n : c[j] = k
                BY <3>2, <4>1
            <4>3. j # i
                BY <4>1, <4>2 DEF m
            <4>4. (j < i /\ d[j] = k /\ j \in 1..n - 1) \/ (j > i /\ d[j - 1] = k /\ j - 1 \in 1..n - 1)
                BY <1>1, <1>13, <4>2, <4>3
            <4> QED BY <4>4
        <3>7. ASSUME kind = "queue", n - 1 > 0 PROVE tail' = d[n - 1]
            <4>1. tail = c[n]
                BY <1>1, <3>2, <3>7
            <4>2. i # n
                <5>1. SUFFICES ASSUME i = n PROVE FALSE
                    OBVIOUS
                <5>2. at = 0
                    BY <3>1, <3>7, <4>1, <5>1 DEF m
                <5> QED BY <1>1, <1>2, <3>7, <5>1, <5>2
            <4>3. tail # m
                BY <1>1, <1>16, <4>1, <4>2
            <4>4. d[n - 1] = c[n]
                BY <1>1, <1>13, <4>2
            <4> QED BY <4>1, <4>3, <4>4 DEF m
        <3> QED BY <1>3, <3>2, <3>3, <3>5, <3>6, <3>7
    <2> QED BY <1>7, <2>1, <2>2, <2>3, <2>4 DEF Spelled
<1> QED BY <1>3, <1>5, <1>8, <1>10, <1>14, <1>17 DEF m, d

(* m_queue_enqueue: behind the tail, or as the head, or linked from nowhere *)
(* when the queue has lost its tail.                                        *)
LEMMA EnqueueEffect ==
    ASSUME LinkedTypes, Held, Loose, NEW c, NEW n, Spelled(c, n), NEW x \in Items, Enqueue(x)
    PROVE  /\ Held' /\ Loose' /\ \E d, k : Spelled(d, k)'
           /\ link' \in [Addresses -> Addresses] /\ data' \in [Nodes -> Items \cup {NoItem}]
           /\ len' \in Nat /\ content' \in Seq(Items) /\ owned' \subseteq Items
           /\ tail' \in Addresses
<1> USE LinkedAssumption
<1>1. PICK m \in Nodes : m = Min(Nodes \ Allocated) /\ data[m] = NoItem
    BY FreeNode DEF Enqueue
<1>2. /\ link' = [a \in Addresses |-> IF (a = tail /\ tail # 0) \/ (a = 0 /\ link[0] = 0)
                                      THEN m ELSE link[a]]
      /\ data' = [data EXCEPT ![m] = x] /\ tail' = m /\ len' = len + 1
      /\ content' = Append(content, x) /\ kind = "queue" /\ kind' = kind /\ cut' = cut
      /\ x \notin owned /\ owned' = owned \cup {x} /\ broken' = broken
    BY <1>1 DEF Enqueue, Accept, Addresses
<1>3. ChainOf(link, c, n) /\ n \in Nat /\ c \in [1..n -> Nodes]
    BY DEF Spelled, ChainOf
<1>4. m \in Addresses /\ m # 0 /\ m # tail /\ link[m] = 0 /\ 0 \in Addresses /\ m \in Nat
    BY <1>1 DEF Loose, Addresses, Nodes
<1>5. link' \in [Addresses -> Addresses]
    BY <1>2, <1>4 DEF LinkedTypes
<1>6. /\ Held' /\ data' \in [Nodes -> Items \cup {NoItem}] /\ owned' \subseteq Items
      /\ len' \in Nat
    BY <1>1, <1>2, HeldAdd
<1>7. data'[m] = x /\ x # NoItem /\ \A k \in Nodes : k # m => data'[k] = data[k]
    BY <1>1, <1>2 DEF LinkedTypes
<1>8. \A j \in 1..n : c[j] # m /\ data[c[j]] # NoItem /\ c[j] \in Nodes /\ data'[c[j]] = data[c[j]]
    BY <1>1, <1>3, <1>7 DEF Spelled
<1>9. /\ content' \in Seq(Items) /\ Len(content') = Len(content) + 1
      /\ content'[Len(content) + 1] = x
      /\ \A j \in 1..Len(content) : content'[j] = content[j]
    BY <1>2 DEF LinkedTypes
<1>10. Loose'
    <2>1. \A k \in Nodes : data'[k] = NoItem => link'[k] = 0
        <3> TAKE k \in Nodes
        <3>1. k # m /\ data'[k] = NoItem => data[k] = NoItem /\ link[k] = 0
            BY <1>7 DEF Loose
        <3>2. data[k] = NoItem /\ tail # 0 => k # tail
            BY DEF Loose
        <3>3. k \in Addresses /\ k # 0
            BY DEF Nodes, Addresses
        <3> QED BY <1>2, <1>7, <3>1, <3>2, <3>3
    <2>2. broken' => cut'
        BY <1>2 DEF Loose
    <2>3. len' <= Len(content')
        BY <1>2, <1>9 DEF Loose, LinkedTypes
    <2> QED BY <1>2, <1>7, <2>1, <2>2, <2>3 DEF Loose
<1>11. CASE n = 0
    <2> DEFINE d == [j \in 1..1 |-> m]
    <2>1. link[0] = 0
        BY <1>3, <1>11 DEF ChainOf, LinkTo
    <2>2. link'[0] = m /\ link'[m] = 0
        BY <1>2, <1>4, <2>1
    <2>3. ChainOf(link', d, 1)
        BY <2>2 DEF ChainOf, LinkTo
    <2>4. 1 <= len'
        BY <1>2 DEF LinkedTypes
    <2>5. ~cut => len = 0 /\ Len(content) = 0 /\ \A k \in Nodes : data[k] = NoItem
        BY <1>11 DEF Spelled
    <2> HIDE DEF d
    <2>6. d[1] = m
        BY DEF d
    <2>7. ~cut => /\ 1 = len' /\ Len(content') = 1
                  /\ \A k \in Nodes : data'[k] # NoItem => \E i \in 1..1 : d[i] = k
                  /\ \A i \in 1..1 : content'[i] = data'[d[i]]
        BY <1>2, <1>7, <1>9, <2>5, <2>6
    <2>8. Spelled(d, 1)'
        BY <1>2, <1>7, <2>3, <2>4, <2>6, <2>7 DEF Spelled
    <2> QED BY <1>2, <1>4, <1>5, <1>6, <1>9, <1>10, <2>8
<1>12. CASE n > 0 /\ tail = c[n]
    <2> DEFINE d == With(c, n, n + 1, m)
               at == LinkTo(c, n + 1)
    <2>1. link[0] # 0 /\ at = tail /\ at # 0
        <3>1. 1 \in 1..n /\ n \in 1..n
            BY <1>3, <1>12
        <3>2. c[1] = link[0] /\ at = c[n] /\ c[1] \in Nodes /\ c[n] \in Nodes
            BY <1>3, <1>12, <3>1 DEF ChainOf, LinkTo
        <3> QED BY <1>12, <3>2 DEF Nodes
    <2>2. link[at] = 0 /\ tail \in Addresses
        BY <1>3 DEF ChainOf, LinkedTypes
    <2> HIDE DEF at
    <2>3. /\ link'[at] = m /\ link'[m] = link[at]
          /\ \A a \in Addresses : a # at /\ a # m => link'[a] = link[a]
        BY <1>2, <1>4, <2>1, <2>2
    <2>4. ChainOf(link', d, n + 1)
        <3>1. n + 1 \in 1..n + 1
            BY <1>3
        <3> QED BY <1>1, <1>3, <1>8, <2>3, <3>1, ChainInsert DEF at
    <2>5. d[n + 1] = m /\ \A j \in 1..n : d[j] = c[j]
        BY <1>3 DEF With
    <2> HIDE DEF d
    <2>6. n + 1 <= len' /\ n \in Nat
        BY <1>2, <1>3 DEF LinkedTypes, Spelled
    <2>7. \A j \in 1..n + 1 : j = n + 1 \/ j \in 1..n
        BY <1>3
    <2>8. \A j \in 1..n + 1 : data'[d[j]] # NoItem /\ (d[j] = tail' => j = n + 1)
        BY <1>2, <1>7, <1>8, <2>5, <2>7
    <2>9. ASSUME ~cut
          PROVE  /\ n + 1 = len' /\ Len(content') = n + 1
                 /\ \A k \in Nodes : data'[k] # NoItem => \E i \in 1..n + 1 : d[i] = k
                 /\ \A i \in 1..n + 1 : content'[i] = data'[d[i]]
        <3>1. /\ n = len /\ Len(content) = n
              /\ \A k \in Nodes : data[k] # NoItem => \E i \in 1..n : c[i] = k
              /\ \A i \in 1..n : content[i] = data[c[i]]
            BY <2>9 DEF Spelled
        <3>2. ASSUME NEW k \in Nodes, data'[k] # NoItem PROVE \E i \in 1..n + 1 : d[i] = k
            <4>1. CASE k = m
                BY <1>3, <2>5, <4>1
            <4>2. CASE k # m
                <5>1. PICK i \in 1..n : c[i] = k
                    BY <1>7, <3>1, <3>2, <4>2
                <5> QED BY <1>3, <2>5, <5>1
            <4> QED BY <4>1, <4>2
        <3>3. \A i \in 1..n + 1 : content'[i] = data'[d[i]]
            BY <1>7, <1>8, <1>9, <2>5, <2>7, <3>1
        <3> QED BY <1>2, <1>9, <3>1, <3>2, <3>3
    <2>10. Spelled(d, n + 1)'
        BY <1>2, <2>4, <2>5, <2>6, <2>8, <2>9 DEF Spelled
    <2> QED BY <1>2, <1>4, <1>5, <1>6, <1>9, <1>10, <2>10
<1>13. CASE n > 0 /\ tail # c[n]
    <2>1. cut
        BY <1>2, <1>13 DEF Spelled
    <2>2. \A j \in 1..n : c[j] # tail
        BY <1>3, <1>13 DEF Spelled
    <2>3. link[0] # 0
        <3>1. 1 \in 1..n
            BY <1>3, <1>13
        <3> QED BY <1>3, <3>1 DEF ChainOf, LinkTo, Nodes
    <2>4. \A j \in 1..n + 1 : link'[LinkTo(c, j)] = link[LinkTo(c, j)]
        <3> TAKE j \in 1..n + 1
        <3>1. CASE j = 1
            BY <1>2, <1>4, <2>3, <3>1 DEF LinkTo
        <3>2. CASE j # 1
            <4>1. j - 1 \in 1..n /\ LinkTo(c, j) = c[j - 1]
                BY <1>3, <3>2 DEF LinkTo
            <4>2. c[j - 1] \in Addresses /\ c[j - 1] # 0 /\ c[j - 1] # tail
                BY <1>8, <2>2, <4>1 DEF Addresses, Nodes
            <4> QED BY <1>2, <4>1, <4>2
        <3> QED BY <3>1, <3>2
    <2>5. ChainOf(link', c, n)
        BY <1>3, <2>4, ChainSame
    <2>6. n <= len'
        BY <1>2, <1>3 DEF Spelled, LinkedTypes
    <2>7. Spelled(c, n)'
        BY <1>2, <1>8, <2>1, <2>5, <2>6 DEF Spelled
    <2> QED BY <1>2, <1>4, <1>5, <1>6, <1>9, <1>10, <2>7
<1> QED BY <1>3, <1>11, <1>12, <1>13

(* m_*_itr_set_data.                                                       *)
Replaced(c, i, x) ==
    /\ x \notin owned /\ owned' = (owned \ {data[c[i]]}) \cup {x}
    /\ data' = [data EXCEPT ![c[i]] = x]
    /\ content' \in Seq(Items) /\ Len(content') = Len(content)
    /\ \A j \in 1..Len(content) : content[j] = data[c[i]] => content'[j] = x
    /\ \A j \in 1..Len(content) : content[j] # data[c[i]] => content'[j] = content[j]
    /\ UNCHANGED <<kind, link, tail, len, cut, broken>>

LEMMA SetEffect ==
    ASSUME LinkedTypes, Held, Loose, NEW c, NEW n, Spelled(c, n), NEW i \in 1..n,
           NEW x \in Items, Replaced(c, i, x)
    PROVE  /\ Held' /\ Loose' /\ Spelled(c, n)'
           /\ data' \in [Nodes -> Items \cup {NoItem}]
           /\ content' \in Seq(Items) /\ owned' \subseteq Items
<1> USE LinkedAssumption DEF Replaced
<1>1. ChainOf(link, c, n) /\ n \in Nat /\ c \in [1..n -> Nodes] /\ c[i] \in Nodes
    BY DEF Spelled, ChainOf
<1>2. data[c[i]] # NoItem
    BY DEF Spelled
<1>3. Held' /\ data' \in [Nodes -> Items \cup {NoItem}] /\ owned' \subseteq Items
    BY <1>1, <1>2, HeldSet
<1>4. data'[c[i]] = x /\ x # NoItem /\ \A k \in Nodes : k # c[i] => data'[k] = data[k]
    BY <1>1 DEF LinkedTypes
<1>6. \A k \in Nodes : data'[k] = NoItem <=> data[k] = NoItem
    BY <1>2, <1>4
<1>7. Loose'
    <2>1. tail # 0 => tail \in Nodes
        BY DEF LinkedTypes, Addresses, Nodes
    <2> QED BY <1>6, <2>1 DEF Loose
<1>8. Spelled(c, n)'
    <2>1. \A j \in 1..n : data'[c[j]] # NoItem
        BY <1>1, <1>6 DEF Spelled
    <2>2. ASSUME ~cut, NEW j \in 1..n PROVE content'[j] = data'[c[j]]
        <3>1. Len(content) = n /\ content[j] = data[c[j]] /\ data[c[j]] # NoItem
            BY <2>2 DEF Spelled
        <3>2. data[c[j]] = data[c[i]] <=> c[j] = c[i]
            BY <1>1, <3>1 DEF Held
        <3> QED BY <1>1, <1>4, <3>1, <3>2
    <2> QED BY <1>1, <1>6, <2>1, <2>2 DEF Spelled
<1> QED BY <1>3, <1>7, <1>8

(***************************************************************************)
(* Iterators.                                                              *)
(***************************************************************************)
LEMMA ItrFields ==
    ASSUME NEW i \in Iterators
    PROVE  /\ i.on \in BOOLEAN /\ i.at \in Addresses /\ i.diff \in Int
           /\ i.start \subseteq Items /\ i.seen \in Seq(Items) /\ i.gone \subseteq Items
           /\ i.inserted \in BOOLEAN /\ Len(i.seen) \in Nat
BY DEF Iterators

LEMMA NoItrIs ==
    NoItr \in Iterators /\ ~NoItr.on /\ NoItr.at = 0
BY LinkedAssumption DEF NoItr, Iterators, Addresses

(* What a position of the chain holds.                                     *)
LEMMA ChainItem ==
    ASSUME LinkedTypes, Held, NEW c, NEW n, Spelled(c, n)
    PROVE  /\ n \in Nat /\ c \in [1..n -> Nodes] /\ ChainOf(link, c, n)
           /\ \A j \in 1..n : data[c[j]] \in Items /\ c[j] \in Nodes
           /\ \A i, j \in 1..n : data[c[i]] = data[c[j]] => i = j
<1>1. n \in Nat /\ c \in [1..n -> Nodes] /\ ChainOf(link, c, n)
    BY DEF Spelled, ChainOf
<1>2. \A j \in 1..n : data[c[j]] \in Items /\ c[j] \in Nodes
    BY <1>1 DEF LinkedTypes, Spelled
<1>3. \A i, j \in 1..n : data[c[i]] = data[c[j]] => c[i] = c[j]
    BY <1>2 DEF Held, Spelled
<1>4. \A i, j \in 1..n : c[i] = c[j] => i = j
    BY <1>1 DEF ChainOf
<1> QED BY <1>1, <1>2, <1>3, <1>4

(* Without an iterator there is nothing to keep.                            *)
LEMMA ItrOffOK ==
    ASSUME NEW d, NEW k, Spelled(d, k)', ~itr'.on, itr'.at = 0
    PROVE  ItrOK(d, k, 0)'
<1>1. k \in Nat
    BY DEF Spelled, ChainOf
<1> QED BY <1>1 DEF ItrOK, LinkTo

(* m_*_itr_new.                                                            *)
LEMMA NewEffect ==
    ASSUME LinkedTypes, Held, Loose, NEW c, NEW n, Spelled(c, n), ~itr.on, itr.at = 0,
           ~broken, ItrNew, UNCHANGED <<link, data, cut>>
    PROVE  /\ itr' \in Iterators /\ (broken' => cut) /\ broken' \in BOOLEAN
           /\ ItrOK(c, n, 0)'
           /\ itr'.on \/ itr' = itr
           /\ kind # "queue" => itr'.on
<1>0. /\ n \in Nat /\ c \in [1..n -> Nodes] /\ ChainOf(link, c, n)
      /\ \A j \in 1..n : data[c[j]] \in Items /\ c[j] \in Nodes
      /\ \A i, j \in 1..n : data[c[i]] = data[c[j]] => i = j
    BY ChainItem
<1>1. CASE link[0] = 0
    <2>1. n = 0
        <3>1. SUFFICES ASSUME 1 \in 1..n PROVE FALSE
            BY <1>0
        <3> QED BY <1>0, <1>1, <3>1 DEF ChainOf, LinkTo, Nodes
    <2>2. cut
        BY <2>1 DEF ItrNew, Spelled
    <2>3. itr' = itr /\ broken' = TRUE
        BY <1>1 DEF ItrNew
    <2>4. ItrOK(c, n, 0)'
        BY <1>0, <2>3 DEF ItrOK, LinkTo
    <2> QED BY <2>2, <2>3, <2>4 DEF Loose, LinkedTypes
<1>2. CASE link[0] # 0
    <2>1. /\ itr' = [NoItr EXCEPT !.on = TRUE, !.start = ToSet(Traversed),
                                  !.seen = <<data[link[0]]>>]
          /\ broken' = broken
        BY <1>2 DEF ItrNew
    <2>2. n >= 1 /\ link[0] = c[1] /\ 1 \in 1..n
        BY <1>0, <1>2 DEF ChainOf, LinkTo
    <2>3. ToSet(Traversed) = {data[c[j]] : j \in 1..n}
        <3>1. DOMAIN Traversed = 1..n /\ \A j \in 1..n : Traversed[j] = data[c[j]]
            BY ChainKnown
        <3> QED BY <3>1 DEF ToSet
    <2>4. /\ itr'.on /\ itr'.at = 0 /\ itr'.diff = 0 /\ itr'.inserted = FALSE
          /\ itr'.seen = <<data[c[1]]>> /\ itr'.gone = {}
          /\ itr'.start = {data[c[j]] : j \in 1..n}
        BY <2>1, <2>2, <2>3 DEF NoItr
    <2>5. itr' \in Iterators
        <3>1. <<data[c[1]]>> \in Seq(Items)
            BY <1>0, <2>2
        <3>2. {data[c[j]] : j \in 1..n} \subseteq Items
            BY <1>0
        <3>3. itr' = [on |-> TRUE, at |-> 0, diff |-> 0, start |-> {data[c[j]] : j \in 1..n},
                      seen |-> <<data[c[1]]>>, gone |-> {}, inserted |-> FALSE]
            BY <2>1, <2>2, <2>3 DEF NoItr
        <3>4. 0 \in Addresses
            BY LinkedAssumption DEF Addresses
        <3> QED BY <3>1, <3>2, <3>3, <3>4 DEF Iterators
    <2>6. Len(itr'.seen) = 1 /\ itr'.seen[1] = data[c[1]]
        BY <2>4
    <2>7. \A x \in itr'.start : Seen(x)' \/ \E j \in 1..n : Ahead(0, j)' /\ data'[c[j]] = x
        <3> TAKE x \in itr'.start
        <3>1. PICK j \in 1..n : x = data[c[j]]
            BY <2>4
        <3>2. CASE j = 1
            BY <2>6, <3>1, <3>2 DEF Seen
        <3>3. CASE j # 1
            BY <1>0, <2>4, <3>1, <3>3 DEF Ahead
        <3> QED BY <3>2, <3>3
    <2>8. \A j \in 1..n : Ahead(0, j)' => ~Seen(data[c[j]])'
        <3> SUFFICES ASSUME NEW j \in 1..n, Ahead(0, j)', NEW i \in 1..1, itr'.seen[i] = data'[c[j]]
                     PROVE  FALSE
            BY <2>6 DEF Seen
        <3>1. j >= 2
            BY <1>0, <2>4 DEF Ahead
        <3>2. data[c[1]] = data[c[j]]
            BY <2>6
        <3> QED BY <1>0, <2>2, <3>1, <3>2
    <2>9. ItrOK(c, n, 0)'
        <3>1. 0 \in 0..n /\ itr'.at = LinkTo(c, 0 + 1)
            BY <1>0, <2>4 DEF LinkTo
        <3>2. \A i, j \in 1..Len(itr'.seen) : itr'.seen[i] = itr'.seen[j] => i = j
            BY <2>6
        <3> QED BY <2>4, <2>7, <2>8, <3>1, <3>2 DEF ItrOK
    <2> QED BY <2>1, <2>4, <2>5, <2>9 DEF Loose, LinkedTypes
<1> QED BY <1>1, <1>2

LEMMA ItrMoved ==
    ASSUME NEW i \in Iterators, NEW a \in Addresses, NEW d \in Int, NEW x,
           x \in Items
    PROVE  [i EXCEPT !.at = a, !.diff = d, !.seen = Append(@, x)] \in Iterators
<1>1. Append(i.seen, x) \in Seq(Items)
    BY DEF Iterators
<1>2. [i EXCEPT !.at = a, !.diff = d, !.seen = Append(@, x)]
        = [i EXCEPT !.at = a, !.diff = d, !.seen = Append(i.seen, x)]
    BY DEF Iterators
<1>3. ASSUME NEW s \in Seq(Items)
      PROVE  [i EXCEPT !.at = a, !.diff = d, !.seen = s] \in Iterators
    BY DEF Iterators
<1> QED BY <1>1, <1>2, <1>3

(* m_*_itr_next.  When the iterator ends, everything was met: what the       *)
(* property LinkedIteration says of this step.                              *)
LEMMA AdvanceEffect ==
    ASSUME LinkedTypes, Held, NEW c, NEW n, Spelled(c, n), NEW p, ItrOK(c, n, p), itr.on,
           ItrAdvance, UNCHANGED <<link, data>>
    PROVE  /\ itr' \in Iterators /\ \E q : ItrOK(c, n, q)'
           /\ ~itr'.on => itr'.at = 0
           /\ ~itr'.on => /\ \A x \in itr.start : Seen(x) \/ x \in itr.gone
                          /\ ~itr.inserted => \A i, j \in 1..Len(itr.seen) :
                                                  itr.seen[i] = itr.seen[j] => i = j
<1>0. /\ n \in Nat /\ c \in [1..n -> Nodes] /\ ChainOf(link, c, n)
      /\ \A j \in 1..n : data[c[j]] \in Items /\ c[j] \in Nodes
      /\ \A i, j \in 1..n : data[c[i]] = data[c[j]] => i = j
    BY ChainItem
<1>1. /\ itr \in Iterators /\ itr.diff \in Int /\ itr.seen \in Seq(Items) /\ Len(itr.seen) \in Nat
    BY ItrFields DEF LinkedTypes
<1>2. /\ p \in 0..n /\ p \in Nat /\ itr.at = LinkTo(c, p + 1) /\ p + 1 \in 1..n + 1
    BY <1>0 DEF ItrOK
<1>3. /\ link[itr.at] # 0 <=> p < n
      /\ p < n => link[itr.at] = LinkTo(c, p + 2)
    <2>1. p < n => link[itr.at] = c[p + 1] /\ c[p + 1] \in Nodes /\ LinkTo(c, p + 2) = c[p + 1]
        BY <1>0, <1>2 DEF ChainOf, LinkTo
    <2>2. p = n => link[itr.at] = 0
        BY <1>0, <1>2 DEF ChainOf
    <2> QED BY <1>0, <1>2, <2>1, <2>2 DEF Nodes
<1>4. PICK q \in 0..n : /\ q = IF p < n /\ itr.diff >= 0 THEN p + 1 ELSE p
                        /\ q \in Nat
    BY <1>0, <1>2
<1> DEFINE at == LinkTo(c, q + 1)
<1>5. /\ itr' = IF link[at] = 0 THEN NoItr
                ELSE [itr EXCEPT !.at = at, !.diff = 0, !.seen = Append(@, data[link[at]])]
    <2>1. at = IF link[itr.at] # 0 /\ itr.diff >= 0 THEN link[itr.at] ELSE itr.at
        BY <1>2, <1>3, <1>4
    <2> QED BY <2>1 DEF ItrAdvance
<1>6. /\ link[at] # 0 <=> q < n
      /\ q < n => link[at] = c[q + 1] /\ q + 1 \in 1..n
      /\ at \in Addresses
    <2>1. q + 1 \in 1..n + 1
        BY <1>0, <1>4
    <2>2. q < n => link[at] = c[q + 1] /\ c[q + 1] \in Nodes /\ q + 1 \in 1..n
        BY <1>0, <1>4 DEF ChainOf
    <2>3. q = n => link[at] = 0
        BY <1>0 DEF ChainOf
    <2>4. at \in Addresses
        BY <1>0, <2>1, LinkToIs
    <2> QED BY <1>0, <1>4, <2>2, <2>3, <2>4 DEF Nodes
<1> HIDE DEF at
(* What was ahead is now at the new position or still ahead.                *)
<1>7. \A j \in 1..n : Ahead(p, j) => j >= q + 1
    BY <1>0, <1>1, <1>2, <1>4 DEF Ahead
<1>8. CASE q = n
    <2>1. itr' = NoItr
        BY <1>5, <1>6, <1>8
    <2>2. \A j \in 1..n : ~Ahead(p, j)
        BY <1>0, <1>7, <1>8
    <2>3. /\ \A x \in itr.start : Seen(x) \/ x \in itr.gone
          /\ ~itr.inserted => \A i, j \in 1..Len(itr.seen) : itr.seen[i] = itr.seen[j] => i = j
        BY <2>2 DEF ItrOK
    <2>4. ItrOK(c, n, 0)'
        BY <1>0, <2>1, NoItrIs DEF ItrOK, LinkTo
    <2> QED BY <2>1, <2>3, <2>4, NoItrIs
<1>9. CASE q < n
    <2>1. itr' = [itr EXCEPT !.at = at, !.diff = 0, !.seen = Append(@, data[c[q + 1]])]
        BY <1>5, <1>6, <1>9
    <2>2. data[c[q + 1]] \in Items
        BY <1>0, <1>6, <1>9
    <2>3. /\ itr'.on /\ itr'.at = at /\ itr'.diff = 0 /\ itr'.start = itr.start
          /\ itr'.gone = itr.gone /\ itr'.inserted = itr.inserted
          /\ itr'.seen = Append(itr.seen, data[c[q + 1]])
        BY <1>1, <2>1 DEF Iterators
    <2>4. itr' \in Iterators
        <3>2. \A a \in Addresses, d \in Int, x \in Items :
                  [itr EXCEPT !.at = a, !.diff = d, !.seen = Append(@, x)] \in Iterators
            BY <1>1, ItrMoved
        <3>3. at \in Addresses /\ 0 \in Int
            BY <1>6
        <3>4. [itr EXCEPT !.at = at, !.diff = 0, !.seen = Append(@, data[c[q + 1]])] \in Iterators
            BY <2>2, <3>2, <3>3, Zenon
        <3> QED BY <2>1, <3>4
    <2>5. /\ Len(itr'.seen) = Len(itr.seen) + 1
          /\ itr'.seen[Len(itr.seen) + 1] = data[c[q + 1]]
          /\ \A i \in 1..Len(itr.seen) : itr'.seen[i] = itr.seen[i]
        BY <1>1, <2>2, <2>3
    <2>6. \A j \in 1..n : Ahead(q, j)' <=> j >= q + 2
        BY <1>0, <1>4, <2>3 DEF Ahead
    <2>7. \A x : Seen(x)' <=> Seen(x) \/ x = data[c[q + 1]]
        <3> TAKE x
        <3>1. ASSUME Seen(x) PROVE \E i \in 1..Len(itr.seen) + 1 : itr'.seen[i] = x
            <4>1. PICK i \in 1..Len(itr.seen) : itr.seen[i] = x
                BY <3>1 DEF Seen
            <4> QED BY <1>1, <2>5, <4>1
        <3>2. \E i \in 1..Len(itr.seen) + 1 : itr'.seen[i] = data[c[q + 1]]
            BY <1>1, <2>5
        <3>3. ASSUME NEW i \in 1..Len(itr.seen) + 1, itr'.seen[i] = x
              PROVE  Seen(x) \/ x = data[c[q + 1]]
            <4>1. CASE i = Len(itr.seen) + 1
                BY <2>5, <3>3, <4>1
            <4>2. CASE i # Len(itr.seen) + 1
                <5>1. i \in 1..Len(itr.seen)
                    BY <1>1, <4>2
                <5> QED BY <2>5, <3>3, <5>1 DEF Seen
            <4> QED BY <4>1, <4>2
        <3>4. Seen(x)' <=> \E i \in 1..Len(itr.seen) + 1 : itr'.seen[i] = x
            BY <2>5 DEF Seen
        <3> QED BY <3>1, <3>2, <3>3, <3>4
    <2>8. \A x \in itr.start : Seen(x)' \/ x \in itr.gone
                               \/ \E j \in 1..n : Ahead(q, j)' /\ data[c[j]] = x
        <3> TAKE x \in itr.start
        <3>1. CASE Seen(x) \/ x \in itr.gone
            BY <2>7, <3>1
        <3>2. CASE \E j \in 1..n : Ahead(p, j) /\ data[c[j]] = x
            <4>1. PICK j \in 1..n : Ahead(p, j) /\ data[c[j]] = x
                BY <3>2
            <4>2. j = q + 1 \/ j >= q + 2
                BY <1>0, <1>4, <1>7, <4>1
            <4> QED BY <2>6, <2>7, <4>1, <4>2
        <3> QED BY <3>1, <3>2 DEF ItrOK
    <2>9. ASSUME ~itr.inserted
          PROVE  /\ \A i, j \in 1..Len(itr'.seen) : itr'.seen[i] = itr'.seen[j] => i = j
                 /\ \A j \in 1..n : Ahead(q, j)' => ~Seen(data[c[j]])'
        <3>1. /\ itr.diff <= 0
              /\ \A i, j \in 1..Len(itr.seen) : itr.seen[i] = itr.seen[j] => i = j
              /\ \A j \in 1..n : Ahead(p, j) => ~Seen(data[c[j]])
            BY <2>9 DEF ItrOK
        <3>2. \A j \in 1..n : j >= q + 1 => Ahead(p, j)
            BY <1>0, <1>1, <1>2, <1>4, <1>9, <3>1 DEF Ahead
        <3>3. \A i \in 1..Len(itr.seen) : itr.seen[i] # data[c[q + 1]]
            <4>1. q + 1 \in 1..n /\ q + 1 >= q + 1
                BY <1>0, <1>4, <1>9
            <4>2. ~Seen(data[c[q + 1]])
                BY <3>1, <3>2, <4>1
            <4> QED BY <4>2 DEF Seen
        <3>4. \A i, j \in 1..Len(itr'.seen) : itr'.seen[i] = itr'.seen[j] => i = j
            <4>1. \A i \in 1..Len(itr.seen) + 1 : i = Len(itr.seen) + 1 \/ i \in 1..Len(itr.seen)
                BY <1>1
            <4> QED BY <2>5, <3>1, <3>3, <4>1
        <3>5. ASSUME NEW j \in 1..n, Ahead(q, j)' PROVE ~Seen(data[c[j]])'
            <4>1. j >= q + 2 /\ j >= q + 1 /\ j # q + 1
                BY <1>0, <1>4, <2>6, <3>5
            <4>2. ~Seen(data[c[j]]) /\ data[c[j]] # data[c[q + 1]]
                BY <1>0, <1>6, <1>9, <3>1, <3>2, <4>1
            <4>3. Seen(data[c[j]])' <=> Seen(data[c[j]]) \/ data[c[j]] = data[c[q + 1]]
                <5>1. ASSUME NEW x, x = data[c[j]]
                      PROVE  (\E i \in 1..Len(itr'.seen) : itr'.seen[i] = x) <=>
                                 (Seen(x) \/ x = data[c[q + 1]])
                    BY <2>7 DEF Seen
                <5> QED BY <5>1 DEF Seen
            <4> QED BY <4>2, <4>3
        <3> QED BY <3>4, <3>5
    <2>10. ItrOK(c, n, q)'
        BY <2>3, <2>8, <2>9 DEF ItrOK, at
    <2> QED BY <2>3, <2>4, <2>10
<1> QED BY <1>0, <1>4, <1>8, <1>9

(* Removal past the end changes nothing.                                   *)
LEMMA RemoveAtEnd ==
    ASSUME NEW S, NEW s \in Seq(S)
    PROVE  RemoveAt(s, Len(s) + 1) \in Seq(S) /\ Len(RemoveAt(s, Len(s) + 1)) = Len(s)
<1>1. Len(s) \in Nat
    OBVIOUS
<1> DEFINE a == SubSeq(s, 1, (Len(s) + 1) - 1)
           b == SubSeq(s, (Len(s) + 1) + 1, Len(s))
<1>2. a \in Seq(S) /\ Len(a) = Len(s)
    BY <1>1
<1>3. b \in Seq(S) /\ Len(b) = 0
    BY <1>1
<1>4. RemoveAt(s, Len(s) + 1) = a \o b
    BY DEF RemoveAt
<1> HIDE DEF a, b
<1>5. a \o b \in Seq(S) /\ Len(a \o b) = Len(a) + Len(b)
    BY <1>2, <1>3, ConcatIs
<1> QED BY <1>1, <1>2, <1>3, <1>4, <1>5

(* m_*_itr_remove: the element behind the address the iterator holds.       *)
LEMMA ItrRemoveEffect ==
    ASSUME LinkedTypes, Held, Loose, NEW c, NEW n, Spelled(c, n), NEW p, ItrOK(c, n, p),
           ItrRemove, kind' = kind
    PROVE  /\ Held' /\ Loose' /\ itr' \in Iterators
           /\ \E d, k : Spelled(d, k)' /\ \E q : ItrOK(d, k, q)'
           /\ link' \in [Addresses -> Addresses] /\ data' \in [Nodes -> Items \cup {NoItem}]
           /\ len' \in Nat /\ content' \in Seq(Items) /\ owned' \subseteq Items
           /\ tail' \in Addresses /\ cut' \in BOOLEAN /\ broken' \in BOOLEAN
           /\ itr'.on = itr.on /\ itr'.at = itr.at
<1>0. /\ n \in Nat /\ c \in [1..n -> Nodes] /\ ChainOf(link, c, n)
      /\ \A j \in 1..n : data[c[j]] \in Items /\ c[j] \in Nodes
      /\ \A i, j \in 1..n : data[c[i]] = data[c[j]] => i = j
    BY ChainItem
<1>1. /\ itr \in Iterators /\ itr.diff \in Int /\ itr.seen \in Seq(Items) /\ Len(itr.seen) \in Nat
      /\ itr.gone \subseteq Items
    BY ItrFields DEF LinkedTypes
<1>2. /\ p \in 0..n /\ p \in Nat /\ itr.at = LinkTo(c, p + 1) /\ p + 1 \in 1..n + 1
    BY <1>0 DEF ItrOK
<1>3. p + 1 \in 1..n /\ link[itr.at] = c[p + 1]
    <2>1. link[LinkTo(c, p + 1)] # 0
        BY <1>2 DEF ItrRemove, Usable
    <2>2. p + 1 <= n
        BY <1>0, <1>2, <2>1, LinkToIs
    <2> QED BY <1>0, <1>2, <2>2 DEF ChainOf
<1>4. PICK i \in 1..n : i = p + 1
    BY <1>3
<1> DEFINE x == data[c[i]]
<1>5. /\ Current = x /\ x \in Items /\ LinkTo(c, i) = itr.at /\ link[itr.at] = c[i]
    BY <1>0, <1>2, <1>3, <1>4 DEF Current
<1>6. /\ UnlinkNode(LinkTo(c, i)) /\ owned' = owned \ {x} /\ broken' = (x \notin owned)
      /\ tail' = IF kind = "queue" /\ tail = c[i] THEN 0 ELSE tail
      /\ cut' = (cut \/ (kind = "queue" /\ tail = c[i] /\ LinkTo(c, i) # 0))
      /\ itr' = [itr EXCEPT !.diff = @ - 1, !.gone = @ \cup {x}]
      /\ content' = RemoveAt(content, Position(content, {x}))
    BY <1>5 DEF ItrRemove, Destroy
<1> HIDE DEF x
<1>7. content \in Seq(Items) /\ Len(content) \in Nat /\ len <= Len(content) /\ len \in Nat
    BY DEF LinkedTypes, Loose
<1>8. /\ Position(content, {x}) \in 1..Len(content) + 1
      /\ Position(content, {x}) <= Len(content) => content[Position(content, {x})] \in {x}
      /\ \A j \in 1..Len(content) : content[j] \in {x} => Position(content, {x}) <= j
    BY <1>7, PositionIs
<1>9. content' \in Seq(Items) /\ len' <= Len(content')
    <2>0. len' = len - 1
        BY <1>6 DEF UnlinkNode
    <2>1. CASE Position(content, {x}) = Len(content) + 1
        BY <1>6, <1>7, <2>0, <2>1, RemoveAtEnd
    <2>2. CASE Position(content, {x}) # Len(content) + 1
        <3>1. Position(content, {x}) \in 1..Len(content)
            BY <1>7, <1>8, <2>2
        <3>2. content' \in Seq(Items) /\ Len(content') = Len(content) - 1
            BY <1>6, <1>7, <3>1, RemoveAtIs
        <3> QED BY <1>7, <2>0, <3>2
    <2> QED BY <2>1, <2>2
<1>10. ~cut => content' = RemoveAt(content, i)
    <2>1. SUFFICES ASSUME ~cut PROVE Position(content, {x}) = i
        BY <1>6
    <2>2. Len(content) = n /\ \A j \in 1..n : content[j] = data[c[j]]
        BY <2>1 DEF Spelled
    <2>3. content[i] = x
        BY <2>2 DEF x
    <2>4. Position(content, {x}) <= i /\ i <= n /\ i \in Nat
        <3>1. i \in 1..Len(content) /\ content[i] \in {x} /\ i <= n /\ i \in Nat
            BY <1>0, <2>2, <2>3
        <3> QED BY <1>8, <3>1
    <2>5. Position(content, {x}) \in 1..n
        BY <1>0, <1>8, <2>2, <2>4
    <2>6. content[Position(content, {x})] = x
        BY <1>0, <1>8, <2>2, <2>5
    <2>7. data[c[Position(content, {x})]] = data[c[i]]
        BY <2>2, <2>5, <2>6 DEF x
    <2> QED BY <1>0, <2>5, <2>7
<1> DEFINE d == Without(c, n, i)
<1>11. /\ data' = [data EXCEPT ![c[i]] = NoItem]
       /\ Held' /\ Loose' /\ Spelled(d, n - 1)'
       /\ link' \in [Addresses -> Addresses] /\ data' \in [Nodes -> Items \cup {NoItem}]
       /\ len' \in Nat /\ owned' \subseteq Items /\ tail' \in Addresses
       /\ cut' \in BOOLEAN /\ ~broken'
    BY <1>6, <1>9, <1>10, RemoveEffect DEF x
<1>12. /\ itr'.diff = itr.diff - 1 /\ itr'.gone = itr.gone \cup {x}
       /\ itr'.on = itr.on /\ itr'.at = itr.at /\ itr'.start = itr.start
       /\ itr'.seen = itr.seen /\ itr'.inserted = itr.inserted
    BY <1>1, <1>6 DEF Iterators
<1>13. itr' \in Iterators
    <2>1. itr.diff - 1 \in Int /\ itr.gone \cup {x} \subseteq Items
        BY <1>1, <1>5
    <2>2. itr' = [itr EXCEPT !.diff = itr.diff - 1, !.gone = itr.gone \cup {x}]
        BY <1>1, <1>6 DEF Iterators
    <2>3. \A df \in Int, g \in SUBSET Items : [itr EXCEPT !.diff = df, !.gone = g] \in Iterators
        BY <1>1 DEF Iterators
    <2> QED BY <2>1, <2>2, <2>3
<1>14. /\ \A j \in 1..n - 1 : j < i => d[j] = c[j]
       /\ \A j \in 1..n - 1 : j >= i => d[j] = c[j + 1]
       /\ \A j \in 1..n : j > i => d[j - 1] = c[j]
    BY <1>0, WithoutIs
<1> HIDE DEF d
<1>15. \A j \in 1..n : j # i => data'[c[j]] = data[c[j]]
    BY <1>0, <1>11 DEF ChainOf, LinkedTypes
<1>16. \A j \in 1..n : Ahead(p, j) /\ j # i => j - 1 \in 1..n - 1 /\ Ahead(p, j - 1)'
                                              /\ data'[d[j - 1]] = data[c[j]]
    <2> SUFFICES ASSUME NEW j \in 1..n, Ahead(p, j), j # i
                 PROVE  j - 1 \in 1..n - 1 /\ Ahead(p, j - 1)' /\ data'[d[j - 1]] = data[c[j]]
        OBVIOUS
    <2>1. j > i
        BY <1>2, <1>4 DEF Ahead
    <2>2. j - 1 \in 1..n - 1 /\ Ahead(p, j - 1)'
        BY <1>0, <1>1, <1>2, <1>4, <1>12, <2>1 DEF Ahead
    <2> QED BY <1>14, <1>15, <2>1, <2>2
<1>17. \A j \in 1..n - 1 : Ahead(p, j)' => j + 1 \in 1..n /\ j + 1 # i /\ Ahead(p, j + 1)
                                          /\ data'[d[j]] = data[c[j + 1]]
    <2> SUFFICES ASSUME NEW j \in 1..n - 1, Ahead(p, j)'
                 PROVE  j + 1 \in 1..n /\ j + 1 # i /\ Ahead(p, j + 1)
                        /\ data'[d[j]] = data[c[j + 1]]
        OBVIOUS
    <2>1. j >= i /\ j + 1 # i /\ j + 1 \in 1..n /\ Ahead(p, j + 1)
        BY <1>0, <1>1, <1>2, <1>4, <1>12 DEF Ahead
    <2> QED BY <1>14, <1>15, <2>1
<1>18. ItrOK(d, n - 1, p)'
    <2>1. p \in 0..n - 1 /\ itr'.at = LinkTo(d, p + 1)
        <3>1. p \in 0..n - 1
            BY <1>0, <1>2, <1>3
        <3>2. p # 0 => d[p] = c[p] /\ p + 1 # 1 /\ (p + 1) - 1 = p
            BY <1>0, <1>2, <1>4, <1>14, <3>1
        <3> QED BY <1>2, <1>12, <3>1, <3>2 DEF LinkTo
    <2>2. \A y : Seen(y)' <=> Seen(y)
        BY <1>12 DEF Seen
    <2>3. ASSUME itr.on, NEW y \in itr.start
          PROVE  Seen(y)' \/ y \in itr'.gone \/ \E j \in 1..n - 1 : Ahead(p, j)' /\ data'[d[j]] = y
        <3>1. CASE Seen(y) \/ y \in itr.gone
            BY <1>12, <2>2, <3>1
        <3>2. CASE \E j \in 1..n : Ahead(p, j) /\ data[c[j]] = y
            <4>1. PICK j \in 1..n : Ahead(p, j) /\ data[c[j]] = y
                BY <3>2
            <4>2. CASE j = i
                BY <1>12, <4>1, <4>2 DEF x
            <4>3. CASE j # i
                BY <1>16, <4>1, <4>3
            <4> QED BY <4>2, <4>3
        <3> QED BY <2>3, <3>1, <3>2 DEF ItrOK
    <2>4. ASSUME itr.on, ~itr.inserted
          PROVE  /\ itr'.diff <= 0
                 /\ \A k, j \in 1..Len(itr'.seen) : itr'.seen[k] = itr'.seen[j] => k = j
                 /\ \A j \in 1..n - 1 : Ahead(p, j)' => ~Seen(data[d[j]])'
        <3>1. /\ itr.diff <= 0
              /\ \A k, j \in 1..Len(itr.seen) : itr.seen[k] = itr.seen[j] => k = j
              /\ \A j \in 1..n : Ahead(p, j) => ~Seen(data[c[j]])
            BY <2>4 DEF ItrOK
        <3>2. itr'.diff <= 0
            BY <1>1, <1>12, <3>1
        <3>3. ASSUME NEW j \in 1..n - 1, Ahead(p, j)' PROVE ~Seen(data[d[j]])'
            <4>1. ~Seen(data[c[j + 1]]) /\ data'[d[j]] = data[c[j + 1]]
                BY <1>17, <3>1, <3>3
            <4> QED BY <1>12, <4>1 DEF Seen
        <3> QED BY <1>12, <3>1, <3>2, <3>3
    <2> QED BY <1>12, <2>1, <2>3, <2>4 DEF ItrOK
<1>19. \E e, k : Spelled(e, k)' /\ \E q : ItrOK(e, k, q)'
    BY <1>11, <1>18
<1>20. broken' \in BOOLEAN
    BY <1>6
<1> QED BY <1>9, <1>11, <1>12, <1>13, <1>19, <1>20

(* m_list_itr_insert: in front of the element behind the address.           *)
LEMMA ItrInsertEffect ==
    ASSUME LinkedTypes, Held, Loose, NEW c, NEW n, Spelled(c, n), NEW p, ItrOK(c, n, p),
           NEW x \in Items, ListItrInsert(x)
    PROVE  /\ Held' /\ Loose' /\ itr' \in Iterators
           /\ \E d, k : Spelled(d, k)' /\ \E q : ItrOK(d, k, q)'
           /\ link' \in [Addresses -> Addresses] /\ data' \in [Nodes -> Items \cup {NoItem}]
           /\ len' \in Nat /\ content' \in Seq(Items) /\ owned' \subseteq Items
           /\ itr'.on = itr.on /\ itr'.at = itr.at
<1>0. /\ n \in Nat /\ c \in [1..n -> Nodes] /\ ChainOf(link, c, n)
      /\ \A j \in 1..n : data[c[j]] \in Items /\ c[j] \in Nodes
      /\ \A i, j \in 1..n : data[c[i]] = data[c[j]] => i = j
    BY ChainItem
<1>1. itr \in Iterators /\ itr.diff \in Int
    BY ItrFields DEF LinkedTypes
<1>2. /\ p \in 0..n /\ p \in Nat /\ itr.at = LinkTo(c, p + 1)
    BY <1>0 DEF ItrOK
<1>3. PICK i \in 1..n + 1 : i = p + 1
    BY <1>0, <1>2
<1> DEFINE w == CHOOSE j \in 1..Len(Chain) : Chain[j] = itr.at
<1>4. i = IF itr.at = 0 THEN 1 ELSE 1 + w
    <2>1. Chain = c /\ Len(Chain) = n
        BY ChainKnown
    <2>2. CASE p = 0
        BY <1>2, <1>3, <2>2 DEF LinkTo
    <2>3. CASE p # 0
        <3>1. itr.at = c[p] /\ p \in 1..n /\ c[p] # 0
            BY <1>0, <1>2, <2>3 DEF LinkTo, Nodes
        <3>2. \A j \in 1..n : c[j] = itr.at <=> j = p
            BY <1>0, <3>1 DEF ChainOf
        <3>3. p \in 1..Len(Chain) /\ \A j \in 1..Len(Chain) : Chain[j] = itr.at <=> j = p
            BY <2>1, <3>1, <3>2
        <3>4. w = p
            BY <3>3
        <3> HIDE DEF w
        <3>5. itr.at # 0
            BY <3>1
        <3>6. 1 + p = i
            BY <1>2, <1>3
        <3> QED BY <3>4, <3>5, <3>6
    <2> QED BY <2>2, <2>3
<1>5. /\ Accept(x) /\ InsertNode(LinkTo(c, i), x) /\ kind # "queue"
      /\ content' = InsertAt(content, i, x) /\ UNCHANGED <<kind, tail, cut>>
      /\ itr' = [itr EXCEPT !.diff = @ + 1, !.inserted = TRUE]
    BY <1>2, <1>3, <1>4 DEF ListItrInsert, IsList
<1>6. PICK m \in Nodes :
             /\ data' = [data EXCEPT ![m] = x] /\ data[m] = NoItem
             /\ Held' /\ Loose' /\ Spelled(With(c, n, i, m), n + 1)'
             /\ link' \in [Addresses -> Addresses] /\ data' \in [Nodes -> Items \cup {NoItem}]
             /\ len' \in Nat /\ content' \in Seq(Items) /\ owned' \subseteq Items
    BY <1>5, InsertEffect
<1> DEFINE d == With(c, n, i, m)
<1>7. /\ itr'.diff = itr.diff + 1 /\ itr'.inserted = TRUE /\ itr'.gone = itr.gone
      /\ itr'.on = itr.on /\ itr'.at = itr.at /\ itr'.start = itr.start /\ itr'.seen = itr.seen
    BY <1>1, <1>5 DEF Iterators
<1>8. itr' \in Iterators
    <2>1. itr' = [itr EXCEPT !.diff = itr.diff + 1, !.inserted = TRUE]
        BY <1>1, <1>5 DEF Iterators
    <2>2. itr.diff + 1 \in Int
        BY <1>1
    <2>3. \A df \in Int : [itr EXCEPT !.diff = df, !.inserted = TRUE] \in Iterators
        BY <1>1 DEF Iterators
    <2> QED BY <2>1, <2>2, <2>3
<1>9. /\ \A j \in 1..n : j < i => d[j] = c[j]
      /\ \A j \in 1..n : j >= i => d[j + 1] = c[j]
    BY <1>0 DEF With
<1> HIDE DEF d
<1>10. \A j \in 1..n : data'[c[j]] = data[c[j]]
    BY <1>0, <1>6 DEF Spelled, LinkedTypes
<1>11. \A j \in 1..n : Ahead(p, j) => j + 1 \in 1..n + 1 /\ Ahead(p, j + 1)'
                                     /\ data'[d[j + 1]] = data[c[j]]
    <2> SUFFICES ASSUME NEW j \in 1..n, Ahead(p, j)
                 PROVE  j + 1 \in 1..n + 1 /\ Ahead(p, j + 1)' /\ data'[d[j + 1]] = data[c[j]]
        OBVIOUS
    <2>1. j >= i /\ j + 1 \in 1..n + 1 /\ Ahead(p, j + 1)'
        BY <1>0, <1>1, <1>2, <1>3, <1>7 DEF Ahead
    <2> QED BY <1>9, <1>10, <2>1
<1>12. ItrOK(d, n + 1, p)'
    <2>1. p \in 0..n + 1 /\ itr'.at = LinkTo(d, p + 1)
        <3>1. p # 0 => d[p] = c[p] /\ p + 1 # 1 /\ (p + 1) - 1 = p
            BY <1>0, <1>2, <1>3, <1>9
        <3> QED BY <1>0, <1>2, <1>7, <3>1 DEF LinkTo
    <2>2. ASSUME itr.on, NEW y \in itr.start
          PROVE  Seen(y)' \/ y \in itr'.gone \/ \E j \in 1..n + 1 : Ahead(p, j)' /\ data'[d[j]] = y
        <3>1. CASE Seen(y) \/ y \in itr.gone
            BY <1>7, <3>1 DEF Seen
        <3>2. CASE \E j \in 1..n : Ahead(p, j) /\ data[c[j]] = y
            BY <1>11, <3>2
        <3> QED BY <2>2, <3>1, <3>2 DEF ItrOK
    <2> QED BY <1>7, <2>1, <2>2 DEF ItrOK
<1>13. \E e, k : Spelled(e, k)' /\ \E q : ItrOK(e, k, q)'
    BY <1>6, <1>12 DEF d
<1> QED BY <1>6, <1>7, <1>8, <1>13

(* m_*_itr_set_data.                                                       *)
LEMMA ItrSetEffect ==
    ASSUME LinkedTypes, Held, Loose, NEW c, NEW n, Spelled(c, n), NEW p, ItrOK(c, n, p),
           NEW x \in Items, ItrSetData(x)
    PROVE  /\ Held' /\ Loose' /\ itr' \in Iterators
           /\ Spelled(c, n)' /\ ItrOK(c, n, p)'
           /\ data' \in [Nodes -> Items \cup {NoItem}]
           /\ content' \in Seq(Items) /\ owned' \subseteq Items
           /\ itr'.on = itr.on /\ itr'.at = itr.at
<1>0. /\ n \in Nat /\ c \in [1..n -> Nodes] /\ ChainOf(link, c, n)
      /\ \A j \in 1..n : data[c[j]] \in Items /\ c[j] \in Nodes
      /\ \A i, j \in 1..n : data[c[i]] = data[c[j]] => i = j
    BY ChainItem
<1>1. /\ itr \in Iterators /\ itr.diff \in Int /\ itr.seen \in Seq(Items) /\ Len(itr.seen) \in Nat
      /\ itr.gone \subseteq Items
    BY ItrFields DEF LinkedTypes
<1>2. /\ p \in 0..n /\ p \in Nat /\ itr.at = LinkTo(c, p + 1) /\ p + 1 \in 1..n + 1
    BY <1>0 DEF ItrOK
<1>3. p + 1 \in 1..n /\ link[itr.at] = c[p + 1]
    <2>1. link[LinkTo(c, p + 1)] # 0
        BY <1>2 DEF ItrSetData, Usable
    <2>2. p + 1 <= n
        BY <1>0, <1>2, <2>1, LinkToIs
    <2> QED BY <1>0, <1>2, <2>2 DEF ChainOf
<1>4. PICK i \in 1..n : i = p + 1
    BY <1>3
<1>5. Current = data[c[i]] /\ link[itr.at] = c[i]
    BY <1>3, <1>4 DEF Current
<1>6. Replaced(c, i, x)
    <2>1. content \in Seq(Items) /\ DOMAIN content = 1..Len(content) /\ Len(content) \in Nat
        BY DEF LinkedTypes
    <2>2. \A j \in 1..Len(content) : content[j] \in Items
        BY <2>1
    <2>3. content' = [j \in 1..Len(content) |-> IF content[j] = data[c[i]] THEN x ELSE content[j]]
        BY <1>5, <2>1 DEF ItrSetData
    <2>4. /\ content' \in Seq(Items) /\ Len(content') = Len(content)
          /\ \A j \in 1..Len(content) :
                 content'[j] = IF content[j] = data[c[i]] THEN x ELSE content[j]
        BY <2>1, <2>2, <2>3
    <2> QED BY <1>5, <2>4 DEF ItrSetData, Replaced
<1>7. /\ itr' = [itr EXCEPT !.gone = @ \cup {data[c[i]]}]
       /\ x \notin itr.start \cup itr.gone \cup ToSet(itr.seen)
    BY <1>5 DEF ItrSetData, NewToItr
<1>8. /\ Held' /\ Loose' /\ Spelled(c, n)'
      /\ data' \in [Nodes -> Items \cup {NoItem}]
      /\ content' \in Seq(Items) /\ owned' \subseteq Items
    BY <1>6, SetEffect
<1>9. /\ itr'.diff = itr.diff /\ itr'.gone = itr.gone \cup {data[c[i]]}
      /\ itr'.on = itr.on /\ itr'.at = itr.at /\ itr'.start = itr.start
      /\ itr'.seen = itr.seen /\ itr'.inserted = itr.inserted
    BY <1>1, <1>7 DEF Iterators
<1>10. itr' \in Iterators
    <2>1. itr.gone \cup {data[c[i]]} \subseteq Items
        BY <1>0, <1>1
    <2>2. itr' = [itr EXCEPT !.gone = itr.gone \cup {data[c[i]]}]
        BY <1>1, <1>7 DEF Iterators
    <2>3. \A g \in SUBSET Items : [itr EXCEPT !.gone = g] \in Iterators
        BY <1>1 DEF Iterators
    <2> QED BY <2>1, <2>2, <2>3
<1>11. data'[c[i]] = x /\ \A j \in 1..n : j # i => data'[c[j]] = data[c[j]]
    BY <1>0, <1>6 DEF ChainOf, LinkedTypes, Replaced
<1>12. ~Seen(x)
    <2>1. DOMAIN itr.seen = 1..Len(itr.seen)
        BY <1>1
    <2> QED BY <1>7, <2>1 DEF Seen, ToSet
<1>13. /\ \A y : Seen(y)' <=> Seen(y)
       /\ \A j \in 1..n : Ahead(p, j)' <=> Ahead(p, j)
    BY <1>9 DEF Seen, Ahead
<1>14. ItrOK(c, n, p)'
    <2>1. itr'.at = LinkTo(c, p + 1)
        BY <1>2, <1>9
    <2>2. ASSUME itr.on, NEW y \in itr.start
          PROVE  Seen(y)' \/ y \in itr'.gone \/ \E j \in 1..n : Ahead(p, j)' /\ data'[c[j]] = y
        <3>1. CASE Seen(y) \/ y \in itr.gone
            BY <1>9, <1>13, <3>1
        <3>2. CASE \E j \in 1..n : Ahead(p, j) /\ data[c[j]] = y
            <4>1. PICK j \in 1..n : Ahead(p, j) /\ data[c[j]] = y
                BY <3>2
            <4>2. CASE j = i
                BY <1>9, <4>1, <4>2
            <4>3. CASE j # i
                BY <1>11, <1>13, <4>1, <4>3
            <4> QED BY <4>2, <4>3
        <3> QED BY <2>2, <3>1, <3>2 DEF ItrOK
    <2>3. ASSUME itr.on, ~itr.inserted, NEW j \in 1..n, Ahead(p, j)'
          PROVE  ~Seen(data[c[j]])'
        <3>1. ~Seen(data[c[j]])
            BY <1>13, <2>3 DEF ItrOK
        <3>2. CASE j = i
            BY <1>9, <1>11, <1>12, <3>2 DEF Seen
        <3>3. CASE j # i
            BY <1>9, <1>11, <3>1, <3>3 DEF Seen
        <3> QED BY <3>2, <3>3
    <2> QED BY <1>2, <1>9, <2>1, <2>2, <2>3 DEF ItrOK
<1> QED BY <1>8, <1>9, <1>10, <1>14

(***************************************************************************)
(* Every operation keeps the invariant.                                    *)
(***************************************************************************)
LEMMA InitInv == LinkedInit => LinkedInv
<1> USE LinkedAssumption
<1>1. SUFFICES ASSUME LinkedInit PROVE LinkedInv
    OBVIOUS
<1> USE <1>1 DEF LinkedInit
<1>2. 0 \in Addresses /\ \A m \in Nodes : m \in Addresses /\ m # 0
    BY DEF Addresses, Nodes
<1>3. LinkedTypes
    <2>1. itr \in Iterators
        BY NoItrIs
    <2>2. link \in [Addresses -> Addresses]
        BY <1>2 DEF Addresses
    <2>3. content \in Seq(Items)
        OBVIOUS
    <2> QED BY <1>2, <2>1, <2>2, <2>3 DEF LinkedTypes
<1>4. \A m \in Nodes : data[m] = NoItem
    OBVIOUS
<1>5. Held
    <2>1. Allocated = {}
        BY <1>4 DEF Allocated
    <2>2. Cardinality({}) = 0
        BY FS_EmptySet
    <2> QED BY <1>4, <2>1, <2>2 DEF Held
<1>6. Loose
    <2>1. \A m \in Nodes : link[m] = 0
        BY <1>2 DEF Addresses
    <2> QED BY <1>4, <2>1 DEF Loose
<1>7. ChainOf(link, <<>>, 0)
    <2>1. <<>> \in [1..0 -> Nodes]
        OBVIOUS
    <2>2. LinkTo(<<>>, 0 + 1) = 0 /\ link[0] = 0
        BY <1>2 DEF LinkTo, Addresses
    <2> QED BY <2>1, <2>2 DEF ChainOf
<1>8. Spelled(<<>>, 0)
    BY <1>4, <1>7 DEF Spelled
<1>9. ItrRests /\ ItrOK(<<>>, 0, 0)
    BY NoItrIs DEF ItrRests, ItrOK, LinkTo
<1> QED BY <1>3, <1>5, <1>6, <1>8, <1>9 DEF LinkedInv

(* Without an iterator there is nothing to show of it.                      *)
LEMMA OffKeeps ==
    ASSUME ItrRests, ~itr.on, ~clearing, UNCHANGED <<kind, itr, clearing>>,
           \E d, k : Spelled(d, k)'
    PROVE  ItrRests' /\ \E c, n : Spelled(c, n)' /\ \E p : ItrOK(c, n, p)'
<1>1. PICK d, k : Spelled(d, k)'
    OBVIOUS
<1>2. ~itr'.on /\ itr'.at = 0
    BY DEF ItrRests
<1>3. ItrOK(d, k, 0)'
    BY <1>1, <1>2, ItrOffOK
<1>4. ItrRests'
    BY <1>2 DEF ItrRests
<1> QED BY <1>1, <1>3, <1>4

LEMMA InsertKeeps ==
    ASSUME LinkedInv, NEW x \in Items, ListInsert(x)
    PROVE  LinkedInv'
<1>1. PICK c, n : Spelled(c, n)
    BY DEF LinkedInv
<1>2. LinkedTypes /\ Held /\ Loose /\ ItrRests
    BY DEF LinkedInv
<1>3. kind \in {"list", "keyed"} /\ ~cut /\ ~itr.on /\ ~clearing
    BY <1>2 DEF ListInsert, IsList, Idle, Loose
<1>4. /\ Chain = c /\ Len(Chain) = n /\ n \in Nat
      /\ Traversed = content /\ content \in Seq(Items) /\ Len(content) = n
    BY <1>1, <1>2, <1>3, ChainKnown, TraversedIs DEF LinkedTypes
<1> DEFINE S == {y \in Items : kind = "list" \/ KeyOf[x] = KeyOf[y]}
<1>5. PICK i \in 1..n + 1 : i = Position(content, S)
    <2> HIDE DEF S
    <2> QED BY <1>4, PositionIs
<1>6. kind = "list" => i = 1
    <2>1. SUFFICES ASSUME kind = "list" PROVE i = 1
        OBVIOUS
    <2>2. \A j \in 1..n : content[j] \in S
        BY <1>4, <2>1
    <2>3. \A j \in 1..n : content[j] \in S => i <= j
        <3> HIDE DEF S
        <3> QED BY <1>4, <1>5, PositionIs
    <2> QED BY <1>4, <2>2, <2>3
<1>7. /\ Accept(x) /\ InsertNode(LinkTo(c, i), x)
      /\ content' = InsertAt(content, i, x) /\ UNCHANGED <<kind, tail, cut>>
    BY <1>4, <1>5, <1>6 DEF ListInsert
<1>8. kind # "queue"
    BY <1>3
<1>9. PICK m \in Nodes :
         /\ Held' /\ Loose' /\ Spelled(With(c, n, i, m), n + 1)'
         /\ link' \in [Addresses -> Addresses] /\ data' \in [Nodes -> Items \cup {NoItem}]
         /\ len' \in Nat /\ content' \in Seq(Items) /\ owned' \subseteq Items
    BY <1>1, <1>2, <1>7, <1>8, InsertEffect
<1>10. UNCHANGED <<kind, tail, itr, clearing, cut, broken>>
    BY DEF ListInsert, Accept
<1>11. LinkedTypes'
    BY <1>2, <1>9, <1>10 DEF LinkedTypes
<1>12. ItrRests' /\ \E d, k : Spelled(d, k)' /\ \E p : ItrOK(d, k, p)'
    BY <1>2, <1>3, <1>9, <1>10, OffKeeps
<1> QED BY <1>9, <1>11, <1>12 DEF LinkedInv

LEMMA RemoveKeeps ==
    ASSUME LinkedInv, NEW x \in Items, ListRemove(x)
    PROVE  LinkedInv'
<1>1. PICK c, n : Spelled(c, n)
    BY DEF LinkedInv
<1>2. LinkedTypes /\ Held /\ Loose /\ ItrRests
    BY DEF LinkedInv
<1>3. kind \in {"list", "keyed"} /\ ~cut /\ ~itr.on /\ ~clearing /\ tail = 0
    BY <1>2 DEF ListRemove, IsList, Idle, Loose
<1>4. /\ Chain = c /\ Len(Chain) = n /\ n \in Nat
      /\ Traversed = content /\ content \in Seq(Items) /\ Len(content) = n
      /\ \A j \in 1..n : Traversed[j] = data[c[j]]
    BY <1>1, <1>2, <1>3, ChainKnown, TraversedIs DEF LinkedTypes
<1> DEFINE S == {y \in Items : y = x \/ (kind = "keyed" /\ KeyOf[x] = KeyOf[y])}
<1>5. PICK i \in 1..n : i = Position(content, S)
    <2>1. Position(content, S) \in 1..n + 1
        <3> HIDE DEF S
        <3> QED BY <1>4, PositionIs
    <2>2. Position(content, S) <= n
        BY <1>4 DEF ListRemove
    <2> HIDE DEF S
    <2> QED BY <1>4, <2>1, <2>2
<1>6. /\ UnlinkNode(LinkTo(c, i)) /\ Destroy(data[c[i]])
      /\ content' = RemoveAt(content, i)
      /\ UNCHANGED <<kind, tail, itr, clearing, cut>>
    BY <1>4, <1>5 DEF ListRemove
<1>7. /\ owned' = owned \ {data[c[i]]} /\ broken' = (data[c[i]] \notin owned)
      /\ tail' = IF kind = "queue" /\ tail = c[i] THEN 0 ELSE tail
      /\ cut' = (cut \/ (kind = "queue" /\ tail = c[i] /\ LinkTo(c, i) # 0))
      /\ kind' = kind
    BY <1>2, <1>3, <1>6 DEF Destroy, LinkedTypes
<1>8. content' \in Seq(Items) /\ len' <= Len(content')
    <2>1. content' \in Seq(Items) /\ Len(content') = n - 1
        BY <1>4, <1>6, RemoveAtIs
    <2>2. len' = len - 1 /\ len = n
        BY <1>1, <1>3, <1>6 DEF UnlinkNode, Spelled
    <2> QED BY <1>4, <2>1, <2>2
<1>9. /\ Held' /\ Loose' /\ Spelled(Without(c, n, i), n - 1)'
      /\ link' \in [Addresses -> Addresses] /\ data' \in [Nodes -> Items \cup {NoItem}]
      /\ len' \in Nat /\ owned' \subseteq Items /\ tail' \in Addresses
      /\ cut' \in BOOLEAN /\ ~broken'
    BY <1>1, <1>2, <1>6, <1>7, <1>8, RemoveEffect
<1>10. broken' \in BOOLEAN
    BY <1>7
<1>11. LinkedTypes'
    BY <1>2, <1>6, <1>8, <1>9, <1>10 DEF LinkedTypes
<1>12. ItrRests' /\ \E d, k : Spelled(d, k)' /\ \E p : ItrOK(d, k, p)'
    BY <1>2, <1>3, <1>6, <1>9, OffKeeps
<1> QED BY <1>9, <1>11, <1>12 DEF LinkedInv

LEMMA EnqueueKeeps ==
    ASSUME LinkedInv, NEW x \in Items, Enqueue(x)
    PROVE  LinkedInv'
<1>1. PICK c, n : Spelled(c, n)
    BY DEF LinkedInv
<1>2. LinkedTypes /\ Held /\ Loose /\ ItrRests
    BY DEF LinkedInv
<1>3. UNCHANGED <<kind, itr, clearing, cut, broken>> /\ ~itr.on /\ ~clearing
    BY DEF Enqueue, Accept, Idle
<1>4. /\ Held' /\ Loose' /\ \E d, k : Spelled(d, k)'
      /\ link' \in [Addresses -> Addresses] /\ data' \in [Nodes -> Items \cup {NoItem}]
      /\ len' \in Nat /\ content' \in Seq(Items) /\ owned' \subseteq Items
      /\ tail' \in Addresses
    BY <1>1, <1>2, EnqueueEffect
<1>5. LinkedTypes'
    BY <1>2, <1>3, <1>4 DEF LinkedTypes
<1>6. ItrRests' /\ \E d, k : Spelled(d, k)' /\ \E p : ItrOK(d, k, p)'
    BY <1>2, <1>3, <1>4, OffKeeps
<1> QED BY <1>4, <1>5, <1>6 DEF LinkedInv

LEMMA PushKeeps ==
    ASSUME LinkedInv, NEW x \in Items, Push(x)
    PROVE  LinkedInv'
<1>1. PICK c, n : Spelled(c, n)
    BY DEF LinkedInv
<1>2. LinkedTypes /\ Held /\ Loose /\ ItrRests
    BY DEF LinkedInv
<1>3. kind # "queue" /\ ~itr.on /\ ~clearing /\ UNCHANGED <<kind, tail, itr, clearing, cut, broken>>
    BY DEF Push, Idle, Accept
<1>4. content \in Seq(Items) /\ Len(content) \in Nat /\ n \in Nat
    BY <1>1, <1>2 DEF LinkedTypes, Spelled, ChainOf
<1>5. PICK i \in 1..n + 1 : i = 1
    BY <1>4
<1>6. content' = InsertAt(content, i, x)
    <2>1. /\ InsertAt(content, 1, x) \in Seq(Items)
          /\ InsertAt(content, 1, x) = With(content, Len(content), 1, x)
          /\ Len(InsertAt(content, 1, x)) = Len(content) + 1
        BY <1>4, InsertAtIs
    <2>2. <<x>> \in Seq(Items) /\ Len(<<x>>) = 1 /\ <<x>>[1] = x
        OBVIOUS
    <2>3. /\ <<x>> \o content \in Seq(Items) /\ Len(<<x>> \o content) = 1 + Len(content)
          /\ (<<x>> \o content)[1] = x
          /\ \A j \in 2..1 + Len(content) : (<<x>> \o content)[j] = content[j - 1]
        BY <1>4, <2>2, ConcatIs
    <2>4. \A j \in 1..Len(content) + 1 : (<<x>> \o content)[j] = With(content, Len(content), 1, x)[j]
        BY <1>4, <2>3 DEF With
    <2>5. <<x>> \o content = InsertAt(content, 1, x)
        BY <1>4, <2>1, <2>3, <2>4
    <2> QED BY <1>5, <2>5 DEF Push
<1>7. /\ Accept(x) /\ InsertNode(LinkTo(c, i), x)
    BY <1>5 DEF Push, LinkTo
<1>8. PICK m \in Nodes :
         /\ Held' /\ Loose' /\ Spelled(With(c, n, i, m), n + 1)'
         /\ link' \in [Addresses -> Addresses] /\ data' \in [Nodes -> Items \cup {NoItem}]
         /\ len' \in Nat /\ content' \in Seq(Items) /\ owned' \subseteq Items
    BY <1>1, <1>2, <1>3, <1>6, <1>7, InsertEffect
<1>9. LinkedTypes'
    BY <1>2, <1>3, <1>8 DEF LinkedTypes
<1>10. ItrRests' /\ \E d, k : Spelled(d, k)' /\ \E p : ItrOK(d, k, p)'
    BY <1>2, <1>3, <1>8, OffKeeps
<1> QED BY <1>8, <1>9, <1>10 DEF LinkedInv

(* m_queue_dequeue, m_stack_pop and what is built on them.                  *)
LEMMA PopEffect ==
    ASSUME LinkedInv, ~IsList, len > 0, PopHead(AllButHead), UNCHANGED <<kind, cut>>
    PROVE  /\ Held' /\ Loose' /\ \E d, k : Spelled(d, k)'
           /\ link' \in [Addresses -> Addresses] /\ data' \in [Nodes -> Items \cup {NoItem}]
           /\ tail' \in Addresses /\ len' \in Nat /\ cut' \in BOOLEAN /\ broken' \in BOOLEAN
           /\ content' \in Seq(Items) /\ owned' \subseteq Items
<1>1. PICK c, n : Spelled(c, n)
    BY DEF LinkedInv
<1>2. LinkedTypes /\ Held /\ Loose
    BY DEF LinkedInv
<1>3. ChainOf(link, c, n) /\ n \in Nat /\ LinkTo(c, 1) = 0
    BY <1>1 DEF Spelled, ChainOf, LinkTo
<1>4. CASE link[0] = 0
    <2>1. /\ broken' = TRUE /\ broken' \in BOOLEAN
          /\ UNCHANGED <<kind, link, data, len, tail, owned, content, cut>>
        BY <1>4 DEF PopHead
    <2>2. n = 0
        <3>1. n > 0 => link[0] \in Nodes
            BY <1>3 DEF ChainOf
        <3> QED BY <1>3, <1>4, <3>1, LinkedAssumption DEF Nodes
    <2>3. cut
        BY <1>1, <2>2 DEF Spelled
    <2>4. Held'
        BY <1>2, <2>1 DEF Held, Allocated
    <2>5. Loose'
        BY <1>2, <2>1, <2>3 DEF Loose
    <2>6. Spelled(c, n)'
        BY <1>1, <2>1 DEF Spelled
    <2>7. /\ link' \in [Addresses -> Addresses] /\ data' \in [Nodes -> Items \cup {NoItem}]
          /\ tail' \in Addresses /\ len' \in Nat /\ cut' \in BOOLEAN
          /\ content' \in Seq(Items) /\ owned' \subseteq Items
        BY <1>2, <2>1 DEF LinkedTypes
    <2> QED BY <2>1, <2>4, <2>5, <2>6, <2>7
<1>5. CASE link[0] # 0
    <2>1. /\ UnlinkNode(0) /\ tail' = IF tail = link[0] THEN 0 ELSE tail
          /\ owned' = owned \ {data[link[0]]} /\ broken' = (data[link[0]] \notin owned)
          /\ content' = Tail(content)
        BY <1>5 DEF PopHead, AllButHead
    <2>2. PICK i \in 1..n : i = 1
        BY <1>3, <1>5, LinkToIs
    <2>3. LinkTo(c, i) = 0 /\ link[0] = c[i] /\ c[i] \in Nodes /\ c[i] # 0
        BY <1>3, <2>2, LinkToIs, LinkedAssumption DEF Nodes
    <2>4. /\ content \in Seq(Items) /\ Len(content) \in Nat /\ len \in Nat /\ len <= Len(content)
          /\ content # <<>>
        BY <1>2 DEF LinkedTypes, Loose
    <2>5. /\ content' \in Seq(Items) /\ Len(content') = Len(content) - 1
          /\ \A j \in 1..Len(content) - 1 : content'[j] = content[j + 1]
        BY <2>1, <2>4
    <2>6. content' = RemoveAt(content, i)
        <3>1. /\ RemoveAt(content, 1) \in Seq(Items)
              /\ RemoveAt(content, 1) = Without(content, Len(content), 1)
              /\ Len(RemoveAt(content, 1)) = Len(content) - 1
            BY <2>4, RemoveAtIs
        <3>2. \A j \in 1..Len(content) - 1 : content'[j] = Without(content, Len(content), 1)[j]
            BY <2>4, <2>5 DEF Without
        <3> QED BY <2>2, <2>4, <2>5, <3>1, <3>2
    <2>7. len' <= Len(content')
        BY <2>1, <2>4, <2>5 DEF UnlinkNode
    <2>8. /\ UnlinkNode(LinkTo(c, i)) /\ owned' = owned \ {data[c[i]]}
          /\ broken' = (data[c[i]] \notin owned)
        BY <2>1, <2>3
    <2>9. tail' = IF kind = "queue" /\ tail = c[i] THEN 0 ELSE tail
        BY <1>2, <2>1, <2>3 DEF Loose
    <2>10. cut' = (cut \/ (kind = "queue" /\ tail = c[i] /\ LinkTo(c, i) # 0))
        BY <1>2, <2>3 DEF LinkedTypes
    <2>11. /\ Held' /\ Loose' /\ Spelled(Without(c, n, i), n - 1)'
           /\ link' \in [Addresses -> Addresses] /\ data' \in [Nodes -> Items \cup {NoItem}]
           /\ len' \in Nat /\ owned' \subseteq Items /\ tail' \in Addresses
           /\ cut' \in BOOLEAN /\ ~broken'
        BY <1>1, <1>2, <2>5, <2>6, <2>7, <2>8, <2>9, <2>10, RemoveEffect
    <2>12. broken' \in BOOLEAN
        BY <2>1
    <2> QED BY <2>5, <2>11, <2>12
<1> QED BY <1>4, <1>5

LEMMA PopKeeps == LinkedInv /\ (Pop \/ RemoveHead) => LinkedInv'
<1>1. SUFFICES ASSUME LinkedInv, Pop \/ RemoveHead PROVE LinkedInv'
    OBVIOUS
<1>2. /\ ~itr.on /\ ~clearing /\ ~IsList /\ len > 0 /\ PopHead(AllButHead)
      /\ UNCHANGED <<kind, itr, clearing, cut>>
    BY <1>1 DEF Pop, RemoveHead, Idle
<1>3. LinkedTypes /\ ItrRests
    BY <1>1 DEF LinkedInv
<1>4. /\ Held' /\ Loose' /\ \E d, k : Spelled(d, k)'
      /\ link' \in [Addresses -> Addresses] /\ data' \in [Nodes -> Items \cup {NoItem}]
      /\ tail' \in Addresses /\ len' \in Nat /\ cut' \in BOOLEAN /\ broken' \in BOOLEAN
      /\ content' \in Seq(Items) /\ owned' \subseteq Items
    BY <1>1, <1>2, PopEffect
<1>5. LinkedTypes'
    BY <1>2, <1>3, <1>4 DEF LinkedTypes
<1>6. ItrRests' /\ \E c, n : Spelled(c, n)' /\ \E p : ItrOK(c, n, p)'
    BY <1>2, <1>3, <1>4, OffKeeps
<1> QED BY <1>4, <1>5, <1>6 DEF LinkedInv

(* Of the nodes, nothing changes but perhaps broken.                        *)
LEMMA SameNodes ==
    ASSUME LinkedTypes, Held, Loose, NEW c, NEW n, Spelled(c, n),
           UNCHANGED <<kind, link, data, tail, len, content, owned, cut>>,
           broken' => cut
    PROVE  Held' /\ Loose' /\ Spelled(c, n)'
<1>1. Held'
    BY DEF Held, Allocated
<1>2. Loose'
    BY DEF Loose
<1>3. Spelled(c, n)'
    BY DEF Spelled
<1> QED BY <1>1, <1>2, <1>3

LEMMA ItrNewKeeps == LinkedInv /\ LinkedItrNew => LinkedInv'
<1>1. SUFFICES ASSUME LinkedInv, LinkedItrNew PROVE LinkedInv'
    OBVIOUS
<1>2. PICK c, n : Spelled(c, n)
    BY <1>1 DEF LinkedInv
<1>3. LinkedTypes /\ Held /\ Loose /\ ItrRests
    BY <1>1 DEF LinkedInv
<1>4. /\ ~itr.on /\ itr.at = 0 /\ ~clearing /\ ~broken /\ ItrNew
      /\ UNCHANGED <<kind, link, data, tail, len, clearing, content, owned, cut>>
    BY <1>1, <1>3 DEF LinkedItrNew, Idle, ItrRests
<1>5. /\ itr' \in Iterators /\ (broken' => cut) /\ broken' \in BOOLEAN
      /\ ItrOK(c, n, 0)' /\ (itr'.on \/ itr' = itr)
    BY <1>2, <1>3, <1>4, NewEffect
<1>6. Held' /\ Loose' /\ Spelled(c, n)'
    BY <1>2, <1>3, <1>4, <1>5, SameNodes
<1>7. LinkedTypes'
    BY <1>3, <1>4, <1>5 DEF LinkedTypes
<1>8. ItrRests'
    BY <1>4, <1>5 DEF ItrRests
<1> QED BY <1>5, <1>6, <1>7, <1>8 DEF LinkedInv

LEMMA ItrNextKeeps == LinkedInv /\ LinkedItrNext => LinkedInv'
<1>1. SUFFICES ASSUME LinkedInv, LinkedItrNext PROVE LinkedInv'
    OBVIOUS
<1>2. PICK c, n : Spelled(c, n) /\ \E p : ItrOK(c, n, p)
    BY <1>1 DEF LinkedInv
<1>3. LinkedTypes /\ Held /\ Loose /\ ItrRests
    BY <1>1 DEF LinkedInv
<1>4. /\ itr.on /\ ~clearing /\ ~broken /\ ItrAdvance
      /\ UNCHANGED <<kind, link, data, tail, len, clearing, content, owned, cut, broken>>
    BY <1>1 DEF LinkedItrNext, Iterating
<1>5. itr' \in Iterators /\ (\E q : ItrOK(c, n, q)') /\ (~itr'.on => itr'.at = 0)
    BY <1>2, <1>3, <1>4, AdvanceEffect
<1>6. Held' /\ Loose' /\ Spelled(c, n)'
    BY <1>2, <1>3, <1>4, SameNodes
<1>7. LinkedTypes'
    BY <1>3, <1>4, <1>5 DEF LinkedTypes
<1>8. ItrRests'
    BY <1>4, <1>5 DEF ItrRests
<1> QED BY <1>5, <1>6, <1>7, <1>8 DEF LinkedInv

LEMMA ItrRemoveKeeps == LinkedInv /\ LinkedItrRemove => LinkedInv'
<1>1. SUFFICES ASSUME LinkedInv, LinkedItrRemove PROVE LinkedInv'
    OBVIOUS
<1>2. PICK c, n, p : Spelled(c, n) /\ ItrOK(c, n, p)
    BY <1>1 DEF LinkedInv
<1>3. LinkedTypes /\ Held /\ Loose /\ ItrRests
    BY <1>1 DEF LinkedInv
<1>4. itr.on /\ ~clearing /\ ItrRemove /\ UNCHANGED <<kind, clearing>>
    BY <1>1 DEF LinkedItrRemove, Iterating
<1>5. /\ Held' /\ Loose' /\ itr' \in Iterators
      /\ \E d, k : Spelled(d, k)' /\ \E q : ItrOK(d, k, q)'
      /\ link' \in [Addresses -> Addresses] /\ data' \in [Nodes -> Items \cup {NoItem}]
      /\ len' \in Nat /\ content' \in Seq(Items) /\ owned' \subseteq Items
      /\ tail' \in Addresses /\ cut' \in BOOLEAN /\ broken' \in BOOLEAN
      /\ itr'.on = itr.on /\ itr'.at = itr.at
    BY <1>2, <1>3, <1>4, ItrRemoveEffect
<1>6. LinkedTypes'
    BY <1>3, <1>4, <1>5 DEF LinkedTypes
<1>7. ItrRests'
    BY <1>4, <1>5 DEF ItrRests
<1> QED BY <1>5, <1>6, <1>7 DEF LinkedInv

LEMMA ItrInsertKeeps ==
    ASSUME LinkedInv, NEW x \in Items, ListItrInsert(x)
    PROVE  LinkedInv'
<1>1. PICK c, n, p : Spelled(c, n) /\ ItrOK(c, n, p)
    BY DEF LinkedInv
<1>2. LinkedTypes /\ Held /\ Loose /\ ItrRests
    BY DEF LinkedInv
<1>3. itr.on /\ ~clearing /\ UNCHANGED <<kind, tail, clearing, cut, broken>>
    BY DEF ListItrInsert, Iterating, Accept
<1>4. /\ Held' /\ Loose' /\ itr' \in Iterators
      /\ \E d, k : Spelled(d, k)' /\ \E q : ItrOK(d, k, q)'
      /\ link' \in [Addresses -> Addresses] /\ data' \in [Nodes -> Items \cup {NoItem}]
      /\ len' \in Nat /\ content' \in Seq(Items) /\ owned' \subseteq Items
      /\ itr'.on = itr.on /\ itr'.at = itr.at
    BY <1>1, <1>2, ItrInsertEffect
<1>5. LinkedTypes'
    BY <1>2, <1>3, <1>4 DEF LinkedTypes
<1>6. ItrRests'
    BY <1>3, <1>4 DEF ItrRests
<1> QED BY <1>4, <1>5, <1>6 DEF LinkedInv

LEMMA ItrSetKeeps ==
    ASSUME LinkedInv, NEW x \in Items, ItrSetData(x)
    PROVE  LinkedInv'
<1>1. PICK c, n, p : Spelled(c, n) /\ ItrOK(c, n, p)
    BY DEF LinkedInv
<1>2. LinkedTypes /\ Held /\ Loose /\ ItrRests
    BY DEF LinkedInv
<1>3. itr.on /\ ~clearing /\ UNCHANGED <<kind, link, tail, len, clearing, cut, broken>>
    BY DEF ItrSetData, Iterating
<1>4. /\ Held' /\ Loose' /\ itr' \in Iterators
      /\ Spelled(c, n)' /\ ItrOK(c, n, p)'
      /\ data' \in [Nodes -> Items \cup {NoItem}]
      /\ content' \in Seq(Items) /\ owned' \subseteq Items
      /\ itr'.on = itr.on /\ itr'.at = itr.at
    BY <1>1, <1>2, ItrSetEffect
<1>5. LinkedTypes'
    BY <1>2, <1>3, <1>4 DEF LinkedTypes
<1>6. ItrRests'
    BY <1>3, <1>4 DEF ItrRests
<1> QED BY <1>4, <1>5, <1>6 DEF LinkedInv

LEMMA ClearKeeps == LinkedInv /\ LinkedClear => LinkedInv'
<1>1. SUFFICES ASSUME LinkedInv, LinkedClear PROVE LinkedInv'
    OBVIOUS
<1>2. PICK c, n : Spelled(c, n)
    BY <1>1 DEF LinkedInv
<1>3. LinkedTypes /\ Held /\ Loose /\ ItrRests
    BY <1>1 DEF LinkedInv
<1>4. /\ ~itr.on /\ itr.at = 0 /\ ~broken /\ len > 0 /\ clearing' = TRUE
      /\ UNCHANGED <<kind, link, data, tail, len, content, owned, cut>>
    BY <1>1, <1>3 DEF LinkedClear, Idle, ItrRests
<1>5. IsList' <=> IsList
    BY <1>4 DEF IsList
<1>6. CASE IsList
    <2>1. ItrNew /\ kind # "queue"
        BY <1>1, <1>6 DEF LinkedClear, IsList
    <2>2. /\ itr' \in Iterators /\ (broken' => cut) /\ broken' \in BOOLEAN
          /\ ItrOK(c, n, 0)' /\ itr'.on
        BY <1>2, <1>3, <1>4, <2>1, NewEffect
    <2>3. Held' /\ Loose' /\ Spelled(c, n)'
        BY <1>2, <1>3, <1>4, <2>2, SameNodes
    <2>4. LinkedTypes'
        BY <1>3, <1>4, <2>2 DEF LinkedTypes
    <2>5. ItrRests'
        BY <1>4, <1>5, <1>6, <2>2 DEF ItrRests
    <2> QED BY <2>2, <2>3, <2>4, <2>5 DEF LinkedInv
<1>7. CASE ~IsList
    <2>1. UNCHANGED <<itr, broken>>
        BY <1>1, <1>7 DEF LinkedClear
    <2>2. Held' /\ Loose' /\ Spelled(c, n)'
        BY <1>2, <1>3, <1>4, <2>1, SameNodes
    <2>3. LinkedTypes'
        BY <1>3, <1>4, <2>1 DEF LinkedTypes
    <2>4. ItrRests'
        BY <1>4, <1>5, <1>7, <2>1 DEF ItrRests
    <2>5. ItrOK(c, n, 0)'
        BY <1>4, <2>1, <2>2, ItrOffOK
    <2> QED BY <2>2, <2>3, <2>4, <2>5 DEF LinkedInv
<1> QED BY <1>6, <1>7

LEMMA ClearStepKeeps == LinkedInv /\ LinkedClearStep => LinkedInv'
<1>1. SUFFICES ASSUME LinkedInv, LinkedClearStep PROVE LinkedInv'
    OBVIOUS
<1>2. PICK c, n, p : Spelled(c, n) /\ ItrOK(c, n, p)
    BY <1>1 DEF LinkedInv
<1>3. LinkedTypes /\ Held /\ Loose /\ ItrRests
    BY <1>1 DEF LinkedInv
<1>4. clearing /\ ~broken /\ kind' = kind /\ (itr.on <=> IsList) /\ (IsList \/ len > 0)
    BY <1>1, <1>3 DEF LinkedClearStep, ItrRests
<1>5. IsList' <=> IsList
    BY <1>4 DEF IsList
<1>6. clearing' = (IF IsList THEN itr'.on ELSE len' > 0)
    BY <1>1 DEF LinkedClearStep
<1>7. CASE ~IsList
    <2>1. PopHead(AllButHead) /\ UNCHANGED <<kind, itr, cut>> /\ ~itr.on /\ itr.at = 0
        BY <1>1, <1>3, <1>4, <1>7 DEF LinkedClearStep, ItrRests
    <2>2. /\ Held' /\ Loose' /\ \E d, k : Spelled(d, k)'
          /\ link' \in [Addresses -> Addresses] /\ data' \in [Nodes -> Items \cup {NoItem}]
          /\ tail' \in Addresses /\ len' \in Nat /\ cut' \in BOOLEAN /\ broken' \in BOOLEAN
          /\ content' \in Seq(Items) /\ owned' \subseteq Items
        BY <1>1, <1>4, <1>7, <2>1, PopEffect
    <2>3. clearing' = (len' > 0)
        BY <1>6, <1>7
    <2>4. clearing' \in BOOLEAN
        BY <2>3
    <2>5. LinkedTypes'
        BY <1>3, <2>1, <2>2, <2>4 DEF LinkedTypes
    <2>6. PICK d, k : Spelled(d, k)'
        BY <2>2
    <2>7. ItrOK(d, k, 0)'
        BY <2>1, <2>6, ItrOffOK
    <2>8. ItrRests'
        BY <1>5, <1>7, <2>1, <2>3 DEF ItrRests
    <2> QED BY <2>2, <2>5, <2>6, <2>7, <2>8 DEF LinkedInv
<1>8. CASE IsList /\ itr.diff = 0
    <2>1. ItrRemove /\ itr.on
        BY <1>1, <1>4, <1>8 DEF LinkedClearStep
    <2>2. /\ Held' /\ Loose' /\ itr' \in Iterators
          /\ \E d, k : Spelled(d, k)' /\ \E q : ItrOK(d, k, q)'
          /\ link' \in [Addresses -> Addresses] /\ data' \in [Nodes -> Items \cup {NoItem}]
          /\ len' \in Nat /\ content' \in Seq(Items) /\ owned' \subseteq Items
          /\ tail' \in Addresses /\ cut' \in BOOLEAN /\ broken' \in BOOLEAN
          /\ itr'.on = itr.on /\ itr'.at = itr.at
        BY <1>2, <1>3, <1>4, <2>1, ItrRemoveEffect
    <2>3. clearing' = itr'.on /\ clearing' \in BOOLEAN
        BY <1>6, <1>8, <2>2, ItrFields
    <2>4. LinkedTypes'
        BY <1>3, <1>4, <2>2, <2>3 DEF LinkedTypes
    <2>5. ItrRests'
        BY <1>5, <1>8, <2>1, <2>2, <2>3 DEF ItrRests
    <2> QED BY <2>2, <2>4, <2>5 DEF LinkedInv
<1>9. CASE IsList /\ itr.diff # 0
    <2>1. /\ ItrAdvance /\ itr.on
          /\ UNCHANGED <<kind, link, data, tail, len, content, owned, cut, broken>>
        BY <1>1, <1>4, <1>9 DEF LinkedClearStep
    <2>2. itr' \in Iterators /\ (\E q : ItrOK(c, n, q)') /\ (~itr'.on => itr'.at = 0)
        BY <1>2, <1>3, <2>1, AdvanceEffect
    <2>3. Held' /\ Loose' /\ Spelled(c, n)'
        BY <1>2, <1>3, <1>4, <2>1, SameNodes
    <2>4. clearing' = itr'.on /\ clearing' \in BOOLEAN
        BY <1>6, <1>9, <2>2, ItrFields
    <2>5. LinkedTypes'
        BY <1>3, <2>1, <2>2, <2>4 DEF LinkedTypes
    <2>6. ItrRests'
        BY <1>5, <1>9, <2>2, <2>4 DEF ItrRests
    <2> QED BY <2>2, <2>3, <2>5, <2>6 DEF LinkedInv
<1> QED BY <1>7, <1>8, <1>9

LEMMA StutterKeeps == LinkedInv /\ UNCHANGED linkedVars => LinkedInv'
<1>1. SUFFICES ASSUME LinkedInv, UNCHANGED linkedVars PROVE LinkedInv'
    OBVIOUS
<1> USE DEF linkedVars
<1>2. PICK c, n, p : Spelled(c, n) /\ ItrOK(c, n, p)
    BY <1>1 DEF LinkedInv
<1>3. LinkedTypes /\ Held /\ Loose /\ ItrRests
    BY <1>1 DEF LinkedInv
<1>4. LinkedTypes'
    BY <1>1, <1>3 DEF LinkedTypes
<1>5. Held' /\ Loose' /\ Spelled(c, n)'
    BY <1>1, <1>2, <1>3, SameNodes DEF Loose
<1>6. ItrRests'
    BY <1>1, <1>3 DEF ItrRests, IsList
<1>7. ItrOK(c, n, p)'
    BY <1>1, <1>2 DEF ItrOK, Ahead, Seen
<1> QED BY <1>4, <1>5, <1>6, <1>7 DEF LinkedInv

LEMMA StepInv == LinkedInv /\ [LinkedNext]_linkedVars => LinkedInv'
<1>1. SUFFICES ASSUME LinkedInv, [LinkedNext]_linkedVars PROVE LinkedInv'
    OBVIOUS
<1>2. ASSUME NEW x \in Items, \/ ListInsert(x) \/ ListRemove(x) \/ Enqueue(x) \/ Push(x)
                              \/ ListItrInsert(x) \/ ItrSetData(x)
      PROVE  LinkedInv'
    BY <1>1, <1>2, InsertKeeps, RemoveKeeps, EnqueueKeeps, PushKeeps, ItrInsertKeeps, ItrSetKeeps
<1>3. CASE Pop \/ RemoveHead
    BY <1>1, <1>3, PopKeeps
<1>4. CASE LinkedItrNew \/ LinkedItrNext \/ LinkedItrRemove
    BY <1>1, <1>4, ItrNewKeeps, ItrNextKeeps, ItrRemoveKeeps
<1>5. CASE LinkedClear \/ LinkedClearStep
    BY <1>1, <1>5, ClearKeeps, ClearStepKeeps
<1>6. CASE UNCHANGED linkedVars
    BY <1>1, <1>6, StutterKeeps
<1> QED BY <1>1, <1>2, <1>3, <1>4, <1>5, <1>6 DEF LinkedNext

(* Every reachable state is one of the invariant.                           *)
LEMMA LinkedInductive == LinkedSpec => []LinkedInv
<1>1. LinkedInit => LinkedInv
    BY InitInv
<1>2. LinkedInv /\ [LinkedNext]_linkedVars => LinkedInv'
    BY StepInv
<1> QED BY <1>1, <1>2, PTL DEF LinkedSpec

(***************************************************************************)
(* The theorems.                                                           *)
(***************************************************************************)
(* Whatever is inserted and removed, directly or through iterators, the     *)
(* links of a list, a queue or a stack spell out the sequence of items its  *)
(* operations promise, len counts them and a queue's tail is its last node: *)
(* unless an iterator removed the tail of a longer queue (queue.c:70).      *)
THEOREM ContentKept == LinkedSpec => []LinkedContent
<1>1. LinkedInv => LinkedContent
    BY InvContent
<1> QED BY <1>1, LinkedInductive, PTL

(* Every item handed in and not handed back is in exactly one node until    *)
(* the destructor runs on it, once; len counts the nodes; NULL is followed  *)
(* only in a queue that lost its tail.                                      *)
THEOREM OwnedKept == LinkedSpec => []LinkedOwned
<1>1. LinkedInv => LinkedOwned
    BY InvOwned
<1> QED BY <1>1, LinkedInductive, PTL

(* What the end of an iteration says of the sequences the property names.   *)
LEMMA IterationStep ==
    ASSUME LinkedInv, [LinkedNext]_linkedVars, itr.on, ~itr'.on
    PROVE  /\ itr.start \subseteq ToSet(itr.seen) \cup itr.gone
           /\ ~itr.inserted => IsInjective(itr.seen)
<1>1. PICK c, n, p : Spelled(c, n) /\ ItrOK(c, n, p)
    BY DEF LinkedInv
<1>2. LinkedTypes /\ Held /\ Loose /\ ItrRests
    BY DEF LinkedInv
<1>3. ASSUME itr'.on = itr.on PROVE FALSE
    BY <1>3
<1>4. ItrAdvance /\ UNCHANGED <<link, data>>
    <2>1. ASSUME NEW x \in Items, ListInsert(x) \/ ListRemove(x) \/ Enqueue(x) \/ Push(x)
          PROVE  FALSE
        <3>1. itr' = itr
            BY <2>1 DEF ListInsert, ListRemove, Enqueue, Push
        <3> QED BY <3>1, <1>3
    <2>2. ASSUME NEW x \in Items, ListItrInsert(x) PROVE FALSE
        BY <1>1, <1>2, <1>3, <2>2, ItrInsertEffect
    <2>3. ASSUME NEW x \in Items, ItrSetData(x) PROVE FALSE
        BY <1>1, <1>2, <1>3, <2>3, ItrSetEffect
    <2>4. ASSUME Pop \/ RemoveHead \/ LinkedItrNew \/ LinkedClear PROVE FALSE
        BY <2>4 DEF Pop, RemoveHead, LinkedItrNew, LinkedClear, Idle
    <2>5. CASE LinkedItrNext
        BY <2>5 DEF LinkedItrNext
    <2>6. ASSUME LinkedItrRemove PROVE FALSE
        <3>1. ItrRemove /\ kind' = kind
            BY <2>6 DEF LinkedItrRemove
        <3> QED BY <1>1, <1>2, <1>3, <3>1, ItrRemoveEffect
    <2>7. CASE LinkedClearStep
        <3>1. kind' = kind /\ IsList
            BY <1>2, <2>7 DEF LinkedClearStep, ItrRests
        <3>2. CASE itr.diff = 0
            <4>1. ItrRemove
                BY <2>7, <3>1, <3>2 DEF LinkedClearStep
            <4> QED BY <1>1, <1>2, <1>3, <3>1, <4>1, ItrRemoveEffect
        <3>3. CASE itr.diff # 0
            BY <2>7, <3>1, <3>3 DEF LinkedClearStep
        <3> QED BY <3>2, <3>3
    <2>8. ASSUME UNCHANGED linkedVars PROVE FALSE
        BY <1>3, <2>8 DEF linkedVars
    <2> QED BY <2>1, <2>2, <2>3, <2>4, <2>5, <2>6, <2>7, <2>8 DEF LinkedNext
<1>5. /\ \A x \in itr.start : Seen(x) \/ x \in itr.gone
      /\ ~itr.inserted => \A i, j \in 1..Len(itr.seen) : itr.seen[i] = itr.seen[j] => i = j
    BY <1>1, <1>2, <1>4, AdvanceEffect
<1>6. DOMAIN itr.seen = 1..Len(itr.seen)
    <2>1. itr.seen \in Seq(Items)
        BY <1>2, ItrFields DEF LinkedTypes
    <2> QED BY <2>1
<1>7. itr.start \subseteq ToSet(itr.seen) \cup itr.gone
    BY <1>5, <1>6 DEF Seen, ToSet
<1>8. ~itr.inserted => IsInjective(itr.seen)
    BY <1>5, <1>6 DEF IsInjective
<1> QED BY <1>7, <1>8

(* An iteration that ends has shown every element that was there when it    *)
(* began and was not removed on the way, and, unless m_list_itr_insert was  *)
(* used, none of them twice.                                                *)
THEOREM IterationComplete == LinkedSpec => LinkedIteration
<1>1. LinkedInv /\ [LinkedNext]_linkedVars =>
        [itr.on /\ ~itr'.on => /\ itr.start \subseteq ToSet(itr.seen) \cup itr.gone
                               /\ ~itr.inserted => IsInjective(itr.seen)]_linkedVars
    BY IterationStep
<1> QED BY <1>1, LinkedInductive, PTL DEF LinkedSpec, LinkedIteration
=============================================================================
