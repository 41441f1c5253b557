------------------------------ MODULE MapProofs ------------------------------
(***************************************************************************)
(* Proofs about the hash map, for any keys, values and hash functions and   *)
(* any bound on the table: a key is found where probing looks for it and    *)
(* gives the value promised, and every value is owned once, as long as no   *)
(* entry is removed from a run longer than half the table.                 *)
(***************************************************************************)
EXTENDS HashMap, TLAPS, FiniteSetTheorems, WellFoundedInduction

(***************************************************************************)
(* A nonempty set of naturals has a least element; inductions are done with *)
(* it.                                                                     *)
(***************************************************************************)
LEMMA LeastNat ==
    ASSUME NEW T, T \subseteq Nat, T # {}
    PROVE  \E x \in T : \A y \in T : x <= y
<1> DEFINE R == {ss \in Nat \X Nat : ss[1] < ss[2]}
<1>1. IsWellFoundedOn(R, Nat)
    BY NatLessThanWellFounded DEF OpToRel
<1>2. PICK x \in T : \A y \in T : ~(<<y, x>> \in R)
    <2> HIDE DEF R
    <2> QED BY <1>1, WFMin
<1>3. \A y \in T : ~(y < x)
    BY <1>2
<1> QED BY <1>3

LEMMA MinNat ==
    ASSUME NEW T, T \subseteq Nat, T # {}
    PROVE  Min(T) \in T /\ \A y \in T : Min(T) <= y
BY LeastNat DEF Min

(* A set of numbers that has 0 and with every number the next one.          *)
LEMMA UpTo ==
    ASSUME NEW n \in Nat, NEW T, 0 \in T, \A i \in 1..n : i - 1 \in T => i \in T
    PROVE  \A i \in 0..n : i \in T
<1> DEFINE F == {i \in 0..n : i \notin T}
<1>1. SUFFICES ASSUME F # {} PROVE FALSE
    OBVIOUS
<1>2. F \subseteq Nat
    OBVIOUS
<1>3. PICK i \in F : \A j \in F : i <= j
    <2> HIDE DEF F
    <2> QED BY <1>1, <1>2, LeastNat
<1>4. i \in 1..n /\ i - 1 \in 0..n /\ i - 1 \notin F
    BY <1>3
<1> QED BY <1>3, <1>4

(* What a function defined by recursion over 0..n computes.                 *)
IsStep(step, n, V) == step \in [(1..n) \X V -> V]
Computes(f, n, V, base, step) ==
    f \in [0..n -> V] /\ f[0] = base /\ \A i \in 1..n : f[i] = step[<<i, f[i - 1]>>]

LEMMA Recursion ==
    ASSUME NEW n \in Nat, NEW V, NEW base \in V, NEW step, IsStep(step, n, V)
    PROVE  \E f : Computes(f, n, V, base, step)
<1> USE DEF IsStep
<1> DEFINE P(m) == \E f \in [0..m -> V] :
                       f[0] = base /\ \A i \in 1..m : f[i] = step[<<i, f[i - 1]>>]
           T == {m \in 0..n : P(m)}
<1>1. 0 \in T
    <2> DEFINE f == [i \in 0..0 |-> base]
    <2>1. f \in [0..0 -> V] /\ f[0] = base /\ \A i \in 1..0 : f[i] = step[<<i, f[i - 1]>>]
        OBVIOUS
    <2> HIDE DEF f
    <2>2. P(0)
        BY <2>1
    <2> HIDE DEF P
    <2> QED BY <2>2
<1>2. ASSUME NEW m \in 1..n, m - 1 \in T PROVE m \in T
    <2>1. PICK f \in [0..m - 1 -> V] :
              f[0] = base /\ \A i \in 1..m - 1 : f[i] = step[<<i, f[i - 1]>>]
        BY <1>2
    <2>2. f[m - 1] \in V /\ m \in Nat
        BY <2>1
    <2>3. step[<<m, f[m - 1]>>] \in V
        BY <2>2
    <2> DEFINE g == [i \in 0..m |-> IF i = m THEN step[<<m, f[m - 1]>>] ELSE f[i]]
    <2>4. \A i \in 0..m : i # m => i \in 0..m - 1 /\ f[i] \in V
        BY <2>1, <2>2
    <2>5. g \in [0..m -> V]
        BY <2>3, <2>4
    <2>6. g[0] = base
        BY <2>1, <2>2
    <2>7. ASSUME NEW i \in 1..m PROVE g[i] = step[<<i, g[i - 1]>>]
        <3>1. g[i - 1] = f[i - 1] /\ m \in 0..m
            BY <2>2
        <3>2. CASE i = m
            <4>1. g[m] = step[<<m, f[m - 1]>>]
                BY <3>1
            <4> HIDE DEF g
            <4> QED BY <3>1, <3>2, <4>1
        <3>3. CASE i # m
            BY <2>1, <2>2, <3>1, <3>3
        <3> QED BY <3>2, <3>3
    <2> HIDE DEF g
    <2> QED BY <2>5, <2>6, <2>7
<1> HIDE DEF P
<1>3. \A i \in 0..n : i \in T
    <2> HIDE DEF T
    <2> QED BY <1>1, <1>2, UpTo
<1>4. P(n)
    BY <1>3
<1> QED BY <1>4 DEF P, Computes

(***************************************************************************)
(* Slots around the table.                                                 *)
(***************************************************************************)
(* The steps from slot a to slot b of a table of N slots.                   *)
Dist(N, a, b) == IF a <= b THEN b - a ELSE b - a + N

LEMMA ModIs ==
    ASSUME NEW N \in Nat, N > 0, NEW x \in Int
    PROVE  /\ x % N \in 0..N - 1
           /\ x \in 0..N - 1 => x % N = x
           /\ x \in N..2 * N - 1 => x % N = x - N
           /\ x \in -N..-1 => x % N = x + N
<1>1. x % N \in 0..N - 1
    OBVIOUS
<1>2. x \in 0..N - 1 => x % N = x
    OBVIOUS
<1>3. x \in N..2 * N - 1 => x % N = x - N
    OBVIOUS
<1>4. x \in -N..-1 => x % N = x + N
    OBVIOUS
<1> QED BY <1>1, <1>2, <1>3, <1>4

LEMMA DistIs ==
    ASSUME NEW N \in Nat, N > 0, NEW a \in 0..N - 1, NEW b \in 0..N - 1
    PROVE  /\ Dist(N, a, b) \in 0..N - 1
           /\ (b - a) % N = Dist(N, a, b)
           /\ Dist(N, a, b) = 0 => a = b
<1>1. b - a \in Int /\ (b - a \in 0..N - 1 \/ b - a \in -N..-1)
    OBVIOUS
<1>2. (b - a) % N = Dist(N, a, b)
    BY <1>1, ModIs DEF Dist
<1>3. Dist(N, a, b) \in 0..N - 1 /\ (Dist(N, a, b) = 0 => a = b)
    BY DEF Dist
<1> QED BY <1>2, <1>3

LEMMA SlotIs ==
    ASSUME NEW N \in Nat, N > 0, NEW a \in 0..N - 1, NEW i \in 0..N - 1
    PROVE  /\ (a + i) % N \in 0..N - 1
           /\ Dist(N, a, (a + i) % N) = i
           /\ \A s \in 0..N - 1 : Dist(N, a, s) = i => s = (a + i) % N
<1>1. a + i \in Int /\ (a + i \in 0..N - 1 \/ a + i \in N..2 * N - 1)
    OBVIOUS
<1>2. (a + i) % N = IF a + i < N THEN a + i ELSE a + i - N
    BY <1>1, ModIs
<1> QED BY <1>2 DEF Dist

(***************************************************************************)
(* Tables.                                                                 *)
(***************************************************************************)
Entries == [key : Keys, val : Keys \X Versions]

IsTable(t, N) ==
    /\ N \in Nat /\ N > 0 /\ N \div 2 \in Nat /\ N = 2 * (N \div 2)
    /\ t \in [0..N - 1 -> Entries \cup {Empty}]

HashOK == hash \in [Keys -> Nat]

(* Home in a table of N slots.                                             *)
HomeIn(N, k) == hash[k] % N

LEMMA TableIs ==
    ASSUME NEW t, NEW N, IsTable(t, N)
    PROVE  /\ DOMAIN t = 0..N - 1 /\ Size(t) = N /\ ProbeLen(t) = N \div 2
           /\ \A k : Home(t, k) = HomeIn(N, k)
           /\ \A s \in 0..N - 1 : t[s] # Empty => t[s] \in Entries
           /\ \A s \in 0..N - 1 : t[s] # Empty =>
                  t[s].key \in Keys /\ t[s].val \in Keys \X Versions
<1>1. DOMAIN t = 0..N - 1 /\ N \in Nat
    BY DEF IsTable
<1>2. Size(t) = N
    BY <1>1, FS_Interval DEF Size, IsTable
<1>3. \A s \in 0..N - 1 : t[s] # Empty => t[s] \in Entries
    BY DEF IsTable
<1>4. \A s \in 0..N - 1 : t[s] # Empty => t[s].key \in Keys /\ t[s].val \in Keys \X Versions
    BY <1>3 DEF Entries
<1> QED BY <1>1, <1>2, <1>3, <1>4 DEF ProbeLen, Home, HomeIn

LEMMA HomeRange ==
    ASSUME HashOK, NEW N \in Nat, N > 0, NEW k \in Keys
    PROVE  HomeIn(N, k) \in 0..N - 1
<1>1. hash[k] \in Int
    BY DEF HashOK
<1> QED BY <1>1, ModIs DEF HomeIn

(* From h to s, s left out, no slot is empty.                               *)
Filled(t, N, h, s) == \A r \in 0..N - 1 : Dist(N, h, r) < Dist(N, h, s) => t[r] # Empty

(* Every entry is within ProbeLen of its home with no empty slot on the     *)
(* way, no key is there twice, and a value is its key's.                    *)
Placed(t, N) ==
    /\ \A s \in 0..N - 1 : t[s] # Empty =>
           /\ Dist(N, HomeIn(N, t[s].key), s) < N \div 2
           /\ Filled(t, N, HomeIn(N, t[s].key), s)
    /\ \A s, r \in 0..N - 1 : t[s] # Empty /\ t[r] # Empty /\ t[s].key = t[r].key => s = r
    /\ \A s \in 0..N - 1 : t[s] # Empty => t[s].val[1] = t[s].key

(* The offsets at which hashmap_entry_find may stop.                        *)
Ends(t, N, k) == {i \in 0..N \div 2 - 1 : LET e == t[(HomeIn(N, k) + i) % N] IN e = Empty \/ e.key = k}

LEMMA ProbeForm ==
    ASSUME NEW t, NEW N, IsTable(t, N), NEW k
    PROVE  Probe(t, k) = IF Ends(t, N, k) # {} THEN (HomeIn(N, k) + Min(Ends(t, N, k))) % N ELSE NoSlot
<1>1. Home(t, k) = HomeIn(N, k) /\ Size(t) = N /\ ProbeLen(t) = N \div 2
    BY TableIs
<1> DEFINE E == {i \in 0..ProbeLen(t) - 1 : \/ t[(Home(t, k) + i) % Size(t)] = Empty
                                            \/ t[(Home(t, k) + i) % Size(t)].key = k}
<1>2. E = Ends(t, N, k)
    BY <1>1 DEF Ends
<1>3. Probe(t, k) = IF \E i \in E : TRUE THEN (Home(t, k) + Min(E)) % Size(t) ELSE NoSlot
    BY DEF Probe
<1> HIDE DEF E
<1> QED BY <1>1, <1>2, <1>3

(* What hashmap_entry_find finds in any table.                              *)
LEMMA ProbeIs ==
    ASSUME HashOK, NEW t, NEW N, IsTable(t, N), NEW k \in Keys
    PROVE  \/ Probe(t, k) = NoSlot
           \/ /\ Probe(t, k) \in 0..N - 1
              /\ t[Probe(t, k)] = Empty \/ t[Probe(t, k)].key = k
              /\ Dist(N, HomeIn(N, k), Probe(t, k)) < N \div 2
              /\ \A r \in 0..N - 1 : Dist(N, HomeIn(N, k), r) < Dist(N, HomeIn(N, k), Probe(t, k))
                                        => t[r] # Empty /\ t[r].key # k
<1> DEFINE h == HomeIn(N, k)
           slot(i) == (h + i) % N
           ends == Ends(t, N, k)
<1>1. N \in Nat /\ N > 0 /\ N \div 2 \in Nat /\ N = 2 * (N \div 2) /\ h \in 0..N - 1
    BY HomeRange DEF IsTable
<1>2. Probe(t, k) = IF ends # {} THEN slot(Min(ends)) ELSE NoSlot
    BY ProbeForm
<1>20. ends = {i \in 0..N \div 2 - 1 : t[slot(i)] = Empty \/ t[slot(i)].key = k}
    BY DEF Ends
<1> HIDE DEF h, ends
<1>3. CASE ends = {}
    BY <1>2, <1>3
<1>4. CASE ends # {}
    <2>1. ends \subseteq Nat
        BY <1>1, <1>20
    <2>2. Min(ends) \in ends /\ \A y \in ends : Min(ends) <= y
        <3> QED BY <1>4, <2>1, MinNat
    <2>3. PICK i : i = Min(ends)
        OBVIOUS
    <2>4. i \in 0..N - 1 /\ i < N \div 2 /\ (t[slot(i)] = Empty \/ t[slot(i)].key = k)
        BY <1>1, <1>20, <2>2, <2>3
    <2>5. Probe(t, k) = slot(i)
        BY <1>2, <1>4, <2>3
    <2>6. slot(i) \in 0..N - 1 /\ Dist(N, h, slot(i)) = i
        BY <1>1, <2>4, SlotIs
    <2>7. ASSUME NEW r \in 0..N - 1, Dist(N, h, r) < i PROVE t[r] # Empty /\ t[r].key # k
        <3>1. PICK j : j = Dist(N, h, r)
            OBVIOUS
        <3>2. j \in 0..N - 1 /\ j < i
            BY <1>1, <2>7, <3>1, DistIs
        <3>3. r = slot(j)
            BY <1>1, <3>1, <3>2, SlotIs
        <3>4. j \notin ends
            BY <2>2, <2>3, <2>4, <3>2
        <3>5. j \in 0..N \div 2 - 1
            BY <1>1, <2>4, <3>2
        <3> QED BY <1>20, <3>3, <3>4, <3>5
    <2> HIDE DEF slot
    <2>8. /\ Probe(t, k) \in 0..N - 1
          /\ t[Probe(t, k)] = Empty \/ t[Probe(t, k)].key = k
          /\ Dist(N, h, Probe(t, k)) < N \div 2
        BY <2>4, <2>5, <2>6
    <2>9. \A r \in 0..N - 1 : Dist(N, h, r) < Dist(N, h, Probe(t, k)) => t[r] # Empty /\ t[r].key # k
        BY <2>5, <2>6, <2>7
    <2> QED BY <2>8, <2>9 DEF h
<1> QED BY <1>3, <1>4

(* A key that is there is found.                                           *)
LEMMA ProbeFinds ==
    ASSUME HashOK, NEW t, NEW N, IsTable(t, N), Placed(t, N),
           NEW s \in 0..N - 1, t[s] # Empty
    PROVE  Probe(t, t[s].key) = s
<1> DEFINE k == t[s].key
           h == HomeIn(N, k)
           slot(i) == (h + i) % N
           ends == Ends(t, N, k)
<1>1. k \in Keys
    BY TableIs
<1>2. N \in Nat /\ N > 0 /\ N \div 2 \in Nat /\ N = 2 * (N \div 2) /\ h \in 0..N - 1
    BY <1>1, HomeRange DEF IsTable
<1>3. Probe(t, k) = IF ends # {} THEN slot(Min(ends)) ELSE NoSlot
    BY ProbeForm
<1>20. ends = {i \in 0..N \div 2 - 1 : t[slot(i)] = Empty \/ t[slot(i)].key = k}
    BY DEF Ends
<1>4. Dist(N, h, s) < N \div 2 /\ \A r \in 0..N - 1 : Dist(N, h, r) < Dist(N, h, s) => t[r] # Empty
    BY DEF Placed, Filled
<1>5. \A r \in 0..N - 1 : t[r] # Empty /\ t[r].key = k => r = s
    BY DEF Placed
<1>6. PICK d : d = Dist(N, h, s)
    OBVIOUS
<1> HIDE DEF h, k, ends
<1>7. d \in 0..N - 1 /\ d \in 0..N \div 2 - 1 /\ s = slot(d)
    <2>2. d \in 0..N - 1
        BY <1>2, <1>6, DistIs
    <2>3. d < N \div 2
        BY <1>4, <1>6
    <2>1. d \in 0..N - 1 /\ d \in 0..N \div 2 - 1
        BY <1>2, <2>2, <2>3
    <2> QED BY <1>2, <1>6, <2>1, SlotIs
<1>8. d \in ends
    BY <1>7, <1>20 DEF k
<1>9. ASSUME NEW j \in ends, j < d PROVE FALSE
    <2>1. j \in 0..N - 1 /\ (t[slot(j)] = Empty \/ t[slot(j)].key = k)
        BY <1>2, <1>9, <1>20
    <2>2. slot(j) \in 0..N - 1 /\ Dist(N, h, slot(j)) = j
        BY <1>2, <2>1, SlotIs
    <2>3. t[slot(j)] # Empty
        BY <1>4, <1>6, <1>9, <2>2
    <2>4. slot(j) = s
        BY <1>5, <2>1, <2>2, <2>3
    <2> QED BY <1>6, <1>7, <1>9, <2>1, <2>2, <2>4
<1>10. ends \subseteq Nat
    BY <1>2, <1>20
<1>11. Min(ends) = d
    <2>1. Min(ends) \in ends /\ Min(ends) <= d
        BY <1>8, <1>10, MinNat
    <2>2. ~(Min(ends) < d)
        BY <1>9, <2>1
    <2>3. Min(ends) \in Nat
        BY <1>10, <2>1
    <2>4. d \in Nat
        BY <1>2, <1>7
    <2> QED BY <2>1, <2>2, <2>3, <2>4
<1> HIDE DEF slot
<1>12. Probe(t, k) = s
    BY <1>3, <1>7, <1>8, <1>11
<1> QED BY <1>12 DEF k

(* n is t with e in slot p.                                                 *)
IsPut(t, N, p, e, n) == IsTable(n, N) /\ n[p] = e /\ \A s \in 0..N - 1 : s # p => n[s] = t[s]

(* An entry in the slot that hashmap_entry_find gives for its key.          *)
LEMMA PutEffect ==
    ASSUME HashOK, NEW t, NEW N, IsTable(t, N), Placed(t, N), NEW e \in Entries, e.val[1] = e.key,
           NEW p, p = Probe(t, e.key), p # NoSlot,
           NEW n, IsPut(t, N, p, e, n)
    PROVE  /\ Placed(n, N) /\ p \in 0..N - 1
           /\ \A s \in 0..N - 1 : s # p /\ t[s] # Empty => t[s].key # e.key
           /\ t[p] = Empty \/ t[p].key = e.key
<1>1. e.key \in Keys /\ e # Empty
    BY HashMapAssumption DEF Entries
<1>2. PICK h : h = HomeIn(N, e.key)
    OBVIOUS
<1>3. /\ p \in 0..N - 1 /\ (t[p] = Empty \/ t[p].key = e.key)
      /\ Dist(N, h, p) < N \div 2
      /\ \A r \in 0..N - 1 : Dist(N, h, r) < Dist(N, h, p) => t[r] # Empty /\ t[r].key # e.key
    BY <1>1, <1>2, ProbeIs
<1>4. n[p] = e /\ \A s \in 0..N - 1 : s # p => n[s] = t[s]
    BY DEF IsPut
<1>6. \A s \in 0..N - 1 : t[s] # Empty => n[s] # Empty
    BY <1>1, <1>4
<1>7. ASSUME NEW s \in 0..N - 1, s # p, t[s] # Empty PROVE t[s].key # e.key
    BY <1>7, ProbeFinds
<1>8. ASSUME NEW s \in 0..N - 1, n[s] # Empty
      PROVE  /\ Dist(N, HomeIn(N, n[s].key), s) < N \div 2
             /\ Filled(n, N, HomeIn(N, n[s].key), s)
             /\ n[s].val[1] = n[s].key
    <2>1. CASE s = p
        <3>1. n[s] = e /\ HomeIn(N, n[s].key) = h
            BY <1>2, <1>4, <2>1
        <3>2. Dist(N, h, s) < N \div 2 /\ Filled(n, N, h, s)
            BY <1>3, <1>6, <2>1 DEF Filled
        <3> QED BY <3>1, <3>2
    <2>2. CASE s # p
        <3>1. n[s] = t[s]
            BY <1>4, <2>2
        <3>2. /\ Dist(N, HomeIn(N, t[s].key), s) < N \div 2
              /\ Filled(t, N, HomeIn(N, t[s].key), s)
              /\ t[s].val[1] = t[s].key
            BY <1>8, <3>1 DEF Placed
        <3>3. Filled(n, N, HomeIn(N, t[s].key), s)
            BY <1>6, <3>2 DEF Filled
        <3> QED BY <3>1, <3>2, <3>3
    <2> QED BY <2>1, <2>2
<1>9. ASSUME NEW s \in 0..N - 1, NEW r \in 0..N - 1, n[s] # Empty, n[r] # Empty, n[s].key = n[r].key
      PROVE  s = r
    <2>1. CASE s = p \/ r = p
        BY <1>4, <1>7, <1>9, <2>1
    <2>2. CASE s # p /\ r # p
        BY <1>4, <1>9, <2>2 DEF Placed
    <2> QED BY <2>1, <2>2
<1>10. Placed(n, N)
    BY <1>8, <1>9 DEF Placed
<1> QED BY <1>3, <1>7, <1>10

(***************************************************************************)
(* hashmap_rehash                                                          *)
(***************************************************************************)
(* The tables of N slots that have entries of t, those below slot i.        *)
Moved(t, i, n, N) ==
    /\ IsTable(n, N) /\ Placed(n, N)
    /\ \A r \in 0..N - 1 : n[r] # Empty => \E s \in 0..i - 1 : t[s] = n[r]
    /\ \A s \in 0..i - 1 : t[s] # Empty => \E r \in 0..N - 1 : n[r] = t[s]

LEMMA PlaceMoves ==
    ASSUME HashOK, NEW t, NEW N, IsTable(t, N), Placed(t, N), NEW i \in 1..N, NEW M,
           NEW S, \A n \in S : Moved(t, i - 1, n, M)
    PROVE  \A n \in Place(S, t[i - 1]) : Moved(t, i, n, M)
<1> SUFFICES ASSUME NEW n \in Place(S, t[i - 1]) PROVE Moved(t, i, n, M)
    OBVIOUS
<1>1. N \in Nat /\ i - 1 \in 0..N - 1 /\ i \in Nat
    BY DEF IsTable
<1>2. \A s : s \in 0..i - 1 <=> s \in 0..(i - 1) - 1 \/ s = i - 1
    BY <1>1
<1>3. CASE t[i - 1] = Empty
    <2>1. n \in S
        BY <1>3 DEF Place
    <2>2. Moved(t, i - 1, n, M)
        BY <2>1
    <2> QED BY <1>2, <1>3, <2>2 DEF Moved
<1>4. CASE t[i - 1] # Empty
    <2>1. PICK e : e = t[i - 1]
        OBVIOUS
    <2>2. e \in Entries /\ e.val[1] = e.key /\ e # Empty
        BY <1>1, <1>4, <2>1, TableIs DEF Placed
    <2>3. PICK m \in S : Probe(m, e.key) # NoSlot /\ n = [m EXCEPT ![Probe(m, e.key)] = e]
        BY <1>4, <2>1 DEF Place
    <2>4. Moved(t, i - 1, m, M)
        BY <2>3
    <2>5. IsTable(m, M) /\ Placed(m, M)
        BY <2>4 DEF Moved
    <2>6. PICK p : p = Probe(m, e.key)
        OBVIOUS
    <2>20. p # NoSlot /\ n = [m EXCEPT ![p] = e] /\ p \in 0..M - 1
        <3>1. e.key \in Keys
            BY <2>2 DEF Entries
        <3> QED BY <2>3, <2>5, <2>6, <3>1, ProbeIs
    <2>21. IsTable(n, M) /\ n[p] = e /\ \A s \in 0..M - 1 : s # p => n[s] = m[s]
        BY <2>2, <2>5, <2>20 DEF IsTable
    <2>22. IsPut(m, M, p, e, n)
        BY <2>21 DEF IsPut
    <2>7. /\ Placed(n, M)
          /\ m[p] = Empty \/ m[p].key = e.key
        BY <2>2, <2>5, <2>6, <2>20, <2>22, PutEffect
    <2>8. m[p] = Empty
        <3>1. SUFFICES ASSUME m[p] # Empty PROVE FALSE
            OBVIOUS
        <3>2. PICK s \in 0..(i - 1) - 1 : t[s] = m[p]
            BY <2>4, <2>20, <3>1 DEF Moved
        <3>3. s \in 0..N - 1 /\ s # i - 1
            BY <1>1, <3>2
        <3> QED BY <1>1, <1>4, <2>1, <2>7, <3>1, <3>2, <3>3 DEF Placed
    <2>9. \A r \in 0..M - 1 : n[r] # Empty => \E s \in 0..i - 1 : t[s] = n[r]
        BY <1>2, <2>1, <2>4, <2>20, <2>21 DEF Moved
    <2>10. \A s \in 0..i - 1 : t[s] # Empty => \E r \in 0..M - 1 : n[r] = t[s]
        BY <1>2, <2>1, <2>2, <2>4, <2>20, <2>21, <2>8 DEF Moved
    <2> QED BY <2>7, <2>9, <2>10, <2>21 DEF Moved
<1> QED BY <1>3, <1>4

(* What hashmap_rehash computes: f[i] has the new table with the entries    *)
(* below slot i, or nothing.                                               *)
IsFill(t, N, f) ==
    /\ f[0] = {[j \in 0..2 * N - 1 |-> Empty]}
    /\ \A i \in 1..N : f[i] = Place(f[i - 1], t[i - 1])
    /\ \A i \in 0..N : f[i] \subseteq [0..2 * N - 1 -> Entries \cup {Empty}]

LEMMA FillIs ==
    ASSUME NEW t, NEW N, IsTable(t, N)
    PROVE  \E f : IsFill(t, N, f) /\ hashmap_rehash(t) \subseteq f[N]
<1> DEFINE M == 2 * N
           V == SUBSET [0..M - 1 -> Entries \cup {Empty}]
           base == {[j \in 0..M - 1 |-> Empty]}
           step == [q \in (1..N) \X V |-> Place(q[2], t[q[1] - 1])]
           fill == CHOOSE f : f = [i \in 0..N |-> IF i = 0 THEN base ELSE Place(f[i - 1], t[i - 1])]
<1>1. N \in Nat /\ N > 0 /\ M \in Nat /\ M > 0 /\ M \div 2 \in Nat /\ M = 2 * (M \div 2)
    BY DEF IsTable
<1>2. hashmap_rehash(t) \subseteq fill[N]
    <2>1. Size(t) = N
        BY TableIs
    <2>2. hashmap_rehash(t) = IF 2 * Size(t) > MaxSize THEN {}
            ELSE (CHOOSE f : f = [i \in 0..Size(t) |-> IF i = 0 THEN {[j \in 0..2 * Size(t) - 1 |-> Empty]}
                                                      ELSE Place(f[i - 1], t[i - 1])])[Size(t)]
        BY DEF hashmap_rehash
    <2> QED BY <2>1, <2>2
<1>3. base \in V
    OBVIOUS
<1>4. ASSUME NEW i \in 1..N, NEW S \in V PROVE Place(S, t[i - 1]) \in V
    <2>1. i - 1 \in 0..N - 1
        BY <1>1
    <2>2. CASE t[i - 1] = Empty
        BY <2>2 DEF Place
    <2>3. CASE t[i - 1] # Empty
        <3>1. t[i - 1] \in Entries
            BY <2>1, <2>3, TableIs
        <3>2. \A n \in S : [n EXCEPT ![Probe(n, t[i - 1].key)] = t[i - 1]] \in [0..M - 1 -> Entries \cup {Empty}]
            BY <3>1
        <3> QED BY <2>3, <3>2 DEF Place
    <2> QED BY <2>2, <2>3
<1>5. IsStep(step, N, V)
    BY <1>4 DEF IsStep
<1>20. PICK f : Computes(f, N, V, base, step)
    <2> HIDE DEF V, base, step
    <2>1. N \in Nat
        BY <1>1
    <2> QED BY <2>1, <1>3, <1>5, Recursion
<1>6. f \in [0..N -> V] /\ f[0] = base /\ \A i \in 1..N : f[i] = step[<<i, f[i - 1]>>]
    <2> HIDE DEF V, base, step
    <2> QED BY <1>20 DEF Computes
<1>7. \A i \in 1..N : f[i] = Place(f[i - 1], t[i - 1])
    <2> SUFFICES ASSUME NEW i \in 1..N PROVE f[i] = Place(f[i - 1], t[i - 1])
        OBVIOUS
    <2>1. f[i - 1] \in V
        BY <1>1, <1>6
    <2> HIDE DEF V
    <2> QED BY <1>6, <2>1
<1> HIDE DEF V, step
<1>8. f = [i \in 0..N |-> IF i = 0 THEN base ELSE Place(f[i - 1], t[i - 1])]
    BY <1>1, <1>6, <1>7
<1>9. fill = [i \in 0..N |-> IF i = 0 THEN base ELSE Place(fill[i - 1], t[i - 1])]
    <2> HIDE DEF base
    <2> QED BY <1>8
<1> HIDE DEF fill
<1>10. fill[0] = base /\ \A i \in 1..N : fill[i] = Place(fill[i - 1], t[i - 1])
    <2> HIDE DEF base
    <2> QED BY <1>1, <1>9
<1>11. \A i \in 0..N : fill[i] \in V
    <2> DEFINE T == {i \in 0..N : fill[i] \in V}
    <2>1. 0 \in T
        <3>1. fill[0] \in V
            <4> HIDE DEF base
            <4> QED BY <1>3, <1>10
        <3> QED BY <1>1, <3>1
    <2>2. ASSUME NEW i \in 1..N, i - 1 \in T PROVE i \in T
        BY <1>4, <1>10, <2>2
    <2> HIDE DEF T
    <2>3. \A i \in 0..N : i \in T
        BY <1>1, <2>1, <2>2, UpTo
    <2> QED BY <2>3 DEF T
<1>12. IsFill(t, N, fill)
    BY <1>10, <1>11 DEF IsFill, V
<1> QED BY <1>2, <1>12

LEMMA RehashTyped ==
    ASSUME NEW t, NEW N, IsTable(t, N)
    PROVE  \A n \in hashmap_rehash(t) : IsTable(n, 2 * N)
<1>1. PICK f : IsFill(t, N, f) /\ hashmap_rehash(t) \subseteq f[N]
    BY FillIs
<1>2. N \in Nat /\ N > 0 /\ 2 * N \in Nat /\ (2 * N) \div 2 = N
    BY DEF IsTable
<1>3. f[N] \subseteq [0..2 * N - 1 -> Entries \cup {Empty}]
    BY <1>1, <1>2 DEF IsFill
<1> QED BY <1>1, <1>2, <1>3 DEF IsTable

LEMMA RehashMoves ==
    ASSUME HashOK, NEW t, NEW N, IsTable(t, N), Placed(t, N)
    PROVE  \A n \in hashmap_rehash(t) : Moved(t, N, n, 2 * N)
<1> DEFINE M == 2 * N
<1>1. N \in Nat /\ N > 0 /\ M \in Nat /\ M > 0 /\ M \div 2 \in Nat /\ M = 2 * (M \div 2)
    BY DEF IsTable
<1>2. PICK fill : IsFill(t, N, fill) /\ hashmap_rehash(t) \subseteq fill[N]
    BY FillIs
<1>10. fill[0] = {[j \in 0..M - 1 |-> Empty]} /\ \A i \in 1..N : fill[i] = Place(fill[i - 1], t[i - 1])
    BY <1>2 DEF IsFill
<1> DEFINE T == {i \in 0..N : \A n \in fill[i] : Moved(t, i, n, M)}
<1>11. 0 \in T
    <2> DEFINE n == [j \in 0..M - 1 |-> Empty]
    <2>1. IsTable(n, M)
        BY <1>1 DEF IsTable
    <2>2. \A r \in 0..M - 1 : n[r] = Empty
        OBVIOUS
    <2>3. fill[0] = {n}
        BY <1>10
    <2> HIDE DEF n
    <2>4. Moved(t, 0, n, M)
        BY <2>1, <2>2 DEF Moved, Placed
    <2> QED BY <1>1, <2>3, <2>4
<1>12. ASSUME NEW i \in 1..N, i - 1 \in T PROVE i \in T
    <2>1. fill[i] = Place(fill[i - 1], t[i - 1])
        BY <1>10
    <2>2. \A n \in fill[i - 1] : Moved(t, i - 1, n, M)
        BY <1>12
    <2> HIDE DEF M
    <2>3. \A n \in Place(fill[i - 1], t[i - 1]) : Moved(t, i, n, M)
        BY <2>2, PlaceMoves
    <2> QED BY <2>1, <2>3
<1>13. \A i \in 0..N : i \in T
    <2> HIDE DEF T
    <2> QED BY <1>1, <1>11, <1>12, UpTo
<1> HIDE DEF M
<1>14. \A n \in fill[N] : Moved(t, N, n, M)
    BY <1>1, <1>13
<1> QED BY <1>2, <1>14 DEF M

LEMMA MovedSelf ==
    ASSUME NEW t, NEW N, IsTable(t, N), Placed(t, N)
    PROVE  Moved(t, N, t, N)
BY DEF Moved

LEMMA MovedTwice ==
    ASSUME NEW t, NEW N, NEW u, NEW M, NEW v, NEW L, Moved(t, N, u, M), Moved(u, M, v, L)
    PROVE  Moved(t, N, v, L)
<1>1. ASSUME NEW r \in 0..L - 1, v[r] # Empty PROVE \E s \in 0..N - 1 : t[s] = v[r]
    <2>1. PICK q \in 0..M - 1 : u[q] = v[r]
        BY <1>1 DEF Moved
    <2> QED BY <1>1, <2>1 DEF Moved
<1>2. ASSUME NEW s \in 0..N - 1, t[s] # Empty PROVE \E r \in 0..L - 1 : v[r] = t[s]
    <2>1. PICK q \in 0..M - 1 : u[q] = t[s]
        BY <1>2 DEF Moved
    <2> QED BY <1>2, <2>1 DEF Moved
<1> QED BY <1>1, <1>2 DEF Moved

LEMMA TheIs ==
    ASSUME NEW S, S # {}
    PROVE  The(S) \in S
BY DEF The

(* hashmap_put goes on with a table that has the same entries.              *)
LEMMA PutPlaceIs ==
    ASSUME HashOK, NEW t, NEW N, IsTable(t, N), Placed(t, N), NEW l, NEW k
    PROVE  \E u, M : /\ PutPlace(t, l, k)[1] = u /\ Moved(t, N, u, M)
                     /\ PutPlace(t, l, k)[2] \in {Probe(u, k), NoSlot}
<1> DEFINE grown == IF Size(t) <= l + l \div 3 THEN hashmap_rehash(t) ELSE {t}
           t1 == The(grown)
           again == hashmap_rehash(t1)
           t2 == The(again)
<1>1. PutPlace(t, l, k) = IF grown = {} THEN <<t, NoSlot>>
                          ELSE IF Probe(t1, k) # NoSlot \/ again = {} THEN <<t1, Probe(t1, k)>>
                          ELSE <<t2, Probe(t2, k)>>
    BY DEF PutPlace
<1>2. \A n \in grown : \E M : Moved(t, N, n, M)
    <2>1. \A n \in hashmap_rehash(t) : \E M : Moved(t, N, n, M)
        BY RehashMoves
    <2> QED BY <2>1, MovedSelf
<1> HIDE DEF grown
<1>3. grown # {} => \E M : Moved(t, N, t1, M)
    BY <1>2, TheIs
<1> HIDE DEF t1
<1>4. ASSUME grown # {}, again # {} PROVE \E M : Moved(t, N, t2, M)
    <2>1. PICK M : Moved(t, N, t1, M)
        BY <1>3, <1>4
    <2>2. IsTable(t1, M) /\ Placed(t1, M)
        BY <2>1 DEF Moved
    <2>3. \A n \in again : Moved(t1, M, n, 2 * M)
        BY <2>2, RehashMoves
    <2> HIDE DEF again
    <2>4. Moved(t1, M, t2, 2 * M)
        BY <1>4, <2>3, TheIs
    <2> HIDE DEF t2
    <2> QED BY <2>1, <2>4, MovedTwice
<1> HIDE DEF again, t2
<1>5. CASE grown = {}
    BY <1>1, <1>5, MovedSelf
<1>6. CASE grown # {} /\ (Probe(t1, k) # NoSlot \/ again = {})
    BY <1>1, <1>3, <1>6
<1>7. CASE grown # {} /\ ~(Probe(t1, k) # NoSlot \/ again = {})
    BY <1>1, <1>4, <1>7
<1> QED BY <1>5, <1>6, <1>7

(***************************************************************************)
(* clear_elem                                                              *)
(***************************************************************************)
(* The entries of t, and those but the one in slot g.                       *)
Stored(t, N) == {t[s] : s \in {r \in 0..N - 1 : t[r] # Empty}}
But(t, N, g) == {t[s] : s \in {r \in 0..N - 1 : r # g /\ t[r] # Empty}}

(* The scan has looked at i slots after slot, has moved entries back in u    *)
(* and left a gap at g, i being less than the distance of the empty slot z. *)
(* Entries after the gap are in place; no entry before z is reached over    *)
(* the gap, but those the scan has still to look at.                        *)
Scanned(t, N, slot, i, u, g) ==
    /\ IsTable(u, N) /\ g \in 0..N - 1 /\ Dist(N, slot, g) <= i
    /\ \A s \in 0..N - 1 : Dist(N, slot, s) > Dist(N, slot, g) => u[s] = t[s]
    /\ \A s \in 0..N - 1 : u[s] = Empty <=> t[s] = Empty
    /\ \A s \in 0..N - 1 : s # g /\ u[s] # Empty =>
           LET h == HomeIn(N, u[s].key)
           IN  /\ Dist(N, h, s) < N \div 2 /\ Filled(t, N, h, s)
               /\ Dist(N, slot, s) <= i => ~(Dist(N, h, g) < Dist(N, h, s))
    /\ \A s, r \in 0..N - 1 : s # g /\ r # g /\ u[s] # Empty /\ u[r] # Empty /\ u[s].key = u[r].key
                              => s = r
    /\ But(u, N, g) = But(t, N, slot)

(* An entry at s that is reached over slot g would be reached over an empty *)
(* slot z that lies between.                                               *)
LEMMA NotOver ==
    ASSUME NEW N \in Nat, NEW t, NEW h \in 0..N - 1, NEW s \in 0..N - 1, NEW g \in 0..N - 1,
           NEW z \in 0..N - 1, t[z] = Empty, Filled(t, N, h, s), Dist(N, g, z) < Dist(N, g, s)
    PROVE  ~(Dist(N, h, g) < Dist(N, h, s))
<1>1. SUFFICES ASSUME Dist(N, h, g) < Dist(N, h, s) PROVE FALSE
    OBVIOUS
<1>2. Dist(N, h, z) < Dist(N, h, s)
    BY <1>1 DEF Dist
<1> QED BY <1>2 DEF Filled

(* The test of MAP_INDEX_LE, on an entry at most ProbeLen - 1 after the gap. *)
LEMMA IndexLE ==
    ASSUME NEW t, NEW N, IsTable(t, N), NEW g \in 0..N - 1, NEW h \in 0..N - 1, NEW s \in 0..N - 1,
           Dist(N, g, s) \in 1..N \div 2 - 1, Dist(N, h, s) < N \div 2
    PROVE  MapIndexLE(t, g, h) <=> Dist(N, h, g) < Dist(N, h, s)
<1>1. N \in Nat /\ N > 0 /\ N \div 2 \in Nat /\ N = 2 * (N \div 2)
    BY DEF IsTable
<1>2. MapIndexLE(t, g, h) <=> g = h \/ Dist(N, g, h) >= N \div 2
    <2>1. Size(t) = N /\ ProbeLen(t) = N \div 2
        BY TableIs
    <2>2. (h - g) % N = Dist(N, g, h)
        BY <1>1, DistIs
    <2> QED BY <2>1, <2>2 DEF MapIndexLE
<1>3. PICK P \in Nat : P = N \div 2 /\ N = 2 * P
    BY <1>1
<1>4. (g = h \/ Dist(N, g, h) >= P) <=> Dist(N, h, g) < Dist(N, h, s)
    BY <1>1, <1>3 DEF Dist
<1> QED BY <1>2, <1>3, <1>4

(* z is the first empty slot after slot, at most ProbeLen away.             *)
RunEnd(t, N, slot, z) ==
    /\ z \in 0..N - 1 /\ t[z] = Empty /\ Dist(N, slot, z) <= N \div 2
    /\ \A s \in 0..N - 1 : Dist(N, slot, s) < Dist(N, slot, z) => t[s] # Empty

LEMMA ScanStart ==
    ASSUME NEW t, NEW N, IsTable(t, N), Placed(t, N), NEW slot \in 0..N - 1
    PROVE  Scanned(t, N, slot, 0, t, slot)
<1>1. N \in Nat /\ N > 0
    BY DEF IsTable
<1>2. Dist(N, slot, slot) = 0 /\ \A s \in 0..N - 1 : Dist(N, slot, s) <= 0 => s = slot
    BY <1>1 DEF Dist
<1> QED BY <1>2 DEF Scanned, Placed

LEMMA ScanStay ==
    ASSUME HashOK, NEW t, NEW N, IsTable(t, N), NEW slot \in 0..N - 1,
           NEW z, RunEnd(t, N, slot, z), NEW at \in 0..N - 1, NEW i \in Nat, i = Dist(N, slot, at), i > 0,
           i < Dist(N, slot, z), NEW u, NEW g, Scanned(t, N, slot, i - 1, u, g),
           ~MapIndexLE(t, g, HomeIn(N, t[at].key))
    PROVE  Scanned(t, N, slot, i, u, g)
<1>1. N \in Nat /\ N > 0 /\ N \div 2 \in Nat /\ N = 2 * (N \div 2)
    BY DEF IsTable
<1>2. g \in 0..N - 1 /\ Dist(N, slot, g) <= i - 1 /\ Dist(N, slot, z) <= N \div 2 /\ z \in 0..N - 1
    BY DEF Scanned, RunEnd
<1>3. PICK P \in Nat : P = N \div 2 /\ N = 2 * P
    BY <1>1
<1>4. Dist(N, g, at) \in 1..P - 1 /\ at # g
    BY <1>1, <1>2, <1>3 DEF Dist
<1>5. u[at] = t[at] /\ u[at] # Empty
    <2>1. Dist(N, slot, at) > Dist(N, slot, g)
        BY <1>1, <1>2 DEF Dist
    <2> QED BY <2>1 DEF Scanned, RunEnd
<1>6. PICK h : h = HomeIn(N, t[at].key)
    OBVIOUS
<1>7. h \in 0..N - 1
    <2>1. t[at].key \in Keys
        BY <1>5, TableIs
    <2> QED BY <1>1, <1>6, <2>1, HomeRange
<1>8. Dist(N, h, at) < N \div 2
    BY <1>4, <1>5, <1>6 DEF Scanned
<1>9. ~(Dist(N, h, g) < Dist(N, h, at))
    BY <1>2, <1>3, <1>4, <1>6, <1>7, <1>8, IndexLE
<1>10. \A s \in 0..N - 1 : Dist(N, slot, s) <= i => s = at \/ Dist(N, slot, s) <= i - 1
    BY <1>1 DEF Dist
<1>11. ASSUME NEW s \in 0..N - 1, s # g, u[s] # Empty, Dist(N, slot, s) <= i
       PROVE  ~(Dist(N, HomeIn(N, u[s].key), g) < Dist(N, HomeIn(N, u[s].key), s))
    <2>1. CASE s = at
        BY <1>5, <1>6, <1>9, <2>1
    <2>2. CASE Dist(N, slot, s) <= i - 1
        BY <1>11, <2>2 DEF Scanned
    <2> QED BY <1>10, <1>11, <2>1, <2>2
<1>12. Dist(N, slot, g) <= i
    BY <1>1, <1>2 DEF Dist
<1> QED BY <1>11, <1>12 DEF Scanned

LEMMA ScanMove ==
    ASSUME HashOK, NEW t, NEW N, IsTable(t, N), Placed(t, N), NEW slot \in 0..N - 1,
           NEW z, RunEnd(t, N, slot, z), NEW at \in 0..N - 1, NEW i \in Nat, i = Dist(N, slot, at), i > 0,
           i < Dist(N, slot, z), NEW u, NEW g, Scanned(t, N, slot, i - 1, u, g),
           MapIndexLE(t, g, HomeIn(N, t[at].key)), NEW n, IsPut(u, N, g, t[at], n)
    PROVE  Scanned(t, N, slot, i, n, at)
<1>1. N \in Nat /\ N > 0 /\ N \div 2 \in Nat /\ N = 2 * (N \div 2)
    BY DEF IsTable
<1>2. /\ g \in 0..N - 1 /\ Dist(N, slot, g) <= i - 1 /\ Dist(N, slot, z) <= N \div 2
      /\ z \in 0..N - 1 /\ t[z] = Empty
    BY DEF Scanned, RunEnd
<1>3. PICK P \in Nat : P = N \div 2 /\ N = 2 * P
    BY <1>1
<1>4. Dist(N, g, at) \in 1..P - 1 /\ at # g
    BY <1>1, <1>2, <1>3 DEF Dist
<1>5. u[at] = t[at] /\ t[at] # Empty /\ t[g] # Empty
    <2>1. Dist(N, slot, at) > Dist(N, slot, g)
        BY <1>1, <1>2 DEF Dist
    <2>2. Dist(N, slot, g) < Dist(N, slot, z)
        BY <1>1, <1>2 DEF Dist
    <2> QED BY <1>2, <2>1, <2>2 DEF Scanned, RunEnd
<1>6. PICK h : h = HomeIn(N, t[at].key)
    OBVIOUS
<1>7. h \in 0..N - 1
    <2>1. t[at].key \in Keys
        BY <1>5, TableIs
    <2> QED BY <1>1, <1>6, <2>1, HomeRange
<1>8. Dist(N, h, at) < N \div 2 /\ Filled(t, N, h, at)
    BY <1>5, <1>6 DEF Placed
<1>9. Dist(N, h, g) < Dist(N, h, at)
    BY <1>2, <1>3, <1>4, <1>6, <1>7, <1>8, IndexLE
<1>10. IsTable(n, N) /\ n[g] = t[at] /\ \A s \in 0..N - 1 : s # g => n[s] = u[s]
    BY DEF IsPut
<1>11. Dist(N, slot, at) <= i
    OBVIOUS
<1>12. ASSUME NEW s \in 0..N - 1, Dist(N, slot, s) > Dist(N, slot, at) PROVE n[s] = t[s]
    <2>1. s # g /\ Dist(N, slot, s) > Dist(N, slot, g)
        BY <1>1, <1>2, <1>12 DEF Dist
    <2> QED BY <1>10, <2>1 DEF Scanned
<1>13. \A s \in 0..N - 1 : n[s] = Empty <=> t[s] = Empty
    BY <1>5, <1>10 DEF Scanned
<1>14. ASSUME NEW s \in 0..N - 1, s # at, n[s] # Empty, NEW k, k = HomeIn(N, n[s].key)
       PROVE  /\ Dist(N, k, s) < N \div 2 /\ Filled(t, N, k, s)
              /\ Dist(N, slot, s) <= i => ~(Dist(N, k, at) < Dist(N, k, s))
    <2>1. CASE s = g
        <3>1. k = h
            BY <1>6, <1>10, <1>14, <2>1
        <3>2. Dist(N, h, g) < N \div 2 /\ ~(Dist(N, h, at) < Dist(N, h, g))
            BY <1>1, <1>2, <1>7, <1>8, <1>9 DEF Dist
        <3>3. Filled(t, N, h, g)
            <4>1. \A r \in 0..N - 1 : Dist(N, h, r) < Dist(N, h, g) => Dist(N, h, r) < Dist(N, h, at)
                BY <1>1, <1>2, <1>7, <1>9 DEF Dist
            <4> QED BY <1>8, <4>1 DEF Filled
        <3> QED BY <2>1, <3>1, <3>2, <3>3
    <2>2. CASE s # g
        <3>1. n[s] = u[s] /\ u[s] # Empty
            BY <1>10, <1>14, <2>2
        <3>2. Dist(N, k, s) < N \div 2 /\ Filled(t, N, k, s)
            BY <1>14, <2>2, <3>1 DEF Scanned
        <3>3. k \in 0..N - 1
            <4>1. n[s].key \in Keys
                BY <1>10, <1>14, TableIs
            <4> QED BY <1>1, <1>14, <4>1, HomeRange
        <3>4. Dist(N, slot, s) <= i => Dist(N, at, z) < Dist(N, at, s)
            BY <1>1, <1>2, <1>14 DEF Dist
        <3>5. Dist(N, slot, s) <= i => ~(Dist(N, k, at) < Dist(N, k, s))
            BY <1>1, <1>2, <3>2, <3>3, <3>4, NotOver
        <3> QED BY <3>2, <3>5
    <2> QED BY <2>1, <2>2
<1>15. ASSUME NEW s \in 0..N - 1, NEW r \in 0..N - 1, s # at, r # at, n[s] # Empty, n[r] # Empty,
              n[s].key = n[r].key
       PROVE  s = r
    <2> DEFINE o(q) == IF q = g THEN at ELSE q
    <2>1. o(s) \in 0..N - 1 /\ o(s) # g /\ n[s] = u[o(s)]
        BY <1>4, <1>5, <1>10
    <2>2. o(r) \in 0..N - 1 /\ o(r) # g /\ n[r] = u[o(r)]
        BY <1>4, <1>5, <1>10
    <2>3. o(s) = o(r)
        <3> HIDE DEF o
        <3> QED BY <1>15, <2>1, <2>2 DEF Scanned
    <2> QED BY <1>15, <2>3
<1>16. But(n, N, at) = But(u, N, g)
    <2>1. ASSUME NEW s \in 0..N - 1, s # at, n[s] # Empty
          PROVE  \E r \in 0..N - 1 : r # g /\ u[r] # Empty /\ u[r] = n[s]
        BY <1>4, <1>5, <1>10, <2>1
    <2>2. ASSUME NEW r \in 0..N - 1, r # g, u[r] # Empty
          PROVE  \E s \in 0..N - 1 : s # at /\ n[s] # Empty /\ n[s] = u[r]
        <3>1. CASE r = at
            BY <1>2, <1>4, <1>5, <1>10, <3>1
        <3>2. CASE r # at
            BY <1>10, <2>2, <3>2
        <3> QED BY <3>1, <3>2
    <2> QED BY <2>1, <2>2 DEF But
<1>17. But(n, N, at) = But(t, N, slot)
    BY <1>16 DEF Scanned
<1> QED BY <1>10, <1>11, <1>12, <1>13, <1>14, <1>15, <1>17 DEF Scanned

LEMMA ScanEnd ==
    ASSUME HashOK, NEW t, NEW N, IsTable(t, N), Placed(t, N), NEW slot \in 0..N - 1,
           NEW z, RunEnd(t, N, slot, z), Dist(N, slot, z) > 0, NEW u, NEW g,
           Scanned(t, N, slot, Dist(N, slot, z) - 1, u, g),
           NEW n, IsPut(u, N, g, Empty, n)
    PROVE  /\ Placed(n, N)
           /\ Stored(n, N) = But(t, N, slot)
<1>1. N \in Nat /\ N > 0 /\ N \div 2 \in Nat /\ N = 2 * (N \div 2)
    BY DEF IsTable
<1>2. g \in 0..N - 1 /\ z \in 0..N - 1 /\ t[z] = Empty
    BY DEF Scanned, RunEnd
<1>3. Dist(N, slot, g) < Dist(N, slot, z)
    <2>1. Dist(N, slot, g) <= Dist(N, slot, z) - 1
        BY DEF Scanned
    <2> QED BY <1>1, <1>2, <2>1 DEF Dist
<1>4. n[g] = Empty /\ \A s \in 0..N - 1 : s # g => n[s] = u[s]
    BY DEF IsPut
<1>5. But(u, N, g) = But(t, N, slot) /\ IsTable(u, N)
    BY DEF Scanned
<1>6. Stored(n, N) = But(u, N, g)
    BY <1>4 DEF But, Stored
<1>7. ASSUME NEW s \in 0..N - 1, n[s] # Empty, NEW h, h = HomeIn(N, n[s].key)
      PROVE  Dist(N, h, s) < N \div 2 /\ Filled(n, N, h, s) /\ n[s].val[1] = n[s].key
    <2>1. s # g /\ n[s] = u[s] /\ u[s] # Empty
        BY <1>4, <1>7
    <2>2. Dist(N, h, s) < N \div 2 /\ Filled(t, N, h, s)
        BY <1>7, <2>1 DEF Scanned
    <2>3. h \in 0..N - 1
        <3>1. u[s].key \in Keys
            BY <1>5, <2>1, TableIs
        <3> QED BY <1>1, <1>7, <2>1, <3>1, HomeRange
    <2>4. ~(Dist(N, h, g) < Dist(N, h, s))
        <3>1. CASE Dist(N, slot, s) <= Dist(N, slot, z) - 1
            BY <1>7, <2>1, <3>1 DEF Scanned
        <3>2. CASE ~(Dist(N, slot, s) <= Dist(N, slot, z) - 1)
            <4>1. s # z
                BY <1>2, <2>1 DEF Scanned
            <4>2. Dist(N, g, z) < Dist(N, g, s)
                BY <1>1, <1>2, <1>3, <3>2, <4>1 DEF Dist
            <4> QED BY <1>1, <1>2, <2>2, <2>3, <4>2, NotOver
        <3> QED BY <3>1, <3>2
    <2>5. Filled(n, N, h, s)
        <3> SUFFICES ASSUME NEW r \in 0..N - 1, Dist(N, h, r) < Dist(N, h, s) PROVE n[r] # Empty
            BY DEF Filled
        <3>1. r # g /\ t[r] # Empty
            BY <2>2, <2>4 DEF Filled
        <3>2. u[r] # Empty
            BY <3>1 DEF Scanned
        <3> QED BY <1>4, <3>1, <3>2
    <2>6. n[s].val[1] = n[s].key
        <3>1. n[s] \in But(t, N, slot)
            BY <1>5, <1>6, <1>7 DEF Stored
        <3>2. PICK r \in 0..N - 1 : t[r] # Empty /\ t[r] = n[s]
            BY <3>1 DEF But
        <3> QED BY <3>2 DEF Placed
    <2> QED BY <2>2, <2>5, <2>6
<1>8. ASSUME NEW s \in 0..N - 1, NEW r \in 0..N - 1, n[s] # Empty, n[r] # Empty, n[s].key = n[r].key
      PROVE  s = r
    <2>1. s # g /\ r # g /\ n[s] = u[s] /\ n[r] = u[r]
        BY <1>4, <1>8
    <2> QED BY <1>8, <2>1 DEF Scanned
<1>9. Placed(n, N)
    BY <1>7, <1>8 DEF Placed
<1> QED BY <1>5, <1>6, <1>9

(* The states of the scan.                                                 *)
ScanStates(N) == [t : [0..N - 1 -> Entries \cup {Empty}], gap : 0..N - 1, end : BOOLEAN]

LEMMA ShiftStates ==
    ASSUME NEW t, NEW N, IsTable(t, N), NEW s \in ScanStates(N), NEW at \in 0..N - 1
    PROVE  ShiftBack(t, s, at) \in ScanStates(N)
<1>1. t[at] \in Entries \cup {Empty}
    BY DEF IsTable
<1>2. s.t \in [0..N - 1 -> Entries \cup {Empty}] /\ s.gap \in 0..N - 1
    BY DEF ScanStates
<1>3. [s EXCEPT !.end = TRUE] \in ScanStates(N)
    BY DEF ScanStates
<1>4. [s EXCEPT !.t[s.gap] = t[at], !.gap = at] \in ScanStates(N)
    <2>1. [s.t EXCEPT ![s.gap] = t[at]] \in [0..N - 1 -> Entries \cup {Empty}]
        BY <1>1, <1>2
    <2>2. [s EXCEPT !.t[s.gap] = t[at], !.gap = at]
              = [s EXCEPT !.t = [s.t EXCEPT ![s.gap] = t[at]], !.gap = at]
        BY DEF ScanStates
    <2>3. \A f \in [0..N - 1 -> Entries \cup {Empty}] : [s EXCEPT !.t = f, !.gap = at] \in ScanStates(N)
        BY DEF ScanStates
    <2> QED BY <2>1, <2>2, <2>3
<1> QED BY <1>3, <1>4 DEF ShiftBack

(* One step of the scan, before the end of the run.                         *)
LEMMA ShiftStep ==
    ASSUME HashOK, NEW t, NEW N, IsTable(t, N), Placed(t, N), NEW slot \in 0..N - 1,
           NEW z, RunEnd(t, N, slot, z), NEW at \in 0..N - 1, NEW i \in Nat, i = Dist(N, slot, at), i > 0,
           i < Dist(N, slot, z), NEW s \in ScanStates(N), ~s.end,
           Scanned(t, N, slot, i - 1, s.t, s.gap), NEW r, r = ShiftBack(t, s, at)
    PROVE  ~r.end /\ Scanned(t, N, slot, i, r.t, r.gap)
<1>1. t[at] # Empty
    BY DEF RunEnd
<1>2. Home(t, t[at].key) = HomeIn(N, t[at].key)
    BY TableIs
<1>3. CASE ~MapIndexLE(t, s.gap, HomeIn(N, t[at].key))
    <2>1. r = s
        BY <1>1, <1>2, <1>3 DEF ShiftBack
    <2>2. Scanned(t, N, slot, i, s.t, s.gap)
        BY <1>3, ScanStay
    <2> QED BY <2>1, <2>2
<1>4. CASE MapIndexLE(t, s.gap, HomeIn(N, t[at].key))
    <2>1. r = [s EXCEPT !.t[s.gap] = t[at], !.gap = at]
        BY <1>1, <1>2, <1>4 DEF ShiftBack
    <2>2. r.t = [s.t EXCEPT ![s.gap] = t[at]] /\ r.gap = at /\ r.end = s.end
        BY <2>1 DEF ScanStates
    <2>3. s.t \in [0..N - 1 -> Entries \cup {Empty}] /\ s.gap \in 0..N - 1
        BY DEF ScanStates
    <2>4. IsPut(s.t, N, s.gap, t[at], r.t)
        <3>1. t[at] \in Entries \cup {Empty}
            BY DEF IsTable
        <3>2. r.t \in [0..N - 1 -> Entries \cup {Empty}]
            BY <2>2, <2>3, <3>1
        <3>3. r.t[s.gap] = t[at] /\ \A q \in 0..N - 1 : q # s.gap => r.t[q] = s.t[q]
            BY <2>2, <2>3
        <3> QED BY <3>2, <3>3 DEF IsPut, IsTable
    <2>5. Scanned(t, N, slot, i, r.t, at)
        BY <1>4, <2>4, ScanMove
    <2> QED BY <2>2, <2>5
<1> QED BY <1>3, <1>4

(* A run that is not long has an end.                                       *)
LEMMA RunEnds ==
    ASSUME NEW t, NEW N, IsTable(t, N), NEW slot \in 0..N - 1, t[slot] # Empty, ~InLongRun(t, slot)
    PROVE  \E z : RunEnd(t, N, slot, z) /\ Dist(N, slot, z) \in 1..N \div 2
<1>1. N \in Nat /\ N > 0 /\ N \div 2 \in Nat /\ N = 2 * (N \div 2)
    BY DEF IsTable
<1> DEFINE at(i) == (slot + i) % N
           F == {i \in 0..N \div 2 : t[at(i)] = Empty}
<1>2. F # {} /\ F \subseteq Nat
    <2>1. Size(t) = N /\ ProbeLen(t) = N \div 2
        BY TableIs
    <2>2. \E i \in 0..N \div 2 : t[at(i)] = Empty
        BY <2>1 DEF InLongRun
    <2>3. F \subseteq Nat
        BY <1>1
    <2> QED BY <2>2, <2>3
<1>3. PICK e \in F : \A j \in F : e <= j
    <2> HIDE DEF F
    <2> QED BY <1>2, LeastNat
<1>4. e \in 0..N \div 2 /\ e \in 0..N - 1 /\ t[at(e)] = Empty
    BY <1>1, <1>3
<1>5. at(e) \in 0..N - 1 /\ Dist(N, slot, at(e)) = e
    BY <1>1, <1>4, SlotIs
<1>6. e # 0
    <2>1. slot + 0 = slot /\ slot % N = slot
        BY <1>1, ModIs
    <2> QED BY <1>4, <2>1
<1>7. ASSUME NEW s \in 0..N - 1, Dist(N, slot, s) < e PROVE t[s] # Empty
    <2>1. PICK j : j = Dist(N, slot, s)
        OBVIOUS
    <2>2. j \in 0..N - 1
        BY <1>1, <2>1, DistIs
    <2>3. s = at(j)
        BY <1>1, <2>1, <2>2, SlotIs
    <2>5. j < e /\ j \in Nat /\ e \in Nat /\ e <= N \div 2
        BY <1>1, <1>4, <1>7, <2>1, <2>2
    <2>6. j \notin F
        <3> HIDE DEF F
        <3> QED BY <1>3, <2>5
    <2>4. j \in 0..N \div 2 /\ j \notin F
        BY <1>1, <2>5, <2>6
    <2> QED BY <2>3, <2>4
<1>8. PICK z : z = at(e)
    OBVIOUS
<1> HIDE DEF at, F
<1>9. RunEnd(t, N, slot, z)
    BY <1>1, <1>4, <1>5, <1>7, <1>8 DEF RunEnd
<1> QED BY <1>1, <1>4, <1>5, <1>6, <1>8, <1>9

(* What clear_elem computes: f[i] is the state after i slots.               *)
IsScan(t, N, slot, f) ==
    /\ \A i \in 0..N \div 2 : f[i] \in ScanStates(N)
    /\ f[0] = [t |-> t, gap |-> slot, end |-> FALSE]
    /\ \A i \in 1..N \div 2 : f[i] = ShiftBack(t, f[i - 1], (slot + i) % N)

LEMMA ScanIs ==
    ASSUME NEW t, NEW N, IsTable(t, N), NEW slot \in 0..N - 1
    PROVE  \E f : /\ IsScan(t, N, slot, f)
                  /\ ClearElem(t, slot) = [f[N \div 2].t EXCEPT ![f[N \div 2].gap] = Empty]
<1>1. N \in Nat /\ N > 0 /\ N \div 2 \in Nat /\ N = 2 * (N \div 2)
    BY DEF IsTable
<1>2. PICK P \in Nat : P = N \div 2 /\ N = 2 * P
    BY <1>1
<1> DEFINE at(i) == (slot + i) % N
           V == ScanStates(N)
           base == [t |-> t, gap |-> slot, end |-> FALSE]
           step == [q \in (1..P) \X V |-> ShiftBack(t, q[2], at(q[1]))]
           scan == CHOOSE f : f = [i \in 0..P |-> IF i = 0 THEN base ELSE ShiftBack(t, f[i - 1], at(i))]
<1>3. ClearElem(t, slot) = [scan[P].t EXCEPT ![scan[P].gap] = Empty]
    <2>1. Size(t) = N /\ ProbeLen(t) = P
        BY <1>2, TableIs
    <2> DEFINE sc == CHOOSE f : f = [i \in 0..ProbeLen(t) |->
                        IF i = 0 THEN [t |-> t, gap |-> slot, end |-> FALSE]
                        ELSE ShiftBack(t, f[i - 1], (slot + i) % Size(t))]
    <2>2. ClearElem(t, slot) = [sc[ProbeLen(t)].t EXCEPT ![sc[ProbeLen(t)].gap] = Empty]
        BY DEF ClearElem
    <2>3. sc = scan
        BY <2>1
    <2> HIDE DEF sc, scan
    <2> QED BY <2>1, <2>2, <2>3
<1>4. \A i \in 1..P : i \in 0..N - 1 /\ at(i) \in 0..N - 1 /\ Dist(N, slot, at(i)) = i
    <2> TAKE i \in 1..P
    <2>1. i \in 0..N - 1
        BY <1>1, <1>2
    <2> QED BY <1>1, <2>1, SlotIs
<1>5. base \in V
    BY DEF ScanStates, IsTable
<1>6. IsStep(step, P, V)
    <2>1. \A i \in 1..P, s \in V : ShiftBack(t, s, at(i)) \in V
        BY <1>4, ShiftStates
    <2> HIDE DEF V, at
    <2> QED BY <2>1 DEF IsStep
<1>7. PICK f : Computes(f, P, V, base, step)
    <2> HIDE DEF V, base, step
    <2> QED BY <1>5, <1>6, Recursion
<1>8. f \in [0..P -> V] /\ f[0] = base /\ \A i \in 1..P : f[i] = step[<<i, f[i - 1]>>]
    <2> HIDE DEF V, base, step
    <2> QED BY <1>7 DEF Computes
<1>9. \A i \in 1..P : f[i - 1] \in V /\ f[i] = ShiftBack(t, f[i - 1], at(i))
    <2> SUFFICES ASSUME NEW i \in 1..P PROVE f[i - 1] \in V /\ f[i] = ShiftBack(t, f[i - 1], at(i))
        OBVIOUS
    <2> HIDE DEF V, base, at
    <2>1. f[i - 1] \in V
        BY <1>8
    <2> QED BY <1>8, <2>1
<1> HIDE DEF step, at, base
<1>10. f = [i \in 0..P |-> IF i = 0 THEN base ELSE ShiftBack(t, f[i - 1], at(i))]
    <2> HIDE DEF V
    <2> QED BY <1>8, <1>9
<1>11. scan = [i \in 0..P |-> IF i = 0 THEN base ELSE ShiftBack(t, scan[i - 1], at(i))]
    BY <1>10
<1> HIDE DEF scan
<1>12. scan[0] = base /\ \A i \in 1..P : scan[i] = ShiftBack(t, scan[i - 1], at(i))
    BY <1>11
<1> HIDE DEF V
<1>13. \A i \in 0..P : scan[i] \in V
    <2> DEFINE T == {i \in 0..P : scan[i] \in V}
    <2>1. 0 \in T
        BY <1>5, <1>12
    <2>2. ASSUME NEW i \in 1..P, i - 1 \in T PROVE i \in T
        <3>1. ShiftBack(t, scan[i - 1], at(i)) \in V
            BY <1>4, <2>2, ShiftStates DEF V
        <3> QED BY <1>12, <3>1
    <2> HIDE DEF T
    <2>3. \A i \in 0..P : i \in T
        BY <2>1, <2>2, UpTo
    <2> QED BY <2>3 DEF T
<1>14. IsScan(t, N, slot, scan)
    BY <1>2, <1>12, <1>13 DEF IsScan, V, base, at
<1> QED BY <1>2, <1>3, <1>14

(* clear_elem, in a run that is not long, removes one entry and leaves the  *)
(* others where hashmap_entry_find finds them.                              *)
LEMMA ClearElemIs ==
    ASSUME HashOK, NEW t, NEW N, IsTable(t, N), Placed(t, N), NEW slot \in 0..N - 1,
           t[slot] # Empty, ~InLongRun(t, slot), NEW n, n = ClearElem(t, slot)
    PROVE  /\ IsTable(n, N) /\ Placed(n, N)
           /\ Stored(n, N) = But(t, N, slot)
<1>1. N \in Nat /\ N > 0 /\ N \div 2 \in Nat /\ N = 2 * (N \div 2)
    BY DEF IsTable
<1>2. PICK P \in Nat : P = N \div 2 /\ N = 2 * P
    BY <1>1
<1>3. PICK scan : IsScan(t, N, slot, scan) /\ n = [scan[P].t EXCEPT ![scan[P].gap] = Empty]
    BY <1>2, ScanIs
<1> DEFINE at(i) == (slot + i) % N
<1>4. \A i \in 1..P : i \in 0..N - 1 /\ at(i) \in 0..N - 1 /\ Dist(N, slot, at(i)) = i
    <2> TAKE i \in 1..P
    <2>1. i \in 0..N - 1
        BY <1>1, <1>2
    <2> QED BY <1>1, <2>1, SlotIs
<1>12. /\ scan[0] = [t |-> t, gap |-> slot, end |-> FALSE]
       /\ \A i \in 1..P : scan[i] = ShiftBack(t, scan[i - 1], at(i))
    BY <1>2, <1>3 DEF IsScan
<1>13. \A i \in 0..P : scan[i] \in ScanStates(N)
    BY <1>2, <1>3 DEF IsScan
<1> HIDE DEF at
<1>14. PICK z : RunEnd(t, N, slot, z) /\ Dist(N, slot, z) \in 1..N \div 2
    BY RunEnds
<1>15. PICK e \in 1..P : e = Dist(N, slot, z)
    BY <1>2, <1>14
<1> DEFINE Before(i) == i < e => ~scan[i].end /\ Scanned(t, N, slot, i, scan[i].t, scan[i].gap)
           After(i) == i >= e => /\ scan[i].end
                                 /\ scan[i].t = scan[e - 1].t /\ scan[i].gap = scan[e - 1].gap
           T == {i \in 0..P : Before(i) /\ After(i)}
<1>16. 0 \in T
    <2>1. ~scan[0].end /\ scan[0].t = t /\ scan[0].gap = slot
        BY <1>12
    <2>2. Scanned(t, N, slot, 0, t, slot)
        BY ScanStart
    <2> QED BY <1>12, <2>1, <2>2
<1>17. ASSUME NEW i \in 1..P, i - 1 \in T PROVE i \in T
    <2>1. /\ scan[i] = ShiftBack(t, scan[i - 1], at(i)) /\ scan[i - 1] \in ScanStates(N)
          /\ at(i) \in 0..N - 1 /\ i = Dist(N, slot, at(i)) /\ i \in Nat /\ i > 0
        BY <1>4, <1>12, <1>13
    <2>2. Before(i - 1) /\ After(i - 1)
        BY <1>17
    <2> HIDE DEF Scanned
    <2>3. CASE i < e
        <3>1. ~scan[i - 1].end /\ Scanned(t, N, slot, i - 1, scan[i - 1].t, scan[i - 1].gap)
            BY <2>2, <2>3
        <3>2. i < Dist(N, slot, z) /\ RunEnd(t, N, slot, z)
            BY <1>14, <1>15, <2>3
        <3>3. ~scan[i].end /\ Scanned(t, N, slot, i, scan[i].t, scan[i].gap)
            BY <2>1, <3>1, <3>2, ShiftStep
        <3> QED BY <2>3, <3>3
    <2>4. CASE i = e
        <3>1. at(i) = z
            <4>1. z \in 0..N - 1 /\ i \in 0..N - 1
                BY <1>4, <1>14 DEF RunEnd
            <4> QED BY <1>1, <1>15, <2>4, <4>1, SlotIs DEF at
        <3>2. t[at(i)] = Empty
            BY <1>14, <3>1 DEF RunEnd
        <3>3. scan[i] = [scan[i - 1] EXCEPT !.end = TRUE]
            BY <2>1, <3>2 DEF ShiftBack
        <3>4. scan[i].end /\ scan[i].t = scan[i - 1].t /\ scan[i].gap = scan[i - 1].gap
            BY <2>1, <3>3 DEF ScanStates
        <3> QED BY <2>4, <3>4
    <2>5. CASE i > e
        <3>1. scan[i - 1].end /\ scan[i - 1].t = scan[e - 1].t /\ scan[i - 1].gap = scan[e - 1].gap
            BY <2>2, <2>5
        <3>2. scan[i] = [scan[i - 1] EXCEPT !.end = TRUE]
            BY <2>1, <3>1 DEF ShiftBack
        <3>3. scan[i].end /\ scan[i].t = scan[i - 1].t /\ scan[i].gap = scan[i - 1].gap
            BY <2>1, <3>2 DEF ScanStates
        <3> QED BY <2>5, <3>1, <3>3
    <2> QED BY <2>3, <2>4, <2>5
<1>18. \A i \in 0..P : i \in T
    <2> HIDE DEF T
    <2> QED BY <1>16, <1>17, UpTo
<1>19. /\ scan[P].t = scan[e - 1].t /\ scan[P].gap = scan[e - 1].gap
       /\ Scanned(t, N, slot, e - 1, scan[e - 1].t, scan[e - 1].gap)
    BY <1>15, <1>18
<1> HIDE DEF T, Before, After
<1>20. PICK u, g : u = scan[e - 1].t /\ g = scan[e - 1].gap
    OBVIOUS
<1>21. Scanned(t, N, slot, Dist(N, slot, z) - 1, u, g) /\ n = [u EXCEPT ![g] = Empty]
    BY <1>3, <1>15, <1>19, <1>20
<1>22. IsPut(u, N, g, Empty, n) /\ IsTable(n, N)
    BY <1>21 DEF IsPut, IsTable, Scanned
<1>23. Dist(N, slot, z) > 0
    BY <1>14
<1> QED BY <1>14, <1>21, <1>22, <1>23, ScanEnd

(***************************************************************************)
(* What is promised, and the invariant.                                    *)
(***************************************************************************)
Values == Keys \X Versions

IsPromise(p) == p \in [Keys -> Values \cup {NoValue}] /\ \A k \in Keys : p[k] # NoValue => p[k][1] = k
Present(p) == {k \in Keys : p[k] # NoValue}
ValuesOf(p) == {p[k] : k \in Present(p)}
EntryFor(k, v) == [key |-> k, val |-> v]
EntriesOf(p) == {EntryFor(k, p[k]) : k \in Present(p)}

(* q is p with v for k.                                                    *)
Promises(p, k, v, q) == q = [p EXCEPT ![k] = v]

(* The table has the promised entries where they are found.                 *)
Sound(N) == IsTable(table, N) /\ Placed(table, N) /\ Stored(table, N) = EntriesOf(promised)

Books ==
    /\ HashOK /\ IsPromise(promised)
    /\ length = Cardinality(Present(promised)) /\ mowned = ValuesOf(promised) /\ mbroken = FALSE

MapItrs == [mode : {"none", "itr", "iterate"}, pos : Nat, removed : BOOLEAN, start : SUBSET Keys,
            seen : Seq(Keys), gone : SUBSET Keys, wrapped : BOOLEAN]

(* A walk stands on an entry, unless it has just removed it.                *)
Standing(i, t) ==
    i \in MapItrs /\ (i.mode # "none" /\ ~i.removed => i.pos \in Occupied(t))

MapOK ==
    /\ Books /\ (\E N : Sound(N))
    /\ Standing(mitr, table) /\ (mclearing => mitr.mode = "itr")

MapInv == longRun \/ MapOK

LEMMA EntryIs ==
    ASSUME NEW p, IsPromise(p)
    PROVE  /\ \A k \in Present(p) : /\ p[k] \in Values /\ p[k] # NoValue /\ p[k][1] = k /\ k \in Keys
                                    /\ EntryFor(k, p[k]) \in EntriesOf(p)
           /\ \A e \in EntriesOf(p) : /\ e.key \in Present(p) /\ e.val = p[e.key]
                                      /\ e = EntryFor(e.key, p[e.key])
<1>1. \A k \in Present(p) : /\ p[k] \in Values /\ p[k] # NoValue /\ p[k][1] = k /\ k \in Keys
                            /\ EntryFor(k, p[k]) \in EntriesOf(p)
    BY DEF IsPromise, Present, EntriesOf
<1>2. ASSUME NEW e \in EntriesOf(p)
      PROVE  e.key \in Present(p) /\ e.val = p[e.key] /\ e = EntryFor(e.key, p[e.key])
    <2>1. PICK k \in Present(p) : e = EntryFor(k, p[k])
        BY DEF EntriesOf
    <2>2. e.key = k /\ e.val = p[k]
        BY <2>1 DEF EntryFor
    <2> QED BY <2>1, <2>2
<1> QED BY <1>1, <1>2

LEMMA AddPromise ==
    ASSUME NEW p, IsPromise(p), NEW k \in Keys, NEW v \in Values, v[1] = k, NEW q, Promises(p, k, v, q)
    PROVE  /\ IsPromise(q) /\ Present(q) = Present(p) \cup {k}
           /\ ValuesOf(q) = (ValuesOf(p) \ {p[k]}) \cup {v}
           /\ EntriesOf(q) = {e \in EntriesOf(p) : e.key # k} \cup {EntryFor(k, v)}
<1>1. p \in [Keys -> Values \cup {NoValue}]
    BY DEF IsPromise
<1>2. /\ q \in [Keys -> Values \cup {NoValue}] /\ q[k] = v /\ v # NoValue
      /\ \A j \in Keys : j # k => q[j] = p[j]
    BY <1>1, HashMapAssumption DEF Promises, Values
<1>3. IsPromise(q)
    BY <1>2 DEF IsPromise
<1>4. Present(q) = Present(p) \cup {k}
    BY <1>2 DEF Present
<1>5. ValuesOf(q) = (ValuesOf(p) \ {p[k]}) \cup {v}
    <2>1. \A j \in Present(p) : j # k => p[j] # p[k]
        BY EntryIs DEF IsPromise, Present
    <2> QED BY <1>2, <1>4, <2>1 DEF ValuesOf, Present
<1>6. EntriesOf(q) = {e \in EntriesOf(p) : e.key # k} \cup {EntryFor(k, v)}
    <2>1. \A j \in Present(q) : j # k => j \in Present(p) /\ EntryFor(j, q[j]) = EntryFor(j, p[j])
        BY <1>2, <1>4 DEF Present
    <2>2. \A j \in Present(p) : j # k => j \in Present(q) /\ EntryFor(j, q[j]) = EntryFor(j, p[j])
        BY <1>2, <1>4 DEF Present
    <2>3. \A j, w : EntryFor(j, w).key = j
        BY DEF EntryFor
    <2>4. k \in Present(q) /\ q[k] = v
        BY <1>2, <1>4
    <2>5. EntriesOf(q) \subseteq {e \in EntriesOf(p) : e.key # k} \cup {EntryFor(k, v)}
        BY <2>1, <2>3, <2>4 DEF EntriesOf
    <2>6. {e \in EntriesOf(p) : e.key # k} \cup {EntryFor(k, v)} \subseteq EntriesOf(q)
        BY <2>2, <2>3, <2>4 DEF EntriesOf
    <2> QED BY <2>5, <2>6
<1> QED BY <1>3, <1>4, <1>5, <1>6

LEMMA DropPromise ==
    ASSUME NEW p, IsPromise(p), NEW k \in Keys, NEW q, Promises(p, k, NoValue, q)
    PROVE  /\ IsPromise(q) /\ Present(q) = Present(p) \ {k}
           /\ ValuesOf(q) = ValuesOf(p) \ {p[k]}
           /\ EntriesOf(q) = {e \in EntriesOf(p) : e.key # k}
<1>1. p \in [Keys -> Values \cup {NoValue}]
    BY DEF IsPromise
<1>2. /\ q \in [Keys -> Values \cup {NoValue}] /\ q[k] = NoValue
      /\ \A j \in Keys : j # k => q[j] = p[j]
    BY <1>1 DEF Promises
<1>3. IsPromise(q)
    BY <1>2 DEF IsPromise
<1>4. Present(q) = Present(p) \ {k}
    BY <1>2 DEF Present
<1>5. ValuesOf(q) = ValuesOf(p) \ {p[k]}
    <2>1. \A j \in Present(p) : j # k => p[j] # p[k]
        BY EntryIs DEF IsPromise, Present
    <2> QED BY <1>2, <1>4, <2>1 DEF ValuesOf, Present
<1>6. EntriesOf(q) = {e \in EntriesOf(p) : e.key # k}
    <2>1. \A j \in Present(q) : j # k /\ j \in Present(p) /\ EntryFor(j, q[j]) = EntryFor(j, p[j])
        BY <1>2, <1>4 DEF Present
    <2>2. \A j \in Present(p) : j # k => j \in Present(q) /\ EntryFor(j, q[j]) = EntryFor(j, p[j])
        BY <1>2, <1>4 DEF Present
    <2>3. \A j, w : EntryFor(j, w).key = j
        BY DEF EntryFor
    <2>4. EntriesOf(q) \subseteq {e \in EntriesOf(p) : e.key # k}
        BY <2>1, <2>3 DEF EntriesOf
    <2>5. {e \in EntriesOf(p) : e.key # k} \subseteq EntriesOf(q)
        BY <2>2, <2>3 DEF EntriesOf
    <2> QED BY <2>4, <2>5
<1> QED BY <1>3, <1>4, <1>5, <1>6

(* An entry of the table and the promise for its key.                       *)
LEMMA StoredIs ==
    ASSUME Books, NEW N, Sound(N)
    PROVE  /\ \A s \in 0..N - 1 : table[s] # Empty =>
                  /\ table[s].key \in Present(promised) /\ table[s].key \in Keys
                  /\ table[s].val = promised[table[s].key] /\ table[s].val \in mowned
           /\ \A k \in Present(promised) : \E s \in 0..N - 1 :
                  table[s] # Empty /\ table[s].key = k /\ table[s].val = promised[k]
<1>1. IsPromise(promised) /\ Stored(table, N) = EntriesOf(promised) /\ mowned = ValuesOf(promised)
    BY DEF Books, Sound
<1>2. ASSUME NEW s \in 0..N - 1, table[s] # Empty
      PROVE  /\ table[s].key \in Present(promised) /\ table[s].key \in Keys
             /\ table[s].val = promised[table[s].key] /\ table[s].val \in mowned
    <2>1. table[s] \in EntriesOf(promised)
        BY <1>1, <1>2 DEF Stored
    <2>2. table[s].key \in Present(promised) /\ table[s].val = promised[table[s].key]
        BY <1>1, <2>1, EntryIs
    <2> QED BY <1>1, <2>2 DEF ValuesOf, Present
<1>3. ASSUME NEW k \in Present(promised)
      PROVE  \E s \in 0..N - 1 : table[s] # Empty /\ table[s].key = k /\ table[s].val = promised[k]
    <2>1. EntryFor(k, promised[k]) \in Stored(table, N)
        BY <1>1, EntryIs
    <2>2. PICK s \in 0..N - 1 : table[s] # Empty /\ table[s] = EntryFor(k, promised[k])
        BY <2>1 DEF Stored
    <2> QED BY <2>2 DEF EntryFor
<1> QED BY <1>2, <1>3

LEMMA MovedStored ==
    ASSUME NEW t, NEW N, NEW u, NEW M, Moved(t, N, u, M)
    PROVE  Stored(u, M) = Stored(t, N)
<1>1. Stored(u, M) \subseteq Stored(t, N)
    BY DEF Moved, Stored
<1>2. Stored(t, N) \subseteq Stored(u, M)
    BY DEF Moved, Stored
<1> QED BY <1>1, <1>2

LEMMA PresentFinite ==
    ASSUME NEW p
    PROVE  IsFiniteSet(Present(p)) /\ Cardinality(Present(p)) \in Nat
<1>1. Present(p) \subseteq Keys
    BY DEF Present
<1> QED BY <1>1, HashMapAssumption, FS_Subset, FS_CardinalityType

(* A put that changes an entry: u has the table's entries, s is the slot.   *)
LEMMA PutStored ==
    ASSUME HashOK, NEW p, IsPromise(p), NEW u, NEW M, IsTable(u, M), Placed(u, M),
           Stored(u, M) = EntriesOf(p), NEW k \in Keys, NEW v \in Values, v[1] = k,
           NEW s, s = Probe(u, k), s # NoSlot,
           NEW n, IsPut(u, M, s, EntryFor(k, v), n), NEW q, Promises(p, k, v, q)
    PROVE  /\ IsTable(n, M) /\ Placed(n, M) /\ Stored(n, M) = EntriesOf(q) /\ s \in 0..M - 1
           /\ u[s] = Empty => k \notin Present(p)
           /\ u[s] # Empty => k \in Present(p) /\ u[s].val = p[k]
<1>1. PICK e : e = EntryFor(k, v)
    OBVIOUS
<1>2. e \in Entries /\ e.key = k /\ e.val = v /\ e # Empty
    BY <1>1, HashMapAssumption DEF EntryFor, Entries, Values
<1>3. /\ Placed(n, M) /\ s \in 0..M - 1
      /\ \A r \in 0..M - 1 : r # s /\ u[r] # Empty => u[r].key # k
      /\ u[s] = Empty \/ u[s].key = k
    <2>1. e \in Entries /\ e.val[1] = e.key /\ s = Probe(u, e.key) /\ IsPut(u, M, s, e, n)
        BY <1>1, <1>2
    <2>2. /\ Placed(n, M) /\ s \in 0..M - 1
          /\ \A r \in 0..M - 1 : r # s /\ u[r] # Empty => u[r].key # e.key
          /\ u[s] = Empty \/ u[s].key = e.key
        BY <2>1, PutEffect
    <2> QED BY <1>2, <2>2
<1>4. IsTable(n, M) /\ n[s] = e /\ \A r \in 0..M - 1 : r # s => n[r] = u[r]
    BY <1>1 DEF IsPut
<1>5. EntriesOf(q) = {f \in EntriesOf(p) : f.key # k} \cup {e}
    BY <1>1, AddPromise
<1>6. Stored(n, M) = {f \in Stored(u, M) : f.key # k} \cup {e}
    <2>1. Stored(n, M) \subseteq {f \in Stored(u, M) : f.key # k} \cup {e}
        BY <1>3, <1>4 DEF Stored
    <2>2. {f \in Stored(u, M) : f.key # k} \subseteq Stored(n, M)
        BY <1>3, <1>4 DEF Stored
    <2>3. e \in Stored(n, M)
        BY <1>2, <1>3, <1>4 DEF Stored
    <2> QED BY <2>1, <2>2, <2>3
<1>7. ASSUME k \in Present(p), u[s] = Empty PROVE FALSE
    <2>1. EntryFor(k, p[k]) \in Stored(u, M)
        BY <1>7, EntryIs
    <2>2. PICK r \in 0..M - 1 : u[r] # Empty /\ u[r] = EntryFor(k, p[k])
        BY <2>1 DEF Stored
    <2>3. u[r].key = k
        BY <2>2 DEF EntryFor
    <2> QED BY <1>3, <1>7, <2>2, <2>3
<1>8. ASSUME u[s] # Empty PROVE k \in Present(p) /\ u[s].val = p[k]
    <2>1. u[s] \in EntriesOf(p) /\ u[s].key = k
        BY <1>3, <1>8 DEF Stored
    <2> QED BY <2>1, EntryIs
<1> QED BY <1>3, <1>4, <1>5, <1>6, <1>7, <1>8

LEMMA PutKeyEffect ==
    ASSUME Books, NEW N, Sound(N), NEW k \in Keys, NEW v \in Values, v[1] = k, PutKey(k, v),
           UNCHANGED hash
    PROVE  Books' /\ \E M : Sound(M)'
<1>1. /\ HashOK /\ IsPromise(promised) /\ length = Cardinality(Present(promised))
      /\ mowned = ValuesOf(promised) /\ mbroken = FALSE
    BY DEF Books
<1>2. IsTable(table, N) /\ Placed(table, N) /\ Stored(table, N) = EntriesOf(promised)
    BY DEF Sound
<1>3. HashOK'
    BY <1>1 DEF HashOK
<1>4. PICK u, M : /\ PutPlace(table, length, k)[1] = u /\ Moved(table, N, u, M)
                  /\ PutPlace(table, length, k)[2] \in {Probe(u, k), NoSlot}
    BY <1>1, <1>2, PutPlaceIs
<1>5. PICK s : s = PutPlace(table, length, k)[2]
    OBVIOUS
<1>6. IsTable(u, M) /\ Placed(u, M) /\ Stored(u, M) = EntriesOf(promised)
    BY <1>2, <1>4, MovedStored DEF Moved
<1>7. \A n : Placed(n, M)' <=> Placed(n, M)
    BY DEF Placed, HomeIn
<1>8. \/ table' = u /\ UNCHANGED <<length, mowned, promised, mbroken>>
      \/ /\ s # NoSlot
         /\ table' = [u EXCEPT ![s] = EntryFor(k, v)]
         /\ length' = IF u[s] = Empty THEN length + 1 ELSE length
         /\ mowned' = (IF u[s] = Empty THEN mowned ELSE mowned \ {u[s].val}) \cup {v}
         /\ promised' = [promised EXCEPT ![k] = v]
         /\ mbroken' = (u[s] # Empty /\ u[s].val \notin mowned)
    BY <1>4, <1>5 DEF PutKey, EntryFor
<1>9. CASE table' = u /\ UNCHANGED <<length, mowned, promised, mbroken>>
    <2>1. Books'
        BY <1>1, <1>3, <1>9 DEF Books
    <2>2. Sound(M)'
        BY <1>6, <1>7, <1>9 DEF Sound
    <2> QED BY <2>1, <2>2
<1>10. CASE /\ s # NoSlot
            /\ table' = [u EXCEPT ![s] = EntryFor(k, v)]
            /\ length' = IF u[s] = Empty THEN length + 1 ELSE length
            /\ mowned' = (IF u[s] = Empty THEN mowned ELSE mowned \ {u[s].val}) \cup {v}
            /\ promised' = [promised EXCEPT ![k] = v]
            /\ mbroken' = (u[s] # Empty /\ u[s].val \notin mowned)
    <2>1. s = Probe(u, k) /\ s # NoSlot
        BY <1>4, <1>5, <1>10
    <2>2. s \in 0..M - 1
        BY <1>1, <1>6, <2>1, ProbeIs
    <2>3. PICK n : n = table'
        OBVIOUS
    <2>4. IsPut(u, M, s, EntryFor(k, v), n)
        <3>1. EntryFor(k, v) \in Entries
            BY DEF EntryFor, Entries, Values
        <3>2. n \in [0..M - 1 -> Entries \cup {Empty}]
            BY <1>6, <1>10, <2>3, <3>1 DEF IsTable
        <3>3. n[s] = EntryFor(k, v) /\ \A r \in 0..M - 1 : r # s => n[r] = u[r]
            BY <1>6, <1>10, <2>2, <2>3 DEF IsTable
        <3> QED BY <1>6, <3>2, <3>3 DEF IsPut, IsTable
    <2>5. PICK q : q = promised'
        OBVIOUS
    <2>6. Promises(promised, k, v, q)
        BY <1>10, <2>5 DEF Promises
    <2>7. /\ IsTable(n, M) /\ Placed(n, M) /\ Stored(n, M) = EntriesOf(q)
          /\ u[s] = Empty => k \notin Present(promised)
          /\ u[s] # Empty => k \in Present(promised) /\ u[s].val = promised[k]
        BY <1>1, <1>6, <2>1, <2>4, <2>6, PutStored
    <2>8. Sound(M)'
        BY <1>7, <2>3, <2>5, <2>7 DEF Sound
    <2>9. /\ IsPromise(q) /\ Present(q) = Present(promised) \cup {k}
          /\ ValuesOf(q) = (ValuesOf(promised) \ {promised[k]}) \cup {v}
        BY <1>1, <2>6, AddPromise
    <2>10. length' = Cardinality(Present(q))
        <3>1. CASE u[s] = Empty
            <4>1. Cardinality(Present(promised) \cup {k}) = Cardinality(Present(promised)) + 1
                BY <2>7, <3>1, PresentFinite, FS_AddElement
            <4> QED BY <1>1, <1>10, <2>9, <3>1, <4>1
        <3>2. CASE u[s] # Empty
            <4>1. Present(q) = Present(promised)
                BY <2>7, <2>9, <3>2
            <4> QED BY <1>1, <1>10, <3>2, <4>1
        <3> QED BY <3>1, <3>2
    <2>11. mowned' = ValuesOf(q)
        <3>1. CASE u[s] = Empty
            <4>1. promised[k] = NoValue
                BY <2>7, <3>1 DEF Present
            <4>2. NoValue \notin ValuesOf(promised)
                BY DEF ValuesOf, Present
            <4> QED BY <1>1, <1>10, <2>9, <3>1, <4>1, <4>2
        <3>2. CASE u[s] # Empty
            BY <1>1, <1>10, <2>7, <2>9, <3>2
        <3> QED BY <3>1, <3>2
    <2>12. mbroken' = FALSE
        <3>1. u[s] # Empty => u[s].val \in mowned
            BY <1>1, <2>7 DEF ValuesOf
        <3> QED BY <1>10, <3>1
    <2>13. Books'
        BY <1>3, <2>5, <2>9, <2>10, <2>11, <2>12 DEF Books
    <2> QED BY <2>8, <2>13
<1> QED BY <1>8, <1>9, <1>10

LEMMA RemoveSlotEffect ==
    ASSUME Books, NEW N, Sound(N), NEW s \in Occupied(table), RemoveSlot(s), ~longRun',
           UNCHANGED hash
    PROVE  Books' /\ Sound(N)'
<1>1. /\ HashOK /\ IsPromise(promised) /\ length = Cardinality(Present(promised))
      /\ mowned = ValuesOf(promised) /\ mbroken = FALSE
    BY DEF Books
<1>2. IsTable(table, N) /\ Placed(table, N) /\ Stored(table, N) = EntriesOf(promised)
    BY DEF Sound
<1>3. s \in 0..N - 1 /\ table[s] # Empty
    BY <1>2, TableIs DEF Occupied
<1>4. PICK k : k = table[s].key
    OBVIOUS
<1>5. k \in Present(promised) /\ k \in Keys /\ table[s].val = promised[k] /\ table[s].val \in mowned
    BY <1>3, <1>4, StoredIs
<1>6. ~InLongRun(table, s)
    BY DEF RemoveSlot
<1>7. PICK n, q : n = table' /\ q = promised'
    OBVIOUS
<1>8. n = ClearElem(table, s)
    BY <1>7 DEF RemoveSlot
<1>9. IsTable(n, N) /\ Placed(n, N) /\ Stored(n, N) = But(table, N, s)
    BY <1>1, <1>2, <1>3, <1>6, <1>8, ClearElemIs
<1>10. Promises(promised, k, NoValue, q)
    BY <1>4, <1>7 DEF RemoveSlot, Promises
<1>11. /\ IsPromise(q) /\ Present(q) = Present(promised) \ {k}
       /\ ValuesOf(q) = ValuesOf(promised) \ {promised[k]}
       /\ EntriesOf(q) = {e \in EntriesOf(promised) : e.key # k}
    BY <1>1, <1>5, <1>10, DropPromise
<1>12. But(table, N, s) = {e \in Stored(table, N) : e.key # k}
    <2>1. \A r \in 0..N - 1 : table[r] # Empty => (r # s <=> table[r].key # k)
        BY <1>2, <1>3, <1>4 DEF Placed
    <2> QED BY <2>1 DEF But, Stored
<1>13. Sound(N)'
    <2>1. Placed(n, N)' <=> Placed(n, N)
        BY DEF Placed, HomeIn
    <2> QED BY <1>2, <1>7, <1>9, <1>11, <1>12, <2>1 DEF Sound
<1>14. length' = Cardinality(Present(q))
    <2>1. Cardinality(Present(promised) \ {k}) = Cardinality(Present(promised)) - 1
        BY <1>5, PresentFinite, FS_RemoveElement
    <2> QED BY <1>1, <1>11, <2>1 DEF RemoveSlot
<1>15. mowned' = ValuesOf(q) /\ mbroken' = FALSE
    BY <1>1, <1>5, <1>11 DEF RemoveSlot
<1>16. HashOK'
    BY <1>1 DEF HashOK
<1>17. Books'
    BY <1>7, <1>11, <1>14, <1>15, <1>16 DEF Books
<1> QED BY <1>13, <1>17

(***************************************************************************)
(* Every operation keeps the invariant.                                    *)
(***************************************************************************)
LEMMA NoMapItrIs ==
    /\ NoMapItr \in MapItrs /\ NoMapItr.mode = "none"
    /\ \A t : Standing(NoMapItr, t)
<1>1. <<>> \in Seq(Keys)
    OBVIOUS
<1>2. NoMapItr \in MapItrs /\ NoMapItr.mode = "none"
    BY <1>1 DEF NoMapItr, MapItrs
<1> QED BY <1>2 DEF Standing

LEMMA WalkEffect ==
    ASSUME NEW walk \in MapItrs, NEW t, NEW N, IsTable(t, N), NEW i, WalkFrom(walk, t, i)
    PROVE  Standing(mitr', t) /\ mitr'.mode \in {"none", walk.mode}
<1> DEFINE ahead == {j \in Occupied(t) : j >= i}
<1>1. mitr' = IF ahead = {} THEN NoMapItr
              ELSE [walk EXCEPT !.pos = Min(ahead), !.removed = FALSE,
                                !.seen = Append(@, t[Min(ahead)].key)]
    BY DEF WalkFrom
<1>2. CASE ahead = {}
    BY <1>1, <1>2, NoMapItrIs
<1>3. CASE ahead # {}
    <2>1. DOMAIN t = 0..N - 1 /\ N \in Nat
        BY TableIs DEF IsTable
    <2>2. ahead \subseteq Nat /\ ahead \subseteq Occupied(t)
        BY <2>1 DEF Occupied
    <2> HIDE DEF ahead
    <2>3. PICK m : m = Min(ahead) /\ m \in ahead
        BY <1>3, <2>2, MinNat
    <2>4. m \in Nat /\ m \in Occupied(t)
        BY <2>2, <2>3
    <2>5. t[m].key \in Keys
        BY <2>1, <2>4, TableIs DEF Occupied
    <2>6. walk.seen \in Seq(Keys)
        BY DEF MapItrs
    <2>7. PICK q : q = Append(walk.seen, t[m].key) /\ q \in Seq(Keys)
        <3>1. PICK w, x : w = walk.seen /\ x = t[m].key
            OBVIOUS
        <3>2. w \in Seq(Keys) /\ x \in Keys
            BY <2>5, <2>6, <3>1
        <3>3. Append(w, x) \in Seq(Keys)
            BY <3>2
        <3> QED BY <3>1, <3>3
    <2>8. mitr' = [walk EXCEPT !.pos = m, !.removed = FALSE, !.seen = q]
        BY <1>1, <1>3, <2>3, <2>7 DEF MapItrs
    <2>9. mitr' \in MapItrs /\ mitr'.pos = m /\ mitr'.mode = walk.mode
        BY <2>4, <2>7, <2>8 DEF MapItrs
    <2> QED BY <2>4, <2>9 DEF Standing
<1> QED BY <1>2, <1>3

LEMMA WalkStarts ==
    ASSUME NEW N, IsTable(table, N), NEW mode \in {"itr", "iterate"}, WalkStart(mode)
    PROVE  Standing(mitr', table) /\ mitr'.mode \in {"none", mode}
<1> DEFINE w == [NoMapItr EXCEPT !.mode = mode, !.start = KeysOf(table), !.wrapped = Wraps(table)]
<1>2. WalkFrom(w, table, 0)
    BY DEF WalkStart
<1>3. KeysOf(table) \subseteq Keys
    BY TableIs DEF KeysOf, Occupied
<1>4. Wraps(table) \in BOOLEAN
    BY DEF Wraps
<1>5. w \in MapItrs /\ w.mode = mode
    BY <1>3, <1>4, NoMapItrIs DEF MapItrs
<1> HIDE DEF w
<1> QED BY <1>2, <1>5, WalkEffect

LEMMA CallbackEffect ==
    ASSUME mitr \in MapItrs, NEW M, IsTable(table', M), NEW gone \in SUBSET Keys, AfterCallback(gone)
    PROVE  Standing(mitr', table')
<1> DEFINE w == [mitr EXCEPT !.gone = @ \cup gone]
<1>1. w \in MapItrs
    <2>1. mitr.gone \cup gone \in SUBSET Keys
        BY DEF MapItrs
    <2>2. w = [mitr EXCEPT !.gone = mitr.gone \cup gone]
        BY DEF MapItrs
    <2>3. \A g \in SUBSET Keys : [mitr EXCEPT !.gone = g] \in MapItrs
        BY DEF MapItrs
    <2> QED BY <2>1, <2>2, <2>3
<1>2. mitr' = NoMapItr \/ \E i : WalkFrom(w, table', i)
    BY DEF AfterCallback
<1> HIDE DEF w
<1> QED BY <1>1, <1>2, NoMapItrIs, WalkEffect

LEMMA SameTable ==
    ASSUME Books, NEW N, Sound(N), UNCHANGED <<tableVars, hash>>
    PROVE  Books' /\ Sound(N)'
<1>1. UNCHANGED <<table, length, mowned, promised, mbroken, hash>>
    BY DEF tableVars
<1>2. Books'
    BY <1>1 DEF Books, HashOK
<1>3. Sound(N)'
    BY <1>1 DEF Sound, Placed, HomeIn
<1> QED BY <1>2, <1>3

LEMMA LookupIs ==
    ASSUME HashOK, NEW N, IsTable(table, N), NEW k \in Keys, Lookup(table, k) # NoSlot
    PROVE  Lookup(table, k) \in Occupied(table)
<1>1. Lookup(table, k) = Probe(table, k) /\ Probe(table, k) # NoSlot /\ table[Probe(table, k)] # Empty
    BY DEF Lookup
<1>2. Probe(table, k) \in 0..N - 1
    BY <1>1, ProbeIs
<1> QED BY <1>1, <1>2, TableIs DEF Occupied

LEMMA RemoveKeyEffect ==
    ASSUME Books, NEW N, Sound(N), NEW k \in Keys, RemoveKey(k), ~longRun', UNCHANGED hash
    PROVE  Books' /\ Sound(N)'
<1>1. HashOK /\ IsTable(table, N)
    BY DEF Books, Sound
<1>2. PICK s : s = Lookup(table, k)
    OBVIOUS
<1>3. s \in Occupied(table) /\ RemoveSlot(s)
    BY <1>1, <1>2, LookupIs DEF RemoveKey
<1> QED BY <1>3, RemoveSlotEffect

LEMMA SetDataEffect ==
    ASSUME Books, NEW N, Sound(N), Standing(mitr, table), NEW i \in Versions, MapItrSetData(i)
    PROVE  Books' /\ Sound(N)' /\ Standing(mitr, table)'
<1>1. /\ HashOK /\ IsPromise(promised) /\ length = Cardinality(Present(promised))
      /\ mowned = ValuesOf(promised) /\ mbroken = FALSE
    BY DEF Books
<1>2. IsTable(table, N) /\ Placed(table, N) /\ Stored(table, N) = EntriesOf(promised)
    BY DEF Sound
<1>3. mitr \in MapItrs /\ mitr.pos \in Occupied(table)
    BY DEF MapItrSetData, InItr, Standing
<1>4. PICK s, k : s = mitr.pos /\ k = table[mitr.pos].key
    OBVIOUS
<1>5. PICK v : v = <<k, i>>
    OBVIOUS
<1>6. s \in 0..N - 1 /\ table[s] # Empty /\ k = table[s].key /\ DOMAIN table = 0..N - 1
    BY <1>2, <1>3, <1>4, TableIs DEF Occupied
<1>7. k \in Keys /\ table[s].val = promised[k] /\ k \in Present(promised)
    BY <1>6, StoredIs
<1>8. v \in Values /\ v[1] = k
    BY <1>5, <1>7 DEF Values
<1>9. /\ table' = [table EXCEPT ![s].val = v]
      /\ mowned' = (mowned \ {table[s].val}) \cup {v}
      /\ promised' = [promised EXCEPT ![k] = v]
      /\ UNCHANGED <<hash, length, mitr, mbroken>>
    BY <1>4, <1>5 DEF MapItrSetData
<1>10. PICK n, q : n = table' /\ q = promised'
    OBVIOUS
<1>11. n \in [0..N - 1 -> Entries \cup {Empty}] /\ n[s] = EntryFor(k, v)
       /\ \A r \in 0..N - 1 : r # s => n[r] = table[r]
    <2>1. table[s] \in Entries
        BY <1>2, <1>6, TableIs
    <2>2. [table[s] EXCEPT !.val = v] = EntryFor(k, v)
        BY <1>6, <2>1 DEF Entries, EntryFor
    <2>3. EntryFor(k, v) \in Entries
        BY <1>7, <1>8 DEF EntryFor, Entries, Values
    <2>4. n = [table EXCEPT ![s] = EntryFor(k, v)]
        BY <1>9, <1>10, <2>2
    <2> QED BY <1>2, <1>6, <2>3, <2>4 DEF IsTable
<1>12. IsPut(table, N, s, EntryFor(k, v), n)
    BY <1>2, <1>11 DEF IsPut, IsTable
<1>13. s = Probe(table, k) /\ s # NoSlot
    <2>1. s = Probe(table, k)
        BY <1>1, <1>2, <1>6, ProbeFinds
    <2>2. s # NoSlot
        BY <1>2, <1>6 DEF NoSlot, IsTable
    <2> QED BY <2>1, <2>2
<1>14. Promises(promised, k, v, q)
    BY <1>9, <1>10 DEF Promises
<1>15. IsTable(n, N) /\ Placed(n, N) /\ Stored(n, N) = EntriesOf(q)
    BY <1>1, <1>2, <1>7, <1>8, <1>12, <1>13, <1>14, PutStored
<1>16. Sound(N)'
    <2>1. Placed(n, N)' <=> Placed(n, N)
        BY <1>9 DEF Placed, HomeIn
    <2> QED BY <1>10, <1>15, <2>1 DEF Sound
<1>17. /\ IsPromise(q) /\ Present(q) = Present(promised) \cup {k}
       /\ ValuesOf(q) = (ValuesOf(promised) \ {promised[k]}) \cup {v}
    BY <1>1, <1>7, <1>8, <1>14, AddPromise
<1>18. Books'
    <2>1. Present(q) = Present(promised)
        BY <1>7, <1>17
    <2>2. HashOK'
        BY <1>1, <1>9 DEF HashOK
    <2>3. length' = Cardinality(Present(q)) /\ mowned' = ValuesOf(q) /\ mbroken' = FALSE
        BY <1>1, <1>7, <1>9, <1>17, <2>1
    <2> QED BY <1>10, <1>17, <2>2, <2>3 DEF Books
<1>19. Standing(mitr, table)'
    <2>1. EntryFor(k, v) # Empty
        <3>1. EntryFor(k, v) \in Entries
            BY <1>7, <1>8 DEF EntryFor, Entries, Values
        <3> QED BY <3>1, HashMapAssumption DEF Entries
    <2>2. DOMAIN n = 0..N - 1
        BY <1>11
    <2>3. s \in Occupied(table')
        BY <1>6, <1>10, <1>11, <2>1, <2>2 DEF Occupied
    <2> QED BY <1>3, <1>4, <1>9, <2>3 DEF Standing
<1> QED BY <1>16, <1>18, <1>19

LEMMA MapInitInv == MapInit => MapInv
<1>1. SUFFICES ASSUME MapInit PROVE MapOK
    BY DEF MapInv
<1> USE <1>1 DEF MapInit
<1>2. InitSize \in Nat /\ InitSize > 0 /\ InitSize \div 2 \in Nat /\ InitSize = 2 * (InitSize \div 2)
    BY HashMapAssumption DEF Powers
<1>3. IsTable(table, InitSize)
    BY <1>2 DEF IsTable
<1>4. \A s \in 0..InitSize - 1 : table[s] = Empty
    OBVIOUS
<1>5. Placed(table, InitSize)
    BY <1>4 DEF Placed
<1>6. HashOK /\ IsPromise(promised)
    BY HashMapAssumption DEF HashOK, IsPromise
<1>7. Present(promised) = {}
    BY DEF Present
<1>8. Stored(table, InitSize) = {} /\ EntriesOf(promised) = {} /\ ValuesOf(promised) = {}
    BY <1>4, <1>7 DEF Stored, EntriesOf, ValuesOf
<1>9. Cardinality(Present(promised)) = 0
    BY <1>7, FS_EmptySet
<1>10. Books
    BY <1>6, <1>8, <1>9 DEF Books
<1>11. Sound(InitSize)
    BY <1>3, <1>5, <1>8 DEF Sound
<1>12. Standing(mitr, table) /\ ~mclearing
    BY NoMapItrIs
<1> QED BY <1>10, <1>11, <1>12 DEF MapOK

LEMMA LongRunStays ==
    ASSUME longRun, MapNext \/ UNCHANGED mapVars
    PROVE  longRun'
<1> USE DEF PutKey, RemoveKey, RemoveSlot, tableVars, mapVars
<1>1. CASE \E k \in Keys, i \in Versions : MapPut(k, <<k, i>>) \/ CallbackPuts(k, <<k, i>>)
    BY <1>1 DEF MapPut, CallbackPuts
<1>2. CASE \E k \in Keys : MapRemove(k) \/ CallbackRemoves(k)
    BY <1>2 DEF MapRemove, CallbackRemoves
<1>3. CASE \E i \in Versions : MapItrSetData(i)
    BY <1>3 DEF MapItrSetData
<1>4. CASE MapItrNew \/ MapItrNext \/ MapItrRemove
    BY <1>4 DEF MapItrNew, MapItrNext, MapItrRemove, MapItrRemoveCur
<1>5. CASE MapIterate \/ CallbackReturns \/ CallbackStops
    BY <1>5 DEF MapIterate, CallbackReturns, CallbackStops
<1>6. CASE MapClear \/ MapClearStep
    BY <1>6 DEF MapClear, MapClearStep, MapItrRemoveCur
<1>7. CASE UNCHANGED mapVars
    BY <1>7
<1> QED BY <1>1, <1>2, <1>3, <1>4, <1>5, <1>6, <1>7 DEF MapNext

LEMMA IdleStands ==
    ASSUME MapIdle, MapOK
    PROVE  mitr.mode = "none" /\ ~mclearing /\ mitr \in MapItrs /\ \A t : Standing(mitr, t)
BY DEF MapIdle, MapOK, Standing

LEMMA MapPutKeeps ==
    ASSUME MapOK, NEW k \in Keys, NEW i \in Versions, MapPut(k, <<k, i>>)
    PROVE  MapOK'
<1>1. Books /\ \E N : Sound(N)
    BY DEF MapOK
<1>2. PICK N : Sound(N)
    BY <1>1
<1>3. PICK v : v = <<k, i>>
    OBVIOUS
<1>4. v \in Values /\ v[1] = k
    BY <1>3 DEF Values
<1>5. PutKey(k, v) /\ UNCHANGED <<hash, mitr, mclearing>> /\ MapIdle
    BY <1>3 DEF MapPut
<1>6. Books' /\ \E M : Sound(M)'
    BY <1>1, <1>2, <1>4, <1>5, PutKeyEffect
<1>7. mitr.mode = "none" /\ ~mclearing /\ Standing(mitr, table')
    BY <1>5, IdleStands
<1> QED BY <1>5, <1>6, <1>7 DEF MapOK

LEMMA MapRemoveKeeps ==
    ASSUME MapOK, NEW k \in Keys, MapRemove(k), ~longRun'
    PROVE  MapOK'
<1>1. Books /\ \E N : Sound(N)
    BY DEF MapOK
<1>2. PICK N : Sound(N)
    BY <1>1
<1>3. RemoveKey(k) /\ UNCHANGED <<hash, mitr, mclearing>> /\ MapIdle
    BY DEF MapRemove
<1>4. Books' /\ Sound(N)'
    BY <1>1, <1>2, <1>3, RemoveKeyEffect
<1>5. mitr.mode = "none" /\ ~mclearing /\ Standing(mitr, table')
    BY <1>3, IdleStands
<1> QED BY <1>3, <1>4, <1>5 DEF MapOK

LEMMA InCallbackIs ==
    ASSUME InCallback, MapOK, UNCHANGED mclearing
    PROVE  mitr \in MapItrs /\ ~mclearing'
BY DEF InCallback, MapOK, Standing

LEMMA CallbackPutsKeeps ==
    ASSUME MapOK, NEW k \in Keys, NEW i \in Versions, CallbackPuts(k, <<k, i>>)
    PROVE  MapOK'
<1>1. Books /\ \E N : Sound(N)
    BY DEF MapOK
<1>2. PICK N : Sound(N)
    BY <1>1
<1>3. PICK v : v = <<k, i>>
    OBVIOUS
<1>4. v \in Values /\ v[1] = k
    BY <1>3 DEF Values
<1>5. PutKey(k, v) /\ AfterCallback({}) /\ UNCHANGED <<hash, mclearing>> /\ InCallback
    BY <1>3 DEF CallbackPuts
<1>6. Books' /\ \E M : Sound(M)'
    BY <1>1, <1>2, <1>4, <1>5, PutKeyEffect
<1>7. mitr \in MapItrs /\ ~mclearing'
    BY <1>5, InCallbackIs
<1>8. PICK M : Sound(M)'
    BY <1>6
<1>9. IsTable(table', M)
    BY <1>8 DEF Sound
<1>10. {} \in SUBSET Keys
    OBVIOUS
<1>11. Standing(mitr', table')
    BY <1>5, <1>7, <1>9, <1>10, CallbackEffect
<1> QED BY <1>6, <1>7, <1>11 DEF MapOK

LEMMA CallbackRemovesKeeps ==
    ASSUME MapOK, NEW k \in Keys, CallbackRemoves(k), ~longRun'
    PROVE  MapOK'
<1>1. Books /\ \E N : Sound(N)
    BY DEF MapOK
<1>2. PICK N : Sound(N)
    BY <1>1
<1>3. RemoveKey(k) /\ AfterCallback({k}) /\ UNCHANGED <<hash, mclearing>> /\ InCallback
    BY DEF CallbackRemoves
<1>4. Books' /\ Sound(N)'
    BY <1>1, <1>2, <1>3, RemoveKeyEffect
<1>5. mitr \in MapItrs /\ ~mclearing'
    BY <1>3, InCallbackIs
<1>6. IsTable(table', N)
    BY <1>4 DEF Sound
<1>7. {k} \in SUBSET Keys
    OBVIOUS
<1>8. Standing(mitr', table')
    BY <1>3, <1>5, <1>6, <1>7, CallbackEffect
<1> QED BY <1>4, <1>5, <1>8 DEF MapOK

(* The steps that leave the table alone.                                    *)
LEMMA WalkKeeps ==
    ASSUME MapOK, UNCHANGED <<tableVars, hash>>,
           MapItrNew \/ MapItrNext \/ MapIterate \/ CallbackReturns \/ CallbackStops \/ MapClear
             \/ (mclearing /\ MapItrAdvance /\ mclearing' = (mitr'.mode # "none"))
    PROVE  MapOK'
<1>1. Books /\ Standing(mitr, table) /\ \E N : Sound(N)
    BY DEF MapOK
<1>2. PICK N : Sound(N)
    BY <1>1
<1>3. Books' /\ Sound(N)'
    BY <1>1, <1>2, SameTable
<1>4. HashOK /\ IsTable(table, N) /\ table' = table /\ mitr \in MapItrs
    BY <1>1, <1>2 DEF Books, Sound, tableVars, Standing
<1>5. SUFFICES Standing(mitr', table) /\ (mclearing' => mitr'.mode = "itr")
    BY <1>3, <1>4 DEF MapOK
<1>6. CASE MapItrNew
    <2>1. WalkStart("itr") /\ MapIdle /\ UNCHANGED mclearing
        BY <1>6 DEF MapItrNew
    <2>2. ~mclearing
        BY <2>1 DEF MapIdle
    <2> QED BY <1>2, <1>4, <2>1, <2>2, WalkStarts
<1>7. CASE MapItrNext
    <2>1. MapItrAdvance /\ ~mclearing /\ UNCHANGED mclearing
        BY <1>7 DEF MapItrNext, InItr
    <2>2. PICK i : WalkFrom(mitr, table, i)
        BY <2>1 DEF MapItrAdvance
    <2> QED BY <1>4, <2>1, <2>2, WalkEffect
<1>8. CASE MapIterate
    <2>1. WalkStart("iterate") /\ MapIdle /\ UNCHANGED mclearing
        BY <1>8 DEF MapIterate
    <2>2. ~mclearing
        BY <2>1 DEF MapIdle
    <2> QED BY <1>2, <1>4, <2>1, <2>2, WalkStarts
<1>9. CASE CallbackReturns
    <2>1. AfterCallback({}) /\ ~mclearing'
        BY <1>9, InCallbackIs DEF CallbackReturns
    <2>2. IsTable(table', N) /\ {} \in SUBSET Keys
        BY <1>4
    <2> QED BY <1>4, <2>1, <2>2, CallbackEffect
<1>10. CASE CallbackStops
    BY <1>10, InCallbackIs, NoMapItrIs DEF CallbackStops
<1>11. CASE MapClear
    <2>1. WalkStart("itr") /\ mclearing' = (mitr'.mode # "none")
        BY <1>11 DEF MapClear
    <2>2. Standing(mitr', table) /\ mitr'.mode \in {"none", "itr"}
        BY <1>2, <1>4, <2>1, WalkStarts
    <2> QED BY <2>1, <2>2
<1>12. CASE mclearing /\ MapItrAdvance /\ mclearing' = (mitr'.mode # "none")
    <2>1. PICK i : WalkFrom(mitr, table, i)
        BY <1>12 DEF MapItrAdvance
    <2>2. mitr.mode = "itr"
        BY <1>12 DEF MapOK
    <2>3. Standing(mitr', table) /\ mitr'.mode \in {"none", mitr.mode}
        BY <1>4, <2>1, WalkEffect
    <2> QED BY <1>12, <2>2, <2>3
<1> QED BY <1>6, <1>7, <1>8, <1>9, <1>10, <1>11, <1>12

LEMMA RemoveCurKeeps ==
    ASSUME MapOK, MapItrRemoveCur, ~longRun', UNCHANGED hash, mitr.mode = "itr"
    PROVE  MapOK'
<1>1. Books /\ Standing(mitr, table) /\ \E N : Sound(N)
    BY DEF MapOK
<1>2. PICK N : Sound(N)
    BY <1>1
<1>3. ~mitr.removed /\ RemoveSlot(mitr.pos) /\ mitr' = [mitr EXCEPT !.removed = TRUE]
    BY DEF MapItrRemoveCur
<1>4. mitr.pos \in Occupied(table) /\ mitr \in MapItrs
    BY <1>1, <1>3 DEF Standing
<1>5. PICK s : s = mitr.pos
    OBVIOUS
<1>6. Books' /\ Sound(N)'
    BY <1>1, <1>2, <1>3, <1>4, <1>5, RemoveSlotEffect
<1>7. mitr' \in MapItrs /\ mitr'.removed /\ mitr'.mode = "itr"
    BY <1>3, <1>4 DEF MapItrs
<1>8. Standing(mitr', table')
    BY <1>7 DEF Standing
<1> QED BY <1>6, <1>7, <1>8 DEF MapOK

LEMMA ClearStepKeeps ==
    ASSUME MapOK, MapClearStep, ~longRun'
    PROVE  MapOK'
<1>1. mclearing /\ UNCHANGED hash /\ mclearing' = (mitr'.mode # "none")
    BY DEF MapClearStep
<1>2. mitr.mode = "itr"
    BY <1>1 DEF MapOK
<1>3. CASE MapItrRemoveCur
    BY <1>1, <1>2, <1>3, RemoveCurKeeps
<1>4. CASE MapItrAdvance /\ UNCHANGED tableVars
    BY <1>1, <1>4, WalkKeeps
<1> QED BY <1>3, <1>4 DEF MapClearStep

LEMMA MapInductive ==
    ASSUME MapInv, MapNext \/ UNCHANGED mapVars
    PROVE  MapInv'
<1>1. CASE longRun'
    BY <1>1 DEF MapInv
<1>2. CASE ~longRun'
    <2>1. MapOK
        BY <1>2, LongRunStays DEF MapInv
    <2>2. CASE \E k \in Keys, i \in Versions : MapPut(k, <<k, i>>) \/ CallbackPuts(k, <<k, i>>)
        BY <2>1, <2>2, MapPutKeeps, CallbackPutsKeeps DEF MapInv
    <2>3. CASE \E k \in Keys : MapRemove(k) \/ CallbackRemoves(k)
        BY <1>2, <2>1, <2>3, MapRemoveKeeps, CallbackRemovesKeeps DEF MapInv
    <2>4. CASE \E i \in Versions : MapItrSetData(i)
        <3>1. PICK i \in Versions : MapItrSetData(i)
            BY <2>4
        <3>2. Books /\ Standing(mitr, table) /\ \E N : Sound(N)
            BY <2>1 DEF MapOK
        <3>3. PICK N : Sound(N)
            BY <3>2
        <3>4. Books' /\ Sound(N)' /\ Standing(mitr, table)'
            BY <3>1, <3>2, <3>3, SetDataEffect
        <3>5. ~mclearing'
            BY <3>1 DEF MapItrSetData, InItr
        <3> QED BY <3>4, <3>5 DEF MapOK, MapInv
    <2>5. CASE MapItrNew \/ MapItrNext \/ MapIterate \/ CallbackReturns \/ CallbackStops \/ MapClear
        <3>1. UNCHANGED <<tableVars, hash>>
            BY <2>5 DEF MapItrNew, MapItrNext, MapIterate, CallbackReturns, CallbackStops, MapClear
        <3> QED BY <2>1, <2>5, <3>1, WalkKeeps DEF MapInv
    <2>6. CASE MapItrRemove
        <3>1. MapItrRemoveCur /\ UNCHANGED hash /\ mitr.mode = "itr"
            BY <2>6 DEF MapItrRemove, InItr
        <3> QED BY <1>2, <2>1, <3>1, RemoveCurKeeps DEF MapInv
    <2>7. CASE MapClearStep
        BY <1>2, <2>1, <2>7, ClearStepKeeps DEF MapInv
    <2>8. CASE UNCHANGED mapVars
        <3>1. UNCHANGED <<tableVars, hash>> /\ UNCHANGED <<mitr, mclearing>> /\ table' = table
            BY <2>8 DEF mapVars, tableVars
        <3>2. Books /\ Standing(mitr, table) /\ (\E N : Sound(N)) /\ (mclearing => mitr.mode = "itr")
            BY <2>1 DEF MapOK
        <3>3. PICK N : Sound(N)
            BY <3>2
        <3>4. Books' /\ Sound(N)'
            BY <3>1, <3>2, <3>3, SameTable
        <3> QED BY <3>1, <3>2, <3>4 DEF MapOK, MapInv
    <2> QED BY <2>2, <2>3, <2>4, <2>5, <2>6, <2>7, <2>8 DEF MapNext
<1> QED BY <1>1, <1>2

(***************************************************************************)
(* Where clear_elem moves the entries of any table, in long runs too: this  *)
(* is for iterations, whose completeness does not depend on the runs.       *)
(***************************************************************************)
(* From slot r to slot q, seen from slot, and over nothing that changed.    *)
Earlier(t, N, slot, n, q, r) ==
    /\ Dist(N, slot, q) < Dist(N, slot, r)
    /\ \A p \in 0..N - 1 : Dist(N, slot, q) < Dist(N, slot, p) /\ Dist(N, slot, p) < Dist(N, slot, r)
                           => n[p] = t[p]

(* The scan has looked at i slots and left a gap at g of u.                 *)
Back(t, N, slot, i, u, g) ==
    /\ g \in 0..N - 1 /\ Dist(N, slot, g) <= i
    /\ \A p \in 0..N - 1 : Dist(N, slot, p) > Dist(N, slot, g) => u[p] = t[p]
    /\ g # slot => u[slot] # Empty
    /\ \A r \in 0..N - 1 : r # slot /\ t[r] # Empty =>
           \E q \in 0..N - 1 :
               /\ q # g /\ u[q] = t[r]
               /\ q = r \/ /\ Earlier(t, N, slot, u, q, r) /\ Dist(N, slot, r) <= i
                           /\ ~(Dist(N, slot, q) < Dist(N, slot, g) /\ Dist(N, slot, g) < Dist(N, slot, r))

ShiftedBack(t, N, slot, n) ==
    /\ \A r \in 0..N - 1 : r # slot /\ t[r] # Empty =>
           \E q \in 0..N - 1 :
               /\ n[q] = t[r]
               /\ q = r \/ (Earlier(t, N, slot, n, q, r) /\ Dist(N, slot, r) <= N \div 2)
    /\ \A p \in 0..N - 1 : p # slot /\ n[p] # t[p] => n[slot] # Empty

LEMMA BackStart ==
    ASSUME NEW t, NEW N, IsTable(t, N), NEW slot \in 0..N - 1
    PROVE  Back(t, N, slot, 0, t, slot)
<1>1. N \in Nat /\ N > 0
    BY DEF IsTable
<1>2. Dist(N, slot, slot) = 0
    BY <1>1 DEF Dist
<1> QED BY <1>2 DEF Back

LEMMA BackStay ==
    ASSUME NEW t, NEW N, IsTable(t, N), NEW slot \in 0..N - 1, NEW i \in Nat, i > 0,
           NEW u, NEW g, Back(t, N, slot, i - 1, u, g)
    PROVE  Back(t, N, slot, i, u, g)
<1>1. N \in Nat /\ N > 0
    BY DEF IsTable
<1>2. \A p \in 0..N - 1 : Dist(N, slot, p) \in Int
    BY <1>1 DEF Dist
<1>3. \A p \in 0..N - 1 : Dist(N, slot, p) <= i - 1 => Dist(N, slot, p) <= i
    BY <1>2
<1> QED BY <1>3 DEF Back

LEMMA BackMove ==
    ASSUME NEW t, NEW N, IsTable(t, N), NEW slot \in 0..N - 1,
           NEW at \in 0..N - 1, NEW i \in Nat, i = Dist(N, slot, at), i > 0, t[at] # Empty,
           NEW u, NEW g, Back(t, N, slot, i - 1, u, g), NEW n, IsPut(u, N, g, t[at], n)
    PROVE  Back(t, N, slot, i, n, at)
<1>1. N \in Nat /\ N > 0
    BY DEF IsTable
<1>2. \A p \in 0..N - 1 : Dist(N, slot, p) \in Int
    BY <1>1 DEF Dist
<1>3. g \in 0..N - 1 /\ Dist(N, slot, g) <= i - 1 /\ n[g] = t[at] /\ at # g
    BY <1>2 DEF Back, IsPut
<1>4. \A p \in 0..N - 1 : p # g => n[p] = u[p]
    BY DEF IsPut
<1>5. \A p \in 0..N - 1 : Dist(N, slot, p) > Dist(N, slot, g) => u[p] = t[p]
    BY DEF Back
<1>6. \A p \in 0..N - 1 : Dist(N, slot, p) > i => n[p] = t[p]
    BY <1>2, <1>3, <1>4, <1>5
<1>7. n[slot] # Empty
    BY <1>3, <1>4 DEF Back
<1>8. ASSUME NEW r \in 0..N - 1, r # slot, t[r] # Empty
      PROVE  \E q \in 0..N - 1 :
               /\ q # at /\ n[q] = t[r]
               /\ q = r \/ /\ Earlier(t, N, slot, n, q, r) /\ Dist(N, slot, r) <= i
                           /\ ~(Dist(N, slot, q) < Dist(N, slot, at) /\ Dist(N, slot, at) < Dist(N, slot, r))
    <2>1. CASE r = at
        <3>1. Dist(N, slot, g) < Dist(N, slot, at)
            BY <1>2, <1>3
        <3>2. \A p \in 0..N - 1 : Dist(N, slot, g) < Dist(N, slot, p) => n[p] = t[p]
            BY <1>2, <1>3, <1>4, <1>5
        <3>3. Earlier(t, N, slot, n, g, at)
            BY <3>1, <3>2 DEF Earlier
        <3>4. ~(Dist(N, slot, at) < Dist(N, slot, at)) /\ Dist(N, slot, at) <= i
            BY <1>2
        <3> QED BY <1>3, <2>1, <3>3, <3>4
    <2>2. CASE r # at
        <3>1. PICK q \in 0..N - 1 :
                  /\ q # g /\ u[q] = t[r]
                  /\ q = r \/ /\ Earlier(t, N, slot, u, q, r) /\ Dist(N, slot, r) <= i - 1
                              /\ ~(Dist(N, slot, q) < Dist(N, slot, g) /\ Dist(N, slot, g) < Dist(N, slot, r))
            BY <1>8 DEF Back
        <3>2. n[q] = t[r]
            BY <1>4, <3>1
        <3>3. CASE q = r
            BY <2>2, <3>2, <3>3
        <3>4. CASE q # r
            <4>1. /\ Earlier(t, N, slot, u, q, r) /\ Dist(N, slot, r) <= i - 1
                  /\ ~(Dist(N, slot, q) < Dist(N, slot, g) /\ Dist(N, slot, g) < Dist(N, slot, r))
                BY <3>1, <3>4
            <4>2. Dist(N, slot, q) < Dist(N, slot, r)
                BY <4>1 DEF Earlier
            <4>3. ASSUME NEW p \in 0..N - 1, Dist(N, slot, q) < Dist(N, slot, p), Dist(N, slot, p) < Dist(N, slot, r)
                  PROVE  n[p] = t[p]
                <5>1. p # g
                    BY <4>1, <4>3
                <5>2. u[p] = t[p]
                    BY <4>1, <4>3 DEF Earlier
                <5> QED BY <1>4, <5>1, <5>2
            <4>4. Earlier(t, N, slot, n, q, r)
                BY <4>2, <4>3 DEF Earlier
            <4>5. q # at /\ Dist(N, slot, r) <= i /\ ~(Dist(N, slot, at) < Dist(N, slot, r))
                BY <1>2, <4>1, <4>2
            <4> QED BY <3>2, <4>4, <4>5
        <3> QED BY <3>3, <3>4
    <2> QED BY <2>1, <2>2
<1>9. Dist(N, slot, at) <= i /\ \A p \in 0..N - 1 : Dist(N, slot, p) > Dist(N, slot, at) => n[p] = t[p]
    BY <1>2, <1>6
<1> QED BY <1>7, <1>8, <1>9 DEF Back

LEMMA BackEnd ==
    ASSUME NEW t, NEW N, IsTable(t, N), NEW slot \in 0..N - 1,
           NEW u, NEW g, Back(t, N, slot, N \div 2, u, g), NEW n, IsPut(u, N, g, Empty, n)
    PROVE  ShiftedBack(t, N, slot, n)
<1>1. N \in Nat /\ N > 0
    BY DEF IsTable
<1>2. \A p \in 0..N - 1 : Dist(N, slot, p) \in Int /\ Dist(N, slot, slot) = 0
                          /\ (p # slot => Dist(N, slot, p) > 0)
    BY <1>1 DEF Dist
<1>3. \A p \in 0..N - 1 : p # g => n[p] = u[p]
    BY DEF IsPut
<1>4. ASSUME NEW r \in 0..N - 1, r # slot, t[r] # Empty
      PROVE  \E q \in 0..N - 1 :
               /\ n[q] = t[r]
               /\ q = r \/ (Earlier(t, N, slot, n, q, r) /\ Dist(N, slot, r) <= N \div 2)
    <2>1. PICK q \in 0..N - 1 :
              /\ q # g /\ u[q] = t[r]
              /\ q = r \/ /\ Earlier(t, N, slot, u, q, r) /\ Dist(N, slot, r) <= N \div 2
                          /\ ~(Dist(N, slot, q) < Dist(N, slot, g) /\ Dist(N, slot, g) < Dist(N, slot, r))
        BY <1>4 DEF Back
    <2>2. n[q] = t[r]
        BY <1>3, <2>1
    <2>3. ASSUME q # r PROVE Earlier(t, N, slot, n, q, r)
        BY <1>3, <2>1, <2>3 DEF Earlier
    <2> QED BY <2>1, <2>2, <2>3
<1>5. ASSUME NEW p \in 0..N - 1, p # slot, n[p] # t[p] PROVE n[slot] # Empty
    <2>1. CASE g = slot
        BY <1>2, <1>3, <1>5, <2>1 DEF Back
    <2>2. CASE g # slot
        BY <1>3, <2>2 DEF Back
    <2> QED BY <2>1, <2>2
<1> QED BY <1>4, <1>5 DEF ShiftedBack

LEMMA ClearElemBack ==
    ASSUME NEW t, NEW N, IsTable(t, N), NEW slot \in 0..N - 1, NEW n, n = ClearElem(t, slot)
    PROVE  IsTable(n, N) /\ ShiftedBack(t, N, slot, n)
<1>1. N \in Nat /\ N > 0 /\ N \div 2 \in Nat /\ N = 2 * (N \div 2)
    BY DEF IsTable
<1>2. PICK P \in Nat : P = N \div 2 /\ N = 2 * P
    BY <1>1
<1>3. PICK scan : IsScan(t, N, slot, scan) /\ n = [scan[P].t EXCEPT ![scan[P].gap] = Empty]
    BY <1>2, ScanIs
<1> DEFINE at(i) == (slot + i) % N
<1>4. \A i \in 1..P : i \in 0..N - 1 /\ at(i) \in 0..N - 1 /\ Dist(N, slot, at(i)) = i
    <2> TAKE i \in 1..P
    <2>1. i \in 0..N - 1
        BY <1>1, <1>2
    <2> QED BY <1>1, <2>1, SlotIs
<1>5. /\ scan[0] = [t |-> t, gap |-> slot, end |-> FALSE]
      /\ \A i \in 1..P : scan[i] = ShiftBack(t, scan[i - 1], at(i))
      /\ \A i \in 0..P : scan[i] \in ScanStates(N)
    BY <1>2, <1>3 DEF IsScan
<1> HIDE DEF at
<1> DEFINE T == {i \in 0..P : Back(t, N, slot, i, scan[i].t, scan[i].gap)}
<1>6. 0 \in T
    <2>1. scan[0].t = t /\ scan[0].gap = slot
        BY <1>5
    <2> QED BY <2>1, BackStart
<1>7. ASSUME NEW i \in 1..P, i - 1 \in T PROVE i \in T
    <2>1. PICK s, r, a : s = scan[i - 1] /\ r = scan[i] /\ a = at(i)
        OBVIOUS
    <2>2. PICK u, g, v, h : u = s.t /\ g = s.gap /\ v = r.t /\ h = r.gap
        OBVIOUS
    <2>3. /\ r = ShiftBack(t, s, a) /\ s \in ScanStates(N) /\ a \in 0..N - 1
          /\ i = Dist(N, slot, a) /\ i \in Nat /\ i > 0
        BY <1>4, <1>5, <2>1
    <2>4. Back(t, N, slot, i - 1, u, g)
        BY <1>7, <2>1, <2>2
    <2> HIDE DEF T
    <2>5. (v = u /\ h = g) \/ (t[a] # Empty /\ v = [u EXCEPT ![g] = t[a]] /\ h = a)
        <3>1. [s EXCEPT !.end = TRUE].t = u /\ [s EXCEPT !.end = TRUE].gap = g
            BY <2>2, <2>3 DEF ScanStates
        <3>2. LET e == [s EXCEPT !.t[s.gap] = t[a], !.gap = a]
              IN  e.t = [u EXCEPT ![g] = t[a]] /\ e.gap = a
            BY <2>2, <2>3 DEF ScanStates
        <3> QED BY <2>2, <2>3, <3>1, <3>2 DEF ShiftBack
    <2>6. Back(t, N, slot, i, v, h)
        <3>1. CASE v = u /\ h = g
            BY <2>3, <2>4, <3>1, BackStay
        <3>2. CASE t[a] # Empty /\ v = [u EXCEPT ![g] = t[a]] /\ h = a
            <4>1. u \in [0..N - 1 -> Entries \cup {Empty}] /\ g \in 0..N - 1
                BY <2>2, <2>3 DEF ScanStates
            <4>2. t[a] \in Entries \cup {Empty}
                BY <2>3 DEF IsTable
            <4>3. v \in [0..N - 1 -> Entries \cup {Empty}]
                BY <3>2, <4>1, <4>2
            <4>4. v[g] = t[a] /\ \A q \in 0..N - 1 : q # g => v[q] = u[q]
                BY <3>2, <4>1
            <4>5. IsPut(u, N, g, t[a], v)
                BY <1>1, <4>3, <4>4 DEF IsPut, IsTable
            <4>6. Back(t, N, slot, i, v, a)
                BY <2>3, <2>4, <3>2, <4>5, BackMove
            <4> QED BY <3>2, <4>6
        <3> QED BY <2>5, <3>1, <3>2
    <2> QED BY <2>1, <2>2, <2>6 DEF T
<1>8. \A i \in 0..P : i \in T
    <2> HIDE DEF T
    <2> QED BY <1>6, <1>7, UpTo
<1>9. PICK u, g : u = scan[P].t /\ g = scan[P].gap
    OBVIOUS
<1>10. Back(t, N, slot, N \div 2, u, g) /\ n = [u EXCEPT ![g] = Empty]
    BY <1>2, <1>3, <1>8, <1>9
<1>11. u \in [0..N - 1 -> Entries \cup {Empty}] /\ g \in 0..N - 1
    BY <1>5, <1>9 DEF ScanStates
<1> HIDE DEF T
<1>12. IsPut(u, N, g, Empty, n) /\ IsTable(n, N)
    BY <1>1, <1>10, <1>11 DEF IsPut, IsTable
<1> QED BY <1>10, <1>12, BackEnd

(***************************************************************************)
(* What is ahead of a walk.                                                *)
(***************************************************************************)
Ahead(t, i) == {t[s].key : s \in {r \in Occupied(t) : r >= i}}

LEMMA AheadIs ==
    ASSUME NEW t, NEW N, IsTable(t, N), NEW i
    PROVE  \A k : k \in Ahead(t, i) <=> \E s \in 0..N - 1 : s >= i /\ t[s] # Empty /\ t[s].key = k
BY TableIs DEF Ahead, Occupied

(* Ahead of a slot that lost its entry nothing is left out but the removed  *)
(* one: an entry is shifted past the slot only if the slot's entry stays.   *)
LEMMA AheadKept ==
    ASSUME NEW t, NEW N, IsTable(t, N), NEW slot \in 0..N - 1, NEW n, ShiftedBack(t, N, slot, n),
           NEW pos \in 0..N - 1, slot = pos \/ n[pos] # t[pos],
           NEW r \in 0..N - 1, r > pos, r # slot, t[r] # Empty
    PROVE  \E q \in 0..N - 1 : q >= pos /\ n[q] = t[r]
<1>1. N \in Nat /\ N > 0
    BY DEF IsTable
<1>2. PICK q \in 0..N - 1 :
          /\ n[q] = t[r]
          /\ q = r \/ (Earlier(t, N, slot, n, q, r) /\ Dist(N, slot, r) <= N \div 2)
    BY DEF ShiftedBack
<1>3. CASE q = r
    BY <1>2, <1>3
<1>4. CASE Earlier(t, N, slot, n, q, r)
    <2>1. /\ Dist(N, slot, q) < Dist(N, slot, r)
          /\ ~(n[pos] # t[pos] /\ Dist(N, slot, q) < Dist(N, slot, pos)
                               /\ Dist(N, slot, pos) < Dist(N, slot, r))
        BY <1>4 DEF Earlier
    <2>2. q >= pos
        BY <1>1, <2>1 DEF Dist
    <2> QED BY <1>2, <2>2
<1> QED BY <1>2, <1>3, <1>4

(* Without a run around the end of the table entries only move to the       *)
(* front of it, and no run goes around the end after.                       *)
LEMMA UnwrappedKept ==
    ASSUME HashOK, NEW t, NEW N, IsTable(t, N), Placed(t, N), ~Wraps(t), NEW slot \in 0..N - 1,
           t[slot] # Empty, ~InLongRun(t, slot), NEW n, n = ClearElem(t, slot)
    PROVE  /\ ~Wraps(n)
           /\ \A q \in 0..N - 1 : n[q] # Empty => \E r \in 0..N - 1 : r # slot /\ q <= r /\ t[r] = n[q]
<1>1. N \in Nat /\ N > 0 /\ N \div 2 \in Nat /\ N = 2 * (N \div 2)
    BY DEF IsTable
<1>2. PICK P \in Nat : P = N \div 2 /\ N = 2 * P
    BY <1>1
<1>3. IsTable(n, N) /\ Placed(n, N) /\ Stored(n, N) = But(t, N, slot)
    BY ClearElemIs
<1>4. ShiftedBack(t, N, slot, n)
    BY ClearElemBack
<1>5. ASSUME NEW q \in 0..N - 1, n[q] # Empty
      PROVE  \E r \in 0..N - 1 : /\ r # slot /\ q <= r /\ t[r] = n[q]
                                 /\ HomeIn(N, n[q].key) <= q
    <2>1. n[q] \in But(t, N, slot)
        BY <1>3, <1>5 DEF Stored
    <2>2. PICK r \in 0..N - 1 : r # slot /\ t[r] # Empty /\ t[r] = n[q]
        BY <2>1 DEF But
    <2>3. PICK o \in 0..N - 1 :
              /\ n[o] = t[r]
              /\ o = r \/ (Earlier(t, N, slot, n, o, r) /\ Dist(N, slot, r) <= N \div 2)
        BY <1>4, <2>2 DEF ShiftedBack
    <2>4. o = q
        BY <1>3, <1>5, <2>2, <2>3 DEF Placed
    <2>5. q = r \/ (Dist(N, slot, q) < Dist(N, slot, r) /\ Dist(N, slot, r) <= P)
        BY <1>2, <2>3, <2>4 DEF Earlier
    <2>6. PICK h : h = HomeIn(N, n[q].key)
        OBVIOUS
    <2>7. n[q].key \in Keys
        BY <1>3, <1>5, TableIs
    <2>8. h \in 0..N - 1
        BY <1>1, <2>6, <2>7, HomeRange
    <2>9. h <= r
        <3>1. r \in Occupied(t) /\ Home(t, t[r].key) = HomeIn(N, t[r].key)
            BY <2>2, TableIs DEF Occupied
        <3>2. ~(r < h)
            BY <2>2, <2>6, <3>1 DEF Wraps
        <3> QED BY <2>8, <3>2
    <2>10. Dist(N, h, q) < P
        BY <1>2, <1>3, <1>5, <2>6 DEF Placed
    <2>11. q <= r /\ h <= q
        <3>1. CASE q = r
            BY <2>9, <3>1
        <3>2. CASE Dist(N, slot, q) < Dist(N, slot, r) /\ Dist(N, slot, r) <= P
            <4>1. q <= r
                BY <1>1, <1>2, <2>2, <2>8, <2>9, <2>10, <3>2 DEF Dist
            <4>2. h <= q
                BY <1>1, <1>2, <2>2, <2>8, <2>9, <2>10, <3>2 DEF Dist
            <4> QED BY <4>1, <4>2
        <3> QED BY <2>5, <3>1, <3>2
    <2> QED BY <2>2, <2>6, <2>11
<1>6. ~Wraps(n)
    <2>1. SUFFICES ASSUME NEW q \in Occupied(n), q < Home(n, n[q].key) PROVE FALSE
        BY DEF Wraps
    <2>2. q \in 0..N - 1 /\ n[q] # Empty /\ Home(n, n[q].key) = HomeIn(N, n[q].key)
        BY <1>3, TableIs DEF Occupied
    <2>3. HomeIn(N, n[q].key) <= q
        BY <1>5, <2>2
    <2>4. n[q].key \in Keys
        BY <1>3, <2>2, TableIs
    <2>5. HomeIn(N, n[q].key) \in Int
        BY <1>1, <2>4, HomeRange
    <2> QED BY <2>1, <2>2, <2>3, <2>5
<1> QED BY <1>5, <1>6

(* Two tables with the same keys in the same slots.                         *)
SameKeys(t, n) ==
    /\ DOMAIN n = DOMAIN t
    /\ \A s \in DOMAIN t : (n[s] = Empty <=> t[s] = Empty) /\ (t[s] # Empty => n[s].key = t[s].key)

LEMMA SameAhead ==
    ASSUME NEW t, NEW N, IsTable(t, N), NEW n, IsTable(n, N), SameKeys(t, n)
    PROVE  (\A i : Ahead(n, i) = Ahead(t, i)) /\ (Wraps(n) <=> Wraps(t)) /\ Occupied(n) = Occupied(t)
<1>1. /\ DOMAIN t = 0..N - 1 /\ DOMAIN n = 0..N - 1
      /\ \A k : Home(t, k) = HomeIn(N, k) /\ Home(n, k) = HomeIn(N, k)
    BY TableIs
<1>2. Occupied(n) = Occupied(t)
    BY DEF Occupied, SameKeys
<1>3. \A s \in Occupied(t) : n[s].key = t[s].key
    BY DEF Occupied, SameKeys
<1>4. ASSUME NEW i PROVE Ahead(n, i) = Ahead(t, i)
    BY <1>2, <1>3 DEF Ahead
<1>5. Wraps(n) <=> Wraps(t)
    BY <1>1, <1>2, <1>3 DEF Wraps
<1> QED BY <1>2, <1>4, <1>5

(***************************************************************************)
(* The operations on any table.                                            *)
(***************************************************************************)
LEMMA PutPlaceTyped ==
    ASSUME NEW t, NEW N, IsTable(t, N), NEW l, NEW k
    PROVE  \E u : /\ PutPlace(t, l, k)[1] = u /\ PutPlace(t, l, k)[2] \in {Probe(u, k), NoSlot}
                  /\ u = t \/ \E M : IsTable(u, M) /\ M # N
<1> DEFINE grown == IF Size(t) <= l + l \div 3 THEN hashmap_rehash(t) ELSE {t}
           t1 == The(grown)
           again == hashmap_rehash(t1)
           t2 == The(again)
           Grown(u) == \E M : IsTable(u, M) /\ M > N
<1>1. PutPlace(t, l, k) = IF grown = {} THEN <<t, NoSlot>>
                          ELSE IF Probe(t1, k) # NoSlot \/ again = {} THEN <<t1, Probe(t1, k)>>
                          ELSE <<t2, Probe(t2, k)>>
    BY DEF PutPlace
<1>2. N \in Nat /\ N > 0
    BY DEF IsTable
<1>3. \A n \in grown : n = t \/ Grown(n)
    <2>1. 2 * N > N
        BY <1>2
    <2>2. \A n \in hashmap_rehash(t) : IsTable(n, 2 * N)
        BY RehashTyped
    <2> QED BY <2>1, <2>2
<1> HIDE DEF grown
<1>4. grown # {} => t1 = t \/ Grown(t1)
    BY <1>3, TheIs
<1> HIDE DEF t1
<1>5. ASSUME grown # {}, again # {} PROVE Grown(t2)
    <2>1. PICK M : IsTable(t1, M) /\ M >= N
        <3>1. CASE t1 = t
            BY <1>2, <3>1
        <3>2. CASE Grown(t1)
            <4>1. PICK M : IsTable(t1, M) /\ M > N
                BY <3>2
            <4>2. M \in Nat
                BY <4>1 DEF IsTable
            <4> QED BY <1>2, <4>1, <4>2
        <3> QED BY <1>4, <1>5, <3>1, <3>2
    <2>2. M \in Nat /\ 2 * M > N
        BY <1>2, <2>1 DEF IsTable
    <2>3. \A n \in again : IsTable(n, 2 * M)
        BY <2>1, RehashTyped
    <2> HIDE DEF again
    <2>4. IsTable(t2, 2 * M)
        BY <1>5, <2>3, TheIs
    <2> HIDE DEF t2
    <2> QED BY <2>2, <2>4
<1>6. \A u : Grown(u) => \E M : IsTable(u, M) /\ M # N
    <2> SUFFICES ASSUME NEW u, NEW M, IsTable(u, M), M > N PROVE M # N
        OBVIOUS
    <2>1. M \in Nat
        BY DEF IsTable
    <2> QED BY <1>2, <2>1
<1> HIDE DEF again, t2, Grown
<1>7. CASE grown = {}
    BY <1>1, <1>7
<1>8. CASE grown # {} /\ (Probe(t1, k) # NoSlot \/ again = {})
    BY <1>1, <1>4, <1>6, <1>8
<1>9. CASE grown # {} /\ ~(Probe(t1, k) # NoSlot \/ again = {})
    BY <1>1, <1>5, <1>6, <1>9
<1> QED BY <1>7, <1>8, <1>9

(* A put keeps the keys of a table that does not grow, or adds one.         *)
LEMMA PutKeyTyped ==
    ASSUME HashOK, NEW N, IsTable(table, N), length \in Int, NEW k \in Keys, NEW v \in Values, PutKey(k, v)
    PROVE  /\ length' \in Int
           /\ \/ (\E M : IsTable(table', M)) /\ (mitr.mode = "iterate" => freedTable')
              \/ /\ IsTable(table', N)
                 /\ \/ SameKeys(table, table') /\ length' = length
                    \/ /\ length' # length
                       /\ \A s \in 0..N - 1 : table[s] # Empty => table'[s] = table[s]
<1>1. PICK u : /\ PutPlace(table, length, k)[1] = u /\ PutPlace(table, length, k)[2] \in {Probe(u, k), NoSlot}
               /\ u = table \/ \E M : IsTable(u, M) /\ M # N
    BY PutPlaceTyped
<1>2. PICK s : s = PutPlace(table, length, k)[2]
    OBVIOUS
<1>3. \/ table' = u /\ UNCHANGED length
      \/ /\ s # NoSlot
         /\ table' = [u EXCEPT ![s] = EntryFor(k, v)]
         /\ length' = IF u[s] = Empty THEN length + 1 ELSE length
    BY <1>1, <1>2 DEF PutKey, EntryFor
<1>4. length' \in Int
    BY <1>3
<1>5. EntryFor(k, v) \in Entries /\ EntryFor(k, v).key = k
    BY DEF EntryFor, Entries, Values
<1>6. EntryFor(k, v) # Empty
    BY <1>5, HashMapAssumption DEF Entries
<1>7. PICK e : e = EntryFor(k, v)
    OBVIOUS
<1>8. CASE u # table
    <2>1. PICK M : IsTable(u, M) /\ M # N
        BY <1>1, <1>8
    <2>2. IsTable(table', M)
        BY <1>3, <1>5, <2>1 DEF IsTable
    <2>3. Size(u) = M /\ Size(table) = N
        BY <2>1, TableIs
    <2>4. mitr.mode = "iterate" => freedTable'
        BY <1>1, <2>1, <2>3 DEF PutKey
    <2> QED BY <1>4, <2>2, <2>4
<1>9. CASE u = table
    <2>1. IsTable(table', N)
        BY <1>3, <1>5, <1>9 DEF IsTable
    <2>2. DOMAIN table = 0..N - 1
        BY TableIs
    <2>3. CASE table' = u /\ UNCHANGED length
        BY <1>4, <1>9, <2>1, <2>3 DEF SameKeys
    <2>4. CASE /\ s # NoSlot /\ table' = [u EXCEPT ![s] = e]
               /\ length' = IF u[s] = Empty THEN length + 1 ELSE length
        <3>1. s = Probe(table, k)
            BY <1>1, <1>2, <1>9, <2>4
        <3>2. s \in 0..N - 1 /\ (table[s] = Empty \/ table[s].key = k)
            BY <2>4, <3>1, ProbeIs
        <3>3. table'[s] = e /\ \A r \in 0..N - 1 : r # s => table'[r] = table[r]
            BY <1>9, <2>2, <2>4, <3>2
        <3>4. CASE table[s] = Empty
            BY <1>4, <1>9, <2>1, <2>4, <3>2, <3>3, <3>4
        <3>5. CASE table[s] # Empty /\ table[s].key = k
            <4>1. DOMAIN table' = 0..N - 1
                BY <1>9, <2>2, <2>4
            <4>2. SameKeys(table, table')
                BY <1>5, <1>6, <1>7, <2>2, <3>2, <3>3, <3>5, <4>1 DEF SameKeys
            <4>3. length' = length
                BY <1>9, <2>4, <3>5
            <4> QED BY <1>4, <2>1, <4>2, <4>3
        <3> QED BY <3>2, <3>4, <3>5
    <2> QED BY <1>3, <1>7, <2>3, <2>4
<1> QED BY <1>8, <1>9

LEMMA RemoveSlotTyped ==
    ASSUME NEW N, IsTable(table, N), length \in Int, NEW s \in 0..N - 1, RemoveSlot(s)
    PROVE  /\ IsTable(table', N) /\ ShiftedBack(table, N, s, table')
           /\ length' \in Int /\ length' # length
<1>1. PICK n : n = table'
    OBVIOUS
<1>2. n = ClearElem(table, s) /\ length' = length - 1
    BY <1>1 DEF RemoveSlot
<1>3. IsTable(n, N) /\ ShiftedBack(table, N, s, n)
    BY <1>2, ClearElemBack
<1> QED BY <1>1, <1>2, <1>3

(***************************************************************************)
(* A walk under way.                                                       *)
(***************************************************************************)
From(r) == IF r.removed THEN r.pos ELSE r.pos + 1

(* Nothing is left out: what was there at the beginning was shown or        *)
(* removed, or is ahead.  Nothing was shown twice, nor is ahead again.      *)
Covered(r, t) == r.start \subseteq ToSet(r.seen) \cup r.gone \cup Ahead(t, From(r))
Once(r, t) ==
    /\ ~Wraps(t) /\ IsInjective(r.seen)
    /\ \A k \in Ahead(t, From(r)) : k \notin ToSet(r.seen)

Walking(r, t) == Covered(r, t) /\ (~r.wrapped /\ ~longRun => Once(r, t))

IterInv ==
    /\ HashOK /\ length \in Int /\ (\E N : IsTable(table, N))
    /\ Standing(mitr, table) /\ (mitr.mode = "iterate" => ~mitr.removed)
    /\ (mclearing => mitr.mode = "itr")
    /\ (mitr.mode # "none" /\ ~freedTable => Walking(mitr, table))

LEMMA AppendSeen ==
    ASSUME NEW s \in Seq(Keys), NEW x \in Keys
    PROVE  /\ Append(s, x) \in Seq(Keys) /\ ToSet(Append(s, x)) = ToSet(s) \cup {x}
           /\ IsInjective(s) /\ x \notin ToSet(s) => IsInjective(Append(s, x))
<1>1. PICK q : q = Append(s, x)
    OBVIOUS
<1>2. q \in Seq(Keys) /\ Len(q) = Len(s) + 1 /\ Len(s) \in Nat
    BY <1>1
<1>3. DOMAIN q = 1..Len(s) + 1 /\ DOMAIN s = 1..Len(s)
    BY <1>2
<1>4. q[Len(s) + 1] = x /\ \A i \in 1..Len(s) : q[i] = s[i]
    BY <1>1, <1>2
<1>5. \A i : i \in 1..Len(s) + 1 <=> i \in 1..Len(s) \/ i = Len(s) + 1
    BY <1>2
<1>6. ToSet(q) = ToSet(s) \cup {x}
    BY <1>3, <1>4, <1>5 DEF ToSet
<1>7. ASSUME IsInjective(s), x \notin ToSet(s) PROVE IsInjective(q)
    <2>1. \A i \in 1..Len(s) : s[i] # x
        BY <1>3, <1>7 DEF ToSet
    <2>2. \A i, j \in 1..Len(s) : s[i] = s[j] => i = j
        BY <1>3, <1>7 DEF IsInjective
    <2>3. \A i, j \in 1..Len(s) + 1 : q[i] = q[j] => i = j
        BY <1>4, <1>5, <2>1, <2>2
    <2> QED BY <1>3, <2>3 DEF IsInjective
<1> QED BY <1>1, <1>2, <1>6, <1>7

(* A walk that goes on from slot i.                                         *)
LEMMA WalkGoes ==
    ASSUME NEW walk \in MapItrs, NEW t, NEW N, IsTable(t, N), NEW i \in Nat, WalkFrom(walk, t, i),
           mitr'.mode # "none", NEW r, r = mitr'
    PROVE  /\ ~r.removed /\ r.wrapped = walk.wrapped
           /\ walk.start \subseteq ToSet(walk.seen) \cup walk.gone \cup Ahead(t, i) => Covered(r, t)
           /\ Placed(t, N) /\ ~Wraps(t) /\ IsInjective(walk.seen)
                 /\ (\A k \in Ahead(t, i) : k \notin ToSet(walk.seen)) => Once(r, t)
<1> DEFINE ahead == {j \in Occupied(t) : j >= i}
<1>1. r = IF ahead = {} THEN NoMapItr
          ELSE [walk EXCEPT !.pos = Min(ahead), !.removed = FALSE,
                            !.seen = Append(@, t[Min(ahead)].key)]
    BY DEF WalkFrom
<1>2. ahead # {}
    BY <1>1, NoMapItrIs
<1>3. DOMAIN t = 0..N - 1 /\ N \in Nat
    BY TableIs DEF IsTable
<1>4. ahead \subseteq Nat /\ \A s : s \in ahead <=> s \in 0..N - 1 /\ t[s] # Empty /\ s >= i
    BY <1>3 DEF Occupied
<1> HIDE DEF ahead
<1>5. PICK m : m = Min(ahead) /\ m \in ahead /\ \A s \in ahead : m <= s
    BY <1>2, <1>4, MinNat
<1>6. m \in 0..N - 1 /\ t[m] # Empty /\ m >= i
    BY <1>4, <1>5
<1>7. PICK x : x = t[m].key /\ x \in Keys
    BY <1>6, TableIs
<1>8. walk.seen \in Seq(Keys)
    BY DEF MapItrs
<1>9. PICK q : q = Append(walk.seen, x) /\ q \in Seq(Keys)
    BY <1>7, <1>8, AppendSeen
<1>10. r = [walk EXCEPT !.pos = m, !.removed = FALSE, !.seen = q]
    BY <1>1, <1>2, <1>5, <1>7, <1>9 DEF MapItrs
<1>11. /\ r.pos = m /\ ~r.removed /\ r.seen = q /\ r.start = walk.start /\ r.gone = walk.gone
       /\ r.wrapped = walk.wrapped
    BY <1>10 DEF MapItrs
<1>12. From(r) = m + 1
    BY <1>11 DEF From
<1>13. ToSet(q) = ToSet(walk.seen) \cup {x}
       /\ (IsInjective(walk.seen) /\ x \notin ToSet(walk.seen) => IsInjective(q))
    BY <1>7, <1>8, <1>9, AppendSeen
<1>14. \A k : k \in Ahead(t, i) <=> \E s \in 0..N - 1 : s >= i /\ t[s] # Empty /\ t[s].key = k
    BY AheadIs
<1>15. \A k : k \in Ahead(t, m + 1) <=> \E s \in 0..N - 1 : s >= m + 1 /\ t[s] # Empty /\ t[s].key = k
    BY AheadIs
<1>16. x \in Ahead(t, i)
    BY <1>6, <1>7, <1>14
<1>17. Ahead(t, i) \subseteq {x} \cup Ahead(t, m + 1)
    <2> SUFFICES ASSUME NEW k \in Ahead(t, i), k # x PROVE k \in Ahead(t, m + 1)
        OBVIOUS
    <2>1. PICK s \in 0..N - 1 : s >= i /\ t[s] # Empty /\ t[s].key = k
        BY <1>14
    <2>2. m <= s /\ m # s
        BY <1>4, <1>5, <1>7, <2>1
    <2>3. s >= m + 1
        BY <1>6, <2>2
    <2> QED BY <1>15, <2>1, <2>3
<1>18. Ahead(t, m + 1) \subseteq Ahead(t, i)
    <2>1. \A s \in 0..N - 1 : s >= m + 1 => s >= i
        BY <1>6
    <2> QED BY <1>14, <1>15, <2>1
<1>19. walk.start \subseteq ToSet(walk.seen) \cup walk.gone \cup Ahead(t, i) => Covered(r, t)
    BY <1>11, <1>12, <1>13, <1>17 DEF Covered
<1>20. ASSUME Placed(t, N), ~Wraps(t), IsInjective(walk.seen),
              \A k \in Ahead(t, i) : k \notin ToSet(walk.seen)
       PROVE  Once(r, t)
    <2>1. x \notin Ahead(t, m + 1)
        <3>1. SUFFICES ASSUME NEW s \in 0..N - 1, s >= m + 1, t[s] # Empty, t[s].key = x PROVE FALSE
            BY <1>15
        <3>2. s = m
            BY <1>6, <1>7, <1>20, <3>1 DEF Placed
        <3> QED BY <1>6, <3>1, <3>2
    <2>2. IsInjective(q)
        BY <1>13, <1>16, <1>20
    <2>3. \A k \in Ahead(t, m + 1) : k \notin ToSet(q)
        BY <1>13, <1>18, <1>20, <2>1
    <2> QED BY <1>11, <1>12, <1>20, <2>2, <2>3 DEF Once
<1> QED BY <1>11, <1>19, <1>20

LEMMA WalkEnds ==
    ASSUME NEW walk, walk.mode # "none", NEW t, NEW i, WalkFrom(walk, t, i), mitr'.mode = "none",
           walk \in MapItrs
    PROVE  Ahead(t, i) = {}
<1> DEFINE ahead == {j \in Occupied(t) : j >= i}
<1>1. mitr' = IF ahead = {} THEN NoMapItr
              ELSE [walk EXCEPT !.pos = Min(ahead), !.removed = FALSE,
                                !.seen = Append(@, t[Min(ahead)].key)]
    BY DEF WalkFrom
<1>2. \A p, q : [walk EXCEPT !.pos = p, !.removed = FALSE, !.seen = q].mode = walk.mode
    BY DEF MapItrs
<1>3. ahead = {}
    BY <1>1, <1>2
<1> QED BY <1>3 DEF Ahead

(* The table that follows, when no long run was met.                        *)
LEMMA PlacedNow ==
    ASSUME MapInv, ~longRun, NEW N, IsTable(table, N)
    PROVE  Placed(table, N)
<1>1. \E M : Sound(M)
    BY DEF MapInv, MapOK
<1>2. PICK M : Sound(M)
    BY <1>1
<1>3. IsTable(table, M) /\ Placed(table, M)
    BY <1>2 DEF Sound
<1>4. M = N
    <2>1. Size(table) = M /\ Size(table) = N
        BY <1>3, TableIs
    <2> QED BY <2>1
<1> QED BY <1>3, <1>4

LEMMA PlacedNext ==
    ASSUME MapInv', ~longRun', UNCHANGED hash, NEW n, n = table', NEW N, IsTable(n, N)
    PROVE  Placed(n, N)
<1>1. \E M : Sound(M)'
    BY DEF MapInv, MapOK
<1>2. PICK M : Sound(M)'
    BY <1>1
<1>3. IsTable(n, M) /\ Placed(n, M)'
    BY <1>2 DEF Sound
<1>4. Placed(n, M)
    BY <1>3 DEF Placed, HomeIn
<1>5. M = N
    <2>1. Size(n) = M /\ Size(n) = N
        BY <1>3, TableIs
    <2> QED BY <2>1
<1> QED BY <1>4, <1>5

(* clear_elem at the slot of a walk, or at another slot when the walk's     *)
(* slot gets another entry for it.                                         *)
LEMMA AheadAfter ==
    ASSUME NEW t, NEW N, IsTable(t, N), NEW s \in 0..N - 1, t[s] # Empty, NEW p \in 0..N - 1,
           NEW n, n = ClearElem(t, s), s = p \/ (t[p] # Empty /\ n[p] # t[p])
    PROVE  /\ Ahead(t, p + 1) \subseteq Ahead(n, p) \cup (IF s = p THEN {} ELSE {t[s].key})
           /\ Ahead(n, p) = {} => Ahead(t, p + 1) = {}
           /\ HashOK /\ Placed(t, N) /\ ~Wraps(t) /\ ~InLongRun(t, s)
                 => ~Wraps(n) /\ Ahead(n, p) \subseteq Ahead(t, p + 1)
<1>1. IsTable(n, N) /\ ShiftedBack(t, N, s, n)
    BY ClearElemBack
<1>2. \A k : k \in Ahead(t, p + 1) <=> \E r \in 0..N - 1 : r >= p + 1 /\ t[r] # Empty /\ t[r].key = k
    BY AheadIs
<1>3. \A k : k \in Ahead(n, p) <=> \E r \in 0..N - 1 : r >= p /\ n[r] # Empty /\ n[r].key = k
    BY <1>1, AheadIs
<1>4. \A r \in 0..N - 1 : (r >= p + 1 <=> r > p) /\ (r > p <=> r >= p /\ r # p)
    OBVIOUS
<1>5. ASSUME NEW r \in 0..N - 1, r > p, r # s, t[r] # Empty PROVE t[r].key \in Ahead(n, p)
    <2>1. PICK q \in 0..N - 1 : q >= p /\ n[q] = t[r]
        BY <1>1, <1>5, AheadKept
    <2> QED BY <1>3, <1>5, <2>1
<1>6. Ahead(t, p + 1) \subseteq Ahead(n, p) \cup (IF s = p THEN {} ELSE {t[s].key})
    BY <1>2, <1>4, <1>5
<1>7. ASSUME Ahead(n, p) = {} PROVE Ahead(t, p + 1) = {}
    <2>1. SUFFICES ASSUME NEW r \in 0..N - 1, r > p, t[r] # Empty PROVE FALSE
        BY <1>2, <1>4
    <2>2. r = s /\ s # p
        BY <1>4, <1>5, <1>7, <2>1
    <2>3. n[s] # Empty
        BY <1>1, <2>2 DEF ShiftedBack
    <2>4. n[s].key \in Ahead(n, p)
        BY <1>3, <1>4, <2>1, <2>2, <2>3
    <2> QED BY <1>7, <2>4
<1>8. ASSUME HashOK, Placed(t, N), ~Wraps(t), ~InLongRun(t, s)
      PROVE  ~Wraps(n) /\ Ahead(n, p) \subseteq Ahead(t, p + 1)
    <2>1. ~Wraps(n) /\ \A q \in 0..N - 1 : n[q] # Empty => \E r \in 0..N - 1 : r # s /\ q <= r /\ t[r] = n[q]
        BY <1>8, UnwrappedKept
    <2>2. ASSUME NEW k \in Ahead(n, p) PROVE k \in Ahead(t, p + 1)
        <3>1. PICK q \in 0..N - 1 : q >= p /\ n[q] # Empty /\ n[q].key = k
            BY <1>3, <2>2
        <3>2. PICK r \in 0..N - 1 : r # s /\ q <= r /\ t[r] = n[q]
            BY <2>1, <3>1
        <3>3. r >= p /\ (r = p => q = p)
            BY <3>1, <3>2
        <3>4. r # p
            BY <3>2, <3>3
        <3>5. r >= p + 1
            BY <1>4, <3>3, <3>4
        <3> QED BY <1>2, <3>1, <3>2, <3>5
    <2> QED BY <2>1, <2>2
<1> QED BY <1>6, <1>7, <1>8

(***************************************************************************)
(* The steps of a walk.                                                    *)
(***************************************************************************)
AllShown == mitr.start \subseteq ToSet(mitr.seen) \cup mitr.gone

(* What a step of a walk does: it goes on, or has shown everything.         *)
Onward ==
    /\ mitr'.mode # "none" /\ ~freedTable' => Walking(mitr, table)'
    /\ mitr'.mode = "none" => AllShown

LEMMA WalkingNext ==
    ASSUME UNCHANGED hash, NEW r, r = mitr', NEW n, n = table'
    PROVE  Walking(mitr, table)' <=> Covered(r, n) /\ (~r.wrapped /\ ~longRun' => Once(r, n))
<1>1. Covered(mitr, table)' <=> Covered(r, n)
    BY DEF Covered
<1>2. Once(mitr, table)' <=> Once(r, n)
    BY DEF Once, Wraps, Home
<1> QED BY <1>1, <1>2 DEF Walking

LEMMA StartSteps ==
    ASSUME MapInv', UNCHANGED <<tableVars, hash>>, NEW N, IsTable(table, N),
           NEW mode \in {"itr", "iterate"}, WalkStart(mode), mitr'.mode # "none"
    PROVE  Walking(mitr, table)' /\ ~mitr'.removed
<1>1. PICK n, r : n = table /\ n = table' /\ r = mitr'
    BY DEF tableVars
<1> DEFINE w == [NoMapItr EXCEPT !.mode = mode, !.start = KeysOf(table), !.wrapped = Wraps(table)]
<1>2. WalkFrom(w, n, 0)
    BY <1>1 DEF WalkStart
<1>3. KeysOf(table) \subseteq Keys /\ Wraps(table) \in BOOLEAN
    BY TableIs DEF KeysOf, Occupied, Wraps
<1>4. /\ w \in MapItrs /\ w.mode = mode /\ w.start = KeysOf(n) /\ w.wrapped = Wraps(n)
      /\ w.seen = <<>> /\ w.gone = {}
    <2>1. NoMapItr.seen = <<>> /\ NoMapItr.gone = {}
        BY DEF NoMapItr
    <2> QED BY <1>1, <1>3, <2>1, NoMapItrIs DEF MapItrs
<1>5. KeysOf(n) = Ahead(n, 0)
    <2>1. \A j \in Occupied(n) : j >= 0
        <3>1. DOMAIN table = 0..N - 1 /\ n = table
            BY <1>1, TableIs
        <3> QED BY <3>1 DEF Occupied
    <2> QED BY <2>1 DEF KeysOf, Ahead
<1> HIDE DEF w
<1>6. ToSet(<<>>) = {} /\ IsInjective(<<>>)
    BY DEF ToSet, IsInjective
<1>7. IsTable(n, N)
    BY <1>1
<1>8. /\ ~r.removed /\ r.wrapped = w.wrapped
      /\ w.start \subseteq ToSet(w.seen) \cup w.gone \cup Ahead(n, 0) => Covered(r, n)
      /\ Placed(n, N) /\ ~Wraps(n) /\ IsInjective(w.seen)
                 /\ (\A k \in Ahead(n, 0) : k \notin ToSet(w.seen)) => Once(r, n)
    BY <1>1, <1>2, <1>4, <1>7, WalkGoes
<1>9. Covered(r, n)
    BY <1>4, <1>5, <1>8
<1>10. ASSUME ~r.wrapped, ~longRun' PROVE Once(r, n)
    <2>1. Placed(n, N)
        BY <1>1, <1>7, <1>10, PlacedNext
    <2> QED BY <1>4, <1>6, <1>8, <1>10, <2>1
<1> QED BY <1>1, <1>8, <1>9, <1>10, WalkingNext

(* A walk that goes on where it is, in a table with the same keys.          *)
LEMMA AdvanceSteps ==
    ASSUME IterInv, MapInv', UNCHANGED <<longRun, hash>>, mitr.mode # "none", ~freedTable,
           NEW N, IsTable(table, N), NEW n, n = table', IsTable(n, N), SameKeys(table, n),
           WalkFrom(mitr, n, From(mitr))
    PROVE  Onward /\ ~mitr'.removed
<1>1. /\ mitr \in MapItrs /\ Covered(mitr, table) /\ (~mitr.wrapped /\ ~longRun => Once(mitr, table))
    BY DEF IterInv, Standing, Walking
<1>2. PICK i : i = From(mitr) /\ i \in Nat
    BY <1>1 DEF From, MapItrs
<1>3. Ahead(n, i) = Ahead(table, i) /\ (Wraps(n) <=> Wraps(table))
    BY SameAhead
<1>4. mitr.start \subseteq ToSet(mitr.seen) \cup mitr.gone \cup Ahead(n, i)
    BY <1>1, <1>2, <1>3 DEF Covered
<1>5. CASE mitr'.mode = "none"
    <2>1. Ahead(n, i) = {}
        BY <1>1, <1>2, <1>5, WalkEnds
    <2>2. ~mitr'.removed
        <3>1. mitr' = NoMapItr \/ mitr'.mode = mitr.mode
            <4> DEFINE ahead == {j \in Occupied(n) : j >= i}
            <4>1. mitr' = IF ahead = {} THEN NoMapItr
                          ELSE [mitr EXCEPT !.pos = Min(ahead), !.removed = FALSE,
                                            !.seen = Append(@, n[Min(ahead)].key)]
                BY <1>2 DEF WalkFrom
            <4> HIDE DEF ahead
            <4> QED BY <1>1, <4>1 DEF MapItrs
        <3> QED BY <1>5, <3>1 DEF NoMapItr
    <2> QED BY <1>4, <1>5, <2>1, <2>2 DEF Onward, AllShown
<1>6. CASE mitr'.mode # "none"
    <2>1. PICK r : r = mitr'
        OBVIOUS
    <2>2. /\ ~r.removed /\ r.wrapped = mitr.wrapped
          /\ mitr.start \subseteq ToSet(mitr.seen) \cup mitr.gone \cup Ahead(n, i) => Covered(r, n)
          /\ Placed(n, N) /\ ~Wraps(n) /\ IsInjective(mitr.seen)
                 /\ (\A k \in Ahead(n, i) : k \notin ToSet(mitr.seen)) => Once(r, n)
        BY <1>1, <1>2, <1>6, <2>1, WalkGoes
    <2>3. ASSUME ~r.wrapped, ~longRun' PROVE Once(r, n)
        <3>1. Placed(n, N)
            BY <2>3, PlacedNext
        <3>2. Once(mitr, table)
            BY <1>1, <2>2, <2>3
        <3> QED BY <1>2, <1>3, <2>2, <3>1, <3>2 DEF Once
    <2> QED BY <1>4, <1>6, <2>1, <2>2, <2>3, WalkingNext DEF Onward
<1> QED BY <1>5, <1>6

(* The walk stands on an entry that it removes.                             *)
LEMMA RemoveCurSteps ==
    ASSUME IterInv, MapInv, UNCHANGED hash, mitr.mode # "none", ~freedTable, MapItrRemoveCur,
           NEW N, IsTable(table, N)
    PROVE  /\ Walking(mitr, table)' /\ mitr'.mode = mitr.mode /\ mitr' \in MapItrs /\ mitr'.removed
           /\ IsTable(table', N) /\ length' \in Int
<1>1. /\ mitr \in MapItrs /\ Covered(mitr, table) /\ (~mitr.wrapped /\ ~longRun => Once(mitr, table))
      /\ HashOK /\ length \in Int
    BY DEF IterInv, Standing, Walking
<1>2. ~mitr.removed /\ RemoveSlot(mitr.pos) /\ mitr' = [mitr EXCEPT !.removed = TRUE]
    BY DEF MapItrRemoveCur
<1>3. PICK p, n, r : p = mitr.pos /\ n = table' /\ r = mitr'
    OBVIOUS
<1>4. p \in 0..N - 1 /\ table[p] # Empty
    <2>1. p \in Occupied(table)
        BY <1>2, <1>3 DEF IterInv, Standing
    <2> QED BY <2>1, TableIs DEF Occupied
<1>5. n = ClearElem(table, p) /\ (~longRun' => ~longRun /\ ~InLongRun(table, p))
    BY <1>2, <1>3 DEF RemoveSlot
<1>6. /\ r \in MapItrs /\ r.removed /\ r.pos = p /\ r.seen = mitr.seen /\ r.start = mitr.start
      /\ r.gone = mitr.gone /\ r.wrapped = mitr.wrapped /\ r.mode = mitr.mode
    BY <1>1, <1>2, <1>3 DEF MapItrs
<1>7. From(mitr) = p + 1 /\ From(r) = p
    BY <1>2, <1>3, <1>6 DEF From
<1>8. /\ Ahead(table, p + 1) \subseteq Ahead(n, p)
      /\ HashOK /\ Placed(table, N) /\ ~Wraps(table) /\ ~InLongRun(table, p)
             => ~Wraps(n) /\ Ahead(n, p) \subseteq Ahead(table, p + 1)
    BY <1>4, <1>5, AheadAfter
<1>9. Covered(r, n)
    BY <1>1, <1>6, <1>7, <1>8 DEF Covered
<1>10. ASSUME ~r.wrapped, ~longRun' PROVE Once(r, n)
    <2>1. Placed(table, N)
        BY <1>5, <1>10, PlacedNow
    <2>2. Once(mitr, table)
        BY <1>1, <1>5, <1>6, <1>10
    <2>3. ~Wraps(n) /\ Ahead(n, p) \subseteq Ahead(table, p + 1)
        BY <1>1, <1>5, <1>8, <1>10, <2>1, <2>2 DEF Once
    <2> QED BY <1>6, <1>7, <2>2, <2>3 DEF Once
<1>11. IsTable(table', N) /\ length' \in Int
    BY <1>1, <1>2, <1>3, <1>4, RemoveSlotTyped
<1> QED BY <1>3, <1>6, <1>9, <1>10, <1>11, WalkingNext

(* The callback returns, the entry at the slot has stayed.                  *)
LEMMA StayedSteps ==
    ASSUME IterInv, MapInv', InCallback, AfterCallback({}), UNCHANGED <<longRun, hash>>,
           NEW N, IsTable(table, N), NEW n, n = table', IsTable(n, N), SameKeys(table, n),
           length' = length
    PROVE  Onward /\ ~mitr'.removed
<1>1. mitr.mode = "iterate" /\ ~freedTable /\ mitr \in MapItrs /\ ~mitr.removed
    BY DEF InCallback, Defined, IterInv, Standing
<1>2. mitr.pos \in DOMAIN table /\ table[mitr.pos] # Empty
    BY <1>1 DEF IterInv, Standing, Occupied
<1>3. ~SlotChanged
    BY <1>2 DEF SlotChanged, SameKeys
<1>4. [mitr EXCEPT !.gone = @ \cup {}] = mitr
    BY <1>1 DEF MapItrs
<1>5. WalkFrom(mitr, n, mitr.pos + 1)
    BY <1>3, <1>4 DEF AfterCallback, Refused
<1>6. From(mitr) = mitr.pos + 1
    BY <1>1 DEF From
<1> QED BY <1>1, <1>5, <1>6, AdvanceSteps

LEMMA CallbackPutsSteps ==
    ASSUME IterInv, MapInv', NEW k \in Keys, NEW i \in Versions, CallbackPuts(k, <<k, i>>)
    PROVE  /\ length' \in Int /\ (\E M : IsTable(table', M)) /\ ~mitr'.removed
           /\ Refused \/ freedTable' \/ Onward
           /\ mitr'.mode = "none" \/ freedTable' \/ Onward
<1>1. PICK v : v = <<k, i>> /\ v \in Values
    BY DEF Values
<1>2. PutKey(k, v) /\ AfterCallback({}) /\ UNCHANGED hash /\ InCallback /\ UNCHANGED longRun
    BY <1>1 DEF CallbackPuts, PutKey
<1>3. HashOK /\ length \in Int /\ mitr.mode = "iterate"
    BY <1>2 DEF IterInv, InCallback
<1>4. PICK N : IsTable(table, N)
    BY DEF IterInv
<1>5. /\ length' \in Int
      /\ \/ (\E M : IsTable(table', M)) /\ (mitr.mode = "iterate" => freedTable')
         \/ /\ IsTable(table', N)
            /\ \/ SameKeys(table, table') /\ length' = length
               \/ /\ length' # length
                  /\ \A s \in 0..N - 1 : table[s] # Empty => table'[s] = table[s]
    BY <1>1, <1>2, <1>3, <1>4, PutKeyTyped
<1>6. ~mitr'.removed
    <2>1. mitr' = NoMapItr \/ \E w, j : WalkFrom(w, table', j) /\ w \in MapItrs
        <3>1. [mitr EXCEPT !.gone = @ \cup {}] = mitr /\ mitr \in MapItrs
            BY DEF MapItrs, IterInv, Standing
        <3> QED BY <1>2, <3>1 DEF AfterCallback
    <2>2. ASSUME NEW w \in MapItrs, NEW j, WalkFrom(w, table', j) PROVE ~mitr'.removed
        BY <2>2 DEF WalkFrom, MapItrs, NoMapItr
    <2> QED BY <2>1, <2>2 DEF NoMapItr
<1>7. CASE (\E M : IsTable(table', M)) /\ freedTable'
    BY <1>5, <1>6, <1>7
<1>8. CASE IsTable(table', N) /\ SameKeys(table, table') /\ length' = length
    <2>1. PICK n : n = table'
        OBVIOUS
    <2>2. Onward
        BY <1>2, <1>4, <1>8, <2>1, StayedSteps
    <2> QED BY <1>5, <1>6, <1>8, <2>2
<1>9. CASE /\ IsTable(table', N) /\ length' # length
           /\ \A s \in 0..N - 1 : table[s] # Empty => table'[s] = table[s]
    <2>1. mitr.pos \in 0..N - 1 /\ table[mitr.pos] # Empty
        <3>1. mitr.pos \in Occupied(table)
            BY <1>3 DEF IterInv, Standing
        <3> QED BY <1>4, <3>1, TableIs DEF Occupied
    <2>2. Refused
        BY <1>9, <2>1 DEF Refused, SlotChanged
    <2>3. mitr'.mode = "none"
        BY <1>2, <2>2, NoMapItrIs DEF AfterCallback
    <2> QED BY <1>5, <1>6, <1>9, <2>2, <2>3
<1> QED BY <1>3, <1>5, <1>7, <1>8, <1>9

LEMMA CallbackRemovesSteps ==
    ASSUME IterInv, MapInv, MapInv', NEW k \in Keys, CallbackRemoves(k)
    PROVE  /\ length' \in Int /\ (\E M : IsTable(table', M)) /\ ~mitr'.removed
           /\ Refused \/ Onward
           /\ mitr'.mode = "none" \/ Onward
<1>1. RemoveKey(k) /\ AfterCallback({k}) /\ UNCHANGED hash /\ InCallback
    BY DEF CallbackRemoves
<1>2. /\ HashOK /\ length \in Int /\ mitr.mode = "iterate" /\ ~freedTable /\ ~mitr.removed
      /\ mitr \in MapItrs /\ Covered(mitr, table) /\ (~mitr.wrapped /\ ~longRun => Once(mitr, table))
    BY <1>1 DEF IterInv, InCallback, Defined, Standing, Walking
<1>3. PICK N : IsTable(table, N)
    BY DEF IterInv
<1>4. PICK s : s = Lookup(table, k)
    OBVIOUS
<1>5. s \in 0..N - 1 /\ table[s] # Empty /\ table[s].key = k
    <2>1. s = Probe(table, k) /\ s # NoSlot /\ table[s] # Empty
        BY <1>1, <1>4 DEF RemoveKey, Lookup
    <2> QED BY <1>2, <1>3, <2>1, ProbeIs
<1>6. RemoveSlot(s)
    BY <1>1, <1>4 DEF RemoveKey
<1>7. PICK p, n : p = mitr.pos /\ n = table'
    OBVIOUS
<1>8. IsTable(table', N) /\ length' \in Int /\ length' # length
    BY <1>2, <1>3, <1>5, <1>6, RemoveSlotTyped
<1>9. p \in 0..N - 1 /\ table[p] # Empty /\ p \in Nat
    <2>1. p \in Occupied(table)
        BY <1>2, <1>7 DEF IterInv, Standing
    <2>2. p \in 0..N - 1 /\ table[p] # Empty
        BY <1>3, <2>1, TableIs DEF Occupied
    <2> QED BY <2>2
<1>10. n = ClearElem(table, s) /\ (~longRun' => ~longRun /\ ~InLongRun(table, s))
    BY <1>6, <1>7 DEF RemoveSlot
<1> DEFINE w == [mitr EXCEPT !.gone = @ \cup {k}]
<1>11. /\ w \in MapItrs /\ w.mode = "iterate" /\ w.seen = mitr.seen /\ w.start = mitr.start
       /\ w.gone = mitr.gone \cup {k} /\ w.wrapped = mitr.wrapped
    <2>0. mitr.gone \subseteq Keys
        BY <1>2 DEF MapItrs
    <2>1. PICK g : g = mitr.gone \cup {k}
        OBVIOUS
    <2>3. g \in SUBSET Keys
        BY <2>0, <2>1
    <2>2. w = [mitr EXCEPT !.gone = g]
        BY <1>2, <2>1 DEF MapItrs
    <2> HIDE DEF w
    <2> QED BY <1>2, <2>1, <2>2, <2>3 DEF MapItrs
<1>12. IF Refused THEN mitr' = NoMapItr ELSE WalkFrom(w, n, IF SlotChanged THEN p ELSE p + 1)
    BY <1>1, <1>7 DEF AfterCallback
<1> HIDE DEF w
<1>13. CASE ~SlotChanged
    <2>1. Refused
        BY <1>8, <1>13 DEF Refused
    <2>2. mitr'.mode = "none" /\ ~mitr'.removed
        BY <1>12, <2>1, NoMapItrIs DEF NoMapItr
    <2> QED BY <1>8, <2>1, <2>2
<1>14. CASE SlotChanged
    <2>1. WalkFrom(w, n, p)
        BY <1>12, <1>14 DEF Refused
    <2>2. n[p] # table[p]
        BY <1>7, <1>9, <1>14 DEF SlotChanged
    <2>3. /\ Ahead(table, p + 1) \subseteq Ahead(n, p) \cup (IF s = p THEN {} ELSE {table[s].key})
          /\ Ahead(n, p) = {} => Ahead(table, p + 1) = {}
          /\ HashOK /\ Placed(table, N) /\ ~Wraps(table) /\ ~InLongRun(table, s)
                 => ~Wraps(n) /\ Ahead(n, p) \subseteq Ahead(table, p + 1)
        BY <1>3, <1>5, <1>9, <1>10, <2>2, AheadAfter
    <2>4. From(mitr) = p + 1
        BY <1>2, <1>7 DEF From
    <2>5. w.start \subseteq ToSet(w.seen) \cup w.gone \cup Ahead(n, p)
        BY <1>2, <1>5, <1>11, <2>3, <2>4 DEF Covered
    <2>6. CASE mitr'.mode = "none"
        <3>1. Ahead(n, p) = {}
            BY <1>11, <2>1, <2>6, WalkEnds
        <3>2. AllShown
            BY <1>2, <2>3, <2>4, <3>1 DEF Covered, AllShown
        <3>3. ~mitr'.removed
            <4> DEFINE ahead == {j \in Occupied(n) : j >= p}
            <4>1. mitr' = IF ahead = {} THEN NoMapItr
                          ELSE [w EXCEPT !.pos = Min(ahead), !.removed = FALSE,
                                         !.seen = Append(@, n[Min(ahead)].key)]
                BY <2>1 DEF WalkFrom
            <4> HIDE DEF ahead
            <4> QED BY <1>11, <4>1 DEF MapItrs, NoMapItr
        <3> QED BY <1>8, <2>6, <3>2, <3>3 DEF Onward
    <2>7. CASE mitr'.mode # "none"
        <3>1. PICK r : r = mitr'
            OBVIOUS
        <3>2. IsTable(n, N)
            BY <1>7, <1>8
        <3>3. /\ ~r.removed /\ r.wrapped = w.wrapped
              /\ w.start \subseteq ToSet(w.seen) \cup w.gone \cup Ahead(n, p) => Covered(r, n)
              /\ Placed(n, N) /\ ~Wraps(n) /\ IsInjective(w.seen)
                     /\ (\A x \in Ahead(n, p) : x \notin ToSet(w.seen)) => Once(r, n)
            BY <1>9, <1>11, <2>1, <2>7, <3>1, <3>2, WalkGoes
        <3>4. ASSUME ~r.wrapped, ~longRun' PROVE Once(r, n)
            <4>1. Placed(n, N)
                BY <1>1, <1>7, <3>2, <3>4, PlacedNext
            <4>2. Placed(table, N)
                BY <1>3, <1>10, <3>4, PlacedNow
            <4>3. Once(mitr, table)
                BY <1>2, <1>10, <1>11, <3>3, <3>4
            <4>4. ~Wraps(n) /\ Ahead(n, p) \subseteq Ahead(table, p + 1)
                BY <1>2, <1>10, <2>3, <3>4, <4>2, <4>3 DEF Once
            <4>5. IsInjective(w.seen) /\ \A x \in Ahead(n, p) : x \notin ToSet(w.seen)
                BY <1>11, <2>4, <4>3, <4>4 DEF Once
            <4> QED BY <3>3, <4>1, <4>4, <4>5
        <3>5. Walking(mitr, table)'
            BY <1>1, <1>7, <2>5, <3>1, <3>3, <3>4, WalkingNext
        <3> QED BY <1>8, <2>7, <3>1, <3>3, <3>5 DEF Onward
    <2> QED BY <2>6, <2>7
<1> QED BY <1>13, <1>14

(***************************************************************************)
(* Every step keeps the invariant of walks, and the last one has shown all. *)
(***************************************************************************)
(* Steps that leave the table alone.                                        *)
LEMMA QuietSteps ==
    ASSUME IterInv, MapInv, MapInv', UNCHANGED <<tableVars, hash>>,
           MapItrNew \/ MapItrNext \/ MapIterate \/ CallbackReturns \/ CallbackStops \/ MapClear
             \/ (mclearing /\ Defined /\ MapItrAdvance /\ mclearing' = (mitr'.mode # "none"))
    PROVE  /\ (mitr'.mode # "none" => Walking(mitr, table)')
           /\ (mitr'.mode = "iterate" => ~mitr'.removed)
           /\ (mclearing' => mitr'.mode = "itr")
           /\ (mitr.mode # "none" /\ mitr'.mode = "none" => AllShown \/ (CallbackStops /\ ~CallbackReturns))
<1>1. PICK N : IsTable(table, N)
    BY DEF IterInv
<1>2. PICK n : n = table /\ n = table'
    BY DEF tableVars
<1>3. /\ UNCHANGED longRun /\ UNCHANGED hash /\ freedTable' = freedTable /\ length' = length
      /\ IsTable(n, N) /\ SameKeys(table, n)
    BY <1>1, <1>2 DEF tableVars, SameKeys
<1>4. mitr \in MapItrs /\ (mclearing => mitr.mode = "itr") /\ (mitr.mode = "iterate" => ~mitr.removed)
    BY DEF IterInv, Standing
<1>5. ASSUME NEW mode \in {"itr", "iterate"}, WalkStart(mode)
      PROVE  /\ mitr'.mode # "none" => Walking(mitr, table)' /\ ~mitr'.removed
             /\ mitr'.mode \in {"none", mode}
    <2>1. mitr'.mode \in {"none", mode}
        BY <1>1, <1>5, WalkStarts
    <2>2. ASSUME mitr'.mode # "none" PROVE Walking(mitr, table)' /\ ~mitr'.removed
        BY <1>1, <1>5, <2>2, StartSteps
    <2> QED BY <2>1, <2>2
<1>6. ASSUME MapItrAdvance, mitr.mode # "none", ~freedTable
      PROVE  Onward /\ ~mitr'.removed /\ mitr'.mode \in {"none", mitr.mode}
    <2>1. WalkFrom(mitr, n, From(mitr))
        BY <1>2, <1>6 DEF MapItrAdvance, From
    <2>2. Onward /\ ~mitr'.removed
        BY <1>1, <1>2, <1>3, <1>6, <2>1, AdvanceSteps
    <2>3. mitr'.mode \in {"none", mitr.mode}
        BY <1>3, <1>4, <2>1, WalkEffect
    <2> QED BY <2>2, <2>3
<1>7. CASE MapItrNew
    <2>1. WalkStart("itr") /\ ~mclearing' /\ mitr.mode = "none"
        BY <1>7 DEF MapItrNew, MapIdle
    <2> QED BY <1>5, <2>1
<1>8. CASE MapIterate
    <2>1. WalkStart("iterate") /\ ~mclearing' /\ mitr.mode = "none"
        BY <1>8 DEF MapIterate, MapIdle
    <2> QED BY <1>5, <2>1
<1>9. CASE MapClear
    <2>1. WalkStart("itr") /\ mclearing' = (mitr'.mode # "none") /\ mitr.mode = "none"
        BY <1>9 DEF MapClear, MapIdle
    <2> QED BY <1>5, <2>1
<1>10. CASE MapItrNext
    <2>1. MapItrAdvance /\ mitr.mode # "none" /\ ~freedTable /\ ~mclearing'
        BY <1>10 DEF MapItrNext, InItr, Defined
    <2> QED BY <1>3, <1>6, <2>1 DEF Onward
<1>11. CASE mclearing /\ Defined /\ MapItrAdvance /\ mclearing' = (mitr'.mode # "none")
    <2>1. MapItrAdvance /\ mitr.mode = "itr" /\ ~freedTable
        BY <1>4, <1>11 DEF Defined
    <2> QED BY <1>3, <1>6, <1>11, <2>1 DEF Onward
<1>12. CASE CallbackReturns
    <2>1. InCallback /\ AfterCallback({}) /\ mclearing' = mclearing
        BY <1>12 DEF CallbackReturns
    <2>2. Onward /\ ~mitr'.removed
        BY <1>1, <1>2, <1>3, <2>1, StayedSteps
    <2>3. ~mclearing' /\ ~freedTable'
        BY <1>3, <1>4, <2>1 DEF InCallback, Defined
    <2> QED BY <2>2, <2>3 DEF Onward
<1>13. CASE CallbackStops /\ ~CallbackReturns
    <2>1. mitr'.mode = "none" /\ ~mclearing'
        BY <1>4, <1>13, NoMapItrIs DEF CallbackStops, InCallback
    <2> QED BY <1>13, <2>1
<1> QED BY <1>7, <1>8, <1>9, <1>10, <1>11, <1>12, <1>13

(* How a walk ends: all shown, or stopped, or refused.                      *)
Ended ==
    mitr.mode # "none" /\ mitr'.mode = "none" /\ ~freedTable' =>
        \/ AllShown
        \/ CallbackStops /\ ~CallbackReturns
        \/ mitr.mode = "iterate" /\ Refused

LEMMA HashStays ==
    ASSUME IterInv, MapNext \/ UNCHANGED mapVars
    PROVE  UNCHANGED hash /\ HashOK'
<1>1. UNCHANGED hash
    BY DEF MapNext, MapPut, CallbackPuts, MapRemove, CallbackRemoves, MapItrSetData, MapItrNew,
           MapItrNext, MapItrRemove, MapIterate, CallbackReturns, CallbackStops, MapClear,
           MapClearStep, mapVars
<1> QED BY <1>1 DEF IterInv, HashOK

(* No walk is under way.                                                   *)
LEMMA IdleNext ==
    ASSUME IterInv, HashOK', length' \in Int, NEW M, IsTable(table', M), MapIdle,
           UNCHANGED <<mitr, mclearing>>
    PROVE  IterInv' /\ Ended
<1>1. mitr \in MapItrs /\ mitr.mode = "none" /\ ~mclearing
    BY DEF MapIdle, IterInv, Standing
<1>2. Standing(mitr', table')
    BY <1>1 DEF Standing
<1> QED BY <1>1, <1>2 DEF IterInv, Ended

LEMMA PutIdle ==
    ASSUME IterInv, HashOK', NEW k \in Keys, NEW i \in Versions, MapPut(k, <<k, i>>)
    PROVE  IterInv' /\ Ended
<1>1. PICK v : v = <<k, i>> /\ v \in Values
    BY DEF Values
<1>2. PutKey(k, v) /\ MapIdle /\ UNCHANGED <<mitr, mclearing>>
    BY <1>1 DEF MapPut
<1>3. HashOK /\ length \in Int
    BY DEF IterInv
<1>4. PICK N : IsTable(table, N)
    BY DEF IterInv
<1>5. length' \in Int /\ \E M : IsTable(table', M)
    BY <1>1, <1>2, <1>3, <1>4, PutKeyTyped
<1>6. PICK M : IsTable(table', M)
    BY <1>5
<1> QED BY <1>2, <1>5, <1>6, IdleNext

LEMMA RemoveIdle ==
    ASSUME IterInv, HashOK', NEW k \in Keys, MapRemove(k)
    PROVE  IterInv' /\ Ended
<1>1. RemoveKey(k) /\ MapIdle /\ UNCHANGED <<mitr, mclearing>>
    BY DEF MapRemove
<1>2. HashOK /\ length \in Int
    BY DEF IterInv
<1>3. PICK N : IsTable(table, N)
    BY DEF IterInv
<1>4. PICK s : s = Lookup(table, k) /\ RemoveSlot(s)
    BY <1>1 DEF RemoveKey
<1>5. s \in 0..N - 1
    <2>1. s \in Occupied(table)
        BY <1>1, <1>2, <1>3, <1>4, LookupIs DEF RemoveKey
    <2> QED BY <1>3, <2>1, TableIs DEF Occupied
<1>6. length' \in Int /\ IsTable(table', N)
    BY <1>2, <1>3, <1>4, <1>5, RemoveSlotTyped
<1> QED BY <1>1, <1>6, IdleNext

(* The entry under the walk gets another value: the same keys are ahead.    *)
LEMMA SetDataStays ==
    ASSUME IterInv, HashOK', UNCHANGED hash, NEW i \in Versions, MapItrSetData(i)
    PROVE  IterInv' /\ Ended
<1>1. mitr.mode = "itr" /\ ~mitr.removed /\ ~freedTable /\ mitr \in MapItrs /\ mitr.pos \in Occupied(table)
    BY DEF MapItrSetData, InItr, Defined, IterInv, Standing
<1>2. PICK N : IsTable(table, N)
    BY DEF IterInv
<1>3. PICK s, k, v, n : s = mitr.pos /\ k = table[mitr.pos].key /\ v = <<k, i>> /\ n = table'
    OBVIOUS
<1>4. s \in 0..N - 1 /\ table[s] # Empty /\ table[s] \in Entries /\ k = table[s].key /\ k \in Keys
    <2>1. s \in 0..N - 1 /\ table[s] # Empty
        BY <1>1, <1>2, <1>3, TableIs DEF Occupied
    <2> QED BY <1>2, <1>3, <2>1, TableIs
<1>5. /\ table' = [table EXCEPT ![s].val = v]
      /\ UNCHANGED <<length, mitr, mclearing, longRun, freedTable>>
    BY <1>3 DEF MapItrSetData
<1>6. PICK e : e = [table[s] EXCEPT !.val = v] /\ e \in Entries /\ e.key = k
    <2>1. v \in Keys \X Versions
        BY <1>3, <1>4
    <2>2. PICK e : e = [table[s] EXCEPT !.val = v]
        OBVIOUS
    <2>3. e \in Entries /\ e.key = k
        BY <1>4, <2>1, <2>2 DEF Entries
    <2> QED BY <2>2, <2>3
<1>7. e # Empty
    BY <1>6, HashMapAssumption DEF Entries
<1>8. /\ n \in [0..N - 1 -> Entries \cup {Empty}] /\ n[s] = e
      /\ \A r \in 0..N - 1 : r # s => n[r] = table[r]
    <2>1. n = [table EXCEPT ![s] = e]
        BY <1>3, <1>5, <1>6
    <2> QED BY <1>2, <1>4, <1>6, <2>1 DEF IsTable
<1>9. IsTable(n, N)
    BY <1>2, <1>8 DEF IsTable
<1>10. SameKeys(table, n)
    <2>1. DOMAIN table = 0..N - 1 /\ DOMAIN n = 0..N - 1
        BY <1>2, <1>9, TableIs
    <2> QED BY <1>4, <1>6, <1>7, <1>8, <2>1 DEF SameKeys
<1>11. (\A j : Ahead(n, j) = Ahead(table, j)) /\ (Wraps(n) <=> Wraps(table)) /\ Occupied(n) = Occupied(table)
    BY <1>2, <1>9, <1>10, SameAhead
<1>12. Standing(mitr', table')
    BY <1>1, <1>3, <1>5, <1>11 DEF Standing
<1>13. Walking(mitr, table)
    BY <1>1 DEF IterInv
<1>14. Walking(mitr, table)'
    <2>1. PICK r : r = mitr' /\ r = mitr
        BY <1>5
    <2>2. Covered(r, n) /\ (~r.wrapped /\ ~longRun' => Once(r, n))
        BY <1>5, <1>11, <1>13, <2>1 DEF Walking, Covered, Once
    <2> QED BY <1>3, <2>1, <2>2, WalkingNext
<1> QED BY <1>1, <1>3, <1>5, <1>9, <1>12, <1>14 DEF IterInv, Ended

LEMMA CallbackNext ==
    ASSUME IterInv, HashOK', InCallback, UNCHANGED mclearing, NEW gone \in SUBSET Keys,
           AfterCallback(gone), length' \in Int, \E M : IsTable(table', M), ~mitr'.removed,
           Refused \/ freedTable' \/ Onward, mitr'.mode = "none" \/ freedTable' \/ Onward
    PROVE  IterInv' /\ Ended
<1>1. mitr.mode = "iterate" /\ mitr \in MapItrs /\ ~mclearing'
    BY DEF InCallback, IterInv, Standing
<1>2. PICK M : IsTable(table', M)
    OBVIOUS
<1>3. Standing(mitr', table')
    BY <1>1, <1>2, CallbackEffect
<1>4. mitr'.mode # "none" /\ ~freedTable' => Walking(mitr, table)'
    BY DEF Onward
<1>5. Ended
    BY <1>1 DEF Ended, Onward
<1> QED BY <1>1, <1>2, <1>3, <1>4, <1>5 DEF IterInv

LEMMA QuietNext ==
    ASSUME IterInv, HashOK', MapInv, MapInv', UNCHANGED <<tableVars, hash>>,
           MapItrNew \/ MapItrNext \/ MapIterate \/ CallbackReturns \/ CallbackStops \/ MapClear
             \/ (mclearing /\ Defined /\ MapItrAdvance /\ mclearing' = (mitr'.mode # "none"))
    PROVE  IterInv' /\ Ended
<1>1. PICK N : IsTable(table, N)
    BY DEF IterInv
<1>2. table' = table /\ length' = length /\ mitr \in MapItrs
    BY DEF tableVars, IterInv, Standing
<1>3. /\ (mitr'.mode # "none" => Walking(mitr, table)')
      /\ (mitr'.mode = "iterate" => ~mitr'.removed)
      /\ (mclearing' => mitr'.mode = "itr")
      /\ (mitr.mode # "none" /\ mitr'.mode = "none" => AllShown \/ (CallbackStops /\ ~CallbackReturns))
    BY QuietSteps
<1>4. Standing(mitr', table)
    <2>1. CASE MapItrNew \/ MapClear
        <3>1. WalkStart("itr")
            BY <2>1 DEF MapItrNew, MapClear
        <3> QED BY <1>1, <3>1, WalkStarts
    <2>2. CASE MapIterate
        <3>1. WalkStart("iterate")
            BY <2>2 DEF MapIterate
        <3> QED BY <1>1, <3>1, WalkStarts
    <2>3. CASE MapItrNext \/ (mclearing /\ MapItrAdvance)
        <3>1. MapItrAdvance
            BY <2>3 DEF MapItrNext
        <3>2. PICK i : WalkFrom(mitr, table, i)
            BY <3>1 DEF MapItrAdvance
        <3> QED BY <1>1, <1>2, <3>2, WalkEffect
    <2>4. CASE CallbackReturns
        <3>1. AfterCallback({}) /\ {} \in SUBSET Keys
            BY <2>4 DEF CallbackReturns
        <3>2. IsTable(table', N)
            BY <1>1, <1>2
        <3> QED BY <1>2, <3>1, <3>2, CallbackEffect
    <2>5. CASE CallbackStops
        BY <2>5, NoMapItrIs DEF CallbackStops
    <2> QED BY <2>1, <2>2, <2>3, <2>4, <2>5
<1> QED BY <1>1, <1>2, <1>3, <1>4 DEF IterInv, Ended

LEMMA IterInductive ==
    ASSUME IterInv, MapInv, MapInv', MapNext \/ UNCHANGED mapVars
    PROVE  IterInv' /\ Ended
<1>1. UNCHANGED hash /\ HashOK'
    BY HashStays
<1>2. CASE \E k \in Keys, i \in Versions : MapPut(k, <<k, i>>) \/ CallbackPuts(k, <<k, i>>)
    <2>1. PICK k \in Keys, i \in Versions : MapPut(k, <<k, i>>) \/ CallbackPuts(k, <<k, i>>)
        BY <1>2
    <2>2. CASE MapPut(k, <<k, i>>)
        BY <1>1, <2>2, PutIdle
    <2>3. CASE CallbackPuts(k, <<k, i>>)
        <3>1. /\ length' \in Int /\ (\E M : IsTable(table', M)) /\ ~mitr'.removed
              /\ Refused \/ freedTable' \/ Onward
              /\ mitr'.mode = "none" \/ freedTable' \/ Onward
            BY <2>3, CallbackPutsSteps
        <3>2. InCallback /\ UNCHANGED mclearing /\ AfterCallback({}) /\ {} \in SUBSET Keys
            BY <2>3 DEF CallbackPuts
        <3> QED BY <1>1, <3>1, <3>2, CallbackNext
    <2> QED BY <2>1, <2>2, <2>3
<1>3. CASE \E k \in Keys : MapRemove(k) \/ CallbackRemoves(k)
    <2>1. PICK k \in Keys : MapRemove(k) \/ CallbackRemoves(k)
        BY <1>3
    <2>2. CASE MapRemove(k)
        BY <1>1, <2>2, RemoveIdle
    <2>3. CASE CallbackRemoves(k)
        <3>1. /\ length' \in Int /\ (\E M : IsTable(table', M)) /\ ~mitr'.removed
              /\ Refused \/ Onward
              /\ mitr'.mode = "none" \/ Onward
            BY <2>3, CallbackRemovesSteps
        <3>2. InCallback /\ UNCHANGED mclearing /\ AfterCallback({k}) /\ {k} \in SUBSET Keys
            BY <2>3 DEF CallbackRemoves
        <3> QED BY <1>1, <3>1, <3>2, CallbackNext
    <2> QED BY <2>1, <2>2, <2>3
<1>4. CASE \E i \in Versions : MapItrSetData(i)
    BY <1>1, <1>4, SetDataStays
<1>5. CASE MapItrNew \/ MapItrNext \/ MapIterate \/ CallbackReturns \/ CallbackStops \/ MapClear
    <2>1. UNCHANGED <<tableVars, hash>>
        BY <1>5 DEF MapItrNew, MapItrNext, MapIterate, CallbackReturns, CallbackStops, MapClear
    <2> QED BY <1>1, <1>5, <2>1, QuietNext
<1>6. ASSUME MapItrRemoveCur, mitr.mode = "itr", ~freedTable, mclearing' => mitr'.mode # "none"
      PROVE  IterInv' /\ Ended
    <2>1. PICK N : IsTable(table, N)
        BY DEF IterInv
    <2>2. /\ Walking(mitr, table)' /\ mitr'.mode = mitr.mode /\ mitr' \in MapItrs /\ mitr'.removed
          /\ IsTable(table', N) /\ length' \in Int
        BY <1>1, <1>6, <2>1, RemoveCurSteps
    <2>3. Standing(mitr', table')
        BY <2>2 DEF Standing
    <2> QED BY <1>1, <1>6, <2>2, <2>3 DEF IterInv, Ended
<1>7. CASE MapItrRemove
    <2>1. MapItrRemoveCur /\ mitr.mode = "itr" /\ ~freedTable /\ ~mclearing'
        BY <1>7 DEF MapItrRemove, InItr, Defined
    <2> QED BY <1>6, <2>1
<1>8. CASE MapClearStep
    <2>1. mclearing /\ Defined /\ mclearing' = (mitr'.mode # "none") /\ mitr.mode = "itr" /\ ~freedTable
        BY <1>8 DEF MapClearStep, Defined, IterInv
    <2>2. CASE MapItrRemoveCur
        BY <1>6, <2>1, <2>2
    <2>3. CASE MapItrAdvance /\ UNCHANGED tableVars
        BY <1>1, <2>1, <2>3, QuietNext
    <2> QED BY <1>8, <2>2, <2>3 DEF MapClearStep
<1>9. CASE UNCHANGED mapVars
    <2>1. UNCHANGED <<table, length, mitr, mclearing, longRun, freedTable, hash>>
        BY <1>9 DEF mapVars
    <2>2. PICK N : IsTable(table, N)
        BY DEF IterInv
    <2>3. Standing(mitr', table') /\ IsTable(table', N) /\ length' \in Int
        BY <2>1, <2>2 DEF IterInv
    <2>4. Walking(mitr, table)' <=> Walking(mitr, table)
        BY <2>1 DEF Walking, Covered, Once, Wraps, Home
    <2> QED BY <1>1, <2>1, <2>3, <2>4 DEF IterInv, Ended
<1> QED BY <1>2, <1>3, <1>4, <1>5, <1>7, <1>8, <1>9 DEF MapNext

LEMMA IterInit == MapInit => IterInv
<1>1. SUFFICES ASSUME MapInit PROVE IterInv
    OBVIOUS
<1>2. InitSize \in Nat /\ InitSize > 0 /\ InitSize \div 2 \in Nat /\ InitSize = 2 * (InitSize \div 2)
    BY HashMapAssumption DEF Powers
<1>3. IsTable(table, InitSize)
    BY <1>1, <1>2 DEF IsTable, MapInit
<1>4. HashOK
    BY <1>1, HashMapAssumption DEF HashOK, MapInit
<1>5. length \in Int /\ ~mclearing /\ mitr = NoMapItr
    BY <1>1 DEF MapInit
<1>6. Standing(mitr, table) /\ mitr.mode = "none"
    BY <1>5, NoMapItrIs
<1> QED BY <1>3, <1>4, <1>5, <1>6 DEF IterInv

(***************************************************************************)
(* What the invariant promises.                                            *)
(***************************************************************************)
LEMMA GetIs ==
    ASSUME Books, NEW N, Sound(N), NEW k \in Keys
    PROVE  m_map_get(k) = promised[k]
<1>1. HashOK /\ IsTable(table, N) /\ Placed(table, N)
    BY DEF Books, Sound
<1>2. N \in Nat /\ DOMAIN table = 0..N - 1
    BY <1>1, TableIs DEF IsTable
<1>3. CASE k \in Present(promised)
    <2>1. PICK s \in 0..N - 1 : table[s] # Empty /\ table[s].key = k /\ table[s].val = promised[k]
        BY <1>3, StoredIs
    <2>2. Probe(table, k) = s
        BY <1>1, <2>1, ProbeFinds
    <2>3. s # NoSlot
        BY <1>2, <2>1 DEF NoSlot
    <2>4. Lookup(table, k) = s
        BY <2>1, <2>2, <2>3 DEF Lookup
    <2> QED BY <2>1, <2>3, <2>4 DEF m_map_get
<1>4. CASE k \notin Present(promised)
    <2>1. promised[k] = NoValue
        BY <1>4 DEF Present
    <2>2. ASSUME Lookup(table, k) # NoSlot
          PROVE  FALSE
        <3>1. PICK s : s = Probe(table, k)
            OBVIOUS
        <3>2. s # NoSlot /\ table[s] # Empty
            BY <2>2, <3>1 DEF Lookup
        <3>3. s \in 0..N - 1 /\ table[s].key = k
            BY <1>1, <3>1, <3>2, ProbeIs
        <3> QED BY <1>4, <3>2, <3>3, StoredIs
    <2> QED BY <2>1, <2>2 DEF m_map_get
<1> QED BY <1>3, <1>4

LEMMA SameNumber ==
    ASSUME NEW S, IsFiniteSet(S), NEW T, NEW f \in [S -> T],
           \A a, b \in S : f[a] = f[b] => a = b, \A t \in T : \E s \in S : f[s] = t
    PROVE  Cardinality(T) = Cardinality(S)
<1>1. f \in Injection(S, T) /\ f \in Surjection(S, T)
    BY DEF Injection, Surjection, IsInjective
<1>2. ExistsBijection(S, T)
    BY <1>1 DEF ExistsBijection, Bijection
<1> QED BY <1>2, FS_Bijection

(* Every promised value is in one slot and is owned once.                   *)
LEMMA OwnedIs ==
    ASSUME Books, NEW N, Sound(N)
    PROVE  /\ mowned = {table[i].val : i \in Occupied(table)}
           /\ Cardinality(Occupied(table)) = length /\ Cardinality(mowned) = length
<1>1. /\ HashOK /\ IsTable(table, N) /\ Placed(table, N) /\ IsPromise(promised)
      /\ length = Cardinality(Present(promised)) /\ mowned = ValuesOf(promised)
    BY DEF Books, Sound
<1>2. Occupied(table) = {s \in 0..N - 1 : table[s] # Empty}
    BY <1>1, TableIs DEF Occupied
<1>3. PICK P : P = Present(promised) /\ IsFiniteSet(P)
    BY PresentFinite
<1>4. /\ \A s \in Occupied(table) : table[s].key \in P /\ table[s].val = promised[table[s].key]
      /\ \A k \in P : \E s \in Occupied(table) : table[s].key = k /\ table[s].val = promised[k]
    BY <1>2, <1>3, StoredIs
<1>5. \A v : v \in mowned <=> \E k \in P : v = promised[k]
    BY <1>1, <1>3 DEF ValuesOf
<1>6. mowned = {table[i].val : i \in Occupied(table)}
    BY <1>4, <1>5
<1>7. \A s \in Occupied(table) : Probe(table, table[s].key) = s
    BY <1>1, <1>2, ProbeFinds
<1>8. Cardinality(Occupied(table)) = Cardinality(P)
    <2> DEFINE f == [k \in P |-> Probe(table, k)]
               O == Occupied(table)
    <2>1. \A k \in P : f[k] \in O /\ table[f[k]].key = k
        BY <1>4, <1>7
    <2>2. \A s \in O : \E k \in P : f[k] = s
        BY <1>4, <1>7
    <2>3. f \in [P -> O]
        BY <2>1
    <2>4. \A a, b \in P : f[a] = f[b] => a = b
        BY <2>1
    <2> HIDE DEF f, O
    <2>5. Cardinality(O) = Cardinality(P)
        BY <1>3, <2>2, <2>3, <2>4, SameNumber
    <2> QED BY <2>5 DEF O
<1>9. Cardinality(mowned) = Cardinality(P)
    <2> DEFINE f == [k \in P |-> promised[k]]
    <2>1. \A k \in P : promised[k][1] = k
        BY <1>1, <1>3, EntryIs
    <2>2. \A v \in mowned : \E k \in P : f[k] = v
        BY <1>5
    <2>3. f \in [P -> mowned]
        BY <1>5
    <2>4. \A a, b \in P : f[a] = f[b] => a = b
        BY <2>1
    <2> HIDE DEF f
    <2> QED BY <1>3, <2>2, <2>3, <2>4, SameNumber
<1> QED BY <1>1, <1>3, <1>6, <1>8, <1>9

LEMMA MapInvHolds == MapSpec => []MapInv
<1>1. MapInv /\ [MapNext]_mapVars => MapInv'
    BY MapInductive
<1> QED BY <1>1, MapInitInv, PTL DEF MapSpec

(* m_map_get returns for every key the value last put for it and not        *)
(* removed, and NULL for the others, whatever the hash function, through    *)
(* collisions, runs around the end of the table, growth, puts refused for   *)
(* lack of memory and the shifts of clear_elem (map.c:77-298), and length   *)
(* counts the keys, unless an entry was removed from a run longer than half *)
(* the table.                                                              *)
THEOREM ContentExact == MapSpec => []MapExact
<1>1. MapInv => MapExact
    <2>1. SUFFICES ASSUME MapOK
                   PROVE  /\ \A k \in Keys : m_map_get(k) = promised[k]
                          /\ length = Cardinality({k \in Keys : promised[k] # NoValue})
        BY DEF MapInv, MapExact
    <2>2. Books /\ \E N : Sound(N)
        BY <2>1 DEF MapOK
    <2>3. PICK N : Sound(N)
        BY <2>2
    <2>4. \A k \in Keys : m_map_get(k) = promised[k]
        BY <2>2, <2>3, GetIs
    <2>5. length = Cardinality({k \in Keys : promised[k] # NoValue})
        BY <2>2 DEF Books, Present
    <2> QED BY <2>4, <2>5
<1> QED BY <1>1, MapInvHolds, PTL

(* The values of the table are those the map owns: each one handed to       *)
(* m_map_put is in one slot until it is handed back or destroyed, once, by  *)
(* m_map_put's update, clear_elem or m_map_clear, and length counts them,   *)
(* with the same exception.                                                *)
THEOREM ValuesOwned == MapSpec => []MapOwned
<1>1. MapInv => MapOwned
    <2>1. SUFFICES ASSUME MapOK
                   PROVE  /\ mowned = {table[i].val : i \in Occupied(table)}
                          /\ length = Cardinality(Occupied(table)) /\ length = Cardinality(mowned)
                          /\ ~mbroken
        BY DEF MapInv, MapOwned
    <2>2. Books /\ \E N : Sound(N)
        BY <2>1 DEF MapOK
    <2>3. PICK N : Sound(N)
        BY <2>2
    <2>4. ~mbroken
        BY <2>2 DEF Books
    <2> QED BY <2>2, <2>3, <2>4, OwnedIs
<1> QED BY <1>1, MapInvHolds, PTL

(* A walk over the map, by m_map_itr_next, m_map_iterate or m_map_clear,    *)
(* that runs to its end has met or removed every key that was there when it *)
(* began (map.c:283-310, 379-433), in any table, long runs included; and    *)
(* none twice, if no run went around the end of the table when it began and *)
(* no entry was removed from a run longer than half the table.              *)
THEOREM WalkComplete == MapSpec => MapIteration
<1>1. MapInit => IterInv
    BY IterInit
<1>2. IterInv /\ MapInv /\ MapInv' /\ [MapNext]_mapVars => IterInv'
    BY IterInductive
<1> DEFINE Walk ==
        mitr.mode # "none" /\ mitr'.mode = "none" /\ ~freedTable'
           /\ (CallbackStops => CallbackReturns) /\ ~(mitr.mode = "iterate" /\ Refused)
        => /\ mitr.start \subseteq ToSet(mitr.seen) \cup mitr.gone
           /\ ~mitr.wrapped /\ ~longRun => IsInjective(mitr.seen)
<1>3. ASSUME IterInv, MapInv, MapInv', [MapNext]_mapVars PROVE [Walk]_mapVars
    <2>1. SUFFICES ASSUME MapNext, mitr.mode # "none", mitr'.mode = "none", ~freedTable',
                          CallbackStops => CallbackReturns, ~(mitr.mode = "iterate" /\ Refused)
                   PROVE  /\ mitr.start \subseteq ToSet(mitr.seen) \cup mitr.gone
                          /\ ~mitr.wrapped /\ ~longRun => IsInjective(mitr.seen)
        BY <1>3
    <2>2. Ended
        BY <1>3, <2>1, IterInductive
    <2>3. AllShown
        BY <2>1, <2>2 DEF Ended
    <2>4. ~freedTable
        BY <2>1 DEF MapNext, MapPut, CallbackPuts, MapRemove, CallbackRemoves, MapItrSetData,
               MapItrNew, MapItrNext, MapItrRemove, MapIterate, CallbackReturns, CallbackStops,
               MapClear, MapClearStep, MapIdle, InItr, InCallback, Defined
    <2>5. ~mitr.wrapped /\ ~longRun => IsInjective(mitr.seen)
        BY <1>3, <2>1, <2>4 DEF IterInv, Walking, Once
    <2> QED BY <2>3, <2>5 DEF AllShown
<1>4. MapSpec => [][Walk]_mapVars
    <2> HIDE DEF Walk
    <2> QED BY <1>1, <1>2, <1>3, MapInvHolds, PTL DEF MapSpec
<1> QED BY <1>4 DEF MapIteration
=============================================================================
