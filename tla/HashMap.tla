------------------------------- MODULE HashMap -------------------------------
(***************************************************************************)
(* The hash map of Lib/structs/map.c: open addressing with linear probing   *)
(* over at most half of the table, doubling when the load approaches 3/4,   *)
(* removal by shifting back.  A slot is Empty or holds a key and its value. *)
(* The hash function is a parameter; the table sizes are powers of two.     *)
(***************************************************************************)
EXTENDS Integers, FiniteSets, FiniteSetsExt, Sequences, SequencesExt

CONSTANTS
    Keys, Empty, NoValue,
    Versions,   \* a value is a key with a version, and is only put for that key
    Hashes,     \* the hash functions a behaviour may have, each in [Keys -> Nat]
    InitSize,   \* MAP_SIZE_DEFAULT
    MaxSize     \* bound on table_size: a larger table cannot be allocated

Powers == {2, 4, 8, 16, 32, 64, 128, 256, 512}

ASSUME HashMapAssumption ==
    /\ NoValue \notin Keys \X Versions /\ IsFiniteSet(Keys)
    /\ Empty \notin [key : Keys, val : Keys \X Versions]
    /\ Hashes \subseteq [Keys -> Nat]
    /\ InitSize \in Powers /\ MaxSize \in Nat

VARIABLES
    hash,
    update,     \* M_MAP_VAL_ALLOW_UPDATE
    table,      \* [0..table_size - 1 -> entries]
    length,
    mitr,       \* an iterator (mode "itr", at slot pos) or m_map_iterate ("iterate");
                \* start, seen, gone, wrapped: history
    mclearing,  \* in m_map_clear
    mowned,     \* history: values handed in, neither destroyed nor handed back
    promised,   \* history: the value each key should have
    longRun,    \* history: an entry was removed from a run longer than half the table
    freedTable, \* m_map_iterate goes on with the table a callback's put has freed
    mbroken     \* a value was destroyed that is not owned

mapVars == <<hash, update, table, length, mitr, mclearing, mowned, promised, longRun,
             freedTable, mbroken>>

NoMapItr == [mode |-> "none", pos |-> 0, removed |-> FALSE,
             start |-> {}, seen |-> <<>>, gone |-> {}, wrapped |-> FALSE]

MapInit ==
    /\ hash \in Hashes /\ update \in BOOLEAN
    /\ table = [i \in 0..InitSize - 1 |-> Empty] /\ length = 0
    /\ mitr = NoMapItr /\ mclearing = FALSE
    /\ mowned = {} /\ promised = [k \in Keys |-> NoValue]
    /\ longRun = FALSE /\ freedTable = FALSE /\ mbroken = FALSE

(***************************************************************************)
(* The table.                                                              *)
(***************************************************************************)
Size(t) == Cardinality(DOMAIN t)
ProbeLen(t) == Size(t) \div 2
Home(t, k) == hash[k] % Size(t)
Occupied(t) == {i \in DOMAIN t : t[i] # Empty}
NoSlot == -1

(* hashmap_entry_find with find_empty: the first slot within ProbeLen that  *)
(* is empty or has the key, NoSlot when there is none.                      *)
Probe(t, k) ==
    LET slot(i) == (Home(t, k) + i) % Size(t)
        ends == {i \in 0..ProbeLen(t) - 1 : t[slot(i)] = Empty \/ t[slot(i)].key = k}
    IN  IF \E i \in ends : TRUE THEN slot(Min(ends)) ELSE NoSlot

(* hashmap_entry_find without.                                             *)
Lookup(t, k) ==
    LET s == Probe(t, k) IN IF s # NoSlot /\ t[s] # Empty THEN s ELSE NoSlot

(* hashmap_rehash: every entry goes to a table twice the size, in the order *)
(* of the old one; {} when it cannot be allocated or an entry finds no slot, *)
(* and the old table stays.  Place puts one entry in the new table, if there *)
(* still is one.                                                           *)
Place(S, e) ==
    IF e = Empty THEN S
    ELSE {[n EXCEPT ![Probe(n, e.key)] = e] : n \in {m \in S : Probe(m, e.key) # NoSlot}}

hashmap_rehash(t) ==
    LET fill[i \in 0..Size(t)] == IF i = 0 THEN {[j \in 0..2 * Size(t) - 1 |-> Empty]}
                                  ELSE Place(fill[i - 1], t[i - 1])
    IN  IF 2 * Size(t) > MaxSize THEN {} ELSE fill[Size(t)]

(* The table hashmap_put goes on with and the slot it finds in it: the table *)
(* grows when the load approaches 3/4, and once more when the key finds no  *)
(* slot.  NoSlot is -ENOMEM.                                               *)
The(S) == CHOOSE x \in S : TRUE

PutPlace(t, n, k) ==
    LET grown == IF Size(t) <= n + n \div 3 THEN hashmap_rehash(t) ELSE {t}
        t1 == The(grown)
        again == hashmap_rehash(t1)
        t2 == The(again)
    IN  IF grown = {} THEN <<t, NoSlot>>
        ELSE IF Probe(t1, k) # NoSlot \/ again = {} THEN <<t1, Probe(t1, k)>>
        ELSE <<t2, Probe(t2, k)>>

(* MAP_INDEX_LE: index b is a or one of the ProbeLen indexes before it.     *)
MapIndexLE(t, a, b) == a = b \/ (b - a) % Size(t) >= ProbeLen(t)

(* clear_elem: the entries of the run after the removed slot move back when *)
(* their home is not after the gap; at most ProbeLen slots are looked at.   *)
(* ShiftBack looks at one.                                                 *)
ShiftBack(t, s, at) ==
    IF s.end \/ t[at] = Empty THEN [s EXCEPT !.end = TRUE]
    ELSE IF MapIndexLE(t, s.gap, Home(t, t[at].key)) THEN [s EXCEPT !.t[s.gap] = t[at], !.gap = at]
    ELSE s

ClearElemNoShift(t, slot) == [t EXCEPT ![slot] = Empty]

ClearElem(t, slot) ==
    LET scan[i \in 0..ProbeLen(t)] == IF i = 0 THEN [t |-> t, gap |-> slot, end |-> FALSE]
                                      ELSE ShiftBack(t, scan[i - 1], (slot + i) % Size(t))
        last == scan[ProbeLen(t)]
    IN  [last.t EXCEPT ![last.gap] = Empty]

(* The slot and the ProbeLen slots after it are occupied.                   *)
InLongRun(t, slot) == \A i \in 0..ProbeLen(t) : t[(slot + i) % Size(t)] # Empty

(***************************************************************************)
(* Operations, each as the client or a callback of m_map_iterate calls it.  *)
(***************************************************************************)
(* v is new to the map, or what k already has.  An existing key is updated  *)
(* if the map allows it, else -EPERM; a table grown on the way stays.        *)
PutKeyLeaks(k, v) ==
    LET place == PutPlace(table, length, k)
        t == place[1]
        s == place[2]
    IN  /\ v \notin mowned \/ promised[k] = v
        /\ s # NoSlot /\ (t[s] = Empty \/ update)
        /\ table' = [t EXCEPT ![s] = [key |-> k, val |-> v]]
        /\ length' = IF t[s] = Empty THEN length + 1 ELSE length
        /\ mowned' = mowned \cup {v}
        /\ promised' = [promised EXCEPT ![k] = v]
        /\ freedTable' = (mitr.mode = "iterate" /\ Size(t) # Size(table))
        /\ UNCHANGED <<longRun, mbroken>>

PutKey(k, v) ==
    LET place == PutPlace(table, length, k)
        t == place[1]
        s == place[2]
        old == t[s]
        entry == [key |-> k, val |-> v]
    IN  /\ v \notin mowned \/ promised[k] = v
        /\ \/ /\ s = NoSlot \/ (old # Empty /\ ~update)
              /\ table' = t /\ UNCHANGED <<length, mowned, promised, mbroken>>
           \/ /\ s # NoSlot /\ (old = Empty \/ update)
              /\ table' = [t EXCEPT ![s] = entry]
              /\ length' = IF old = Empty THEN length + 1 ELSE length
              /\ mowned' = (IF old = Empty THEN mowned ELSE mowned \ {old.val}) \cup {v}
              /\ promised' = [promised EXCEPT ![k] = v]
              /\ mbroken' = (old # Empty /\ old.val \notin mowned)
        /\ freedTable' = (mitr.mode = "iterate" /\ Size(t) # Size(table))
        /\ UNCHANGED longRun

(* clear_elem on a slot, with the destructor.                               *)
RemoveSlot(s) ==
    /\ table' = ClearElem(table, s)
    /\ length' = length - 1
    /\ mowned' = mowned \ {table[s].val}
    /\ mbroken' = (table[s].val \notin mowned)
    /\ promised' = [promised EXCEPT ![table[s].key] = NoValue]
    /\ longRun' = (longRun \/ InLongRun(table, s))
    /\ UNCHANGED freedTable

RemoveKey(k) == length > 0 /\ Lookup(table, k) # NoSlot /\ RemoveSlot(Lookup(table, k))

Defined == ~mbroken /\ ~freedTable
MapIdle == mitr.mode = "none" /\ ~mclearing /\ Defined
MapPut(k, v) == MapIdle /\ PutKey(k, v) /\ UNCHANGED <<hash, update, mitr, mclearing>>
MapRemove(k) == MapIdle /\ RemoveKey(k) /\ UNCHANGED <<hash, update, mitr, mclearing>>

(***************************************************************************)
(* Iterators.                                                              *)
(***************************************************************************)
KeysOf(t) == {t[i].key : i \in Occupied(t)}
Wraps(t) == \E i \in Occupied(t) : i < Home(t, t[i].key)

(* To the first entry from slot i on of table t; the walk ends when there   *)
(* is none.                                                                *)
WalkFrom(walk, t, i) ==
    LET ahead == {j \in Occupied(t) : j >= i}
    IN  mitr' = IF ahead = {} THEN NoMapItr
                ELSE [walk EXCEPT !.pos = Min(ahead), !.removed = FALSE,
                                  !.seen = Append(@, t[Min(ahead)].key)]

WalkStart(mode) ==
    /\ length > 0
    /\ WalkFrom([NoMapItr EXCEPT !.mode = mode, !.start = KeysOf(table),
                                 !.wrapped = Wraps(table)], table, 0)

MapItrAdvanceSkips ==
    WalkFrom(mitr, table, mitr.pos + 1)

(* After a removal the slot is looked at again.                             *)
MapItrAdvance ==
    WalkFrom(mitr, table, IF mitr.removed THEN mitr.pos ELSE mitr.pos + 1)

MapItrRemoveCur ==
    /\ ~mitr.removed
    /\ RemoveSlot(mitr.pos)
    /\ mitr' = [mitr EXCEPT !.removed = TRUE]

tableVars == <<table, length, mowned, promised, longRun, freedTable, mbroken>>
InItr == mitr.mode = "itr" /\ ~mclearing /\ Defined

MapItrNew == MapIdle /\ WalkStart("itr") /\ UNCHANGED <<tableVars, hash, update, mclearing>>
MapItrNext == InItr /\ MapItrAdvance /\ UNCHANGED <<tableVars, hash, update, mclearing>>
MapItrRemove == InItr /\ MapItrRemoveCur /\ UNCHANGED <<hash, update, mclearing>>

(* The client has read the old value and takes it back.                     *)
MapItrSetData(i) ==
    LET k == table[mitr.pos].key
        v == <<k, i>>
    IN  /\ InItr /\ ~mitr.removed /\ v \notin mowned
        /\ table' = [table EXCEPT ![mitr.pos].val = v]
        /\ mowned' = (mowned \ {table[mitr.pos].val}) \cup {v}
        /\ promised' = [promised EXCEPT ![k] = v]
        /\ UNCHANGED <<hash, update, length, mitr, mclearing, longRun, freedTable, mbroken>>

(* m_map_iterate up to its first callback, and from the return of one       *)
(* callback, that did nothing, removed k or put k, to the next.  A return   *)
(* value that is not 0 stops it.                                           *)
MapIterate == MapIdle /\ WalkStart("iterate") /\ UNCHANGED <<tableVars, hash, update, mclearing>>

(* The entry lost its slot: looked at again, else, if the length changed,   *)
(* -EACCES.                                                                *)
SlotChanged ==
    table'[mitr.pos] = Empty \/ table'[mitr.pos].key # table[mitr.pos].key
Refused == ~SlotChanged /\ length' # length

AfterCallback(gone) ==
    LET walk == [mitr EXCEPT !.gone = @ \cup gone]
    IN  IF Refused THEN mitr' = NoMapItr
        ELSE WalkFrom(walk, table', IF SlotChanged THEN mitr.pos ELSE mitr.pos + 1)

InCallback == mitr.mode = "iterate" /\ Defined

CallbackReturns ==
    /\ InCallback /\ UNCHANGED <<tableVars, hash, update, mclearing>>
    /\ AfterCallback({})
CallbackStops ==
    /\ InCallback /\ mitr' = NoMapItr
    /\ UNCHANGED <<tableVars, hash, update, mclearing>>
CallbackRemoves(k) ==
    InCallback /\ RemoveKey(k) /\ AfterCallback({k}) /\ UNCHANGED <<hash, update, mclearing>>
CallbackPuts(k, v) ==
    InCallback /\ PutKey(k, v) /\ AfterCallback({}) /\ UNCHANGED <<hash, update, mclearing>>

(* m_map_clear, and m_map_free after which the client starts over: remove   *)
(* and next until the iterator ends.                                       *)
MapClear ==
    /\ MapIdle /\ WalkStart("itr") /\ mclearing' = (mitr'.mode # "none")
    /\ UNCHANGED <<tableVars, hash, update>>

MapClearStep ==
    /\ mclearing /\ Defined
    /\ IF ~mitr.removed THEN MapItrRemoveCur ELSE MapItrAdvance /\ UNCHANGED tableVars
    /\ mclearing' = (mitr'.mode # "none")
    /\ UNCHANGED <<hash, update>>

MapNext ==
    \/ \E k \in Keys, i \in Versions : MapPut(k, <<k, i>>) \/ CallbackPuts(k, <<k, i>>)
    \/ \E k \in Keys : MapRemove(k) \/ CallbackRemoves(k)
    \/ \E i \in Versions : MapItrSetData(i)
    \/ MapItrNew \/ MapItrNext \/ MapItrRemove
    \/ MapIterate \/ CallbackReturns \/ CallbackStops
    \/ MapClear \/ MapClearStep

MapSpec == MapInit /\ [][MapNext]_mapVars

(***************************************************************************)
(* Properties.                                                             *)
(***************************************************************************)
m_map_get(k) ==
    LET s == Lookup(table, k) IN IF s = NoSlot THEN NoValue ELSE table[s].val

(* m_map_get gives each key the value last put and not removed, through     *)
(* collisions, wrapping, growth, refused puts and shifts, and length counts *)
(* the keys.  Not so after a removal from a run of occupied slots longer    *)
(* than half the table: MAP_INDEX_LE (map.c:22-23) cannot tell before from  *)
(* after at that distance, and the scan ends too early (map.c:228-230).     *)
MapExact ==
    longRun \/ /\ \A k \in Keys : m_map_get(k) = promised[k]
               /\ length = Cardinality({k \in Keys : promised[k] # NoValue})

(* The values in the table are those handed in and not given back, each     *)
(* once; every other was destroyed, once.  A key lost in a long run may be  *)
(* put a second time.                                                      *)
MapOwned ==
    longRun \/ /\ mowned = {table[i].val : i \in Occupied(table)}
               /\ length = Cardinality(Occupied(table)) /\ length = Cardinality(mowned)
               /\ ~mbroken

(* A walk that runs to its end, by iterator or by callback, leaves out no   *)
(* key that was there when it began, whichever it removes on the way, and   *)
(* meets none twice unless, when it began, a run wrapped around the end of  *)
(* the table, or was too long for clear_elem: a removal near the end brings *)
(* an entry back from the first slots (map.c:237-242).  A callback that     *)
(* stops m_map_iterate, is refused or frees the table ends no walk.         *)
MapIteration ==
    [][mitr.mode # "none" /\ mitr'.mode = "none" /\ ~freedTable'
         /\ (CallbackStops => CallbackReturns) /\ ~(mitr.mode = "iterate" /\ Refused)
       => /\ mitr.start \subseteq ToSet(mitr.seen) \cup mitr.gone
          /\ ~mitr.wrapped /\ ~longRun => IsInjective(mitr.seen)]_mapVars
==============================================================================
