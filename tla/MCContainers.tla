---------------------------- MODULE MCContainers ----------------------------
EXTENDS Containers

Parity == [x \in 1..4 |-> x % 2]

(* Collisions in pairs, all keys in the last slot so that runs wrap, and    *)
(* runs that meet at the end of the table.                                  *)
SmallHashes ==
    {[k \in Keys |-> <<0, 0, 1, 1>>[k]], [k \in Keys |-> 7],
     [k \in Keys |-> <<3, 3, 6, 7>>[k]]}
=============================================================================
