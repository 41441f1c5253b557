----------------------------- MODULE Containers -----------------------------
(***************************************************************************)
(* The containers of Lib/structs side by side: a behaviour uses one of      *)
(* them.  What they promise together: m_*_clear, and so m_*_free, leaves    *)
(* nothing behind.                                                         *)
(***************************************************************************)
EXTENDS Linked, Bst, HashMap

VARIABLE which  \* the container of this behaviour

containerVars == <<which, linkedVars, bstVars, mapVars>>

ContainersInit ==
    /\ which \in {"linked", "bst", "map"}
    /\ LinkedInit /\ BstInit /\ MapInit
    /\ which # "linked" => kind = "list"
    /\ which # "map" => hash = CHOOSE h \in Hashes : TRUE
    /\ which # "map" => update

ContainersNext ==
    /\ \/ which = "linked" /\ LinkedNext /\ UNCHANGED <<bstVars, mapVars>>
       \/ which = "bst" /\ BstNext /\ UNCHANGED <<linkedVars, mapVars>>
       \/ which = "map" /\ MapNext /\ UNCHANGED <<linkedVars, bstVars>>
    /\ UNCHANGED which

ContainersSpec == ContainersInit /\ [][ContainersNext]_containerVars

(* When m_list_clear, m_queue_clear, m_stack_clear, m_bst_clear or            *)
(* m_map_clear returns, the container has no element and every element it    *)
(* owned was destroyed, the entries that removals moved included, but for   *)
(* the containers that were corrupt before: a queue without its tail, a     *)
(* tree that destroyed the wrong element, a map with a lost entry.          *)
ClearEmpties ==
    [][/\ clearing /\ ~clearing' => cut' \/ (len' = 0 /\ owned' = {})
       /\ bclearing /\ ~bclearing' => tree'.len = 0 /\ (swapped' \/ bowned' = {})
       /\ mclearing /\ ~mclearing' => longRun' \/ (length' = 0 /\ mowned' = {})]_containerVars
=============================================================================
