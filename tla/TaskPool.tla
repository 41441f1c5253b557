------------------------------ MODULE TaskPool ------------------------------
(***************************************************************************)
(* What a thread pool promises its clients, without threads, mutex or       *)
(* condition variable: tasks are started in the order they were submitted,  *)
(* at most Limit at a time, and a pool reports itself closed only when no   *)
(* task is running and, if asked to wait for all, none is left pending.     *)
(* Thpool implements it (see the refinement in that module).                *)
(***************************************************************************)
EXTENDS Naturals, FiniteSets, Sequences

CONSTANTS Tasks, Limit

VARIABLES
    pending,    \* submitted tasks, oldest first
    active,     \* tasks being run
    finished,   \* tasks that ran to their end
    phase       \* "open", then "current" or "all": what closing waits for; then "closed"

vars == <<pending, active, finished, phase>>

Init ==
    /\ pending = <<>>
    /\ active = {}
    /\ finished = {}
    /\ phase = "open"

(* A running task may still submit while the pool closes.                  *)
Submit(k) ==
    /\ phase = "open" \/ (phase \in {"current", "all"} /\ active # {})
    /\ k \notin active \cup finished
    /\ pending' = Append(pending, k)
    /\ UNCHANGED <<active, finished, phase>>

Start ==
    /\ pending # <<>> /\ phase \in {"open", "all"}
    /\ Cardinality(active) < Limit
    /\ active' = active \cup {Head(pending)}
    /\ pending' = Tail(pending)
    /\ UNCHANGED <<finished, phase>>

Finish(k) ==
    /\ k \in active /\ phase # "closed"
    /\ active' = active \ {k}
    /\ finished' = finished \cup {k}
    /\ UNCHANGED <<pending, phase>>

(* The pending tasks are dropped, never a running one.                     *)
DropAll ==
    /\ pending' = <<>>
    /\ UNCHANGED <<active, finished, phase>>

Close(all) ==
    /\ phase = "open"
    /\ phase' = IF all THEN "all" ELSE "current"
    /\ UNCHANGED <<pending, active, finished>>

Closed ==
    /\ phase \in {"current", "all"}
    /\ active = {}
    /\ phase = "all" => pending = <<>>
    /\ phase' = "closed"
    /\ UNCHANGED <<pending, active, finished>>

Next ==
    \/ \E k \in Tasks : Submit(k) \/ Finish(k)
    \/ Start \/ DropAll \/ Closed
    \/ \E all \in BOOLEAN : Close(all)

Spec == Init /\ [][Next]_vars
=============================================================================
