------------------------------ MODULE MCThpool ------------------------------
(* Small pools for TLC: two threads, the owner and one more client.         *)
EXTENDS Thpool, TLC

CONSTANTS w1, w2, c1, c2, k1, k2, k3

MCWorkers == {w1, w2}
MCCallers == {c1, c2}
MCTasks == {k1, k2}
MCTasks3 == {k1, k2, k3}

AllScenarios == Scenario

(* The scenarios without a failing pthread_create whose workers are joined.  *)
LiveScenarios ==
    {s \in Scenario : /\ "DETACHED" \notin s.flags /\ ~s.createFails
                      /\ "LAZY" \in s.flags => ~s.tasksCall}

(* A lazy pool on a system short of threads.                                 *)
LeakScenarios == {[flags |-> {"LAZY"}, tasksCall |-> FALSE, createFails |-> TRUE]}

(* Threads of one kind, and tasks, are interchangeable.                      *)
Symmetric == Permutations(MCWorkers) \cup Permutations(MCTasks3)
=============================================================================
