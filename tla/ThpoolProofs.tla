---------------------------- MODULE ThpoolProofs ----------------------------
(***************************************************************************)
(* Proofs about the thread pool, for any number of workers, clients and      *)
(* tasks, in every scenario: first its lock and its shutdown; then what      *)
(* happens to a task: none is lost, run twice or freed and run,              *)
(* m_thpool_free with wait_all runs all of them, and a joinable pool         *)
(* implements TaskPool.                                                      *)
(***************************************************************************)
EXTENDS Thpool, FiniteSetTheorems, TLAPS

-----------------------------------------------------------------------------
(* A thread that adds a task has one.                                        *)
Adding(t) == apc[t] \in {"addLock", "addIn", "addEnqueue"}
AddTask == \A t \in Threads : Adding(t) => atask[t] \in Tasks

(* A worker holds a task exactly from its dequeue to the return of its        *)
(* function; wait_pool joins a thread of the pool.                           *)
HeldTask ==
    \A w \in Workers :
        /\ wpc[w] \in {"taken", "run"} => wtask[w] \in Tasks
        /\ wpc[w] \notin {"taken", "run", "undefined"} => wtask[w] = NoTask
JoinTarget == opc = "joining" => joining \in Workers

TypeInv == TypeOK /\ AddTask /\ HeldTask /\ JoinTarget

LEMMA LockedType ==
    ASSUME NEW pc
    PROVE  /\ Locked(pc) \in ApiPc
           /\ Locked(pc) = "addIn" => pc = "addLock"
           /\ Locked(pc) \notin {"addLock", "addEnqueue"}
  BY DEF Locked, ApiPc

LEMMA TypeInit == Init => TypeInv
  <1> SUFFICES ASSUME Init PROVE TypeInv
    OBVIOUS
  <1> USE DEF Init, Threads
  <1>1. env \in Scenarios /\ threads \in Seq(Workers) /\ queue \in Seq(Tasks)
    OBVIOUS
  <1>2. wpc \in [Workers -> WorkerPc] /\ wtask \in [Workers -> Tasks \cup {NoTask}]
    BY DEF WorkerPc
  <1>3. apc \in [Threads -> ApiPc] /\ atask \in [Threads -> Tasks \cup {NoTask}]
    BY DEF ApiPc
  <1>4. executed \in [Tasks -> Nat] /\ cursor \in Nat \ {0} /\ running \in Int
    OBVIOUS
  <1>5. AddTask /\ HeldTask /\ JoinTarget
    BY DEF AddTask, Adding, HeldTask, JoinTarget
  <1>6. opc \in OwnerPc
    BY DEF OwnerPc
  <1> QED
    BY <1>1, <1>2, <1>3, <1>4, <1>5, <1>6 DEF TypeInv, TypeOK

LEMMA TypeNext == TypeInv /\ [Next]_vars => TypeInv'
  <1> SUFFICES ASSUME TypeInv, [Next]_vars PROVE TypeInv'
    OBVIOUS
  <1> USE ThpoolAssumption DEF TypeInv, TypeOK, AddTask, HeldTask, JoinTarget, Adding, Threads, ApiPc, WorkerPc, OwnerPc
  <1>1. ASSUME NEW w \in Workers, NewThread(w) PROVE TypeInv'
    BY <1>1 DEF NewThread, add_thread, Unused, callVars, histVars
  <1>2. CASE NewFails
    BY <1>2 DEF NewFails, poolVars, workVars, callVars, histVars
  <1>3. CASE NewReturns
    BY <1>3 DEF NewReturns, workVars, callVars, histVars
  <1>4. ASSUME NEW t \in Threads, NEW k \in Tasks, AddCall(t, k) PROVE TypeInv'
    <2> USE <1>4 DEF AddCall, poolVars, workVars, callVars, ownerVars
    <2>1. CASE Accepting
      <3>1. apc' \in [Threads -> ApiPc]
        <4>1. apc' = [apc EXCEPT ![t] = "addLock"] /\ apc \in [Threads -> ApiPc] /\ "addLock" \in ApiPc
          BY <2>1
        <4> HIDE DEF Threads, ApiPc
        <4> QED
          BY <4>1
      <3>2. atask' \in [Threads -> Tasks \cup {NoTask}]
        <4>1. atask' = [atask EXCEPT ![t] = k] /\ atask \in [Threads -> Tasks \cup {NoTask}]
          BY <2>1
        <4> HIDE DEF Threads
        <4> QED
          BY <4>1
      <3>3. AddTask'
        BY <2>1
      <3> QED
        BY <3>1, <3>2, <3>3
    <2>2. CASE ~Accepting
      BY <2>2
    <2> QED
      BY <2>1, <2>2
  <1>5. ASSUME NEW t \in Threads, ClearCall(t) PROVE TypeInv'
    BY <1>5 DEF ClearCall, poolVars, workVars, ownerVars
  <1>6. ASSUME NEW t \in Threads, LengthCall(t) PROVE TypeInv'
    BY <1>6 DEF LengthCall, poolVars, workVars, ownerVars
  <1>7. ASSUME NEW t \in Threads, ApiLock(t) PROVE TypeInv'
    BY <1>7, LockedType DEF ApiLock, workVars, ownerVars, histVars
  <1>8. ASSUME NEW t \in Threads, NEW w \in Workers, AddGrow(t, w) PROVE TypeInv'
    BY <1>8 DEF AddGrow, add_thread, Unused, histVars
  <1>9. ASSUME NEW t \in Threads, AddGrowFails(t) PROVE TypeInv'
    BY <1>9 DEF AddGrowFails, poolVars, workVars, ownerVars, histVars
  <1>10. ASSUME NEW t \in Threads, AddNoGrow(t) PROVE TypeInv'
    BY <1>10 DEF AddNoGrow, poolVars, workVars, ownerVars, histVars
  <1>11. ASSUME NEW t \in Threads, AddEnqueue(t) PROVE TypeInv'
    <2> USE <1>11 DEF AddEnqueue, Signal, m_queue_enqueue, ownerVars, Waiting
    <2>1. atask[t] \in Tasks /\ queue' \in Seq(Tasks) /\ accepted' \subseteq Tasks
      OBVIOUS
    <2>2. wpc' \in [Workers -> WorkerPc] /\ HeldTask'
      OBVIOUS
    <2>3. apc' \in [Threads -> ApiPc] /\ atask' \in [Threads -> Tasks \cup {NoTask}] /\ AddTask'
      OBVIOUS
    <2> QED
      BY <2>1, <2>2, <2>3
  <1>12. ASSUME NEW t \in Threads, Clear(t) PROVE TypeInv'
    BY <1>12 DEF Clear, workVars, ownerVars, Range
  <1>13. ASSUME NEW t \in Threads, Length(t) PROVE TypeInv'
    BY <1>13 DEF Length, workVars, ownerVars, histVars
  <1>14. ASSUME NEW w \in Workers, WorkerStep(w) \/ WorkerSpurious(w) PROVE TypeInv'
    <2> USE DEF WorkerUnchanged, callVars, ownerVars
    <2>1. CASE WorkerLock(w)
      BY <2>1 DEF WorkerLock
    <2>2. CASE WorkerWait(w)
      BY <2>2 DEF WorkerWait
    <2>3. CASE WorkerSpurious(w)
      BY <2>3 DEF WorkerSpurious, poolVars
    <2>4. CASE WorkerQuit(w)
      BY <2>4 DEF WorkerQuit
    <2>5. CASE WorkerTake(w)
      <3>1. queue # <<>>
        BY <2>5 DEF WorkerTake, m_queue_dequeue, MustWait, MustQuit
      <3> QED
        BY <3>1, <2>5 DEF WorkerTake, m_queue_dequeue
    <2>6. CASE WorkerRun(w)
      BY <2>6 DEF WorkerRun
    <2>7. CASE WorkerReturn(w)
      BY <2>7 DEF WorkerReturn
    <2>8. CASE WorkerLoop(w)
      BY <2>8 DEF WorkerLoop
    <2>9. CASE WorkerUndefined(w)
      BY <2>9 DEF WorkerUndefined, poolVars, histVars
    <2> QED
      BY <1>14, <2>1, <2>2, <2>3, <2>4, <2>5, <2>6, <2>7, <2>8, <2>9 DEF WorkerStep
  <1>15. ASSUME NEW all \in BOOLEAN, FreeCall(all) PROVE TypeInv'
    BY <1>15 DEF FreeCall, OwnerUnchanged, callVars
  <1>16. CASE FreeLock
    BY <1>16 DEF FreeLock, OwnerUnchanged, callVars
  <1>17. CASE FreeBroadcast
    BY <1>17 DEF FreeBroadcast, Broadcast, Waiting, OwnerUnchanged, callVars
  <1>18. CASE FreeJoin
    BY <1>18 DEF FreeJoin, OwnerUnchanged, callVars
  <1>19. ASSUME NEW err \in BOOLEAN, FreeJoined(err) PROVE TypeInv'
    BY <1>19 DEF FreeJoined, OwnerUnchanged, callVars
  <1>20. CASE FreeAllJoined
    BY <1>20 DEF FreeAllJoined, EndOfList, OwnerUnchanged, callVars
  <1>21. CASE FreeCond
    BY <1>21 DEF FreeCond, OwnerUnchanged, callVars
  <1>22. CASE FreeMut
    BY <1>22 DEF FreeMut, OwnerUnchanged, callVars
  <1>23. CASE FreeTasks
    BY <1>23 DEF FreeTasks, OwnerUnchanged, callVars, Range
  <1>24. CASE FreeThreads
    BY <1>24 DEF FreeThreads, OwnerUnchanged, callVars
  <1>25. CASE FreePool
    BY <1>25 DEF FreePool, OwnerUnchanged, callVars
  <1>26. CASE UNCHANGED vars
    BY <1>26 DEF vars, poolVars, workVars, callVars, ownerVars, histVars
  <1> QED
    BY <1>1, <1>2, <1>3, <1>4, <1>5, <1>6, <1>7, <1>8, <1>9, <1>10, <1>11, <1>12, <1>13,
       <1>14, <1>15, <1>16, <1>17, <1>18, <1>19, <1>20, <1>21, <1>22, <1>23, <1>24, <1>25,
       <1>26
    DEF Next, OwnerStep, ApiStep, ApiCall, Terminated

(* Type correctness of the pool, whatever the constants.                     *)
THEOREM TypeCorrect == Spec => []TypeOK
  <1>1. TypeInv => TypeOK
    BY DEF TypeInv
  <1> QED
    BY <1>1, TypeInit, TypeNext, PTL DEF Spec

-----------------------------------------------------------------------------
(***************************************************************************)
(* The mutex.  Whoever unlocks is inside, so it is the holder; it leaves     *)
(* nobody inside because a thread is inside only one of the functions: a     *)
(* worker calls the API from a running task alone, and the owner frees the   *)
(* pool when no client call is in progress.                                  *)
(***************************************************************************)
ApiWhere ==
    /\ \A w \in Workers : apc[w] # "idle" => wpc[w] = "run" /\ env.tasksCall
    /\ opc # "up" => \A c \in Callers : apc[c] = "idle"

LockInv == ApiWhere /\ LockDiscipline

LEMMA LockInit == Init => LockInv
  BY ThpoolAssumption DEF Init, LockInv, ApiWhere, LockDiscipline, InCritical, Threads

LEMMA LockNext == TypeInv /\ LockInv /\ [Next]_vars => LockInv'
  <1> SUFFICES ASSUME TypeInv, LockInv, [Next]_vars PROVE LockInv'
    OBVIOUS
  <1> USE ThpoolAssumption DEF TypeInv, TypeOK, LockInv, ApiWhere, LockDiscipline, InCritical,
                               Threads
  <1>1. ASSUME NEW w \in Workers, NewThread(w) PROVE LockInv'
    BY <1>1 DEF NewThread, add_thread, Unused, callVars, histVars
  <1>2. CASE NewFails
    BY <1>2 DEF NewFails, poolVars, workVars, callVars, histVars
  <1>3. CASE NewReturns
    BY <1>3 DEF NewReturns, workVars, callVars, histVars
  <1>4. ASSUME NEW t \in Threads, NEW k \in Tasks, AddCall(t, k) PROVE LockInv'
    BY <1>4 DEF AddCall, MayCall, poolVars, workVars, callVars, ownerVars
  <1>5. ASSUME NEW t \in Threads, ClearCall(t) PROVE LockInv'
    BY <1>5 DEF ClearCall, MayCall, poolVars, workVars, ownerVars
  <1>6. ASSUME NEW t \in Threads, LengthCall(t) PROVE LockInv'
    BY <1>6 DEF LengthCall, MayCall, poolVars, workVars, ownerVars
  <1>7. ASSUME NEW t \in Threads, ApiLock(t) PROVE LockInv'
    BY <1>7 DEF ApiLock, workVars, ownerVars, histVars
  <1>8. ASSUME NEW t \in Threads, NEW w \in Workers, AddGrow(t, w) PROVE LockInv'
    BY <1>8 DEF AddGrow, add_thread, Unused, histVars
  <1>9. ASSUME NEW t \in Threads, AddGrowFails(t) PROVE LockInv'
    BY <1>9 DEF AddGrowFails, poolVars, workVars, ownerVars, histVars
  <1>10. ASSUME NEW t \in Threads, AddNoGrow(t) PROVE LockInv'
    BY <1>10 DEF AddNoGrow, poolVars, workVars, ownerVars, histVars
  <1>11. ASSUME NEW t \in Threads, AddEnqueue(t) PROVE LockInv'
    BY <1>11 DEF AddEnqueue, Signal, m_queue_enqueue, ownerVars, Waiting
  <1>12. ASSUME NEW t \in Threads, Clear(t) PROVE LockInv'
    BY <1>12 DEF Clear, workVars, ownerVars
  <1>13. ASSUME NEW t \in Threads, Length(t) PROVE LockInv'
    BY <1>13 DEF Length, workVars, ownerVars, histVars
  <1>14. ASSUME NEW w \in Workers, WorkerStep(w) \/ WorkerSpurious(w) PROVE LockInv'
    <2> USE DEF WorkerUnchanged, callVars, ownerVars
    <2>1. CASE WorkerLock(w)
      BY <2>1 DEF WorkerLock
    <2>2. CASE WorkerWait(w)
      BY <2>2 DEF WorkerWait
    <2>3. CASE WorkerSpurious(w)
      BY <2>3 DEF WorkerSpurious, poolVars
    <2>4. CASE WorkerQuit(w)
      BY <2>4 DEF WorkerQuit
    <2>5. CASE WorkerTake(w)
      BY <2>5 DEF WorkerTake, m_queue_dequeue
    <2>6. CASE WorkerRun(w)
      BY <2>6 DEF WorkerRun
    <2>7. CASE WorkerReturn(w)
      BY <2>7 DEF WorkerReturn
    <2>8. CASE WorkerLoop(w)
      BY <2>8 DEF WorkerLoop
    <2>9. CASE WorkerUndefined(w)
      BY <2>9 DEF WorkerUndefined, poolVars, histVars
    <2> QED
      BY <1>14, <2>1, <2>2, <2>3, <2>4, <2>5, <2>6, <2>7, <2>8, <2>9 DEF WorkerStep
  <1>15. ASSUME NEW all \in BOOLEAN, FreeCall(all) PROVE LockInv'
    BY <1>15 DEF FreeCall, OwnerUnchanged, callVars
  <1>16. CASE FreeLock
    BY <1>16 DEF FreeLock, OwnerUnchanged, callVars
  <1>17. CASE FreeBroadcast
    BY <1>17 DEF FreeBroadcast, Broadcast, Waiting, OwnerUnchanged, callVars
  <1>18. CASE FreeJoin
    BY <1>18 DEF FreeJoin, OwnerUnchanged, callVars
  <1>19. ASSUME NEW err \in BOOLEAN, FreeJoined(err) PROVE LockInv'
    BY <1>19 DEF FreeJoined, OwnerUnchanged, callVars
  <1>20. CASE FreeAllJoined
    BY <1>20 DEF FreeAllJoined, EndOfList, OwnerUnchanged, callVars
  <1>21. CASE FreeCond
    BY <1>21 DEF FreeCond, OwnerUnchanged, callVars
  <1>22. CASE FreeMut
    BY <1>22 DEF FreeMut, OwnerUnchanged, callVars
  <1>23. CASE FreeTasks
    BY <1>23 DEF FreeTasks, OwnerUnchanged, callVars
  <1>24. CASE FreeThreads
    BY <1>24 DEF FreeThreads, OwnerUnchanged, callVars
  <1>25. CASE FreePool
    BY <1>25 DEF FreePool, OwnerUnchanged, callVars
  <1>26. CASE UNCHANGED vars
    BY <1>26 DEF vars, poolVars, workVars, callVars, ownerVars, histVars
  <1> QED
    BY <1>1, <1>2, <1>3, <1>4, <1>5, <1>6, <1>7, <1>8, <1>9, <1>10, <1>11, <1>12, <1>13,
       <1>14, <1>15, <1>16, <1>17, <1>18, <1>19, <1>20, <1>21, <1>22, <1>23, <1>24, <1>25,
       <1>26
    DEF Next, OwnerStep, ApiStep, ApiCall, Terminated

(* Mutual exclusion: no two threads are between a lock and its unlock.       *)
THEOREM MutexIsHeld == Spec => []LockDiscipline
  <1>1. LockInv => LockDiscipline
    BY DEF LockInv
  <1> QED
    BY <1>1, TypeInit, TypeNext, LockInit, LockNext, PTL DEF Spec

-----------------------------------------------------------------------------
(***************************************************************************)
(* The phases of the pool.  Nothing is destroyed before wait_pool returns,  *)
(* no worker leaves its loop before shutdown is set, an eager pool has all   *)
(* its workers once it is up, and the list holds every worker ever created.  *)
(***************************************************************************)
Early == opc \in {"new", "up", "shut", "broadcast"}

Listed == \A w \in Workers : wpc[w] # "absent" <=> \E i \in 1..Len(threads) : threads[i] = w

PhaseInv ==
    /\ ~DoneWaiting => alive = Resource /\ \A w \in Workers : wpc[w] # "undefined"
    /\ Early => shutdown = "NO" /\ cursor = 1 /\ \A w \in Workers : wpc[w] # "exit"
    /\ opc \in {"join", "joining"} => shutdown = IF waitAll THEN "WAITALL" ELSE "WAITCURR"
    /\ ~Lazy /\ opc # "new" /\ ~DoneWaiting => Unused = {}
    /\ Listed

LEMMA NeedsSome ==
    /\ \A t \in Threads : Needs(t) \subseteq Resource
    /\ \A w \in Workers : apc[w] = "idle" /\ wpc[w] \in {"absent", "exit"} => Needs(w) = {}
  BY ThpoolAssumption DEF Needs, Resource, Threads

LEMMA PhaseInit == Init => PhaseInv
  BY DEF Init, PhaseInv, Early, DoneWaiting, Unused, Lazy, Listed

LEMMA PhaseNext == TypeInv /\ LockInv /\ PhaseInv /\ [Next]_vars => PhaseInv'
  <1> SUFFICES ASSUME TypeInv, LockInv, PhaseInv, [Next]_vars PROVE PhaseInv'
    OBVIOUS
  <1> USE ThpoolAssumption DEF TypeInv, TypeOK, LockInv, ApiWhere, PhaseInv, Listed, Early,
                               DoneWaiting, Unused, Lazy, Threads
  <1>1. ASSUME NEW w \in Workers, NewThread(w) PROVE PhaseInv'
    BY <1>1 DEF NewThread, add_thread, Unused, callVars, histVars
  <1>2. CASE NewFails
    BY <1>2 DEF NewFails, poolVars, workVars, callVars, histVars
  <1>3. CASE NewReturns
    BY <1>3 DEF NewReturns, workVars, callVars, histVars
  <1>4. ASSUME NEW t \in Threads, NEW k \in Tasks, AddCall(t, k) PROVE PhaseInv'
    BY <1>4 DEF AddCall, MayCall, poolVars, workVars, callVars, ownerVars
  <1>5. ASSUME NEW t \in Threads, ClearCall(t) PROVE PhaseInv'
    BY <1>5 DEF ClearCall, MayCall, poolVars, workVars, ownerVars
  <1>6. ASSUME NEW t \in Threads, LengthCall(t) PROVE PhaseInv'
    BY <1>6 DEF LengthCall, MayCall, poolVars, workVars, ownerVars
  <1>7. ASSUME NEW t \in Threads, ApiLock(t) PROVE PhaseInv'
    BY <1>7 DEF ApiLock, workVars, ownerVars, histVars
  <1>8. ASSUME NEW t \in Threads, NEW w \in Workers, AddGrow(t, w) PROVE PhaseInv'
    BY <1>8 DEF AddGrow, add_thread, Unused, histVars
  <1>9. ASSUME NEW t \in Threads, AddGrowFails(t) PROVE PhaseInv'
    BY <1>9 DEF AddGrowFails, poolVars, workVars, ownerVars, histVars
  <1>10. ASSUME NEW t \in Threads, AddNoGrow(t) PROVE PhaseInv'
    BY <1>10 DEF AddNoGrow, poolVars, workVars, ownerVars, histVars
  <1>11. ASSUME NEW t \in Threads, AddEnqueue(t) PROVE PhaseInv'
    <2>1. /\ wpc' \in [Workers -> WorkerPc]
          /\ \A w \in Workers : wpc'[w] = wpc[w] \/ (wpc[w] = "wait" /\ wpc'[w] = "lock")
      <3>1. CASE wpc' = wpc
        BY <3>1
      <3>2. ASSUME NEW x \in Waiting, wpc' = [wpc EXCEPT ![x] = "lock"]
            PROVE  <2>1!:
        BY <3>2 DEF Waiting, WorkerPc
      <3> QED
        BY <1>11, <3>1, <3>2 DEF AddEnqueue, Signal, m_queue_enqueue
    <2> QED
      BY <1>11, <2>1 DEF AddEnqueue, Signal, m_queue_enqueue, ownerVars
  <1>12. ASSUME NEW t \in Threads, Clear(t) PROVE PhaseInv'
    BY <1>12 DEF Clear, workVars, ownerVars
  <1>13. ASSUME NEW t \in Threads, Length(t) PROVE PhaseInv'
    BY <1>13 DEF Length, workVars, ownerVars, histVars
  <1>14. ASSUME NEW w \in Workers, WorkerStep(w) \/ WorkerSpurious(w) PROVE PhaseInv'
    <2> USE DEF WorkerUnchanged, callVars, ownerVars
    <2>1. CASE WorkerLock(w)
      BY <2>1 DEF WorkerLock
    <2>2. CASE WorkerWait(w)
      BY <2>2 DEF WorkerWait
    <2>3. CASE WorkerSpurious(w)
      <3>1. \A x \in Workers : wpc'[x] = wpc[x] \/ (wpc[x] = "wait" /\ wpc'[x] = "lock")
        BY <2>3 DEF WorkerSpurious
      <3> QED
        BY <2>3, <3>1 DEF WorkerSpurious, poolVars
    <2>4. CASE WorkerQuit(w)
      BY <2>4 DEF WorkerQuit, MustQuit
    <2>5. CASE WorkerTake(w)
      BY <2>5 DEF WorkerTake, m_queue_dequeue
    <2>6. CASE WorkerRun(w)
      BY <2>6 DEF WorkerRun
    <2>7. CASE WorkerReturn(w)
      BY <2>7 DEF WorkerReturn
    <2>8. CASE WorkerLoop(w)
      BY <2>8 DEF WorkerLoop
    <2>9. CASE WorkerUndefined(w)
      BY <2>9, NeedsSome DEF WorkerUndefined, Intact, poolVars, histVars
    <2> QED
      BY <1>14, <2>1, <2>2, <2>3, <2>4, <2>5, <2>6, <2>7, <2>8, <2>9 DEF WorkerStep
  <1>15. ASSUME NEW all \in BOOLEAN, FreeCall(all) PROVE PhaseInv'
    BY <1>15, ZenonT(30) DEF FreeCall, OwnerUnchanged, callVars
  <1>16. CASE FreeLock
    BY <1>16, ZenonT(30) DEF FreeLock, OwnerUnchanged, callVars
  <1>17. CASE FreeBroadcast
    BY <1>17 DEF FreeBroadcast, Broadcast, Waiting, OwnerUnchanged, callVars
  <1>18. CASE FreeJoin
    BY <1>18, ZenonT(30) DEF FreeJoin, OwnerUnchanged, callVars
  <1>19. ASSUME NEW err \in BOOLEAN, FreeJoined(err) PROVE PhaseInv'
    BY <1>19 DEF FreeJoined, OwnerUnchanged, callVars
  <1>20. CASE FreeAllJoined
    BY <1>20 DEF FreeAllJoined, EndOfList, OwnerUnchanged, callVars
  <1>21. CASE FreeCond
    BY <1>21 DEF FreeCond, OwnerUnchanged, callVars
  <1>22. CASE FreeMut
    BY <1>22 DEF FreeMut, OwnerUnchanged, callVars
  <1>23. CASE FreeTasks
    BY <1>23 DEF FreeTasks, OwnerUnchanged, callVars
  <1>24. CASE FreeThreads
    BY <1>24 DEF FreeThreads, OwnerUnchanged, callVars
  <1>25. CASE FreePool
    BY <1>25 DEF FreePool, OwnerUnchanged, callVars
  <1>26. CASE UNCHANGED vars
    BY <1>26 DEF vars, poolVars, workVars, callVars, ownerVars, histVars
  <1> QED
    BY <1>1, <1>2, <1>3, <1>4, <1>5, <1>6, <1>7, <1>8, <1>9, <1>10, <1>11, <1>12, <1>13,
       <1>14, <1>15, <1>16, <1>17, <1>18, <1>19, <1>20, <1>21, <1>22, <1>23, <1>24, <1>25,
       <1>26
    DEF Next, OwnerStep, ApiStep, ApiCall, Terminated

-----------------------------------------------------------------------------
(***************************************************************************)
(* m_thpool_free waits.  wait_pool walks the list without the mutex; in a    *)
(* joinable pool nothing grows the list under it, so behind its iterator     *)
(* there are only threads that have left thpool_thread, and its end is the   *)
(* end of all the workers.                                                   *)
(***************************************************************************)
JoinInv ==
    /\ Joinable /\ opc \in {"join", "joining"} =>
         \A i \in 1..Len(threads) : i < cursor => wpc[threads[i]] = "exit"
    /\ Joinable /\ opc = "joining" => cursor <= Len(threads) /\ joining = threads[cursor]
    /\ NoActiveThreads

LEMMA JoinInit == Init => JoinInv
  BY DEF Init, JoinInv, NoActiveThreads, DoneWaiting

LEMMA JoinNext == TypeInv /\ LockInv /\ PhaseInv /\ JoinInv /\ [Next]_vars => JoinInv'
  <1> SUFFICES ASSUME TypeInv, LockInv, PhaseInv, JoinInv, [Next]_vars PROVE JoinInv'
    OBVIOUS
  <1> USE ThpoolAssumption DEF TypeInv, TypeOK, LockInv, ApiWhere, PhaseInv, Listed, Early,
                               JoinInv, NoActiveThreads, Joinable, Detached, Lazy,
                               DoneWaiting, Threads
  <1>1. ASSUME NEW w \in Workers, NewThread(w) PROVE JoinInv'
    BY <1>1 DEF NewThread, add_thread, Unused, callVars, histVars
  <1>2. CASE NewFails
    BY <1>2 DEF NewFails, poolVars, workVars, callVars, histVars
  <1>3. CASE NewReturns
    BY <1>3 DEF NewReturns, workVars, callVars, histVars
  <1>4. ASSUME NEW t \in Threads, NEW k \in Tasks, AddCall(t, k) PROVE JoinInv'
    BY <1>4 DEF AddCall, MayCall, poolVars, workVars, callVars, ownerVars
  <1>5. ASSUME NEW t \in Threads, ClearCall(t) PROVE JoinInv'
    BY <1>5 DEF ClearCall, MayCall, poolVars, workVars, ownerVars
  <1>6. ASSUME NEW t \in Threads, LengthCall(t) PROVE JoinInv'
    BY <1>6 DEF LengthCall, MayCall, poolVars, workVars, ownerVars
  <1>7. ASSUME NEW t \in Threads, ApiLock(t) PROVE JoinInv'
    BY <1>7 DEF ApiLock, workVars, ownerVars, histVars
  <1>8. ASSUME NEW t \in Threads, NEW w \in Workers, AddGrow(t, w) PROVE JoinInv'
    BY <1>8 DEF AddGrow, Grows, add_thread, Unused, histVars
  <1>9. ASSUME NEW t \in Threads, AddGrowFails(t) PROVE JoinInv'
    BY <1>9 DEF AddGrowFails, poolVars, workVars, ownerVars, histVars
  <1>10. ASSUME NEW t \in Threads, AddNoGrow(t) PROVE JoinInv'
    BY <1>10 DEF AddNoGrow, poolVars, workVars, ownerVars, histVars
  <1>11. ASSUME NEW t \in Threads, AddEnqueue(t) PROVE JoinInv'
    BY <1>11 DEF AddEnqueue, Signal, m_queue_enqueue, ownerVars, Waiting
  <1>12. ASSUME NEW t \in Threads, Clear(t) PROVE JoinInv'
    BY <1>12 DEF Clear, workVars, ownerVars
  <1>13. ASSUME NEW t \in Threads, Length(t) PROVE JoinInv'
    BY <1>13 DEF Length, workVars, ownerVars, histVars
  <1>14. ASSUME NEW w \in Workers, WorkerStep(w) \/ WorkerSpurious(w) PROVE JoinInv'
    <2> USE DEF WorkerUnchanged, callVars, ownerVars
    <2>1. CASE WorkerLock(w)
      BY <2>1 DEF WorkerLock
    <2>2. CASE WorkerWait(w)
      BY <2>2 DEF WorkerWait
    <2>3. CASE WorkerSpurious(w)
      BY <2>3 DEF WorkerSpurious, poolVars
    <2>4. CASE WorkerQuit(w)
      BY <2>4 DEF WorkerQuit
    <2>5. CASE WorkerTake(w)
      BY <2>5 DEF WorkerTake, m_queue_dequeue
    <2>6. CASE WorkerRun(w)
      BY <2>6 DEF WorkerRun
    <2>7. CASE WorkerReturn(w)
      BY <2>7 DEF WorkerReturn
    <2>8. CASE WorkerLoop(w)
      BY <2>8 DEF WorkerLoop
    <2>9. CASE WorkerUndefined(w)
      BY <2>9, NeedsSome DEF WorkerUndefined, Intact, poolVars, histVars
    <2> QED
      BY <1>14, <2>1, <2>2, <2>3, <2>4, <2>5, <2>6, <2>7, <2>8, <2>9 DEF WorkerStep
  <1>15. ASSUME NEW all \in BOOLEAN, FreeCall(all) PROVE JoinInv'
    BY <1>15 DEF FreeCall, OwnerUnchanged, callVars
  <1>16. CASE FreeLock
    BY <1>16 DEF FreeLock, OwnerUnchanged, callVars
  <1>17. CASE FreeBroadcast
    BY <1>17 DEF FreeBroadcast, Broadcast, Waiting, OwnerUnchanged, callVars
  <1>18. CASE FreeJoin
    BY <1>18 DEF FreeJoin, OwnerUnchanged, callVars
  <1>19. ASSUME NEW err \in BOOLEAN, FreeJoined(err) PROVE JoinInv'
    BY <1>19 DEF FreeJoined, OwnerUnchanged, callVars
  <1>20. CASE FreeAllJoined
    BY <1>20 DEF FreeAllJoined, EndOfList, OwnerUnchanged, callVars
  <1>21. CASE FreeCond
    BY <1>21 DEF FreeCond, OwnerUnchanged, callVars
  <1>22. CASE FreeMut
    BY <1>22 DEF FreeMut, OwnerUnchanged, callVars
  <1>23. CASE FreeTasks
    BY <1>23 DEF FreeTasks, OwnerUnchanged, callVars
  <1>24. CASE FreeThreads
    BY <1>24 DEF FreeThreads, OwnerUnchanged, callVars
  <1>25. CASE FreePool
    BY <1>25 DEF FreePool, OwnerUnchanged, callVars
  <1>26. CASE UNCHANGED vars
    BY <1>26 DEF vars, poolVars, workVars, callVars, ownerVars, histVars
  <1> QED
    BY <1>1, <1>2, <1>3, <1>4, <1>5, <1>6, <1>7, <1>8, <1>9, <1>10, <1>11, <1>12, <1>13,
       <1>14, <1>15, <1>16, <1>17, <1>18, <1>19, <1>20, <1>21, <1>22, <1>23, <1>24, <1>25,
       <1>26
    DEF Next, OwnerStep, ApiStep, ApiCall, Terminated

(* Once m_thpool_free starts to destroy a joinable pool, no worker is left    *)
(* in thpool_thread to use what it destroys.                                 *)
THEOREM AllWorkersLeft == Spec => []NoActiveThreads
  <1>1. JoinInv => NoActiveThreads
    BY DEF JoinInv
  <1> QED
    BY <1>1, TypeInit, TypeNext, LockInit, LockNext, PhaseInit, PhaseNext, JoinInit, JoinNext,
       PTL DEF Spec

-----------------------------------------------------------------------------
(***************************************************************************)
(* running_tasks and the thread list are counts of workers.                 *)
(***************************************************************************)
InTask == {w \in Workers : wpc[w] \in {"run", "ran"}}
Made == {w \in Workers : wpc[w] # "absent"}

CountInv ==
    /\ (\A w \in Workers : wpc[w] # "undefined") => running = Cardinality(InTask)
    /\ Len(threads) = Cardinality(Made)

LEMMA FiniteParts ==
    /\ IsFiniteSet(InTask) /\ IsFiniteSet(Made)
    /\ Cardinality(InTask) \in Nat /\ Cardinality(Made) \in Nat
    /\ Cardinality(InTask) <= Cardinality(Made)
    /\ Cardinality(Made) <= Cardinality(Workers)
  <1>1. Made \in SUBSET Workers /\ InTask \in SUBSET Made
    BY DEF Made, InTask
  <1>2. IsFiniteSet(Made) /\ Cardinality(Made) <= Cardinality(Workers)
    BY <1>1, ThpoolAssumption, FS_Subset
  <1>3. IsFiniteSet(InTask) /\ Cardinality(InTask) <= Cardinality(Made)
    BY <1>1, <1>2, FS_Subset
  <1> QED
    BY <1>2, <1>3, FS_CardinalityType

(* A step that starts no worker and neither starts nor ends a task.          *)
Quiet ==
    /\ UNCHANGED <<running, threads>>
    /\ \A w \in Workers :
         /\ wpc[w] = "absent" <=> wpc'[w] = "absent"
         /\ wpc[w] = "undefined" => wpc'[w] = "undefined"
         /\ wpc'[w] # "undefined" => (wpc[w] \in {"run", "ran"} <=> wpc'[w] \in {"run", "ran"})

LEMMA QuietCounts == CountInv /\ Quiet => CountInv'
  <1> SUFFICES ASSUME CountInv, Quiet PROVE CountInv'
    OBVIOUS
  <1>1. Made' = Made
    BY DEF Quiet, Made
  <1>2. (\A w \in Workers : wpc'[w] # "undefined") => InTask' = InTask
    BY DEF Quiet, InTask
  <1> QED
    BY <1>1, <1>2 DEF CountInv, Quiet

LEMMA CountInit == Init => CountInv
  <1> SUFFICES ASSUME Init PROVE CountInv
    OBVIOUS
  <1>1. Made = {} /\ InTask = {}
    BY DEF Init, Made, InTask
  <1> QED
    BY <1>1, FS_EmptySet DEF Init, CountInv

LEMMA CountNext == TypeInv /\ LockInv /\ CountInv /\ [Next]_vars => CountInv'
  <1> SUFFICES ASSUME TypeInv, LockInv, CountInv, [Next]_vars PROVE CountInv'
    OBVIOUS
  <1> USE ThpoolAssumption DEF TypeInv, TypeOK, LockInv, ApiWhere, CountInv, Quiet, Threads
  <1>1. ASSUME NEW w \in Workers, NewThread(w) PROVE CountInv'
    <2>1. Made' = Made \cup {w} /\ w \notin Made /\ InTask' = InTask
      BY <1>1 DEF NewThread, add_thread, Unused, Made, InTask
    <2>2. Cardinality(Made') = Cardinality(Made) + 1 /\ Cardinality(Made) \in Nat
      BY <2>1, FiniteParts, FS_AddElement
    <2>3. Len(threads') = Len(threads) + 1 /\ running' = running
      BY <1>1 DEF NewThread, add_thread
    <2>4. \A x \in Workers : wpc[x] = "undefined" => wpc'[x] = "undefined"
      BY <1>1 DEF NewThread, add_thread, Unused
    <2> QED
      BY <2>1, <2>2, <2>3, <2>4
  <1>2. CASE NewFails
    <2>1. Quiet
      BY <1>2 DEF NewFails, poolVars, workVars, callVars, histVars
    <2> QED
      BY <2>1, QuietCounts
  <1>3. CASE NewReturns
    <2>1. Quiet
      BY <1>3 DEF NewReturns, workVars, callVars, histVars
    <2> QED
      BY <2>1, QuietCounts
  <1>4. ASSUME NEW t \in Threads, NEW k \in Tasks, AddCall(t, k) PROVE CountInv'
    <2>1. Quiet
      BY <1>4 DEF AddCall, MayCall, poolVars, workVars, callVars, ownerVars
    <2> QED
      BY <2>1, QuietCounts
  <1>5. ASSUME NEW t \in Threads, ClearCall(t) PROVE CountInv'
    <2>1. Quiet
      BY <1>5 DEF ClearCall, MayCall, poolVars, workVars, ownerVars
    <2> QED
      BY <2>1, QuietCounts
  <1>6. ASSUME NEW t \in Threads, LengthCall(t) PROVE CountInv'
    <2>1. Quiet
      BY <1>6 DEF LengthCall, MayCall, poolVars, workVars, ownerVars
    <2> QED
      BY <2>1, QuietCounts
  <1>7. ASSUME NEW t \in Threads, ApiLock(t) PROVE CountInv'
    <2>1. Quiet
      BY <1>7 DEF ApiLock, workVars, ownerVars, histVars
    <2> QED
      BY <2>1, QuietCounts
  <1>8. ASSUME NEW t \in Threads, NEW w \in Workers, AddGrow(t, w) PROVE CountInv'
    <2>1. Made' = Made \cup {w} /\ w \notin Made /\ InTask' = InTask
      BY <1>8 DEF AddGrow, add_thread, Unused, Made, InTask
    <2>2. Cardinality(Made') = Cardinality(Made) + 1 /\ Cardinality(Made) \in Nat
      BY <2>1, FiniteParts, FS_AddElement
    <2>3. Len(threads') = Len(threads) + 1 /\ running' = running
      BY <1>8 DEF AddGrow, add_thread
    <2>4. \A x \in Workers : wpc[x] = "undefined" => wpc'[x] = "undefined"
      BY <1>8 DEF AddGrow, add_thread, Unused
    <2> QED
      BY <2>1, <2>2, <2>3, <2>4
  <1>9. ASSUME NEW t \in Threads, AddGrowFails(t) PROVE CountInv'
    <2>1. Quiet
      BY <1>9 DEF AddGrowFails, poolVars, workVars, ownerVars, histVars
    <2> QED
      BY <2>1, QuietCounts
  <1>10. ASSUME NEW t \in Threads, AddNoGrow(t) PROVE CountInv'
    <2>1. Quiet
      BY <1>10 DEF AddNoGrow, poolVars, workVars, ownerVars, histVars
    <2> QED
      BY <2>1, QuietCounts
  <1>11. ASSUME NEW t \in Threads, AddEnqueue(t) PROVE CountInv'
    <2>1. Quiet
      BY <1>11 DEF AddEnqueue, Signal, m_queue_enqueue, ownerVars, Waiting
    <2> QED
      BY <2>1, QuietCounts
  <1>12. ASSUME NEW t \in Threads, Clear(t) PROVE CountInv'
    <2>1. Quiet
      BY <1>12 DEF Clear, workVars, ownerVars
    <2> QED
      BY <2>1, QuietCounts
  <1>13. ASSUME NEW t \in Threads, Length(t) PROVE CountInv'
    <2>1. Quiet
      BY <1>13 DEF Length, workVars, ownerVars, histVars
    <2> QED
      BY <2>1, QuietCounts
  <1>14. ASSUME NEW w \in Workers, WorkerStep(w) \/ WorkerSpurious(w) PROVE CountInv'
    <2> USE DEF WorkerUnchanged, callVars, ownerVars
    <2>1. CASE WorkerLock(w)
      <3>1. Quiet
        BY <2>1 DEF WorkerLock
      <3> QED
        BY <3>1, QuietCounts
    <2>2. CASE WorkerWait(w)
      <3>1. Quiet
        BY <2>2 DEF WorkerWait
      <3> QED
        BY <3>1, QuietCounts
    <2>3. CASE WorkerSpurious(w)
      <3>1. Quiet
        BY <2>3 DEF WorkerSpurious, poolVars
      <3> QED
        BY <3>1, QuietCounts
    <2>4. CASE WorkerQuit(w)
      <3>1. Quiet
        BY <2>4 DEF WorkerQuit
      <3> QED
        BY <3>1, QuietCounts
    <2>5. CASE WorkerTake(w)
      <3>1. Quiet
        BY <2>5 DEF WorkerTake, m_queue_dequeue
      <3> QED
        BY <3>1, QuietCounts
    <2>6. CASE WorkerRun(w)
      <3>1. InTask' = InTask \cup {w} /\ w \notin InTask /\ Made' = Made
        BY <2>6 DEF WorkerRun, Made, InTask
      <3>2. Cardinality(InTask') = Cardinality(InTask) + 1 /\ Cardinality(InTask) \in Nat
        BY <3>1, FiniteParts, FS_AddElement
      <3>3. \A x \in Workers : wpc[x] = "undefined" => wpc'[x] = "undefined"
        BY <2>6 DEF WorkerRun
      <3> QED
        BY <2>6, <3>1, <3>2, <3>3 DEF WorkerRun
    <2>7. CASE WorkerReturn(w)
      <3>1. Quiet
        BY <2>7 DEF WorkerReturn
      <3> QED
        BY <3>1, QuietCounts
    <2>8. CASE WorkerLoop(w)
      <3>1. InTask' = InTask \ {w} /\ w \in InTask /\ Made' = Made
        BY <2>8 DEF WorkerLoop, Made, InTask
      <3>2. Cardinality(InTask') = Cardinality(InTask) - 1 /\ Cardinality(InTask) \in Nat
        BY <3>1, FiniteParts, FS_RemoveElement
      <3>3. \A x \in Workers : wpc[x] = "undefined" => wpc'[x] = "undefined"
        BY <2>8 DEF WorkerLoop
      <3> QED
        BY <2>8, <3>1, <3>2, <3>3 DEF WorkerLoop
    <2>9. CASE WorkerUndefined(w)
      <3>1. Quiet
        BY <2>9, NeedsSome DEF WorkerUndefined, Intact, poolVars, histVars
      <3> QED
        BY <3>1, QuietCounts
    <2> QED
      BY <1>14, <2>1, <2>2, <2>3, <2>4, <2>5, <2>6, <2>7, <2>8, <2>9 DEF WorkerStep
  <1>15. ASSUME NEW all \in BOOLEAN, FreeCall(all) PROVE CountInv'
    <2>1. Quiet
      BY <1>15 DEF FreeCall, OwnerUnchanged, callVars
    <2> QED
      BY <2>1, QuietCounts
  <1>16. CASE FreeLock
    <2>1. Quiet
      BY <1>16 DEF FreeLock, OwnerUnchanged, callVars
    <2> QED
      BY <2>1, QuietCounts
  <1>17. CASE FreeBroadcast
    <2>1. Quiet
      BY <1>17 DEF FreeBroadcast, Broadcast, Waiting, OwnerUnchanged, callVars
    <2> QED
      BY <2>1, QuietCounts
  <1>18. CASE FreeJoin
    <2>1. Quiet
      BY <1>18 DEF FreeJoin, OwnerUnchanged, callVars
    <2> QED
      BY <2>1, QuietCounts
  <1>19. ASSUME NEW err \in BOOLEAN, FreeJoined(err) PROVE CountInv'
    <2>1. Quiet
      BY <1>19 DEF FreeJoined, OwnerUnchanged, callVars
    <2> QED
      BY <2>1, QuietCounts
  <1>20. CASE FreeAllJoined
    <2>1. Quiet
      BY <1>20 DEF FreeAllJoined, EndOfList, OwnerUnchanged, callVars
    <2> QED
      BY <2>1, QuietCounts
  <1>21. CASE FreeCond
    <2>1. Quiet
      BY <1>21 DEF FreeCond, OwnerUnchanged, callVars
    <2> QED
      BY <2>1, QuietCounts
  <1>22. CASE FreeMut
    <2>1. Quiet
      BY <1>22 DEF FreeMut, OwnerUnchanged, callVars
    <2> QED
      BY <2>1, QuietCounts
  <1>23. CASE FreeTasks
    <2>1. Quiet
      BY <1>23 DEF FreeTasks, OwnerUnchanged, callVars
    <2> QED
      BY <2>1, QuietCounts
  <1>24. CASE FreeThreads
    <2>1. Quiet
      BY <1>24 DEF FreeThreads, OwnerUnchanged, callVars
    <2> QED
      BY <2>1, QuietCounts
  <1>25. CASE FreePool
    <2>1. Quiet
      BY <1>25 DEF FreePool, OwnerUnchanged, callVars
    <2> QED
      BY <2>1, QuietCounts
  <1>26. CASE UNCHANGED vars
    <2>1. Quiet
      BY <1>26 DEF vars, poolVars, workVars, callVars, ownerVars, histVars
    <2> QED
      BY <2>1, QuietCounts
  <1> QED
    BY <1>1, <1>2, <1>3, <1>4, <1>5, <1>6, <1>7, <1>8, <1>9, <1>10, <1>11, <1>12, <1>13,
       <1>14, <1>15, <1>16, <1>17, <1>18, <1>19, <1>20, <1>21, <1>22, <1>23, <1>24, <1>25,
       <1>26
    DEF Next, OwnerStep, ApiStep, ApiCall, Terminated

(* running_tasks is the number of workers inside a task, and never above the   *)
(* number of threads, nor that above max_threads.                            *)
THEOREM RunningIsCounted == Spec => []RunningCount
  <1>1. TypeInv /\ CountInv => RunningCount
    BY FiniteParts DEF TypeInv, TypeOK, CountInv, RunningCount, InTask
  <1> QED
    BY <1>1, TypeInit, TypeNext, LockInit, LockNext, CountInit, CountNext, PTL DEF Spec

-----------------------------------------------------------------------------
(***************************************************************************)
(* The wakeup.  A thread that is about to enqueue finds at least one worker  *)
(* that has not left: in an eager pool all of them, in a lazy one the worker *)
(* that makes has_space true, or the one just created.  It is awake, or the  *)
(* signal wakes it; and no worker goes to sleep, or leaves, over a queue it   *)
(* has to serve.                                                             *)
(***************************************************************************)
WakeInv ==
    /\ NoLostWakeup
    /\ Lazy /\ (\E t \in Threads : apc[t] = "addEnqueue") => \E w \in Workers : wpc[w] # "absent"

LEMMA WakeInit == Init => WakeInv
  BY DEF Init, WakeInv, NoLostWakeup

LEMMA WakeNext ==
    TypeInv /\ LockInv /\ PhaseInv /\ CountInv /\ WakeInv /\ [Next]_vars => WakeInv'
  <1> SUFFICES ASSUME TypeInv, LockInv, PhaseInv, CountInv, WakeInv, [Next]_vars PROVE WakeInv'
    OBVIOUS
  <1> USE ThpoolAssumption DEF TypeInv, TypeOK, LockInv, ApiWhere, PhaseInv, Early,
                               WakeInv, NoLostWakeup, Lazy, DoneWaiting, Threads
  <1>1. ASSUME NEW w \in Workers, NewThread(w) PROVE WakeInv'
    BY <1>1 DEF NewThread, add_thread, Unused, callVars, histVars
  <1>2. CASE NewFails
    BY <1>2 DEF NewFails, poolVars, workVars, callVars, histVars
  <1>3. CASE NewReturns
    BY <1>3 DEF NewReturns, workVars, callVars, histVars
  <1>4. ASSUME NEW t \in Threads, NEW k \in Tasks, AddCall(t, k) PROVE WakeInv'
    BY <1>4 DEF AddCall, MayCall, poolVars, workVars, callVars, ownerVars
  <1>5. ASSUME NEW t \in Threads, ClearCall(t) PROVE WakeInv'
    BY <1>5 DEF ClearCall, MayCall, poolVars, workVars, ownerVars
  <1>6. ASSUME NEW t \in Threads, LengthCall(t) PROVE WakeInv'
    BY <1>6 DEF LengthCall, MayCall, poolVars, workVars, ownerVars
  <1>7. ASSUME NEW t \in Threads, ApiLock(t) PROVE WakeInv'
    BY <1>7, LockedType DEF ApiLock, workVars, ownerVars, histVars
  <1>8. ASSUME NEW t \in Threads, NEW w \in Workers, AddGrow(t, w) PROVE WakeInv'
    BY <1>8 DEF AddGrow, add_thread, Unused, histVars
  <1>9. ASSUME NEW t \in Threads, AddGrowFails(t) PROVE WakeInv'
    BY <1>9 DEF AddGrowFails, poolVars, workVars, ownerVars, histVars
  <1>10. ASSUME NEW t \in Threads, AddNoGrow(t) PROVE WakeInv'
    <2>1. Lazy => \E w \in Workers : wpc[w] # "absent"
      <3> SUFFICES ASSUME Lazy PROVE \E w \in Workers : wpc[w] # "absent"
        OBVIOUS
      <3>1. CASE t \in Workers
        BY <1>10, <3>1 DEF AddNoGrow
      <3>2. CASE t \in Callers
        <4>1. running \in Nat
          BY <1>10, <3>2, FiniteParts DEF AddNoGrow, CountInv
        <4>2. Cardinality(Workers) \in Nat /\ Cardinality(Workers) # 0
          BY FS_CardinalityType, FS_EmptySet
        <4>3. Len(threads) # 0
          BY <1>10, <4>1, <4>2 DEF AddNoGrow, Grows, has_space, Lazy
        <4>4. 1 \in 1..Len(threads) /\ threads[1] \in Workers
          BY <4>3
        <4> QED
          BY <4>4 DEF Listed
      <3> QED
        BY <3>1, <3>2
    <2> QED
      BY <1>10, <2>1 DEF AddNoGrow, poolVars, workVars, ownerVars, histVars
  <1>11. ASSUME NEW t \in Threads, AddEnqueue(t) PROVE WakeInv'
    <2>1. CASE Waiting = {}
      <3>1. wpc' = wpc
        BY <1>11, <2>1 DEF AddEnqueue, Signal, m_queue_enqueue
      <3>2. ~DoneWaiting => \E w \in Workers : wpc[w] \notin {"absent", "exit", "undefined"}
        <4>1. CASE t \in Workers
          BY <1>11, <4>1 DEF AddEnqueue, Signal, m_queue_enqueue
        <4>2. CASE t \in Callers
          <5>1. opc = "up"
            BY <1>11, <4>2 DEF AddEnqueue, Signal, m_queue_enqueue
          <5>2. \E w \in Workers : wpc[w] # "absent"
            BY <1>11, <5>1 DEF AddEnqueue, Signal, m_queue_enqueue, Unused
          <5> QED
            BY <5>1, <5>2 DEF Early
        <4> QED
          BY <4>1, <4>2
      <3>3. ~DoneWaiting => \E w \in Workers : wpc[w] \in {"lock", "check", "taken", "run", "ran"}
        BY <2>1, <3>2 DEF Waiting, WorkerPc
      <3> QED
        BY <1>11, <3>1, <3>3 DEF AddEnqueue, Signal, m_queue_enqueue, ownerVars
    <2>2. ASSUME NEW x \in Waiting, wpc' = [wpc EXCEPT ![x] = "lock"] PROVE WakeInv'
      BY <1>11, <2>2 DEF AddEnqueue, Signal, m_queue_enqueue, ownerVars, Waiting
    <2> QED
      BY <1>11, <2>1, <2>2 DEF AddEnqueue, Signal, m_queue_enqueue
  <1>12. ASSUME NEW t \in Threads, Clear(t) PROVE WakeInv'
    BY <1>12 DEF Clear, workVars, ownerVars
  <1>13. ASSUME NEW t \in Threads, Length(t) PROVE WakeInv'
    BY <1>13 DEF Length, workVars, ownerVars, histVars
  <1>14. ASSUME NEW w \in Workers, WorkerStep(w) \/ WorkerSpurious(w) PROVE WakeInv'
    <2> USE DEF WorkerUnchanged, callVars, ownerVars
    <2>1. CASE WorkerLock(w)
      BY <2>1 DEF WorkerLock
    <2>2. CASE WorkerWait(w)
      BY <2>2 DEF WorkerWait, MustWait
    <2>3. CASE WorkerSpurious(w)
      BY <2>3 DEF WorkerSpurious, poolVars
    <2>4. CASE WorkerQuit(w)
      BY <2>4 DEF WorkerQuit, MustQuit
    <2>5. CASE WorkerTake(w)
      BY <2>5 DEF WorkerTake, m_queue_dequeue
    <2>6. CASE WorkerRun(w)
      BY <2>6 DEF WorkerRun
    <2>7. CASE WorkerReturn(w)
      BY <2>7 DEF WorkerReturn
    <2>8. CASE WorkerLoop(w)
      BY <2>8 DEF WorkerLoop
    <2>9. CASE WorkerUndefined(w)
      BY <2>9, NeedsSome DEF WorkerUndefined, Intact, poolVars, histVars
    <2> QED
      BY <1>14, <2>1, <2>2, <2>3, <2>4, <2>5, <2>6, <2>7, <2>8, <2>9 DEF WorkerStep
  <1>15. ASSUME NEW all \in BOOLEAN, FreeCall(all) PROVE WakeInv'
    BY <1>15 DEF FreeCall, OwnerUnchanged, callVars
  <1>16. CASE FreeLock
    BY <1>16 DEF FreeLock, OwnerUnchanged, callVars
  <1>17. CASE FreeBroadcast
    BY <1>17 DEF FreeBroadcast, Broadcast, Waiting, OwnerUnchanged, callVars
  <1>18. CASE FreeJoin
    BY <1>18 DEF FreeJoin, OwnerUnchanged, callVars
  <1>19. ASSUME NEW err \in BOOLEAN, FreeJoined(err) PROVE WakeInv'
    BY <1>19 DEF FreeJoined, OwnerUnchanged, callVars
  <1>20. CASE FreeAllJoined
    BY <1>20 DEF FreeAllJoined, EndOfList, OwnerUnchanged, callVars
  <1>21. CASE FreeCond
    BY <1>21 DEF FreeCond, OwnerUnchanged, callVars
  <1>22. CASE FreeMut
    BY <1>22 DEF FreeMut, OwnerUnchanged, callVars
  <1>23. CASE FreeTasks
    BY <1>23 DEF FreeTasks, OwnerUnchanged, callVars
  <1>24. CASE FreeThreads
    BY <1>24 DEF FreeThreads, OwnerUnchanged, callVars
  <1>25. CASE FreePool
    BY <1>25 DEF FreePool, OwnerUnchanged, callVars
  <1>26. CASE UNCHANGED vars
    BY <1>26 DEF vars, poolVars, workVars, callVars, ownerVars, histVars
  <1> QED
    BY <1>1, <1>2, <1>3, <1>4, <1>5, <1>6, <1>7, <1>8, <1>9, <1>10, <1>11, <1>12, <1>13,
       <1>14, <1>15, <1>16, <1>17, <1>18, <1>19, <1>20, <1>21, <1>22, <1>23, <1>24, <1>25,
       <1>26
    DEF Next, OwnerStep, ApiStep, ApiCall, Terminated

(* No wakeup is lost: while tasks are queued and to be run, some worker is     *)
(* awake.                                                                    *)
THEOREM SomeWorkerAwake == Spec => []NoLostWakeup
  <1>1. WakeInv => NoLostWakeup
    BY DEF WakeInv
  <1> QED
    BY <1>1, TypeInit, TypeNext, LockInit, LockNext, PhaseInit, PhaseNext, CountInit, CountNext,
       WakeInit, WakeNext, PTL DEF Spec

-----------------------------------------------------------------------------
(* Once set, shutdown stays; after SHUTDOWN_WAITCURR no worker takes a task.  *)
LEMMA ShutdownNext == TypeInv /\ PhaseInv /\ [Next]_vars => ShutdownKept
  <1> SUFFICES ASSUME TypeInv, PhaseInv, [Next]_vars PROVE ShutdownKept
    OBVIOUS
  <1> USE DEF TypeInv, TypeOK, PhaseInv, ShutdownKept
  <1>1. ASSUME NEW w \in Workers, NewThread(w) PROVE ShutdownKept
    BY <1>1 DEF NewThread, add_thread, Unused, callVars, histVars
  <1>2. CASE NewFails
    BY <1>2 DEF NewFails, poolVars, workVars, callVars, histVars
  <1>3. CASE NewReturns
    BY <1>3 DEF NewReturns, workVars, callVars, histVars
  <1>4. ASSUME NEW t \in Threads, NEW k \in Tasks, AddCall(t, k) PROVE ShutdownKept
    BY <1>4 DEF AddCall, MayCall, poolVars, workVars, callVars, ownerVars
  <1>5. ASSUME NEW t \in Threads, ClearCall(t) PROVE ShutdownKept
    BY <1>5 DEF ClearCall, MayCall, poolVars, workVars, ownerVars
  <1>6. ASSUME NEW t \in Threads, LengthCall(t) PROVE ShutdownKept
    BY <1>6 DEF LengthCall, MayCall, poolVars, workVars, ownerVars
  <1>7. ASSUME NEW t \in Threads, ApiLock(t) PROVE ShutdownKept
    BY <1>7 DEF ApiLock, workVars, ownerVars, histVars
  <1>8. ASSUME NEW t \in Threads, NEW w \in Workers, AddGrow(t, w) PROVE ShutdownKept
    BY <1>8 DEF AddGrow, add_thread, Unused, histVars
  <1>9. ASSUME NEW t \in Threads, AddGrowFails(t) PROVE ShutdownKept
    BY <1>9 DEF AddGrowFails, poolVars, workVars, ownerVars, histVars
  <1>10. ASSUME NEW t \in Threads, AddNoGrow(t) PROVE ShutdownKept
    BY <1>10 DEF AddNoGrow, poolVars, workVars, ownerVars, histVars
  <1>11. ASSUME NEW t \in Threads, AddEnqueue(t) PROVE ShutdownKept
    BY <1>11 DEF AddEnqueue, Signal, m_queue_enqueue, ownerVars, Waiting
  <1>12. ASSUME NEW t \in Threads, Clear(t) PROVE ShutdownKept
    BY <1>12 DEF Clear, workVars, ownerVars
  <1>13. ASSUME NEW t \in Threads, Length(t) PROVE ShutdownKept
    BY <1>13 DEF Length, workVars, ownerVars, histVars
  <1>14. ASSUME NEW w \in Workers, WorkerStep(w) \/ WorkerSpurious(w) PROVE ShutdownKept
    <2> USE DEF WorkerUnchanged, callVars, ownerVars
    <2>1. CASE WorkerLock(w)
      BY <2>1 DEF WorkerLock
    <2>2. CASE WorkerWait(w)
      BY <2>2 DEF WorkerWait
    <2>3. CASE WorkerSpurious(w)
      BY <2>3 DEF WorkerSpurious, poolVars
    <2>4. CASE WorkerQuit(w)
      BY <2>4 DEF WorkerQuit
    <2>5. CASE WorkerTake(w)
      BY <2>5 DEF WorkerTake, MustQuit
    <2>6. CASE WorkerRun(w)
      BY <2>6 DEF WorkerRun
    <2>7. CASE WorkerReturn(w)
      BY <2>7 DEF WorkerReturn
    <2>8. CASE WorkerLoop(w)
      BY <2>8 DEF WorkerLoop
    <2>9. CASE WorkerUndefined(w)
      BY <2>9 DEF WorkerUndefined, poolVars, histVars
    <2> QED
      BY <1>14, <2>1, <2>2, <2>3, <2>4, <2>5, <2>6, <2>7, <2>8, <2>9 DEF WorkerStep
  <1>15. ASSUME NEW all \in BOOLEAN, FreeCall(all) PROVE ShutdownKept
    BY <1>15 DEF FreeCall, OwnerUnchanged, callVars
  <1>16. CASE FreeLock
    BY <1>16 DEF FreeLock, OwnerUnchanged, callVars
  <1>17. CASE FreeBroadcast
    BY <1>17 DEF FreeBroadcast, Early, Broadcast, Waiting, OwnerUnchanged, callVars
  <1>18. CASE FreeJoin
    BY <1>18 DEF FreeJoin, OwnerUnchanged, callVars
  <1>19. ASSUME NEW err \in BOOLEAN, FreeJoined(err) PROVE ShutdownKept
    BY <1>19 DEF FreeJoined, OwnerUnchanged, callVars
  <1>20. CASE FreeAllJoined
    BY <1>20 DEF FreeAllJoined, EndOfList, OwnerUnchanged, callVars
  <1>21. CASE FreeCond
    BY <1>21 DEF FreeCond, OwnerUnchanged, callVars
  <1>22. CASE FreeMut
    BY <1>22 DEF FreeMut, OwnerUnchanged, callVars
  <1>23. CASE FreeTasks
    BY <1>23 DEF FreeTasks, OwnerUnchanged, callVars
  <1>24. CASE FreeThreads
    BY <1>24 DEF FreeThreads, OwnerUnchanged, callVars
  <1>25. CASE FreePool
    BY <1>25 DEF FreePool, OwnerUnchanged, callVars
  <1>26. CASE UNCHANGED vars
    BY <1>26 DEF vars, poolVars, workVars, callVars, ownerVars, histVars
  <1> QED
    BY <1>1, <1>2, <1>3, <1>4, <1>5, <1>6, <1>7, <1>8, <1>9, <1>10, <1>11, <1>12, <1>13,
       <1>14, <1>15, <1>16, <1>17, <1>18, <1>19, <1>20, <1>21, <1>22, <1>23, <1>24, <1>25,
       <1>26
    DEF Next, OwnerStep, ApiStep, ApiCall, Terminated

(* A shutdown is final: it is never taken back, and with SHUTDOWN_WAITCURR     *)
(* only the tasks that were being run are.                                   *)
THEOREM ShutdownStays == Spec => ShutdownIsFinal
  <1>1. TypeInv /\ PhaseInv /\ [Next]_vars => [ShutdownKept]_vars
    BY ShutdownNext
  <1> QED
    BY <1>1, TypeInit, TypeNext, LockInit, LockNext, PhaseInit, PhaseNext, PTL
    DEF Spec, ShutdownIsFinal

-----------------------------------------------------------------------------
(***************************************************************************)
(* The places of a task.  TaskAccounting adds up cardinalities; inductive is *)
(* what they come from: a task is on its way into the pool, in one cell of   *)
(* the queue, with one worker, done, or freed.                               *)
(***************************************************************************)
Queued(k) == \E i \in 1..Len(queue) : queue[i] = k
Held(k) == \E w \in Workers : wtask[w] = k

(* m_thpool_add is given each task once and has not enqueued it before.       *)
OneAdder ==
    /\ accepted \subseteq submitted
    /\ \A t \in Threads : Adding(t) => atask[t] \in submitted \ accepted
    /\ \A t, u \in Threads : Adding(t) /\ Adding(u) /\ atask[t] = atask[u] => t = u

(* No task is in two cells of the queue or with two workers.                  *)
OnePlace ==
    /\ \A i, j \in 1..Len(queue) : queue[i] = queue[j] => i = j
    /\ \A v, w \in Workers : wtask[v] = wtask[w] /\ wtask[v] # NoTask => v = w

(* A queued task has not been started; a worker runs the task it dequeued      *)
(* once.                                                                      *)
Fresh ==
    /\ \A i \in 1..Len(queue) :
         /\ queue[i] \in accepted \ discarded
         /\ executed[queue[i]] = 0
         /\ ~Held(queue[i])
    /\ \A w \in Workers :
         /\ wtask[w] # NoTask => wtask[w] \in accepted \ discarded
         /\ wpc[w] = "taken" => executed[wtask[w]] = 0
         /\ wpc[w] = "run" => executed[wtask[w]] = 1

(* A task that is out of the pool was run once or freed, never both.           *)
Settled ==
    /\ discarded \subseteq accepted
    /\ \A k \in Tasks :
         /\ executed[k] \in {0, 1}
         /\ executed[k] = 1 => k \in accepted \ discarded
         /\ k \in accepted => Queued(k) \/ Held(k) \/ executed[k] = 1 \/ k \in discarded

TaskInv == OneAdder /\ OnePlace /\ Fresh /\ Settled

-----------------------------------------------------------------------------
(***************************************************************************)
(* Most steps move no task.                                                 *)
(***************************************************************************)
KeepsTasks ==
    /\ UNCHANGED <<queue, wtask, submitted, accepted, executed, discarded>>
    /\ \A t \in Threads : Adding(t)' => Adding(t) /\ atask'[t] = atask[t]
    /\ \A w \in Workers : wpc'[w] \in {"taken", "run"} => wpc'[w] = wpc[w]

MovesTask ==
    \/ \E t \in Threads : (\E k \in Tasks : AddCall(t, k)) \/ AddEnqueue(t) \/ Clear(t)
    \/ \E w \in Workers : WorkerTake(w) \/ WorkerRun(w) \/ WorkerReturn(w)
    \/ FreeTasks

LEMMA TaskSteps == TypeInv /\ [Next]_vars => KeepsTasks \/ MovesTask
  <1> SUFFICES ASSUME TypeInv, [Next]_vars PROVE KeepsTasks \/ MovesTask
    OBVIOUS
  <1> USE ThpoolAssumption DEF TypeInv, TypeOK, KeepsTasks, Adding, Threads
  <1>1. ASSUME NEW w \in Workers, NewThread(w) PROVE KeepsTasks \/ MovesTask
    BY <1>1 DEF NewThread, add_thread, Unused, callVars, histVars
  <1>2. CASE NewFails
    BY <1>2 DEF NewFails, poolVars, workVars, callVars, histVars
  <1>3. CASE NewReturns
    BY <1>3 DEF NewReturns, workVars, callVars, histVars
  <1>4. ASSUME NEW t \in Threads, NEW k \in Tasks, AddCall(t, k) PROVE KeepsTasks \/ MovesTask
    BY <1>4 DEF MovesTask
  <1>5. ASSUME NEW t \in Threads, ClearCall(t) PROVE KeepsTasks \/ MovesTask
    BY <1>5 DEF ClearCall, MayCall, poolVars, workVars, ownerVars
  <1>6. ASSUME NEW t \in Threads, LengthCall(t) PROVE KeepsTasks \/ MovesTask
    BY <1>6 DEF LengthCall, MayCall, poolVars, workVars, ownerVars
  <1>7. ASSUME NEW t \in Threads, ApiLock(t) PROVE KeepsTasks \/ MovesTask
    BY <1>7, LockedType DEF ApiLock, workVars, ownerVars, histVars
  <1>8. ASSUME NEW t \in Threads, NEW w \in Workers, AddGrow(t, w) PROVE KeepsTasks \/ MovesTask
    BY <1>8 DEF AddGrow, add_thread, Unused, histVars
  <1>9. ASSUME NEW t \in Threads, AddGrowFails(t) PROVE KeepsTasks \/ MovesTask
    BY <1>9 DEF AddGrowFails, poolVars, workVars, ownerVars, histVars
  <1>10. ASSUME NEW t \in Threads, AddNoGrow(t) PROVE KeepsTasks \/ MovesTask
    BY <1>10 DEF AddNoGrow, poolVars, workVars, ownerVars, histVars
  <1>11. ASSUME NEW t \in Threads, AddEnqueue(t) PROVE KeepsTasks \/ MovesTask
    BY <1>11 DEF MovesTask
  <1>12. ASSUME NEW t \in Threads, Clear(t) PROVE KeepsTasks \/ MovesTask
    BY <1>12 DEF MovesTask
  <1>13. ASSUME NEW t \in Threads, Length(t) PROVE KeepsTasks \/ MovesTask
    BY <1>13 DEF Length, workVars, ownerVars, histVars
  <1>14. ASSUME NEW w \in Workers, WorkerStep(w) \/ WorkerSpurious(w) PROVE KeepsTasks \/ MovesTask
    <2> USE DEF WorkerUnchanged, callVars, ownerVars
    <2>1. CASE WorkerLock(w)
      BY <2>1 DEF WorkerLock
    <2>2. CASE WorkerWait(w)
      BY <2>2 DEF WorkerWait
    <2>3. CASE WorkerSpurious(w)
      BY <2>3 DEF WorkerSpurious, poolVars
    <2>4. CASE WorkerQuit(w)
      BY <2>4 DEF WorkerQuit
    <2>5. CASE WorkerTake(w)
      BY <2>5 DEF MovesTask
    <2>6. CASE WorkerRun(w)
      BY <2>6 DEF MovesTask
    <2>7. CASE WorkerReturn(w)
      BY <2>7 DEF MovesTask
    <2>8. CASE WorkerLoop(w)
      BY <2>8 DEF WorkerLoop
    <2>9. CASE WorkerUndefined(w)
      BY <2>9 DEF WorkerUndefined, poolVars, histVars
    <2> QED
      BY <1>14, <2>1, <2>2, <2>3, <2>4, <2>5, <2>6, <2>7, <2>8, <2>9 DEF WorkerStep
  <1>15. ASSUME NEW all \in BOOLEAN, FreeCall(all) PROVE KeepsTasks \/ MovesTask
    BY <1>15 DEF FreeCall, OwnerUnchanged, callVars
  <1>16. CASE FreeLock
    BY <1>16 DEF FreeLock, OwnerUnchanged, callVars
  <1>17. CASE FreeBroadcast
    BY <1>17 DEF FreeBroadcast, Broadcast, Waiting, OwnerUnchanged, callVars
  <1>18. CASE FreeJoin
    BY <1>18 DEF FreeJoin, OwnerUnchanged, callVars
  <1>19. ASSUME NEW err \in BOOLEAN, FreeJoined(err) PROVE KeepsTasks \/ MovesTask
    BY <1>19 DEF FreeJoined, OwnerUnchanged, callVars
  <1>20. CASE FreeAllJoined
    BY <1>20 DEF FreeAllJoined, EndOfList, OwnerUnchanged, callVars
  <1>21. CASE FreeCond
    BY <1>21 DEF FreeCond, OwnerUnchanged, callVars
  <1>22. CASE FreeMut
    BY <1>22 DEF FreeMut, OwnerUnchanged, callVars
  <1>23. CASE FreeTasks
    BY <1>23 DEF MovesTask
  <1>24. CASE FreeThreads
    BY <1>24 DEF FreeThreads, OwnerUnchanged, callVars
  <1>25. CASE FreePool
    BY <1>25 DEF FreePool, OwnerUnchanged, callVars
  <1>26. CASE UNCHANGED vars
    BY <1>26 DEF vars, poolVars, workVars, callVars, ownerVars, histVars
  <1> QED
    BY <1>1, <1>2, <1>3, <1>4, <1>5, <1>6, <1>7, <1>8, <1>9, <1>10, <1>11, <1>12, <1>13,
       <1>14, <1>15, <1>16, <1>17, <1>18, <1>19, <1>20, <1>21, <1>22, <1>23, <1>24, <1>25,
       <1>26
    DEF Next, OwnerStep, ApiStep, ApiCall, Terminated

LEMMA TaskInit == Init => TaskInv
  BY DEF Init, TaskInv, OneAdder, OnePlace, Fresh, Settled, Adding, Queued, Held, Threads

LEMMA TaskKept == TaskInv /\ KeepsTasks => TaskInv'
  <1> SUFFICES ASSUME TaskInv, KeepsTasks PROVE TaskInv'
    OBVIOUS
  <1> USE DEF TaskInv, KeepsTasks
  <1>1. OneAdder'
    BY DEF OneAdder, Adding
  <1>2. OnePlace'
    BY DEF OnePlace
  <1>3. Fresh'
    BY DEF Fresh, Held
  <1>4. Settled'
    BY DEF Settled, Queued, Held
  <1> QED
    BY <1>1, <1>2, <1>3, <1>4

LEMMA TaskNext == TypeInv /\ TaskInv /\ [Next]_vars => TaskInv'
  <1> SUFFICES ASSUME TypeInv, TaskInv, [Next]_vars PROVE TaskInv'
    OBVIOUS
  <1> USE DEF TypeInv, TypeOK
  <1>1. CASE KeepsTasks
    BY <1>1, TaskKept
  <1>2. ASSUME NEW t \in Threads, NEW k \in Tasks, AddCall(t, k) PROVE TaskInv'
    <2> USE <1>2 DEF AddCall, poolVars, workVars, ownerVars, callVars, TaskInv
    <2>1. OneAdder'
      <3>1. \A u \in Threads : apc'[u] \in {"addLock", "addIn", "addEnqueue"} =>
                  \/ Adding(u) /\ atask'[u] = atask[u]
                  \/ u = t /\ atask'[u] = k
        BY DEF Adding
      <3>2. k \notin submitted /\ accepted' = accepted /\ submitted' = submitted \cup {k}
        OBVIOUS
      <3> QED
        BY <3>1, <3>2 DEF OneAdder, Adding
    <2>2. OnePlace' /\ Fresh' /\ Settled'
      BY DEF OnePlace, Fresh, Settled, Queued, Held
    <2> QED
      BY <2>1, <2>2
  <1>3. ASSUME NEW t \in Threads, AddEnqueue(t) PROVE TaskInv'
    <2>0. PICK k \in Tasks : k = atask[t]
      BY <1>3 DEF AddEnqueue, AddTask, Adding
    <2>1. /\ k \in submitted \ accepted
          /\ queue' = Append(queue, k) /\ accepted' = accepted \cup {k}
          /\ UNCHANGED <<wtask, submitted, executed, discarded>>
      BY <1>3, <2>0 DEF AddEnqueue, m_queue_enqueue, Adding, TaskInv, OneAdder
    <2>2. /\ ~Queued(k) /\ ~Held(k) /\ executed[k] = 0 /\ k \notin discarded
      <3>1. ~Queued(k)
        BY <2>1 DEF TaskInv, Fresh, Queued
      <3>2. ~Held(k)
        BY <2>1, ThpoolAssumption DEF TaskInv, Fresh, Held
      <3> QED
        BY <2>1, <3>1, <3>2 DEF TaskInv, Settled
    <2>3. /\ Len(queue') = Len(queue) + 1 /\ queue'[Len(queue) + 1] = k
          /\ \A i \in 1..Len(queue) : queue'[i] = queue[i]
          /\ Len(queue) \in Nat
      BY <2>1
    <2>4. OneAdder'
      BY <1>3, <2>0, <2>1 DEF AddEnqueue, TaskInv, OneAdder, Adding
    <2>5. OnePlace'
      <3>1. \A i \in 1..Len(queue) : queue'[i] # k
        BY <2>2, <2>3 DEF Queued
      <3>2. ASSUME NEW i \in 1..Len(queue'), NEW j \in 1..Len(queue'), queue'[i] = queue'[j]
            PROVE  i = j
        <4>1. i \in 1..Len(queue) \/ i = Len(queue) + 1
          BY <2>3
        <4>2. j \in 1..Len(queue) \/ j = Len(queue) + 1
          BY <2>3
        <4>3. \A m, n \in 1..Len(queue) : queue[m] = queue[n] => m = n
          BY DEF TaskInv, OnePlace
        <4> QED
          BY <2>3, <3>1, <3>2, <4>1, <4>2, <4>3
      <3> QED
        BY <2>1, <3>2 DEF TaskInv, OnePlace
    <2>6. Fresh'
      <3>1. \A w \in Workers : wpc'[w] \in {"taken", "run"} => wpc'[w] = wpc[w]
        BY <1>3 DEF AddEnqueue, Signal, Waiting
      <3>2. ASSUME NEW i \in 1..Len(queue')
            PROVE  (queue[i] \in accepted \ discarded /\ executed[queue[i]] = 0
                    /\ ~Held(queue[i]))'
        <4>1. CASE i \in 1..Len(queue)
          <5>1. /\ queue[i] \in accepted \ discarded /\ executed[queue[i]] = 0 /\ ~Held(queue[i])
                /\ queue'[i] = queue[i]
            BY <2>3, <4>1 DEF TaskInv, Fresh
          <5> QED
            BY <2>1, <5>1 DEF Held
        <4>2. CASE i = Len(queue) + 1
          BY <2>1, <2>2, <2>3, <4>2 DEF Held
        <4> QED
          BY <2>3, <4>1, <4>2
      <3>3. ASSUME NEW w \in Workers
            PROVE  /\ wtask'[w] # NoTask => wtask'[w] \in accepted' \ discarded'
                   /\ wpc'[w] = "taken" => executed'[wtask'[w]] = 0
                   /\ wpc'[w] = "run" => executed'[wtask'[w]] = 1
        BY <2>1, <3>1 DEF TaskInv, Fresh
      <3> QED
        BY <3>2, <3>3 DEF Fresh
    <2>7. Settled'
      <3>1. Queued(k)'
        <4>1. Len(queue) + 1 \in 1..Len(queue')
          BY <2>3
        <4> QED
          BY <2>3, <4>1 DEF Queued
      <3>2. \A x : Queued(x) => Queued(x)'
        BY <2>3 DEF Queued
      <3> QED
        BY <2>1, <2>2, <3>1, <3>2 DEF TaskInv, Settled, Held
    <2> QED
      BY <2>4, <2>5, <2>6, <2>7 DEF TaskInv
  <1>4. ASSUME NEW t \in Threads, Clear(t) PROVE TaskInv'
    <2> USE <1>4 DEF Clear, workVars, ownerVars
    <2>1. \A k : k \in Range(queue) <=> Queued(k)
      BY DEF Range, Queued
    <2>2. OneAdder' /\ OnePlace'
      BY DEF TaskInv, OneAdder, OnePlace, Adding
    <2>3. Fresh'
      <3>1. UNCHANGED <<wpc, wtask, accepted, executed>> /\ Len(queue') = 0
        OBVIOUS
      <3>2. \A w \in Workers : wtask[w] # NoTask => wtask[w] \notin Range(queue)
        BY <2>1 DEF TaskInv, Fresh, Held, Queued
      <3>3. ASSUME NEW w \in Workers, wtask[w] # NoTask PROVE wtask[w] \in accepted \ discarded'
        <4>1. discarded' = discarded \cup Range(queue) /\ wtask[w] \in accepted \ discarded
          BY <3>3 DEF TaskInv, Fresh
        <4> QED
          BY <3>2, <3>3, <4>1
      <3> HIDE <1>4 DEF Clear, workVars, ownerVars
      <3>4. \A w \in Workers :
               /\ wpc[w] = "taken" => executed[wtask[w]] = 0
               /\ wpc[w] = "run" => executed[wtask[w]] = 1
        BY DEF TaskInv, Fresh
      <3> QED
        BY <3>1, <3>3, <3>4 DEF Fresh
    <2>4. Settled'
      BY <2>1 DEF TaskInv, Settled, Fresh, Held, Queued
    <2> QED
      BY <2>2, <2>3, <2>4 DEF TaskInv
  <1>5. CASE FreeTasks
    <2> USE <1>5 DEF FreeTasks, OwnerUnchanged, callVars
    <2>1. \A k : k \in Range(queue) <=> Queued(k)
      BY DEF Range, Queued
    <2>2. OneAdder' /\ OnePlace'
      BY DEF TaskInv, OneAdder, OnePlace, Adding
    <2>3. Fresh'
      <3>1. UNCHANGED <<wpc, wtask, accepted, executed>> /\ Len(queue') = 0
        OBVIOUS
      <3>2. \A w \in Workers : wtask[w] # NoTask => wtask[w] \notin Range(queue)
        BY <2>1 DEF TaskInv, Fresh, Held, Queued
      <3>3. ASSUME NEW w \in Workers, wtask[w] # NoTask PROVE wtask[w] \in accepted \ discarded'
        <4>1. discarded' = discarded \cup Range(queue) /\ wtask[w] \in accepted \ discarded
          BY <3>3 DEF TaskInv, Fresh
        <4> QED
          BY <3>2, <3>3, <4>1
      <3> HIDE <1>5 DEF FreeTasks, OwnerUnchanged, callVars
      <3>4. \A w \in Workers :
               /\ wpc[w] = "taken" => executed[wtask[w]] = 0
               /\ wpc[w] = "run" => executed[wtask[w]] = 1
        BY DEF TaskInv, Fresh
      <3> QED
        BY <3>1, <3>3, <3>4 DEF Fresh
    <2>4. Settled'
      BY <2>1 DEF TaskInv, Settled, Fresh, Held, Queued
    <2> QED
      BY <2>2, <2>3, <2>4 DEF TaskInv
  <1>6. ASSUME NEW w \in Workers, WorkerTake(w) PROVE TaskInv'
    <2> USE DEF WorkerUnchanged, callVars, ownerVars
    <2>1. queue # <<>>
      BY <1>6 DEF WorkerTake, MustWait, MustQuit
    <2>0. PICK k \in Tasks : k = queue[1]
      BY <2>1
    <2>2. /\ wpc[w] = "check" /\ wtask[w] = NoTask
          /\ wtask' = [wtask EXCEPT ![w] = k]
          /\ wpc' = [wpc EXCEPT ![w] = "taken"]
          /\ queue' = Tail(queue)
          /\ UNCHANGED <<submitted, accepted, executed, discarded, apc, atask>>
      BY <1>6, <2>0, <2>1 DEF WorkerTake, m_queue_dequeue, HeldTask
    <2>3. /\ Len(queue') = Len(queue) - 1 /\ Len(queue) \in Nat \ {0}
          /\ \A i \in 1..Len(queue') : queue'[i] = queue[i + 1]
      BY <2>1, <2>2
    <2>4. /\ k \in accepted \ discarded /\ executed[k] = 0 /\ ~Held(k)
          /\ \A i \in 1..Len(queue') : queue'[i] # k
      <3>1. 1 \in 1..Len(queue) /\ \A i \in 1..Len(queue') : i + 1 \in 1..Len(queue) /\ i + 1 # 1
        BY <2>3
      <3>2. k \in accepted \ discarded /\ executed[k] = 0 /\ ~Held(k)
        BY <2>0, <3>1 DEF TaskInv, Fresh
      <3>3. \A i \in 1..Len(queue') : queue'[i] # k
        BY <2>0, <2>3, <3>1 DEF TaskInv, OnePlace
      <3> QED
        BY <3>2, <3>3
    <2>5. OneAdder'
      BY <2>2 DEF TaskInv, OneAdder, Adding
    <2>6. OnePlace'
      BY <2>2, <2>3, <2>4 DEF TaskInv, OnePlace, Held
    <2>7. Fresh'
      <3>2. \A i \in 1..Len(queue') : \A v \in Workers : wtask'[v] # queue'[i]
        <4> TAKE i \in 1..Len(queue')
        <4>1. i + 1 \in 1..Len(queue) /\ queue'[i] = queue[i + 1] /\ queue'[i] # k
          BY <2>3, <2>4
        <4>2. ~Held(queue'[i])
          BY <4>1 DEF TaskInv, Fresh
        <4> QED
          BY <2>2, <4>1, <4>2 DEF Held
      <3>3. \A i \in 1..Len(queue') : queue'[i] \in accepted \ discarded /\ executed[queue'[i]] = 0
        <4> TAKE i \in 1..Len(queue')
        <4>1. i + 1 \in 1..Len(queue) /\ queue'[i] = queue[i + 1]
          BY <2>3
        <4> QED
          BY <4>1 DEF TaskInv, Fresh
      <3> QED
        BY <2>2, <2>4, <3>2, <3>3 DEF TaskInv, Fresh, Held
    <2>8. Settled'
      <3>1. \A x : Queued(x) => Queued(x)' \/ x = k
        <4> SUFFICES ASSUME NEW i \in 1..Len(queue), queue[i] # k
                     PROVE  \E j \in 1..Len(queue') : queue'[j] = queue[i]
          BY DEF Queued
        <4>1. i - 1 \in 1..Len(queue') /\ queue'[i - 1] = queue[i]
          BY <2>0, <2>3
        <4> QED
          BY <4>1
      <3>2. Held(k)' /\ \A x \in Tasks : Held(x) => Held(x)'
        BY <2>2, ThpoolAssumption DEF Held
      <3> QED
        BY <2>2, <3>1, <3>2 DEF TaskInv, Settled
    <2> QED
      BY <2>5, <2>6, <2>7, <2>8 DEF TaskInv
  <1>7. ASSUME NEW w \in Workers, WorkerRun(w) PROVE TaskInv'
    <2> USE DEF WorkerUnchanged, callVars, ownerVars
    <2>0. PICK k \in Tasks : k = wtask[w]
      BY <1>7 DEF WorkerRun, HeldTask
    <2>1. /\ wpc[w] = "taken" /\ k # NoTask /\ executed[k] = 0
          /\ k \in accepted \ discarded
          /\ executed' = [executed EXCEPT ![k] = 1]
          /\ wpc' = [wpc EXCEPT ![w] = "run"]
          /\ UNCHANGED <<queue, wtask, submitted, accepted, discarded, apc, atask>>
      <3>1. wpc[w] = "taken" /\ k # NoTask
        BY <1>7, ThpoolAssumption DEF WorkerRun
      <3>2. executed[k] = 0 /\ k \in accepted \ discarded
        BY <2>0, <3>1 DEF TaskInv, Fresh
      <3> QED
        BY <1>7, <2>0, <3>1, <3>2 DEF WorkerRun
    <2>2. OneAdder' /\ OnePlace'
      BY <2>1 DEF TaskInv, OneAdder, OnePlace, Adding
    <2>3. Fresh'
      <3>1. \A i \in 1..Len(queue) : queue[i] # k
        BY <2>0 DEF TaskInv, Fresh, Held
      <3>2. \A v \in Workers : wtask[v] = k => v = w
        BY <2>0, <2>1 DEF TaskInv, OnePlace
      <3>3. \A v \in Workers : wpc[v] \in {"taken", "run"} => wtask[v] \in Tasks
        BY DEF HeldTask
      <3> QED
        BY <2>0, <2>1, <3>1, <3>2, <3>3 DEF TaskInv, Fresh, Held
    <2>4. Settled'
      BY <2>1 DEF TaskInv, Settled, Queued, Held
    <2> QED
      BY <2>2, <2>3, <2>4 DEF TaskInv
  <1>8. ASSUME NEW w \in Workers, WorkerReturn(w) PROVE TaskInv'
    <2> USE DEF WorkerUnchanged, callVars, ownerVars
    <2>0. PICK k \in Tasks : k = wtask[w]
      BY <1>8 DEF WorkerReturn, HeldTask
    <2>1. /\ wpc[w] = "run" /\ executed[k] = 1
          /\ wtask' = [wtask EXCEPT ![w] = NoTask]
          /\ wpc' = [wpc EXCEPT ![w] = "ran"]
          /\ UNCHANGED <<queue, executed, submitted, accepted, discarded, apc, atask>>
      BY <1>8, <2>0 DEF WorkerReturn, TaskInv, Fresh
    <2>2. OneAdder' /\ OnePlace'
      BY <2>1 DEF TaskInv, OneAdder, OnePlace, Adding
    <2>3. Fresh'
      BY <2>1, ThpoolAssumption DEF TaskInv, Fresh, Held
    <2>4. Settled'
      <3>1. \A x \in Tasks : Held(x) => Held(x)' \/ x = k
        BY <2>0, <2>1 DEF Held
      <3> QED
        BY <2>1, <3>1 DEF TaskInv, Settled, Queued
    <2> QED
      BY <2>2, <2>3, <2>4 DEF TaskInv
  <1> QED
    BY TaskSteps, <1>1, <1>2, <1>3, <1>4, <1>5, <1>6, <1>7, <1>8 DEF MovesTask

(* The cardinalities TaskAccounting adds up.                                  *)
LEMMA TaskCounts ==
    ASSUME TypeInv, TaskInv, NEW k \in Tasks
    PROVE  /\ Cardinality(Occurs(k)) = IF Queued(k) THEN 1 ELSE 0
           /\ Cardinality(Holders(k)) = IF Held(k) THEN 1 ELSE 0
  <1>1. ASSUME Queued(k) PROVE Cardinality(Occurs(k)) = 1
    <2>1. PICK i \in 1..Len(queue) : queue[i] = k
      BY <1>1 DEF Queued
    <2>2. Occurs(k) = {i}
      BY <2>1 DEF Occurs, TaskInv, OnePlace
    <2> QED
      BY <2>2, FS_Singleton
  <1>2. ASSUME ~Queued(k) PROVE Cardinality(Occurs(k)) = 0
    <2>1. Occurs(k) = {}
      BY <1>2 DEF Occurs, Queued
    <2> QED
      BY <2>1, FS_EmptySet
  <1>3. ASSUME Held(k) PROVE Cardinality(Holders(k)) = 1
    <2>1. PICK w \in Workers : wtask[w] = k
      BY <1>3 DEF Held
    <2>2. Holders(k) = {w}
      BY <2>1, ThpoolAssumption DEF Holders, TaskInv, OnePlace
    <2> QED
      BY <2>2, FS_Singleton
  <1>4. ASSUME ~Held(k) PROVE Cardinality(Holders(k)) = 0
    <2>1. Holders(k) = {}
      BY <1>4 DEF Holders, Held
    <2> QED
      BY <2>1, FS_EmptySet
  <1> QED
    BY <1>1, <1>2, <1>3, <1>4

LEMMA TaskPlaces == TypeInv /\ TaskInv => TaskAccounting
  <1> SUFFICES ASSUME TypeInv, TaskInv, NEW k \in Tasks
               PROVE  LET queued == Cardinality(Occurs(k))
                          held   == IF executed[k] = 0 THEN Cardinality(Holders(k)) ELSE 0
                          dead   == IF k \in discarded THEN 1 ELSE 0
                      IN  queued + held + executed[k] + dead = IF k \in accepted THEN 1 ELSE 0
    BY DEF TaskAccounting
  <1>1. /\ executed[k] \in {0, 1}
        /\ executed[k] = 1 => k \in accepted \ discarded
        /\ k \in discarded => k \in accepted
        /\ k \in accepted => Queued(k) \/ Held(k) \/ executed[k] = 1 \/ k \in discarded
    BY DEF TaskInv, Settled
  <1>2. Queued(k) => k \in accepted \ discarded /\ executed[k] = 0 /\ ~Held(k)
    BY DEF TaskInv, Fresh, Queued
  <1>3. Held(k) => k \in accepted \ discarded
    BY ThpoolAssumption DEF TaskInv, Fresh, Held
  <1> QED
    BY <1>1, <1>2, <1>3, TaskCounts

(* Every task m_thpool_add enqueued is in exactly one place, whatever the      *)
(* clients, the workers, the running tasks and m_thpool_free do meanwhile.     *)
THEOREM TasksAccounted == Spec => []TaskAccounting
  BY TaskPlaces, TypeInit, TypeNext, TaskInit, TaskNext, PTL DEF Spec

-----------------------------------------------------------------------------
(***************************************************************************)
(* m_thpool_free with wait_all.  When the last join of a joinable pool       *)
(* returns no worker is awake, so by NoLostWakeup nothing is queued; from    *)
(* then on nobody is left to add.                                            *)
(***************************************************************************)
DrainedInv == Joinable /\ DoneWaiting /\ waitAll => queue = <<>>

LEMMA DrainedInit == Init => DrainedInv
  BY DEF Init, DrainedInv, DoneWaiting

LEMMA DrainedNext ==
    TypeInv /\ LockInv /\ PhaseInv /\ JoinInv /\ JoinInv' /\ WakeInv /\ DrainedInv /\ [Next]_vars
        => DrainedInv'
  <1> SUFFICES ASSUME TypeInv, LockInv, PhaseInv, JoinInv, JoinInv', WakeInv, DrainedInv,
                      [Next]_vars
               PROVE  DrainedInv'
    OBVIOUS
  <1> USE ThpoolAssumption DEF TypeInv, TypeOK, LockInv, ApiWhere, PhaseInv, Early, JoinInv,
                               NoActiveThreads, DrainedInv, Joinable, Detached, Lazy,
                               DoneWaiting, Threads
  <1>1. ASSUME NEW w \in Workers, NewThread(w) PROVE DrainedInv'
    BY <1>1 DEF NewThread, add_thread, Unused, callVars, histVars
  <1>2. CASE NewFails
    BY <1>2 DEF NewFails, poolVars, workVars, callVars, histVars
  <1>3. CASE NewReturns
    BY <1>3 DEF NewReturns, workVars, callVars, histVars
  <1>4. ASSUME NEW t \in Threads, NEW k \in Tasks, AddCall(t, k) PROVE DrainedInv'
    BY <1>4 DEF AddCall, MayCall, poolVars, workVars, callVars, ownerVars
  <1>5. ASSUME NEW t \in Threads, ClearCall(t) PROVE DrainedInv'
    BY <1>5 DEF ClearCall, MayCall, poolVars, workVars, ownerVars
  <1>6. ASSUME NEW t \in Threads, LengthCall(t) PROVE DrainedInv'
    BY <1>6 DEF LengthCall, MayCall, poolVars, workVars, ownerVars
  <1>7. ASSUME NEW t \in Threads, ApiLock(t) PROVE DrainedInv'
    BY <1>7 DEF ApiLock, workVars, ownerVars, histVars
  <1>8. ASSUME NEW t \in Threads, NEW w \in Workers, AddGrow(t, w) PROVE DrainedInv'
    BY <1>8 DEF AddGrow, add_thread, Unused, histVars
  <1>9. ASSUME NEW t \in Threads, AddGrowFails(t) PROVE DrainedInv'
    BY <1>9 DEF AddGrowFails, poolVars, workVars, ownerVars, histVars
  <1>10. ASSUME NEW t \in Threads, AddNoGrow(t) PROVE DrainedInv'
    BY <1>10 DEF AddNoGrow, poolVars, workVars, ownerVars, histVars
  <1>11. ASSUME NEW t \in Threads, AddEnqueue(t) PROVE DrainedInv'
    BY <1>11 DEF AddEnqueue, Signal, m_queue_enqueue, ownerVars, Waiting
  <1>12. ASSUME NEW t \in Threads, Clear(t) PROVE DrainedInv'
    BY <1>12 DEF Clear, workVars, ownerVars
  <1>13. ASSUME NEW t \in Threads, Length(t) PROVE DrainedInv'
    BY <1>13 DEF Length, workVars, ownerVars, histVars
  <1>14. ASSUME NEW w \in Workers, WorkerStep(w) \/ WorkerSpurious(w) PROVE DrainedInv'
    <2> USE DEF WorkerUnchanged, callVars, ownerVars
    <2>1. CASE WorkerLock(w)
      BY <2>1 DEF WorkerLock
    <2>2. CASE WorkerWait(w)
      BY <2>2 DEF WorkerWait
    <2>3. CASE WorkerSpurious(w)
      BY <2>3 DEF WorkerSpurious, poolVars
    <2>4. CASE WorkerQuit(w)
      BY <2>4 DEF WorkerQuit
    <2>5. CASE WorkerTake(w)
      BY <2>5 DEF WorkerTake, m_queue_dequeue
    <2>6. CASE WorkerRun(w)
      BY <2>6 DEF WorkerRun
    <2>7. CASE WorkerReturn(w)
      BY <2>7 DEF WorkerReturn
    <2>8. CASE WorkerLoop(w)
      BY <2>8 DEF WorkerLoop
    <2>9. CASE WorkerUndefined(w)
      BY <2>9 DEF WorkerUndefined, poolVars, histVars
    <2> QED
      BY <1>14, <2>1, <2>2, <2>3, <2>4, <2>5, <2>6, <2>7, <2>8, <2>9 DEF WorkerStep
  <1>15. ASSUME NEW all \in BOOLEAN, FreeCall(all) PROVE DrainedInv'
    BY <1>15 DEF FreeCall, OwnerUnchanged, callVars
  <1>16. CASE FreeLock
    BY <1>16 DEF FreeLock, OwnerUnchanged, callVars
  <1>17. CASE FreeBroadcast
    BY <1>17 DEF FreeBroadcast, Broadcast, Waiting, OwnerUnchanged, callVars
  <1>18. CASE FreeJoin
    BY <1>18 DEF FreeJoin, OwnerUnchanged, callVars
  <1>19. ASSUME NEW err \in BOOLEAN, FreeJoined(err) PROVE DrainedInv'
    BY <1>19 DEF FreeJoined, OwnerUnchanged, callVars
  <1>20. CASE FreeAllJoined
    BY <1>20 DEF FreeAllJoined, EndOfList, OwnerUnchanged, callVars, WakeInv, NoLostWakeup
  <1>21. CASE FreeCond
    BY <1>21 DEF FreeCond, OwnerUnchanged, callVars
  <1>22. CASE FreeMut
    BY <1>22 DEF FreeMut, OwnerUnchanged, callVars
  <1>23. CASE FreeTasks
    BY <1>23 DEF FreeTasks, OwnerUnchanged, callVars
  <1>24. CASE FreeThreads
    BY <1>24 DEF FreeThreads, OwnerUnchanged, callVars
  <1>25. CASE FreePool
    BY <1>25 DEF FreePool, OwnerUnchanged, callVars
  <1>26. CASE UNCHANGED vars
    BY <1>26 DEF vars, poolVars, workVars, callVars, ownerVars, histVars
  <1> QED
    BY <1>1, <1>2, <1>3, <1>4, <1>5, <1>6, <1>7, <1>8, <1>9, <1>10, <1>11, <1>12, <1>13,
       <1>14, <1>15, <1>16, <1>17, <1>18, <1>19, <1>20, <1>21, <1>22, <1>23, <1>24, <1>25,
       <1>26
    DEF Next, OwnerStep, ApiStep, ApiCall, Terminated

LEMMA DrainedRuns == TypeInv /\ JoinInv /\ TaskInv /\ DrainedInv => WaitAllRunsAll
  <1> SUFFICES ASSUME TypeInv, JoinInv, TaskInv, DrainedInv, Joinable, DoneWaiting, waitAll,
                      NEW k \in accepted
               PROVE  queue = <<>> /\ (executed[k] = 1 \/ k \in discarded)
    BY DEF WaitAllRunsAll, DrainedInv
  <1>1. ~Queued(k)
    BY DEF DrainedInv, Queued
  <1>2. k \in Tasks /\ ~Held(k)
    BY ThpoolAssumption DEF TypeInv, TypeOK, HeldTask, JoinInv, NoActiveThreads, Held
  <1> QED
    BY <1>1, <1>2 DEF DrainedInv, TaskInv, Settled

(* m_thpool_free with wait_all destroys a joinable pool only when every task    *)
(* it ever accepted was run, or removed by m_thpool_clear.                      *)
THEOREM WaitAllIsComplete == Spec => []WaitAllRunsAll
  BY DrainedRuns, DrainedInit, DrainedNext, TypeInit, TypeNext, LockInit, LockNext, PhaseInit,
     PhaseNext, JoinInit, JoinNext, CountInit, CountNext, WakeInit, WakeNext, TaskInit, TaskNext,
     PTL DEF Spec

-----------------------------------------------------------------------------
(***************************************************************************)
(* Refinement.  Joinable depends on how the pool was created, so it holds    *)
(* always or never.  Only two steps change the phase a client can tell apart *)
(* and only five what happens to tasks.                                      *)
(***************************************************************************)
LEMMA PhaseSteps ==
    Joinable /\ [Next]_vars => Phase' = Phase \/ FreeBroadcast \/ FreeAllJoined
  <1> DEFINE Goal == Phase' = Phase \/ FreeBroadcast \/ FreeAllJoined
  <1> SUFFICES ASSUME Joinable, [Next]_vars PROVE Goal
    OBVIOUS
  <1> USE DEF Phase, DoneWaiting
  <1>1. ASSUME NEW w \in Workers, NewThread(w) PROVE Goal
    BY <1>1 DEF NewThread, add_thread, Unused, callVars, histVars
  <1>2. CASE NewFails
    BY <1>2 DEF NewFails, poolVars, workVars, callVars, histVars, Joinable, Lazy
  <1>3. CASE NewReturns
    BY <1>3 DEF NewReturns, workVars, callVars, histVars
  <1>4. ASSUME NEW t \in Threads, NEW k \in Tasks, AddCall(t, k) PROVE Goal
    BY <1>4 DEF AddCall, MayCall, poolVars, workVars, callVars, ownerVars
  <1>5. ASSUME NEW t \in Threads, ClearCall(t) PROVE Goal
    BY <1>5 DEF ClearCall, MayCall, poolVars, workVars, ownerVars
  <1>6. ASSUME NEW t \in Threads, LengthCall(t) PROVE Goal
    BY <1>6 DEF LengthCall, MayCall, poolVars, workVars, ownerVars
  <1>7. ASSUME NEW t \in Threads, ApiLock(t) PROVE Goal
    BY <1>7 DEF ApiLock, workVars, ownerVars, histVars
  <1>8. ASSUME NEW t \in Threads, NEW w \in Workers, AddGrow(t, w) PROVE Goal
    BY <1>8 DEF AddGrow, add_thread, Unused, histVars
  <1>9. ASSUME NEW t \in Threads, AddGrowFails(t) PROVE Goal
    BY <1>9 DEF AddGrowFails, poolVars, workVars, ownerVars, histVars
  <1>10. ASSUME NEW t \in Threads, AddNoGrow(t) PROVE Goal
    BY <1>10 DEF AddNoGrow, poolVars, workVars, ownerVars, histVars
  <1>11. ASSUME NEW t \in Threads, AddEnqueue(t) PROVE Goal
    BY <1>11 DEF AddEnqueue, Signal, m_queue_enqueue, ownerVars, Waiting
  <1>12. ASSUME NEW t \in Threads, Clear(t) PROVE Goal
    BY <1>12 DEF Clear, workVars, ownerVars
  <1>13. ASSUME NEW t \in Threads, Length(t) PROVE Goal
    BY <1>13 DEF Length, workVars, ownerVars, histVars
  <1>14. ASSUME NEW w \in Workers, WorkerStep(w) \/ WorkerSpurious(w) PROVE Goal
    <2> USE DEF WorkerUnchanged, callVars, ownerVars
    <2>1. CASE WorkerLock(w)
      BY <2>1 DEF WorkerLock
    <2>2. CASE WorkerWait(w)
      BY <2>2 DEF WorkerWait
    <2>3. CASE WorkerSpurious(w)
      BY <2>3 DEF WorkerSpurious, poolVars
    <2>4. CASE WorkerQuit(w)
      BY <2>4 DEF WorkerQuit
    <2>5. CASE WorkerTake(w)
      BY <2>5 DEF WorkerTake, m_queue_dequeue
    <2>6. CASE WorkerRun(w)
      BY <2>6 DEF WorkerRun
    <2>7. CASE WorkerReturn(w)
      BY <2>7 DEF WorkerReturn
    <2>8. CASE WorkerLoop(w)
      BY <2>8 DEF WorkerLoop
    <2>9. CASE WorkerUndefined(w)
      BY <2>9 DEF WorkerUndefined, poolVars, histVars
    <2> QED
      BY <1>14, <2>1, <2>2, <2>3, <2>4, <2>5, <2>6, <2>7, <2>8, <2>9 DEF WorkerStep
  <1>15. ASSUME NEW all \in BOOLEAN, FreeCall(all) PROVE Goal
    BY <1>15 DEF FreeCall, OwnerUnchanged, callVars
  <1>16. CASE FreeLock
    BY <1>16 DEF FreeLock, OwnerUnchanged, callVars
  <1>17. CASE FreeBroadcast
    BY <1>17
  <1>18. CASE FreeJoin
    BY <1>18 DEF FreeJoin, OwnerUnchanged, callVars
  <1>19. ASSUME NEW err \in BOOLEAN, FreeJoined(err) PROVE Goal
    BY <1>19 DEF FreeJoined, OwnerUnchanged, callVars
  <1>20. CASE FreeAllJoined
    BY <1>20
  <1>21. CASE FreeCond
    BY <1>21 DEF FreeCond, OwnerUnchanged, callVars
  <1>22. CASE FreeMut
    BY <1>22 DEF FreeMut, OwnerUnchanged, callVars
  <1>23. CASE FreeTasks
    BY <1>23 DEF FreeTasks, OwnerUnchanged, callVars
  <1>24. CASE FreeThreads
    BY <1>24 DEF FreeThreads, OwnerUnchanged, callVars
  <1>25. CASE FreePool
    BY <1>25 DEF FreePool, OwnerUnchanged, callVars
  <1>26. CASE UNCHANGED vars
    BY <1>26 DEF vars, poolVars, workVars, callVars, ownerVars, histVars
  <1> QED
    BY <1>1, <1>2, <1>3, <1>4, <1>5, <1>6, <1>7, <1>8, <1>9, <1>10, <1>11, <1>12, <1>13,
       <1>14, <1>15, <1>16, <1>17, <1>18, <1>19, <1>20, <1>21, <1>22, <1>23, <1>24, <1>25,
       <1>26
    DEF Next, OwnerStep, ApiStep, ApiCall, Terminated

LEMMA JoinableStays == Joinable /\ [Next]_vars => Joinable'
  <1> SUFFICES ASSUME Joinable, [Next]_vars PROVE env' = env
    BY DEF Joinable, Detached, Lazy
  <1>1. ASSUME NEW w \in Workers, NewThread(w) PROVE env' = env
    BY <1>1 DEF NewThread, add_thread, Unused, callVars, histVars
  <1>2. CASE NewFails
    BY <1>2 DEF NewFails, poolVars, workVars, callVars, histVars
  <1>3. CASE NewReturns
    BY <1>3 DEF NewReturns, workVars, callVars, histVars
  <1>4. ASSUME NEW t \in Threads, NEW k \in Tasks, AddCall(t, k) PROVE env' = env
    BY <1>4 DEF AddCall, MayCall, poolVars, workVars, callVars, ownerVars
  <1>5. ASSUME NEW t \in Threads, ClearCall(t) PROVE env' = env
    BY <1>5 DEF ClearCall, MayCall, poolVars, workVars, ownerVars
  <1>6. ASSUME NEW t \in Threads, LengthCall(t) PROVE env' = env
    BY <1>6 DEF LengthCall, MayCall, poolVars, workVars, ownerVars
  <1>7. ASSUME NEW t \in Threads, ApiLock(t) PROVE env' = env
    BY <1>7 DEF ApiLock, workVars, ownerVars, histVars
  <1>8. ASSUME NEW t \in Threads, NEW w \in Workers, AddGrow(t, w) PROVE env' = env
    BY <1>8 DEF AddGrow, add_thread, Unused, histVars
  <1>9. ASSUME NEW t \in Threads, AddGrowFails(t) PROVE env' = env
    BY <1>9 DEF AddGrowFails, poolVars, workVars, ownerVars, histVars
  <1>10. ASSUME NEW t \in Threads, AddNoGrow(t) PROVE env' = env
    BY <1>10 DEF AddNoGrow, poolVars, workVars, ownerVars, histVars
  <1>11. ASSUME NEW t \in Threads, AddEnqueue(t) PROVE env' = env
    BY <1>11 DEF AddEnqueue, Signal, m_queue_enqueue, ownerVars, Waiting
  <1>12. ASSUME NEW t \in Threads, Clear(t) PROVE env' = env
    BY <1>12 DEF Clear, workVars, ownerVars
  <1>13. ASSUME NEW t \in Threads, Length(t) PROVE env' = env
    BY <1>13 DEF Length, workVars, ownerVars, histVars
  <1>14. ASSUME NEW w \in Workers, WorkerStep(w) \/ WorkerSpurious(w) PROVE env' = env
    <2> USE DEF WorkerUnchanged, callVars, ownerVars
    <2>1. CASE WorkerLock(w)
      BY <2>1 DEF WorkerLock
    <2>2. CASE WorkerWait(w)
      BY <2>2 DEF WorkerWait
    <2>3. CASE WorkerSpurious(w)
      BY <2>3 DEF WorkerSpurious, poolVars
    <2>4. CASE WorkerQuit(w)
      BY <2>4 DEF WorkerQuit
    <2>5. CASE WorkerTake(w)
      BY <2>5 DEF WorkerTake, m_queue_dequeue
    <2>6. CASE WorkerRun(w)
      BY <2>6 DEF WorkerRun
    <2>7. CASE WorkerReturn(w)
      BY <2>7 DEF WorkerReturn
    <2>8. CASE WorkerLoop(w)
      BY <2>8 DEF WorkerLoop
    <2>9. CASE WorkerUndefined(w)
      BY <2>9 DEF WorkerUndefined, poolVars, histVars
    <2> QED
      BY <1>14, <2>1, <2>2, <2>3, <2>4, <2>5, <2>6, <2>7, <2>8, <2>9 DEF WorkerStep
  <1>15. ASSUME NEW all \in BOOLEAN, FreeCall(all) PROVE env' = env
    BY <1>15 DEF FreeCall, OwnerUnchanged, callVars
  <1>16. CASE FreeLock
    BY <1>16 DEF FreeLock, OwnerUnchanged, callVars
  <1>17. CASE FreeBroadcast
    BY <1>17 DEF FreeBroadcast, Broadcast, Waiting, OwnerUnchanged, callVars
  <1>18. CASE FreeJoin
    BY <1>18 DEF FreeJoin, OwnerUnchanged, callVars
  <1>19. ASSUME NEW err \in BOOLEAN, FreeJoined(err) PROVE env' = env
    BY <1>19 DEF FreeJoined, OwnerUnchanged, callVars
  <1>20. CASE FreeAllJoined
    BY <1>20 DEF FreeAllJoined, EndOfList, OwnerUnchanged, callVars
  <1>21. CASE FreeCond
    BY <1>21 DEF FreeCond, OwnerUnchanged, callVars
  <1>22. CASE FreeMut
    BY <1>22 DEF FreeMut, OwnerUnchanged, callVars
  <1>23. CASE FreeTasks
    BY <1>23 DEF FreeTasks, OwnerUnchanged, callVars
  <1>24. CASE FreeThreads
    BY <1>24 DEF FreeThreads, OwnerUnchanged, callVars
  <1>25. CASE FreePool
    BY <1>25 DEF FreePool, OwnerUnchanged, callVars
  <1>26. CASE UNCHANGED vars
    BY <1>26 DEF vars, poolVars, workVars, callVars, ownerVars, histVars
  <1> QED
    BY <1>1, <1>2, <1>3, <1>4, <1>5, <1>6, <1>7, <1>8, <1>9, <1>10, <1>11, <1>12, <1>13,
       <1>14, <1>15, <1>16, <1>17, <1>18, <1>19, <1>20, <1>21, <1>22, <1>23, <1>24, <1>25,
       <1>26
    DEF Next, OwnerStep, ApiStep, ApiCall, Terminated

LEMMA ActiveBound ==
    ASSUME TypeInv, NEW w \in Workers, wtask[w] = NoTask
    PROVE  Cardinality(Active) < Cardinality(Workers)
  <1> DEFINE Busy == {v \in Workers : wtask[v] # NoTask}
             f == [v \in Busy |-> wtask[v]]
  <1>1. Busy \in SUBSET (Workers \ {w})
    OBVIOUS
  <1>2. /\ IsFiniteSet(Workers \ {w})
        /\ Cardinality(Workers \ {w}) = Cardinality(Workers) - 1
        /\ Cardinality(Workers) \in Nat
    BY ThpoolAssumption, FS_RemoveElement, FS_CardinalityType
  <1>3. /\ IsFiniteSet(Busy) /\ Cardinality(Busy) <= Cardinality(Workers \ {w})
        /\ Cardinality(Busy) \in Nat
    BY <1>1, <1>2, FS_Subset, FS_CardinalityType
  <1>4. f \in Surjection(Busy, Active)
    BY DEF Active, Surjection
  <1>5. Cardinality(Active) <= Cardinality(Busy) /\ Cardinality(Active) \in Nat
    BY <1>3, <1>4, FS_Surjection, FS_CardinalityType
  <1> QED
    BY <1>2, <1>3, <1>5

(* The instance has a copy of Cardinality of its own.                         *)
LEMMA SameCardinality == \A S : Abstract!Cardinality(S) = Cardinality(S)
  BY Zenon DEF Abstract!Cardinality, Cardinality

Finished == {k \in Tasks : executed[k] > 0} \ Active

LEMMA RefineInit == Init => Abstract!Init
  BY DEF Init, Abstract!Init, Active, Phase, DoneWaiting

(* A worker that runs or has taken a task keeps m_thpool_free waiting.         *)
LEMMA NotClosed ==
    ASSUME JoinInv, Joinable, NEW w \in Workers, wpc[w] \notin {"absent", "exit"}
    PROVE  Phase # "closed" /\ ~DoneWaiting
  BY DEF JoinInv, NoActiveThreads, Phase, DoneWaiting

LEMMA RefineNext ==
    /\ TypeInv /\ LockInv /\ PhaseInv /\ JoinInv /\ TaskInv /\ DrainedInv
    /\ TypeInv' /\ JoinInv' /\ DrainedInv'
    /\ Joinable /\ [Next]_vars
    => [Abstract!Next]_(Abstract!vars)
  <1> SUFFICES ASSUME TypeInv, LockInv, PhaseInv, JoinInv, TaskInv, DrainedInv,
                      TypeInv', JoinInv', DrainedInv', Joinable, [Next]_vars
               PROVE  [Abstract!Next]_(Abstract!vars)
    OBVIOUS
  <1> USE ThpoolAssumption
  <1>1. CASE FreeBroadcast
    <2>1. UNCHANGED <<queue, Active, Finished>>
      BY <1>1 DEF FreeBroadcast, OwnerUnchanged, Active, Finished
    <2>2. Phase = "open"
      BY <1>1 DEF FreeBroadcast, PhaseInv, Early, DoneWaiting, Phase
    <2>3. waitAll \in BOOLEAN /\ Phase' = IF waitAll THEN "all" ELSE "current"
      BY <1>1 DEF FreeBroadcast, Joinable, DoneWaiting, Phase, TypeInv, TypeOK
    <2>4. Abstract!Close(waitAll)
      BY <2>1, <2>2, <2>3 DEF Abstract!Close, Finished
    <2> QED
      BY <2>3, <2>4 DEF Abstract!Next
  <1>2. CASE FreeAllJoined
    <2>1. UNCHANGED <<queue, Active, Finished>>
      BY <1>2 DEF FreeAllJoined, OwnerUnchanged, Active, Finished
    <2>2. Phase = IF waitAll THEN "all" ELSE "current"
      BY <1>2 DEF FreeAllJoined, PhaseInv, DoneWaiting, Phase, TypeInv, TypeOK
    <2>3. DoneWaiting' /\ Phase' = "closed" /\ Joinable' /\ waitAll' = waitAll
      <3>1. opc' \in {"free", "cond"} /\ waitAll' = waitAll
        BY <1>2 DEF FreeAllJoined
      <3>2. Joinable'
        BY JoinableStays
      <3>3. DoneWaiting'
        BY <3>1 DEF DoneWaiting
      <3>4. Phase' = "closed"
        BY <3>3 DEF Phase
      <3> QED
        BY <3>1, <3>2, <3>3, <3>4
    <2>4. Active = {}
      <3>1. \A w \in Workers : wtask'[w] = NoTask
        BY <2>3 DEF JoinInv, NoActiveThreads, TypeInv, HeldTask
      <3> QED
        BY <2>1, <3>1 DEF Active
    <2>5. Phase = "all" => queue = <<>>
      BY <2>1, <2>2, <2>3 DEF DrainedInv
    <2>6. Abstract!Closed
      BY <2>1, <2>2, <2>3, <2>4, <2>5 DEF Abstract!Closed, Finished
    <2> QED
      BY <2>6 DEF Abstract!Next
  <1>3. ASSUME Phase' = Phase, KeepsTasks PROVE UNCHANGED Abstract!vars
    BY <1>3 DEF KeepsTasks, Abstract!vars, Active
  <1>4. ASSUME Phase' = Phase, NEW t \in Threads, NEW k \in Tasks, AddCall(t, k)
        PROVE  UNCHANGED Abstract!vars
    BY <1>4 DEF AddCall, poolVars, workVars, Abstract!vars, Active
  <1>5. ASSUME Phase' = Phase, NEW t \in Threads, AddEnqueue(t) PROVE Abstract!Next
    <2>1. UNCHANGED <<Active, Finished>>
      BY <1>5 DEF AddEnqueue, Active, Finished
    <2>2. PICK k \in Tasks : k = atask[t]
      BY <1>5 DEF AddEnqueue, TypeInv, AddTask, Adding
    <2>3. k \notin accepted
      BY <1>5, <2>2 DEF AddEnqueue, TaskInv, OneAdder, Adding
    <2>4. k \notin Active \cup Finished
      BY <2>3 DEF Active, Finished, TaskInv, Fresh, Settled
    <2>5. Phase = "open" \/ (Phase \in {"current", "all"} /\ Active # {})
      <3>1. CASE t \in Callers
        BY <1>5, <3>1 DEF AddEnqueue, LockInv, ApiWhere, PhaseInv, Early, DoneWaiting, Phase
      <3>2. CASE t \in Workers
        <4>1. wpc[t] = "run" /\ wtask[t] \in Tasks
          BY <1>5, <3>2 DEF AddEnqueue, LockInv, ApiWhere, TypeInv, HeldTask
        <4>2. Active # {}
          BY <3>2, <4>1 DEF Active
        <4> QED
          BY <3>2, <4>1, <4>2, NotClosed DEF Phase
      <3> QED
        BY <3>1, <3>2 DEF Threads
    <2>6. Abstract!Submit(k)
      BY <1>5, <2>1, <2>2, <2>4, <2>5 DEF AddEnqueue, m_queue_enqueue, Abstract!Submit, Finished
    <2> QED
      BY <2>6 DEF Abstract!Next
  <1>6. ASSUME Phase' = Phase, NEW t \in Threads, Clear(t) PROVE Abstract!Next
    <2>1. Abstract!DropAll
      BY <1>6 DEF Clear, workVars, Abstract!DropAll, Active
    <2> QED
      BY <2>1 DEF Abstract!Next
  <1>7. ASSUME Phase' = Phase, FreeTasks PROVE Abstract!Next
    <2>1. Abstract!DropAll
      BY <1>7 DEF FreeTasks, OwnerUnchanged, Abstract!DropAll, Active
    <2> QED
      BY <2>1 DEF Abstract!Next
  <1>8. ASSUME Phase' = Phase, NEW w \in Workers, WorkerTake(w) PROVE Abstract!Next
    <2>1. /\ wpc[w] = "check" /\ wtask[w] = NoTask /\ queue # <<>> /\ shutdown # "WAITCURR"
          /\ wtask' = [wtask EXCEPT ![w] = Head(queue)]
          /\ queue' = Tail(queue) /\ executed' = executed
      BY <1>8 DEF WorkerTake, m_queue_dequeue, MustWait, MustQuit, TypeInv, TypeOK, HeldTask
    <2>2. PICK k \in Tasks : k = Head(queue) /\ k = queue[1] /\ 1 \in 1..Len(queue)
      BY <2>1 DEF TypeInv, TypeOK
    <2>3. Active' = Active \cup {k}
      BY <2>1, <2>2 DEF Active, TypeInv, TypeOK
    <2>4. executed[k] = 0
      BY <2>2 DEF TaskInv, Fresh
    <2>5. Finished' = Finished
      BY <2>1, <2>3, <2>4 DEF Finished
    <2>6. Phase \in {"open", "all"}
      BY <2>1, NotClosed DEF Phase, TypeInv, TypeOK
    <2>7. Cardinality(Active) < Cardinality(Workers)
      BY <2>1, ActiveBound
    <2>8. Abstract!Start
      <3>1. Active' = Active \cup {Head(queue)}
        BY <2>2, <2>3
      <3> QED
        BY <1>8, <2>1, <2>5, <2>6, <2>7, <3>1, SameCardinality DEF Abstract!Start, Finished
    <2> QED
      BY <2>8 DEF Abstract!Next
  <1>9. ASSUME Phase' = Phase, NEW w \in Workers, WorkerRun(w) PROVE UNCHANGED Abstract!vars
    <2>1. PICK k \in Tasks : k = wtask[w]
      BY <1>9 DEF WorkerRun, TypeInv, HeldTask
    <2>2. UNCHANGED <<queue, wtask>> /\ executed' = [executed EXCEPT ![k] = executed[k] + 1]
      BY <1>9, <2>1 DEF WorkerRun
    <2>3. Active' = Active /\ k \in Active
      BY <2>1, <2>2 DEF Active
    <2>4. Finished' = Finished
      BY <2>2, <2>3 DEF Finished, TypeInv, TypeOK
    <2> QED
      BY <1>9, <2>2, <2>3, <2>4 DEF Abstract!vars, Finished
  <1>10. ASSUME Phase' = Phase, NEW w \in Workers, WorkerReturn(w) PROVE Abstract!Next
    <2>1. PICK k \in Tasks : k = wtask[w]
      BY <1>10 DEF WorkerReturn, TypeInv, HeldTask
    <2>2. /\ UNCHANGED <<queue, executed>> /\ wtask' = [wtask EXCEPT ![w] = NoTask]
          /\ wpc[w] = "run" /\ executed[k] = 1
      BY <1>10, <2>1 DEF WorkerReturn, TaskInv, Fresh
    <2>3. \A v \in Workers : wtask[v] = k => v = w
      BY <2>1 DEF TaskInv, OnePlace
    <2>4. Active' = Active \ {k} /\ k \in Active
      BY <2>1, <2>2, <2>3 DEF Active, TypeInv, TypeOK
    <2>5. Finished' = Finished \cup {k}
      BY <2>2, <2>4 DEF Finished
    <2>6. Phase # "closed"
      BY <2>2, NotClosed
    <2>7. Abstract!Finish(k)
      BY <1>10, <2>2, <2>4, <2>5, <2>6 DEF Abstract!Finish, Finished
    <2> QED
      BY <2>7 DEF Abstract!Next
  <1> QED
    BY TaskSteps, PhaseSteps, <1>1, <1>2, <1>3, <1>4, <1>5, <1>6, <1>7, <1>8, <1>9, <1>10
    DEF MovesTask

(* A joinable pool implements TaskPool: for its clients the workers, the mutex, *)
(* the condition variable and the joins of thpool.c come down to its steps.     *)
THEOREM PoolImplementsTaskPool == Spec /\ Joinable => ImplementsTaskPool
  <1>1. Init => Abstract!Init
    BY RefineInit
  <1> QED
    BY <1>1, RefineNext, JoinableStays, DrainedInit, DrainedNext, TypeInit, TypeNext, LockInit,
       LockNext, PhaseInit, PhaseNext, JoinInit, JoinNext, CountInit, CountNext, WakeInit,
       WakeNext, TaskInit, TaskNext, PTL DEF Spec, ImplementsTaskPool, Abstract!Spec
=============================================================================
