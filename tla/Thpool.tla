------------------------------- MODULE Thpool -------------------------------
(***************************************************************************)
(* The thread pool of libmodule: Lib/thpool/thpool.c.                       *)
(*                                                                         *)
(* Client threads (Callers) and running tasks call the pool's API while    *)
(* worker threads wait on its condition variable, take tasks and run them. *)
(* One step is what a thread does between two points where another thread  *)
(* can see a difference: taking the mutex, a critical section up to its     *)
(* unlock, an access made without the mutex (running_tasks, the entry      *)
(* check of shutdown, the walk of the thread list in wait_pool), and each   *)
(* release of a resource in m_thpool_free.                                 *)
(***************************************************************************)
EXTENDS Integers, FiniteSets, Sequences, Functions

CONSTANTS
    Workers,        \* the max_threads threads the pool may create
    Callers,        \* client threads that hold the pool pointer
    Owner,          \* the client that creates and frees the pool
    Tasks,          \* the tasks clients will ever submit, each once
    NoOne,          \* "nobody": the mutex is free
    NoTask,
    Scenarios,      \* the ways a pool is created and used, see Scenario
    MaxCalls,       \* bound on the calls of m_thpool_clear and m_thpool_length
    MaxSpurious     \* bound on spurious wakeups

(* flags: the m_thpool_flags given to m_thpool_new; tasksCall: running tasks *)
(* call the pool's API too; createFails: pthread_create may fail.            *)
Scenario == [flags : SUBSET {"LAZY", "DETACHED"}, tasksCall : BOOLEAN, createFails : BOOLEAN]

ASSUME ThpoolAssumption ==
    /\ IsFiniteSet(Workers) /\ Workers # {}
    /\ Workers \cap Callers = {}
    /\ Owner \in Callers
    /\ NoOne \notin Workers \cup Callers
    /\ NoTask \notin Tasks
    /\ Scenarios \subseteq Scenario
    /\ MaxCalls \in Nat /\ MaxSpurious \in Nat

VARIABLES
    env,        \* pool->flags and the scenario the pool is used in
    threads,    \* pool->threads, a list that grows at its head
    queue,      \* pool->tasks
    lock,       \* holder of pool->lock
    shutdown,   \* pool->shutdown
    running,    \* pool->running_tasks
    started,    \* INITED_STARTED of pool->init_state
    alive,      \* what is initialised: INITED_{COND,MUT,TASKS,THREADS}, the pool itself
    wpc,        \* where each worker is in thpool_thread
    wtask,      \* the task a worker has dequeued
    apc,        \* where each thread is in m_thpool_{add,clear,length}
    atask,      \* the task a thread is adding
    opc,        \* where the owner is in m_thpool_new and m_thpool_free
    waitAll,    \* the wait_all argument of m_thpool_free
    cursor,     \* wait_pool's list iterator: a position in threads
    joining,    \* the thread pthread_join is called on
    joined,     \* threads joined so far
    joinErr,    \* some pthread_join failed
    submitted,  \* history: tasks passed to m_thpool_add
    accepted,   \* history: tasks it enqueued
    executed,   \* history: how often each task's function was called
    discarded,  \* history: tasks freed without running
    calls,      \* calls of m_thpool_clear and m_thpool_length so far
    spurious    \* spurious wakeups so far

poolVars  == <<env, threads, queue, lock, shutdown, running, started, alive>>
workVars  == <<wpc, wtask>>
callVars  == <<apc, atask>>
ownerVars == <<opc, waitAll, cursor, joining, joined, joinErr>>
histVars  == <<submitted, accepted, executed, discarded, calls, spurious>>
vars == <<poolVars, workVars, callVars, ownerVars, histVars>>

Threads == Workers \cup Callers
Resource == {"COND", "MUT", "TASKS", "THREADS", "POOL"}

WorkerPc == {"absent", "lock", "wait", "check", "taken", "run", "ran", "exit", "undefined"}
ApiPc == {"idle", "addLock", "addIn", "addEnqueue",
          "clearLock", "clearIn", "lengthLock", "lengthIn"}
OwnerPc == {"new", "up", "shut", "broadcast", "join", "joining",
            "cond", "mut", "tasks", "threads", "free", "gone"}

Lazy == "LAZY" \in env.flags
Detached == "DETACHED" \in env.flags

(***************************************************************************)
(* m_thpool_new.  The mutex, the queue and the list exist before the first *)
(* worker starts; allocation does not fail.                                 *)
(***************************************************************************)
Init ==
    /\ env \in Scenarios
    /\ threads = <<>> /\ queue = <<>>
    /\ lock = NoOne /\ shutdown = "NO" /\ running = 0
    /\ started = FALSE /\ alive = Resource
    /\ wpc = [w \in Workers |-> "absent"]
    /\ wtask = [w \in Workers |-> NoTask]
    /\ apc = [t \in Threads |-> "idle"]
    /\ atask = [t \in Threads |-> NoTask]
    /\ opc = "new" /\ waitAll = FALSE
    /\ cursor = 1 /\ joining = NoOne /\ joined = {} /\ joinErr = FALSE
    /\ submitted = {} /\ accepted = {} /\ discarded = {}
    /\ executed = [k \in Tasks |-> 0]
    /\ calls = 0 /\ spurious = 0

Unused == {w \in Workers : wpc[w] = "absent"}

(* add_threads, one iteration that succeeds: the new thread starts at once  *)
(* and its handle becomes the head of the list.  An iterator that stands on *)
(* the first node points at the list's head pointer, so it now stands on    *)
(* the new node; one further on keeps the node it stands on.                *)
add_thread(w) ==
    /\ w \in Unused
    /\ wpc' = [wpc EXCEPT ![w] = "lock"]
    /\ threads' = <<w>> \o threads
    /\ cursor' = IF cursor = 1 THEN 1 ELSE cursor + 1

NewThread(w) ==
    /\ opc = "new" /\ ~Lazy
    /\ add_thread(w)
    /\ UNCHANGED <<env, queue, lock, shutdown, running, started, alive, wtask,
                   callVars, opc, waitAll, joining, joined, joinErr, histVars>>

(* pthread_create fails: m_thpool_new destroys what it has, not started.    *)
NewFails ==
    /\ opc = "new" /\ ~Lazy /\ env.createFails /\ Unused # {}
    /\ opc' = "cond"
    /\ UNCHANGED <<poolVars, workVars, callVars, waitAll, cursor, joining, joined,
                   joinErr, histVars>>

NewReturns ==
    /\ opc = "new" /\ (Lazy \/ Unused = {})
    /\ started' = TRUE
    /\ opc' = "up"
    /\ UNCHANGED <<env, threads, queue, lock, shutdown, running, alive, workVars,
                   callVars, waitAll, cursor, joining, joined, joinErr, histVars>>

(* The two conditions of thpool_thread: sleep, leave the loop.              *)
MustWait == queue = <<>> /\ shutdown = "NO"
QuitAtOnce == shutdown # "NO"
QuitWhenEmpty == shutdown # "NO" /\ queue = <<>>
MustQuit == shutdown # "NO" /\ (shutdown = "WAITCURR" \/ queue = <<>>)

(* What the next step of thread t uses of the pool.                        *)
Needs(t) ==
    IF apc[t] # "idle" THEN {"MUT", "TASKS", "THREADS", "POOL"}
    ELSE IF t \in Callers THEN {}
    ELSE CASE wpc[t] = "lock"  -> {"MUT", "POOL"}
           [] wpc[t] = "check" -> {"MUT", "TASKS", "POOL"} \cup (IF MustWait THEN {"COND"} ELSE {})
           [] wpc[t] = "wait"  -> {"COND"}
           [] wpc[t] \in {"taken", "ran"} -> {"POOL"}
           [] OTHER -> {}

Intact(t) == Needs(t) \subseteq alive

(***************************************************************************)
(* The API.  Clients stop calling once the owner frees the pool; a task    *)
(* that is still running may call at any time.                             *)
(***************************************************************************)
MayCall(t) ==
    /\ apc[t] = "idle"
    /\ \/ t \in Callers /\ opc = "up"
       \/ t \in Workers /\ env.tasksCall /\ wpc[t] = "run" /\ "POOL" \in alive

Accepting == shutdown = "NO" /\ started

(* m_thpool_add up to the mutex: M_THREADS_ASSERT reads shutdown unlocked. *)
AddCall(t, k) ==
    /\ MayCall(t) /\ k \notin submitted
    /\ submitted' = submitted \cup {k}
    /\ IF Accepting
         THEN apc' = [apc EXCEPT ![t] = "addLock"] /\ atask' = [atask EXCEPT ![t] = k]
         ELSE UNCHANGED callVars
    /\ UNCHANGED <<poolVars, workVars, ownerVars, accepted, executed, discarded, calls, spurious>>

ClearCall(t) ==
    /\ MayCall(t) /\ calls < MaxCalls /\ Accepting
    /\ calls' = calls + 1
    /\ apc' = [apc EXCEPT ![t] = "clearLock"]
    /\ UNCHANGED <<poolVars, workVars, ownerVars, atask, submitted, accepted, executed, discarded, spurious>>

LengthCall(t) ==
    /\ MayCall(t) /\ calls < MaxCalls /\ Accepting
    /\ calls' = calls + 1
    /\ apc' = [apc EXCEPT ![t] = "lengthLock"]
    /\ UNCHANGED <<poolVars, workVars, ownerVars, atask, submitted, accepted, executed, discarded, spurious>>

Locked(pc) ==
    CASE pc = "addLock"    -> "addIn"
      [] pc = "clearLock"  -> "clearIn"
      [] pc = "lengthLock" -> "lengthIn"
      [] OTHER -> "idle"

ApiNoLock(t) ==
    /\ apc[t] \in {"addLock", "clearLock", "lengthLock"} /\ Intact(t)
    /\ apc' = [apc EXCEPT ![t] = Locked(apc[t])]
    /\ UNCHANGED <<poolVars, workVars, atask, ownerVars, histVars>>

(* pthread_mutex_lock in m_thpool_{add,clear,length}.                      *)
ApiLock(t) ==
    /\ apc[t] \in {"addLock", "clearLock", "lengthLock"}
    /\ lock = NoOne /\ Intact(t)
    /\ lock' = t
    /\ apc' = [apc EXCEPT ![t] = Locked(apc[t])]
    /\ UNCHANGED <<env, threads, queue, shutdown, running, started, alive, workVars,
                   atask, ownerVars, histVars>>

has_space == running < Len(threads)

Grows == Lazy /\ ~has_space /\ Len(threads) < Cardinality(Workers)

(* m_thpool_add with the mutex held: the lazy thread algorithm.            *)
AddGrow(t, w) ==
    /\ apc[t] = "addIn" /\ Grows /\ Intact(t)
    /\ add_thread(w)
    /\ apc' = [apc EXCEPT ![t] = "addEnqueue"]
    /\ UNCHANGED <<env, queue, lock, shutdown, running, started, alive, wtask, atask,
                   opc, waitAll, joining, joined, joinErr, histVars>>

(* pthread_create fails: m_thpool_add returns without unlocking.           *)
AddGrowFails(t) ==
    /\ apc[t] = "addIn" /\ Grows /\ Intact(t) /\ env.createFails
    /\ apc' = [apc EXCEPT ![t] = "idle"]
    /\ atask' = [atask EXCEPT ![t] = NoTask]
    /\ UNCHANGED <<poolVars, workVars, ownerVars, histVars>>

AddNoGrow(t) ==
    /\ apc[t] = "addIn" /\ ~Grows /\ Intact(t)
    /\ apc' = [apc EXCEPT ![t] = "addEnqueue"]
    /\ UNCHANGED <<poolVars, workVars, atask, ownerVars, histVars>>

Waiting == {w \in Workers : wpc[w] = "wait"}

(* The call in m_thpool_add of pthread_cond_signal wakes one waiter if there *)
(* is one; that in wait_pool of pthread_cond_broadcast wakes all of them.     *)
SignalLost == wpc' = wpc
Signal ==
    \/ Waiting = {} /\ wpc' = wpc
    \/ \E w \in Waiting : wpc' = [wpc EXCEPT ![w] = "lock"]

BroadcastLost == wpc' = wpc
Broadcast == wpc' = [w \in Workers |-> IF w \in Waiting THEN "lock" ELSE wpc[w]]

EnqueueEmpty(k) == Append(queue, NoTask)
EnqueueFirst(k) == <<k>> \o queue
m_queue_enqueue(k) == Append(queue, k)

(* Enqueue, signal, unlock.                                                *)
AddEnqueue(t) ==
    /\ apc[t] = "addEnqueue" /\ Intact(t)
    /\ queue' = m_queue_enqueue(atask[t])
    /\ accepted' = accepted \cup {atask[t]}
    /\ Signal
    /\ lock' = NoOne
    /\ apc' = [apc EXCEPT ![t] = "idle"]
    /\ atask' = [atask EXCEPT ![t] = NoTask]
    /\ UNCHANGED <<env, threads, shutdown, running, started, alive, wtask, ownerVars,
                   submitted, executed, discarded, calls, spurious>>

(* m_queue_clear: every queued task is freed.                              *)
Clear(t) ==
    /\ apc[t] = "clearIn" /\ Intact(t)
    /\ discarded' = discarded \cup Range(queue)
    /\ queue' = <<>>
    /\ lock' = NoOne
    /\ apc' = [apc EXCEPT ![t] = "idle"]
    /\ UNCHANGED <<env, threads, shutdown, running, started, alive, workVars, atask,
                   ownerVars, submitted, accepted, executed, calls, spurious>>

(* m_thpool_length reads the length and unlocks.                           *)
Length(t) ==
    /\ apc[t] = "lengthIn" /\ Intact(t)
    /\ lock' = NoOne
    /\ apc' = [apc EXCEPT ![t] = "idle"]
    /\ UNCHANGED <<env, threads, queue, shutdown, running, started, alive, workVars,
                   atask, ownerVars, histVars>>

(***************************************************************************)
(* thpool_thread.                                                          *)
(***************************************************************************)
WorkerUnchanged == UNCHANGED <<env, threads, shutdown, started, alive, callVars,
                               ownerVars, submitted, accepted, discarded, calls, spurious>>

(* pthread_mutex_lock, or pthread_cond_wait taking the mutex back.         *)
WorkerLock(w) ==
    /\ wpc[w] = "lock" /\ lock = NoOne /\ Intact(w)
    /\ lock' = w
    /\ wpc' = [wpc EXCEPT ![w] = "check"]
    /\ UNCHANGED <<queue, running, wtask, executed>> /\ WorkerUnchanged

(* pthread_cond_wait: unlock and sleep.                                    *)
WorkerWait(w) ==
    /\ wpc[w] = "check" /\ MustWait /\ Intact(w)
    /\ lock' = NoOne
    /\ wpc' = [wpc EXCEPT ![w] = "wait"]
    /\ UNCHANGED <<queue, running, wtask, executed>> /\ WorkerUnchanged

(* A spurious wakeup; the loop checks its condition again.                 *)
WorkerSpurious(w) ==
    /\ wpc[w] = "wait" /\ Intact(w) /\ spurious < MaxSpurious
    /\ spurious' = spurious + 1
    /\ wpc' = [wpc EXCEPT ![w] = "lock"]
    /\ UNCHANGED <<poolVars, wtask, callVars, ownerVars, submitted, accepted, executed,
                   discarded, calls>>

WorkerQuit(w) ==
    /\ wpc[w] = "check" /\ MustQuit /\ Intact(w)
    /\ lock' = NoOne
    /\ wpc' = [wpc EXCEPT ![w] = "exit"]
    /\ UNCHANGED <<queue, running, wtask, executed>> /\ WorkerUnchanged

PeekQueue == queue
m_queue_dequeue == Tail(queue)

(* Dequeue and unlock.                                                     *)
WorkerTake(w) ==
    /\ wpc[w] = "check" /\ ~MustWait /\ ~MustQuit /\ Intact(w)
    /\ wtask' = [wtask EXCEPT ![w] = Head(queue)]
    /\ queue' = m_queue_dequeue
    /\ lock' = NoOne
    /\ wpc' = [wpc EXCEPT ![w] = "taken"]
    /\ UNCHANGED <<running, executed>> /\ WorkerUnchanged

(* running_tasks++ and the call of the task's function.                    *)
WorkerRun(w) ==
    /\ wpc[w] = "taken" /\ Intact(w)
    /\ running' = running + 1
    /\ wpc' = [wpc EXCEPT ![w] = "run"]
    /\ executed' = [executed EXCEPT ![wtask[w]] = @ + 1]
    /\ UNCHANGED <<queue, lock, wtask>> /\ WorkerUnchanged

(* The function returns and the task is freed.                             *)
WorkerReturn(w) ==
    /\ wpc[w] = "run" /\ apc[w] = "idle"
    /\ wpc' = [wpc EXCEPT ![w] = "ran"]
    /\ wtask' = [wtask EXCEPT ![w] = NoTask]
    /\ UNCHANGED <<queue, lock, running, executed>> /\ WorkerUnchanged

WorkerForgets(w) ==
    /\ wpc[w] = "ran" /\ Intact(w)
    /\ wpc' = [wpc EXCEPT ![w] = "lock"]
    /\ UNCHANGED <<queue, lock, running, wtask, executed>> /\ WorkerUnchanged

(* running_tasks-- and back to the top of the loop.                        *)
WorkerLoop(w) ==
    /\ wpc[w] = "ran" /\ Intact(w)
    /\ running' = running - 1
    /\ wpc' = [wpc EXCEPT ![w] = "lock"]
    /\ UNCHANGED <<queue, lock, wtask, executed>> /\ WorkerUnchanged

(* The step would use a resource m_thpool_free has destroyed: from here on  *)
(* the behaviour of the program is undefined and the worker is not followed.*)
WorkerUndefined(w) ==
    /\ ~Intact(w)
    /\ wpc' = [wpc EXCEPT ![w] = "undefined"]
    /\ apc' = [apc EXCEPT ![w] = "idle"]
    /\ atask' = [atask EXCEPT ![w] = NoTask]
    /\ UNCHANGED <<poolVars, wtask, ownerVars, histVars>>

(***************************************************************************)
(* m_thpool_free and wait_pool.                                            *)
(***************************************************************************)
OwnerUnchanged == UNCHANGED <<env, threads, running, wtask, callVars,
                              submitted, accepted, executed, calls, spurious>>

FreeCall(all) ==
    /\ opc = "up" /\ \A c \in Callers : apc[c] = "idle"
    /\ waitAll' = all
    /\ opc' = "shut"
    /\ UNCHANGED <<queue, lock, shutdown, started, alive, wpc, cursor, joining, joined,
                   joinErr, discarded>> /\ OwnerUnchanged

FreeLock ==
    /\ opc = "shut" /\ lock = NoOne
    /\ lock' = Owner
    /\ opc' = "broadcast"
    /\ UNCHANGED <<queue, shutdown, started, alive, wpc, waitAll, cursor, joining, joined,
                   joinErr, discarded>> /\ OwnerUnchanged

(* shutdown is set, all waiters are woken, the mutex is released; a pool of *)
(* detached threads joins nobody.                                           *)
FreeBroadcast ==
    /\ opc = "broadcast"
    /\ shutdown' = IF waitAll THEN "WAITALL" ELSE "WAITCURR"
    /\ Broadcast
    /\ lock' = NoOne
    /\ IF Detached
         THEN opc' = "cond" /\ started' = FALSE
         ELSE opc' = "join" /\ UNCHANGED started
    /\ UNCHANGED <<queue, alive, waitAll, cursor, joining, joined, joinErr, discarded>>
    /\ OwnerUnchanged

(* The iterator's current thread is read, without the mutex.               *)
FreeJoin ==
    /\ opc = "join" /\ cursor <= Len(threads)
    /\ joining' = threads[cursor]
    /\ opc' = "joining"
    /\ UNCHANGED <<queue, lock, shutdown, started, alive, wpc, waitAll, cursor, joined,
                   joinErr, discarded>> /\ OwnerUnchanged

(* pthread_join returns; a second join of the same thread may or may not    *)
(* report an error.                                                        *)
FreeJoined(err) ==
    /\ opc = "joining" /\ wpc[joining] = "exit"
    /\ err => joining \in joined
    /\ joined' = joined \cup {joining}
    /\ joining' = NoOne
    /\ joinErr' = (joinErr \/ err)
    /\ cursor' = cursor + 1
    /\ opc' = "join"
    /\ UNCHANGED <<queue, lock, shutdown, started, alive, wpc, waitAll, discarded>>
    /\ OwnerUnchanged

EndBeforeLast == cursor >= Len(threads)
EndOfList == cursor > Len(threads)

(* The end of the list.  An error stops m_thpool_free from releasing the    *)
(* rest, except for the pool itself.                                       *)
FreeAllJoined ==
    /\ opc = "join" /\ EndOfList
    /\ started' = joinErr
    /\ opc' = IF joinErr THEN "free" ELSE "cond"
    /\ UNCHANGED <<queue, lock, shutdown, alive, wpc, waitAll, cursor, joining, joined,
                   joinErr, discarded>> /\ OwnerUnchanged

FreeCond ==
    /\ opc = "cond"
    /\ alive' = alive \ {"COND"}
    /\ opc' = "mut"
    /\ UNCHANGED <<queue, lock, shutdown, started, wpc, waitAll, cursor, joining, joined,
                   joinErr, discarded>> /\ OwnerUnchanged

(* pthread_mutex_destroy fails on a mutex somebody holds.                  *)
FreeMut ==
    /\ opc = "mut"
    /\ IF lock = NoOne
         THEN alive' = alive \ {"MUT"} /\ opc' = "tasks"
         ELSE opc' = "free" /\ UNCHANGED alive
    /\ UNCHANGED <<queue, lock, shutdown, started, wpc, waitAll, cursor, joining, joined,
                   joinErr, discarded>> /\ OwnerUnchanged

(* m_queue_free frees the tasks that are still queued.                     *)
FreeTasks ==
    /\ opc = "tasks"
    /\ alive' = alive \ {"TASKS"}
    /\ discarded' = discarded \cup Range(queue)
    /\ queue' = <<>>
    /\ opc' = "threads"
    /\ UNCHANGED <<lock, shutdown, started, wpc, waitAll, cursor, joining, joined, joinErr>>
    /\ OwnerUnchanged

FreeThreads ==
    /\ opc = "threads"
    /\ alive' = alive \ {"THREADS"}
    /\ opc' = "free"
    /\ UNCHANGED <<queue, lock, shutdown, started, wpc, waitAll, cursor, joining, joined,
                   joinErr, discarded>> /\ OwnerUnchanged

FreePool ==
    /\ opc = "free"
    /\ alive' = alive \ {"POOL"}
    /\ opc' = "gone"
    /\ UNCHANGED <<queue, lock, shutdown, started, wpc, waitAll, cursor, joining, joined,
                   joinErr, discarded>> /\ OwnerUnchanged

-----------------------------------------------------------------------------
OwnerStep ==
    \/ NewFails \/ NewReturns
    \/ \E w \in Workers : NewThread(w)
    \/ FreeLock \/ FreeBroadcast \/ FreeJoin
    \/ \E err \in BOOLEAN : FreeJoined(err)
    \/ FreeAllJoined \/ FreeCond \/ FreeMut \/ FreeTasks \/ FreeThreads \/ FreePool

WorkerStep(w) ==
    \/ WorkerLock(w) \/ WorkerWait(w) \/ WorkerQuit(w) \/ WorkerTake(w)
    \/ WorkerRun(w) \/ WorkerReturn(w) \/ WorkerLoop(w) \/ WorkerUndefined(w)

(* What a thread inside an API call does next.                             *)
ApiStep(t) ==
    \/ ApiLock(t) \/ AddNoGrow(t) \/ AddGrowFails(t) \/ AddEnqueue(t)
    \/ Clear(t) \/ Length(t)
    \/ \E w \in Workers : AddGrow(t, w)

ApiCall(t) ==
    \/ \E k \in Tasks : AddCall(t, k)
    \/ ClearCall(t) \/ LengthCall(t)

(* The pool is gone and no worker has anything left to do.                 *)
Terminated ==
    /\ opc = "gone"
    /\ \A w \in Workers : wpc[w] \in {"absent", "exit", "undefined"}
    /\ UNCHANGED vars

Next ==
    \/ OwnerStep
    \/ \E all \in BOOLEAN : FreeCall(all)
    \/ \E w \in Workers : WorkerStep(w) \/ WorkerSpurious(w)
    \/ \E t \in Threads : ApiStep(t) \/ ApiCall(t)
    \/ Terminated

Spec == Init /\ [][Next]_vars

(* Every thread that can move is eventually scheduled, and a task's         *)
(* function returns.  Clients need not call, nor spurious wakeups happen.   *)
Fairness ==
    /\ WF_vars(OwnerStep)
    /\ \A w \in Workers : WF_vars(WorkerStep(w))
    /\ \A t \in Threads : WF_vars(ApiStep(t))

FairSpec == Spec /\ Fairness

-----------------------------------------------------------------------------
(***************************************************************************)
(* Properties.                                                             *)
(***************************************************************************)
Occurs(k) == {i \in 1..Len(queue) : queue[i] = k}
Holders(k) == {w \in Workers : wtask[w] = k}

(* Every variable has the shape the code gives it: one value per field of   *)
(* struct _thpool and per local variable.                                   *)
TypeOK ==
    /\ env \in Scenarios
    /\ threads \in Seq(Workers) /\ queue \in Seq(Tasks)
    /\ lock \in Threads \cup {NoOne}
    /\ shutdown \in {"NO", "WAITCURR", "WAITALL"}
    /\ running \in Int
    /\ started \in BOOLEAN /\ alive \subseteq Resource
    /\ wpc \in [Workers -> WorkerPc]
    /\ wtask \in [Workers -> Tasks \cup {NoTask}]
    /\ apc \in [Threads -> ApiPc]
    /\ atask \in [Threads -> Tasks \cup {NoTask}]
    /\ opc \in OwnerPc /\ waitAll \in BOOLEAN
    /\ cursor \in Nat \ {0}
    /\ joining \in Workers \cup {NoOne} /\ joined \subseteq Workers
    /\ joinErr \in BOOLEAN
    /\ submitted \subseteq Tasks /\ accepted \subseteq Tasks /\ discarded \subseteq Tasks
    /\ executed \in [Tasks -> Nat]
    /\ calls \in Nat /\ spurious \in Nat

(* A thread is inside a critical section: between a lock and its unlock.    *)
InCritical(t) ==
    \/ t \in Workers /\ wpc[t] = "check"
    \/ apc[t] \in {"addIn", "addEnqueue", "clearIn", "lengthIn"}
    \/ t = Owner /\ opc = "broadcast"

(* struct _thpool says of shutdown, threads and tasks "Always used behind a *)
(* mutex": whoever is between pthread_mutex_lock and pthread_mutex_unlock    *)
(* holds pool->lock, so no two threads are ever inside at once.             *)
LockDiscipline == \A t \in Threads : InCritical(t) => lock = t

(* A task m_thpool_add has enqueued is in exactly one place: queued once,    *)
(* held by one worker, run once, or freed unrun by m_thpool_clear or         *)
(* m_thpool_free.  None is lost, run twice, or freed and run.               *)
TaskAccounting ==
    \A k \in Tasks :
        LET queued == Cardinality(Occurs(k))
            held   == IF executed[k] = 0 THEN Cardinality(Holders(k)) ELSE 0
            dead   == IF k \in discarded THEN 1 ELSE 0
        IN  queued + held + executed[k] + dead = IF k \in accepted THEN 1 ELSE 0

(* m_thpool_free is done waiting.                                           *)
DoneWaiting == opc \in {"cond", "mut", "tasks", "threads", "free", "gone"}

(* pthread_cond_signal in m_thpool_add wakes one worker, and only lazily     *)
(* created threads serve a lazy pool: still, as long as tasks are queued and *)
(* are to be run, some worker is awake and on its way to the queue.          *)
NoLostWakeup ==
    queue # <<>> /\ shutdown # "WAITCURR" /\ ~DoneWaiting =>
        \E w \in Workers : wpc[w] \in {"lock", "check", "taken", "run", "ran"}

(* The pools whose workers m_thpool_free waits for: not detached, complete   *)
(* when created eagerly, and not growing while they are freed.               *)
Joinable ==
    /\ ~Detached
    /\ IF Lazy THEN ~env.tasksCall ELSE ~env.createFails

(* "There are no active threads anymore" (wait_pool): once m_thpool_free      *)
(* starts to destroy a joinable pool every worker it created has left         *)
(* thpool_thread, so nobody uses what is destroyed.                           *)
NoActiveThreads ==
    Joinable /\ DoneWaiting => \A w \in Workers : wpc[w] \in {"absent", "exit"}

(* m_thpool_free with wait_all waits "on any enqueued job before destroying   *)
(* the thpool object": every task a joinable pool accepted was run, unless    *)
(* m_thpool_clear removed it, also those running tasks added meanwhile.       *)
WaitAllRunsAll ==
    Joinable /\ DoneWaiting /\ waitAll =>
        queue = <<>> /\ \A k \in accepted : executed[k] = 1 \/ k \in discarded

(* running_tasks counts the workers that run a task and is never above the    *)
(* number of threads has_space compares it with, nor that above max_threads.  *)
RunningCount ==
    (\A w \in Workers : wpc[w] # "undefined") =>
        /\ running = Cardinality({w \in Workers : wpc[w] \in {"run", "ran"}})
        /\ running <= Len(threads)
        /\ Len(threads) <= Cardinality(Workers)

(* Once shutdown is set it never changes and, with SHUTDOWN_WAITCURR, no       *)
(* worker takes another task: only "currently executed jobs" are waited for.  *)
ShutdownKept ==
    shutdown # "NO" =>
        /\ shutdown' = shutdown
        /\ shutdown = "WAITCURR" =>
             \A w \in Workers : wtask[w] = NoTask => wtask'[w] = NoTask

(* What ShutdownKept says of a step holds of every step of the pool.          *)
ShutdownIsFinal == [][ShutdownKept]_vars

(* Without a failed pthread_create every task m_thpool_add enqueues is        *)
(* eventually run or, by m_thpool_clear or m_thpool_free, freed: no worker    *)
(* sleeps through its signal and no thread waits for the mutex for ever.      *)
TasksAreServed ==
    \A k \in Tasks :
        (k \in accepted /\ Joinable /\ ~env.createFails)
            ~> (executed[k] = 1 \/ k \in discarded)

(* m_thpool_free returns: every worker leaves its loop, whatever it was doing *)
(* when shutdown was set, and all joins end.                                  *)
FreeReturns == opc = "shut" /\ Joinable /\ ~env.createFails ~> opc = "gone"

(* The comment on m_thpool_free promises the same of every pool: it waits     *)
(* "for currently executed jobs, then quit".  But m_thpool_add returns with   *)
(* the mutex held when pthread_create fails in a lazy pool.                   *)
FreeAlwaysReturns == opc = "shut" ~> opc = "gone"

-----------------------------------------------------------------------------
(***************************************************************************)
(* Refinement: to its clients the pool is a TaskPool.  A task is active     *)
(* from its dequeue to the return of its function, and the pool is closed   *)
(* when wait_pool returns.                                                  *)
(***************************************************************************)
Active == {wtask[w] : w \in Workers} \ {NoTask}

Phase ==
    IF DoneWaiting THEN "closed"
    ELSE CASE shutdown = "NO" -> "open"
           [] shutdown = "WAITALL" -> "all"
           [] OTHER -> "current"

Abstract == INSTANCE TaskPool WITH
    Tasks <- Tasks, Limit <- Cardinality(Workers),
    pending <- queue, active <- Active,
    finished <- {k \in Tasks : executed[k] > 0} \ Active,
    phase <- Phase

(* The pool of thpool.c, when joinable, implements TaskPool: whatever the     *)
(* interleaving, tasks start in order, at most max_threads at once, never     *)
(* after a shutdown that does not wait for them, and m_thpool_free stops      *)
(* waiting only when nothing it waits for is left.                           *)
ImplementsTaskPool == Abstract!Spec
=============================================================================
