# libmodule: specification and verification

libmodule is a C library for programs made of *modules* (actors) that run on a
per-thread *context* with an event loop. This directory holds TLA+ models of
its core, TLC configurations that check them on small instances, and TLAPS
proofs of theorems about them. Paths below are relative to the repository.

## 1. Inventory

| part | code | state | operations | who it talks to |
|---|---|---|---|---|
| thread pool | `Lib/thpool/thpool.c` | thread list, task queue, mutex, condition, `shutdown`, `running_tasks`, `init_state` | new, add, length, clear, free; `thpool_thread` | worker threads run the user's tasks; the context runs task sources on a lazy pool |
| modules | `Lib/core/mod.c`, `mod.h` | state (IDLE, RUNNING, PAUSED, STOPPED, ZOMBIE), reference count, bound modules, hooks | register, deregister, start, pause, resume, stop, bind, evaluation | calls user hooks from inside its own functions; holds references on the context |
| context and loop | `Lib/core/ctx.c`, `ctx.h` | the map of modules, `state`, `quit`, `running_modules`, `curr_mod`, `finalized`, reference count, thread key | register, deregister, loop, dispatch, quit, finalize, tick | polls, hands events to modules, evaluates idle ones, flushes messages at the end |
| messages | `Lib/core/ps.c` | a pipe of message addresses and a map of subscriptions per module | tell, publish, broadcast, poison pill, subscribe, unsubscribe, flush | writes to the recipients' pipes, read back by the loop |
| events | `Lib/core/evts.c` | batch, batch size and timer, stash, stack of receive functions | stash, unstash, batch size, batch timeout, become | `push_evt` in `ctx.c` |
| sources | `Lib/core/src.c` | a tree of sources per kind and module, each source with a reference count, a private descriptor and flags (one-shot, autoclose) | register and deregister of fds, timers, signals, paths, pids, tasks, thresholds; destruction; processing of an event | poll plugin, thread pool, `recv_events` |
| token bucket, thresholds | `Lib/core/mod.c` | tokens, burst, a timer source; alarms | set, spend on each call, refill by the timer; evaluation | sources |
| containers | `Lib/structs/*.c` | map, tree, list, queue, stack with iterators and destructors | insert, remove, iterate | used by everything |
| memory | `Lib/mem/mem.c` | reference count and destructor of a block | new, ref, unref | used by everything |
| poll plugins | `Lib/core/poll/*.c` | an epoll, kqueue or io_uring descriptor | wait, add, remove | operating system |
| file system | `Lib/core/fs/*.c` | optional fuse view | | operating system |
| easy API, log, utilities | `Lib/core/main.c`, `Lib/utils/*.c` | | | |

What is hard:

* the thread pool is concurrent: a condition variable, an atomic counter used
  outside the mutex, a list walked without it, threads created lazily from
  `m_thpool_add`, shutdown in two modes;
* a context is single threaded but *reentrant*: start, stop, deregistration,
  evaluation, dispatch and flush all call user hooks half way, and a hook may
  call the library about any module, its own included. Iterators, reference
  counts, the running counter and the batch of events in progress must survive;
* messages go through pipes, batches, priorities and stashes while modules are
  paused, stopped, restarted and while the loop quits;
* a source is known to its tree, to the epoll set (by address), to its events,
  which may wait in a batch or a stash, and to a task's thread, and may be
  removed, or its module paused or stopped, at any of these moments, also by its
  own callback;
* the loop takes all the events of one `poll_wait` in turn, whatever the callbacks
  of the first did to the modules of the others, and reads an `errno` that they
  may have set;
* the containers are changed while they are iterated, through the iterator or by
  a callback, and run destructors on what they drop; map and tree move elements
  when one is removed.

The hazards, each at its line, are listed in `PROJECT.json`.

## 2. Modules

| module | models |
|---|---|
| `Thpool` | thpool.c, all of it |
| `TaskPool` | what a thread pool promises its clients: the abstract specification `Thpool` implements |
| `MCThpool` | two workers, two clients, two or three tasks |
| `ThpoolProofs` | theorems about `Thpool` for every number of workers, clients and tasks |
| `PubSubProofs` | theorems about `PubSub` for any modules, patterns and messages |
| `LifecycleProofs` | theorems about `Lifecycle` for any modules, hooks and depth of the stack |
| `LinkedProofs` | theorems about `Linked` for any items, keys and number of nodes |
| `MapProofs` | theorems about `HashMap` for any keys, values, hash functions and bound on the table |
| `TreeProofs` | what the operators of `BstOps` do to any tree, with any comparator: used by the next two |
| `BstProofs` | theorems about `Bst` for any addresses, number of nodes and width of an int |
| `SourcesProofs` | theorems about `Sources` for any sources, descriptors, periods and bursts |
| `Lifecycle` | mod.c and ctx.c: modules, context, loop, hooks, reference counts |
| `MCLifecycle` | three modules, two of the same name |
| `PubSub` | ps.c, evts.c and the receiving half of ctx.c |
| `MCPubSub` | two modules |
| `Linked` | list.c, queue.c, stack.c: nodes and links, iterators, destructors |
| `BstOps` | bst.c as operators on a tree: find, insert, remove, successor, traversal |
| `Bst` | bst.c as a client uses it: operations, iterators, destructors, with `ptrcmp` |
| `HashMap` | map.c: probing, growth, removal, iterators, `m_map_iterate` with callbacks |
| `Containers` | the three side by side, and what `m_*_clear` promises for all |
| `MCContainers` | up to four elements in each |
| `Sources` | src.c, epoll.c, cmn_linux.c, the token bucket and the parts of mod.c and ctx.c that poll, take and drop events; uses `BstOps` |
| `MCSources` | setups: sources of one kind, with and without a bucket |

Operators that are only used to seed a fault when a property is tested (for
instance `SignalLost`, `HandKeeping`) stand next to the definition they vary.

### Thpool

One step is what a thread does between two points where another thread can see
a difference. `wpc` is the place of each worker in `thpool_thread`, `apc` that
of a thread inside `m_thpool_add`, `m_thpool_clear` or `m_thpool_length`, `opc`
that of the owner in `m_thpool_new` and `m_thpool_free`. A worker that runs a
task can itself be inside an API call. `lock` is the holder of the mutex, a
worker in `pthread_cond_wait` is at `"wait"`; `Signal`, `Broadcast` and
`WorkerSpurious` model pthreads. `alive` are the resources `m_thpool_free` has
not destroyed: a step that would use a destroyed one leads to `WorkerUndefined`,
after which that worker is not followed. A `Scenario` fixes the flags (lazy,
detached), whether running tasks call the pool, and whether `pthread_create`
may fail. `cursor` is the list iterator of `wait_pool`, which walks the list
without the mutex; list insertion at the head moves it as the code does.
`Joinable` names the pools `m_thpool_free` really waits for: not detached, all
threads created, and not growing meanwhile.

`TaskPool` has no threads: tasks start in the order of submission, at most
`Limit` at once, and the pool is closed only when nothing it waits for is left.
`Thpool`'s `Abstract` maps the dequeued tasks to the active ones.

### Lifecycle

The C call stack is a variable: a frame per library function that is waiting
for a hook, and a `"user"` frame where user code runs, either the main program
or a hook (`on_eval`, `on_start`, `on_stop`, `on_evt` from the loop or from the
flush). The function on top runs; code between two hooks is one step, so
`start`, `stop` and `mod_deregister` are each cut in two (`StartResumes`,
`StopResumes`, `DeregResumes`). `m_map_iterate`'s rules on entries removed or
added during the iteration are `EntryDone`. `recv_events` picks any non-empty
batch of sources of running modules, and `RecvEvent` hands the next of its
events to `on_evt` whatever state its module is in by then, as the code does.
`RecvFails` is an error found in errno. With `SrcsFail`, `start` may fail for
want of a pipe or because a source cannot be polled, and `stop` of a pause
because one cannot be taken out of the poll set: state and counter stay and the
caller gets the error. What is polled after such a failure is the subject of
`Sources`. `Dangling` marks what a reset of a module leaves pointing to freed
memory in the frames below. `undefined` records a use after free and stops the
model.

Message payloads are not in this module: that on_evt is called is enough.

### PubSub

Each message has an identity; each recipient a copy, in its `pipe`, with the
subscription it matched. `PollWait` begins a round of `recv_events`: errno is
cleared, and `ready` gets some of the readable pipes and elapsed batch timers of
the running modules. The round takes them in any order, whatever became of their
modules meanwhile. `Recv` reads one message and pushes the event (`push_evt`: low
priority waits, high forces, otherwise the batch size decides). `callbacks` is the
stack of `on_evt` calls in progress; a callback that returns to the round leaves
nothing, `EAGAIN` (or `EINTR`), or another value in `errno`, and then the next
message is read and freed (`Refuse`, history `refused`), the rest of the round is
dropped and, for a real error, the loop quits (`EndRound`). `ready` also says what
became of a reported timer: `"closed"` when its module was paused meanwhile, so that
reading it fails (`TimerErrno`), and `"freed"` when the source is gone, with which
everything is undefined. Subscriptions are
objects with a generation, so that a message can refer to one that is gone; the
`undefined` flag records the use of one. `told`, `handed`, `flushed`, `dropped`
and `refused` are histories. Hooks other than `on_evt` are empty here, they are the
subject of `Lifecycle`, and so are starts and pauses that fail. The batch timer is assumed to be the module's only timer.

### Containers

`Linked` keeps the memory: `link[0]` is the head pointer, `link[n]` the next
field of node n, and an iterator holds the address of a link, as in the code.
Against it stands `content`, the sequence the operations promise, and `owned`,
the items handed in and neither destroyed nor handed back. One module serves the
three kinds because they differ in where they insert and in `tail`.

`BstOps` has the tree as a record of children, parents and data, and each
function of bst.c as an operator that takes the comparator as an argument: `Bst`
passes `ptrcmp`, cut to the width of an int, `Sources` those of src.c.
`remove_node` and `DtorArg` give the new tree and what the destructor gets.

`HashMap` has the table as a function from slots to entries. `Probe`,
`hashmap_rehash`, `PutPlace` and `ClearElem` are the pure parts; a put may grow
the table and still be refused. A step of `m_map_iterate` goes from the return
of one callback, which did nothing, removed a key or put one, to the next.
`promised` is the function the map should be. The hash function is a parameter.

Clearing is one step per removal and per advance, so that its iterator is seen
at work. While an iterator is open the client changes the container only
through it (the code has no protection against anything else); a callback of
`m_map_iterate` may do anything.

What the code does not keep is recorded in history variables, and the properties
say so: `cut` (an iterator removed the tail of a longer queue, queue.c:70),
`swapped` (a node with two children was removed: the successor's data is
destroyed, bst.c:79-81), `far` (the distance of two addresses does not fit in an
int, bst.c:86), `longRun` (removal from a run longer than half the table,
map.c:22, 230), `freedTable` (a put by a callback of `m_map_iterate` grew the
table, map.c:383). Outside these cases everything holds, and what still holds
inside them is checked too (for instance: the shape of a tree, and that an
iteration of a tree with swaps meets every element once).

### Sources

One module, its sources of one kind and the timer of its token bucket. `src` are
the source objects with their reference counts, `tree` the module's trees of
them, `interest` the epoll set as pairs of a descriptor and a source's address,
`open` the descriptors, `off` those `EPOLLONESHOT` has disabled, `signalled` the
readable eventfds, `ready` the events `epoll_wait` returned and the loop has not
taken, `tasks` the runs on the thread pool. `events` are the events made of the
sources, each with the queues that hold it: the batch, the stash, the queue of the
callback in progress (`"outer"`) and that of a callback which `m_mod_unstash` runs in
it (`"inner"`). An event of a HIGH source goes to the callback at once, with the
batch; another may stay in the batch, and one in a callback may be stashed, so that
it, and the reference it has on its source, outlives the callback. A queue is freed
when its callback returns, batch and stash when the module is stopped, after its
state was set; `evt_dtor` then drops the references, one event at a time. `Cmp` is
the comparator for a key, with what is left of a difference in an int (`ToInt` for
periods, `Difference` for thresholds: an id is twice a threshold, so that fractions
occur, and `OutOfInt` is what the build makes of a value out of range), `AsKey` what
it reads when it is given a source instead: `m_bst_insert` and the removal of a one-shot source
do that, and what they find depends on the layout of `ev_src_t` (the fd, the
clock of a timer, or the private descriptor). `PollAdd` and `PollRm` are
`poll_set_new_evt`, `Unref` is `m_mem_unref` with `src_priv_dtor`, both on the
record `World`, so that `Manage` can fold them over all sources in the order of
`manage_srcs`. `Start`, `Resume`, `Pause` and `Stop` return what the last source
returned, as the code does. Reads of a private descriptor that was made anew
since `epoll_wait` may or may not find something.

User code calls everything from the callback and between rounds of the loop. The
situations where the code goes wrong are named in `Hazards` and collected in
`hurt`; a property says which of them it needs to be absent. A setup's `harm` is
the number of hazards after which the user makes no more calls (the loop goes
on), which keeps the instance small. A freed source that is used ends the
behaviour (`undefined`). That the loop quits on an error other than `EAGAIN` is
in `Lifecycle` and `PubSub`, not here.

Left open or out, so that this module stays about the sources: batch size and batch
timer (here an event that may wait does, or does not) and the order in batch and
stash, which `PubSub` has; an event is stashed at most once; callbacks nest at most
two deep; the user takes no references on events of his own (`m_mem_ref`).

### Client rules

The library leaves several calls undefined without checking for them. With
`Careful` set, user code keeps to these rules; `lifecycle_ctx` is checked without
it.

In `Lifecycle`: do not start a module that is being evaluated or deregistered;
do not stop or deregister, nor replace, a module that has another event in the batch
being dispatched (its sources are freed; pausing it is allowed); do not stop or deregister a module whose state change is still
being passed on to the modules bound to it, nor deregister it from its own
deregistration; do not bind a module to itself or from inside such a cascade; do
not deregister from a flush callback unless the context is persistent; do not
replace the only module of an idle, non-persistent context; deregister the
modules before the context, and do not deregister the context from a flush callback;
do not run the loop from a hook. The last two rules came out of proofs. The callback
of a message flushed at the end of the loop may deregister the modules of a
persistent context one by one and then the context itself, whose last reference
goes while `loop_stop` still uses it. With a loop inside `on_eval`, the inner
evaluation starts the module, the outer one starts it again and `running_modules` is
one too many from then on, so the loop never ends by itself; besides, both loops
would use the context's one array of polled events.

In `PubSub`: do not remove or replace a subscription that has unread messages,
nor publish twice to an unread one-shot subscription, nor subscribe one-shot to
system messages; do not let a pipe fill up. Direct and broadcast messages that a
running module has not read when the loop stops make `loop_stop` use a NULL
source, so while there are any: do not quit the loop, do not return from a callback
with an error in errno (one other than `EAGAIN` or `EINTR`), and do not pause a
module whose batch timer was reported in this round (reading its closed descriptor
is such an error); and while the loop may be about to stop, send no direct messages
to running modules and start or resume none that has some unread (`MayStop`,
`NotStopping`, `DirectAreRead`). Do not stop a module, nor change its batch timer,
while one of its events was reported in this round and is not taken yet
(`EventsAreTaken`): its source is freed.

## 3. Passing runs

| run | shows | bounds |
|---|---|---|
| `thpool_safety` | `LockDiscipline`, `TaskAccounting` (a task is in exactly one place), `NoLostWakeup`, `NoActiveThreads`, `WaitAllRunsAll`, `RunningCount`, `ShutdownIsFinal`, in every scenario | 2 workers, 2 clients, 3 tasks, 1 clear or length, 1 spurious wakeup; workers and tasks symmetric. Two workers suffice for signals that reach the wrong one and joins in both orders, three tasks to have one running, one taken and one queued |
| `thpool_live` | `TasksAreServed`, `FreeReturns`, and that `Thpool` implements `TaskPool`; deadlock is checked | 2 workers, 2 clients, 2 tasks, pools that can be joined, without failing creation |
| `lifecycle` | `RunningModules`, `ModRefs`, `CtxRefs`, `NoUseAfterFree`, `CtxGoesWithLastModule`, `EventsOnlyWhenStarted` (no event for a module that is idle, stopped or deregistered), `LegalTransitions`, `LoopEnds` | 3 modules (one replaceable and its replacement, one persistent and denied the context), 4 calls made at a depth of at most 7 frames, batches of 2 events, `pipe()` and `epoll_ctl()` may fail; 454,378 states |
| `containers` | contents (`LinkedContent`, `SearchTree`, `MapExact`), ownership and destructors (`LinkedOwned`, `DtorExact`, `MapOwned`), iterations (`LinkedIteration`, `BstIteration`, `MapIteration`), `ClearEmpties` | chains of 3 nodes and 4 items, two keys; trees of 4 nodes over 5 addresses, one of them too far for an int of width 10; maps of 4 keys with 2 values each, tables of 4 that grow to 8 and no further, three hash functions (pairs that collide, everything in the last slot, runs that meet at the end of the table). Four nodes suffice for a node with two children whose successor has a child and for a run longer than half a table of 4 |
| `sources` | `SourcesPolled` (the epoll set is the registered sources of a running module, and deregistered ones that an event keeps), `SourceAlive` (a reference for the tree, one for each event), `BucketTimer` | 3 fds without autoclose, 2 fds with up to three registrations and autoclose, or 2 sources of another kind with a second registration refused or accepted, or a bucket with 1 or 2 sources besides and bursts of 0 to 2; 2 runs of a task at a time; 1 or 2 events that wait in batch or stash, of signals, timers and tasks, with a bucket too; an int of 3 bits, so that periods and thresholds compare equal and the wrong way; any sequence of calls; 517,724 states |
| `sources_live` | `TokensComeBack` | an fd, 3 sources in all, or a threshold whose event may wait, besides the bucket; 101,249 states |
| `pubsub` | `Conserved` (each message in exactly one place), `InOrder`, `NoUndefined`, `PrioritiesHold`, `MessagesArrive` | 2 modules, 2 messages sent by users, ticks or the system messages of state changes, 3 other calls, pipes of 4; any value of errno left by callbacks; 443,451 states |

`TypeOK` is checked in the runs of `Thpool`, `Lifecycle` and `PubSub`; the
invariants of the containers and of `Sources` imply what matters of theirs.
`CHECK_DEADLOCK FALSE` is set where the system may really stop: a pool whose
mutex was leaked, a loop that waits in poll, a step that would be undefined, a
user who has made all the calls the bounds allow.

Fairness. `Thpool`: every thread that can move is scheduled, and the functions
of tasks return; a client need not call. The mutex is weakly fair, which is
enough because calls are bounded. `Lifecycle`: the one thread goes on and hooks
return. `PubSub`: callbacks return, a round takes the events it was given, the loop
polls and `loop_stop` goes through all modules (weak fairness each); and polling
reports a readable pipe again and again, if it can (strong fairness of
`PipeReported`; descriptors are level-triggered). A program whose callbacks always
leave `EAGAIN` in errno can still have its messages freed unhandled: `MessagesArrive`
says that they are read. `Sources`:
callbacks return and their events are destroyed, an event `epoll_wait` returned is
taken, and a polled source
that stays ready is returned sooner or later; that is strong fairness, because
`epoll_wait` is called again and again and moves what it returned to the end of
its list. Nothing is assumed of the user, who may call for ever.

## 4. Where documentation and code disagree

Each of these runs ends in a counterexample; the quotes are in `PROJECT.json`.

| run | the code |
|---|---|
| `thpool_leak` | `m_thpool_add` of a lazy pool returns with the mutex locked if `pthread_create` fails; `m_thpool_free` then never returns |
| `lifecycle_ctx` | `m_ctx_deregister` does not deregister the modules: it clears the thread's key first |
| `pubsub_pill` | a poison pill has a topic and no subscription, and is never written |
| `sources_oneshot` | a one-shot timer is looked up with itself as the key when it is to be deregistered, is not found, and fires again after a pause and a resume |
| `sources_stop` | a module stopped by the callback of its own fd leaves the fd in the epoll set, with the address of the freed source |

Disagreements seen while modelling that have no run of their own:

* one `on_eval` that returns false ends the evaluation of all idle modules
  (`EvalResumes`), while docs/concepts/mod.md says it is called "for each idle
  module";
* the loop takes no reference on modules before it runs callbacks, so a later
  event of the batch can point to a freed source, against the comment at
  ctx.c:242 (the client rule on the batch in `Lifecycle`, the hazard `"stale"`
  of `Sources`);
* the data of an `M_PS_AUTOFREE` message is freed by each recipient's copy;
* `on_evt` is called on a paused module, if its event was returned by the same
  `poll_wait` as that of the callback which paused it, and a source whose event is
  batched or stashed stays in epoll when it is deregistered, while
  docs/concepts/mod.md:62 says that a paused module "will stop polling on its event
  sources" and that events trigger the callback when it is resumed
  (`EventsOnlyWhenStarted`, `SourcesPolled`: both say what does hold);
* a value that a callback leaves in errno makes `recv_events` free the next message
  it reads, though nothing in the documentation of `m_evt_cb` asks to keep errno
  (`Conserved` counts these messages as `refused`);
* the comment at map.c:371-378 says that to put or remove an entry other than the
  current one while `m_map_iterate` runs "will immediately halt iteration and return
  an error". The code looks at the slot in hand first: it goes on when the removal of
  another entry shifted that slot's entry away, and an update of another key, which
  changes neither the slot nor the length, is not noticed (`AfterCallback` does what
  the code does);
* when the loop stops with an unread direct message an event is made of a NULL
  source (the client rule on quitting in `PubSub`).

## 5. Theorems

TLC checks small instances; what follows is proved by TLAPS for every value of
the constants that the assumptions `ThpoolAssumption`, `PubSubAssumption`,
`LifecycleAssumption`, `LinkedAssumption`, `BstAssumption`, `BstMaxAssumption`,
`ElemsAssumption`, `HashMapAssumption` and `SourcesAssumption` admit: identifiers of
different kinds are different (an empty slot is no entry), bounds are naturals, addresses
are numbers, an int has a positive half, what becomes of a value out of its range is one, a period is not the number of the clock, a tree
has room for the sources of a module (no allocation fails),
sets of modules, workers, items and keys are finite, every item has a key, a table
begins with a power of two as its size (up to 512; the code has 256), subscriptions
are a map from their patterns, and a program does not begin with two modules of one
name (the second registration would replace the first: the map's keys are names).

### Thread pool (`ThpoolProofs`)

* `TypeCorrect`: `TypeOK`. Strengthened by `AddTask`, `HeldTask`, `JoinTarget`:
  a thread that is adding, a worker that has taken a task and a join in progress
  have a task or a thread.
* `MutexIsHeld`: `LockDiscipline`. Strengthened by `ApiWhere`: a worker is inside
  an API call only while it runs a task, so it cannot be in two critical sections.
* `AllWorkersLeft`: `NoActiveThreads`. Needs `PhaseInv` (what each stage of the
  pool's life implies: nothing destroyed and nobody gone before the shutdown, the
  list holds exactly the created threads) and `JoinInv` (the threads before the
  iterator have left).
* `RunningIsCounted`: `RunningCount`, from `CountInv`: the counter is the
  cardinality of the set of workers in a task, the list's length that of the
  created ones, each action changing one by one element at most.
* `SomeWorkerAwake`: `NoLostWakeup`, from `WakeInv` with all of the above: a lazy
  pool has a thread by the time it enqueues, and the worker that goes to sleep
  found the queue empty with the mutex held.
* `ShutdownStays`: `ShutdownIsFinal`, an action property, from `PhaseInv`.
* `TasksAccounted`: `TaskAccounting`, from `TaskInv`: a task is added by one thread
  once (`OneAdder`), is in one cell of the queue or with one worker (`OnePlace`), is
  not run before it is dequeued (`Fresh`), and leaves the pool run once or freed,
  never both (`Settled`).
* `WaitAllIsComplete`: `WaitAllRunsAll`, from `DrainedInv` with all of the above: when
  the last join returns no worker is awake, so by `NoLostWakeup` nothing is queued,
  and nobody is left to add.
* `PoolImplementsTaskPool`: `Thpool` implements `TaskPool` whenever the pool is
  `Joinable`. Initial states map to initial states and each of the actions to
  one step of `TaskPool` or to none; the mapping is the one TLC checks.

### Messages (`PubSubProofs`)

* `TypesHold`: `TypeOK`, with the identifiers of messages in pipes, batches and
  stashes being ones that were sent.
* `MessagesInOrder`: `InOrder`, from `OrderInv`: the identifiers handed over, those
  in the batch and those in the pipe each increase, and each part ends before the
  next begins. A lemma (`MessageSteps`) classifies all steps by what they do to
  the three queues: nothing, sending, receiving, refusing, flushing, forgetting. A
  message that is refused leaves a gap, not a disorder.
* `MessagesConserved`: `Conserved`, from `PlacesInv`: the six places are disjoint
  and make up what was told, messages freed because of an errno included; that a
  message moved from one queue to the next is not left behind needs the order.
* `PrioritiesAreHeld`: `PrioritiesHold`.
* `CarefulClientsAreSafe`: `NoUndefined`, for clients that keep to the rules of
  section 2. `MemoryInv` says that pipes have room, that the subscription an
  unread message points to is there and, if it is one-shot, is pointed to
  once, that no running module has an unread direct message once the loop may quit,
  that nothing reported in a round belongs to a freed source, and that user code finds
  errno cleared, as a round with an error left in it is ended before.

### Modules and context (`LifecycleProofs`)

The state is a call stack of any depth, and the invariants are about its frames:
what a frame will do when the hook above it returns, and why no hook can have made
that wrong. Lemmas about pushing, popping and changing frames carry each
invariant; one lemma per function of the library applies them.

* `ContextIsCounted`: `CtxRefs`, for any client, careful or not. `CoreInv` has
  `Shape` (the main program is at the bottom, modules to be registered are not yet
  born and wait for it once, frames that await a hook's result have that hook on
  top) and `DataInv` (what is registered, held or freed was born).
* `TransitionsAreLegal`: `LegalTransitions`, for any client, what a module may become
  RUNNING from included. `RetOK` is the point: `start()` after `on_start` and
  `evaluate_module()` after `on_eval` go on with a module only if the hook's result
  says that it was not deregistered.
* `RunningIsExact`: `RunningModules`, for clients that keep to the rules. `RunInv`
  says of each frame (`Alone`) that a module being evaluated or deregistered does
  not run and that events with a living source are of running or paused modules, and
  of each pair of frames (`Over`) that the loop is not inside an evaluation or a
  deregistration and that no cascade of starts reaches a module evaluated or
  deregistered below it. `Reach` is the closure of the bound
  modules; it only shrinks while a cascade is under way.
* `OnlyStartedGetEvents`: `EventsOnlyWhenStarted`, an action property, from `RunInv`:
  an event whose source lives is of a module that runs or was paused, although no
  step of `recv_events` looks at the state.
* `ModulesAreCounted`: `ModRefs`, for any client. `TallyInv` is stronger: it counts
  the holders of every module, freed or not yet registered ones too, and says that
  frames and lists name only modules that were registered; so a module is not
  counted at 0 by a holder that is forgotten. `stop()`, which locks, drops a whole
  list and drops the map's reference in one step, needs the count to be a sum whose
  terms change independently.
* `CountersDoNotWrap`: `TypeOK`, for any client: reference counts are sums of
  cardinalities by `TallyInv` and `CtxRefs`; `running_modules` is at least the number
  of running modules (`RunLow`) even for a client that starts a module twice.
* `ContextGoesWithLast`: `CtxGoesWithLastModule`, for any client. `SteadyInv`: while
  the context has lost its last module and is still there, a deregistration or the
  end of a loop is on the stack; and a function of the library that runs is never
  denied the context, since only the hooks of a `DENY_CTX` module are.
* `NothingUsedAfterFree`: `NoUseAfterFree`, for clients that keep to the rules. That
  references are counted exactly does not give it: a cascade over bound modules, a
  batch of events, the flush and a replacement keep pointers without a reference.
  `FreeInv` has four parts. `FreedOK`: what is freed is a ZOMBIE without references.
  `OwnInv`: names in the map are unique, a registered module is held by its user, a
  module that lives is in the map or being deregistered, a replaced one is held until
  its replacement returns, the last module of a context stays while messages are
  flushed, and a loop that goes on has the thread's key. `RefusedInv`: the one moment
  where that fails, a registration that is refused and about to return. `SoundInv`:
  which frames may be above which, and what each relies on when it goes on (a cascade
  has no deregistration or stop of its module above it, unless it was cut short and
  will not use its list again). With `TallyInv` the holder named by `OwnInv` keeps the
  count above 0, with `RunInv` an event's source is of a module that is there.

### List, queue and stack (`LinkedProofs`)

The properties speak of the chain of nodes behind the head, so the proof first shows
that it is well defined: two sequences of nodes that follow the links from the head
to NULL are equal (`ChainUnique`: the least position at which they differ has a
predecessor at which they agree; `LeastNat`, from the library's facts on well-founded
relations, stands for induction here). Then the invariant may say that there is a
chain, and what inserting or removing a node does to it is a lemma about sequences
(`ChainInsert`, `ChainRemove`, `ChainSame`), the same for the three containers.

`LinkedInv`: owned items are in the allocated nodes, each once, and `len` counts them
(`Held`); free nodes have no link, only a queue has a tail or loses it (`Loose`); the
chain holds items, its last node is the tail if the tail is in it at all, and unless the
queue was cut it has every node and spells `content` (`Spelled`); the iterator holds
the link to a position of the chain, and every element it was to show was shown, was
removed or is ahead of it, where `diff` says how far ahead begins (`ItrOK`); clearing
a list has an iterator, clearing the others goes on while `len` is not 0 (`ItrRests`).

* `ContentKept`: `LinkedContent`.
* `OwnedKept`: `LinkedOwned`. After the tail of a longer queue was removed the chain is
  shorter than `len`, yet every node stays owned: hence `Spelled` gives up the nodes
  and `content` when `cut`, but not the chain.
* `IterationComplete`: `LinkedIteration`, an action property: only `ItrAdvance` ends
  an iteration, at a link that is NULL, ahead of which there is nothing.

### Hash map (`MapProofs`)

`Dist(N, a, b)` is the number of steps from slot a to slot b around a table of N.
The heart of the invariant is `Placed`: every entry lies less than `ProbeLen` steps
after its key's home, no slot on the way is empty, and no key is stored twice. Then
`Probe` stops at a stored key's slot and nowhere before (`ProbeFinds`).

What the loops of `hashmap_rehash` and `clear_elem` compute is a recursive function
in the model; `Recursion` shows that such a function exists and has its steps as
values, and inductions over it are taken to the least step that fails (`UpTo`,
`LeastNat`). Growth: every entry of the old table is in the new one, and nothing else
(`RehashMoves`); a second growth, and one that is refused on the way, too. Removal:
`Scanned` follows the gap along the run. Nothing before the run's end z is reached
over the gap but what the scan has still to look at: an entry that were so would be
reached over z, which is empty (`NotOver`), and within half a table `MAP_INDEX_LE`
tells exactly that (`IndexLE`). If the run is longer than that neither holds, hence
the exception `longRun`.

`MapInv`: an entry was removed from a long run, or the table is `Placed` and holds the
promised entries (`Sound`), `length` counts the keys and `mowned` are their values
(`Books`), and an iterator that did not remove its entry stands on one (`Standing`).

* `ContentExact`: `MapExact`.
* `ValuesOwned`: `MapOwned`: keys, occupied slots and owned values are as many, since a
  key has one slot (`Placed`) and a value one key.
* `WalkComplete`: `MapIteration`. `Ahead(t, i)` are the keys from slot i on. `IterInv`
  adds to `MapInv` that what a walk began with is shown, removed or ahead (`Covered`),
  in any table, long runs included: `ShiftedBack` follows every entry `clear_elem`
  moves, and an entry is carried past the walk's slot only if that slot keeps its own
  (`AheadKept`). Without long runs, if no run went around the end when the walk began,
  no key is shown twice nor is ahead again (`Once`): without such a run none comes
  about by a removal, and entries only move to the front (`UnwrappedKept`). A put by a
  callback leaves the slots in hand, is refused, or frees the table.

### Binary search tree (`TreeProofs`, `BstProofs`)

The code walks the tree by loops and recursion, the model by recursive functions, and
a removal changes the shape they recurse along. `Shape(t, D)` makes the shape a fact
that can be carried: D gives every node the set of nodes of its subtree, which is the
node and the two disjoint subtrees of its children, parents agree with children, every
node hangs from one link, and the subtree of the root is all of the tree. Insertion
adds the new node to the sets of its ancestors (`InsertShape`), the removal of a node
with a child at most takes it out of them (`UnlinkShape`). A node with two children
gets its successor's element and the successor is unlinked: a relabelling, in which the
order holds but for one node (`OrderedBut`), and then the simple removal (`RemoveTwo`).

The size of a subtree is a rank. `RankRecursion` shows that a function defined by its
values on lower ranks exists, so that the recursive functions of the model have their
equations as values (`WalkExists`, `TraversalExists`); inductions go along the rank,
down a subtree (`TreeInduction`), along a search (`WalkInduction`) or up to the root
(`RootInduction`). With them: a search ends at the link where its key belongs
(`FindIs`, for any comparator), `find_min_subtree` at the least node (`MinIs`),
`bst_next` at the node with the next larger element, or nowhere if there is none
(`NextIs`), and the traversals show every node of a subtree once, in order (`InWalkShows`).
The order itself is claimed only while no distance overflowed (`far`): then `ptrcmp`
is the difference (`PtrExact`).

`BstInv`: the tree has a shape; unless `far` it is ordered and holds the stored
elements; unless a node with two children was removed its elements, all distinct, are
those owned and nothing was destroyed twice (`TreeOK`). The iterator stands on a node
if it did not remove it; unless `far`, what it began with is what it has shown together with
what is stored beyond the last element shown, and `prev` is the greatest stored element
below that, or 0 if there is none (`SeenOK`): which stays true if the node removed is not
`cur`'s but its successor's. Clearing has an iterator with `prev` 0.

* `Searchable`: `SearchTree`.
* `DestroyedOnce`: `DtorExact`.
* `IterationInOrder`: `BstIteration`, an action property: only `BstItrAdvance` ends an
  iteration, and then nothing is stored beyond the last element shown.

### Sources and the token bucket (`SourcesProofs`)

The lemmas of `TreeProofs` need no order, so they hold for the trees of sources, which
are searched with comparators that order nothing when they are given a source instead of
a key: wherever `bst_find` ends, what it found compares equal (`FindGood`), and a
removal without a swap takes that source out and destroys it (`RemoveGood`).

`Manage` folds a function over the registered sources. The fold of the community modules
is a recursive function on the sets of positions that are left; `FoldExists` gives it its
equations, by the recursion on ranks of `TreeProofs`, and `ManageIs` turns it into a
sequence of worlds, one per source, so that what polling (`ManagePolls`) and stopping
(`ManageStops`) leave behind is an induction along the list. For stopping the list must
have no source twice: the trees share none, and `InOrder` shows each element of a tree
once (`InOrderOnce`).

`Inv` says nothing but the bounds of the bucket once a node with two children was
removed (`"swap"`: the successor's source is destroyed and stays in the tree). Before that
`SrcInv` holds: the trees have a shape and different sources (`Forest`); each source is
counted, once for its tree and once for each event made of it, wherever that waits
(`Counted`, `HeldBy`); what was not created
yet is nowhere (`Fresh`); the bucket's timers are in the tree of timers, with a period
(`TimersOK`); unless a source was destroyed while polled, with an event waiting or a task
running, no freed source is polled, waiting or running (`QuietOK`); unless a timer was lost
or another source was removed, all the bucket's timers in a tree are one and have its
period (`TimerOK`). `HarmQuiet` ties the hazards to the invariant: whatever a call does to
the world, a source that goes from alive to freed and is still known somewhere is reported.

* `ReferencesKept`: `SourceAlive`.
* `OneTimerFills`: `BucketTimer`. `NoTimerLeft`: when `m_mod_set_tokenbucket` adds a timer
  none is left in the tree, for it removed the one there was, or the hazard `"lost"` or
  `"wrong"` was met. The new timer always finds a place: the key it is searched with is
  the clock, and no period is that number (`FreePlace`).

### Only model-checked

Out of the prover's reach: liveness under fairness (`TasksAreServed`, `FreeReturns`,
`LoopEnds`, `MessagesArrive`, `TokensComeBack`). Not proved: `ClearEmpties`, which is
about all containers, and `SourcesPolled`, which needs the numbers the kernel gives to
descriptors and the order of the sources in a tree besides what `SrcInv` says.

## 6. Not modelled

Allocation failures; statistics, logging, dumping; dynamic loading; permissions
of modules other than `DENY_CTX`; the references messages hold on their sender;
`become` and `unbecome`; several contexts in several threads (they share
nothing but the key); alignment of memory blocks; keys owned by a map
(`KEY_DUP`, `KEY_AUTOFREE`) and the hash function itself; path sources (the
second one of a module makes the comparator read a string at an address that is
none), `M_SRC_DUP` and the context's own sources; sources of several kinds or of
several modules at once; the kqueue and io_uring plugins, which other systems or
a build option select; the file system, the easy API, logging and utilities
(formatting, operating system and constructors).

## 7. Plan

1. Senders' references in `PubSub`, and the composition of `PubSub` with
   `Lifecycle`: hooks that send while modules are deregistered.
