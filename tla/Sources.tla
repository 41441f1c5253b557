------------------------------- MODULE Sources -------------------------------
(***************************************************************************)
(* The event sources of one module and its token bucket: Lib/core/src.c,    *)
(* the parts of mod.c that start, pause and stop polling them, the epoll    *)
(* plugin (poll/epoll.c, poll/cmn_linux.c), and the part of ctx.c that      *)
(* takes an event from epoll_wait to the user's callback and back.          *)
(*                                                                         *)
(* A source is an object with a reference count: its module's tree holds    *)
(* one reference, and so does each of its events, as long as a queue has it: *)
(* the batch, the stash, or the queue that a callback was given.  The user's *)
(* code calls the library from the callback or between two rounds of the    *)
(* loop.  A behaviour has sources of one kind, and the timer of the bucket. *)
(***************************************************************************)
EXTENDS BstOps, SequencesExt

CONSTANTS
    Setups,     \* what a behaviour has: a kind of sources, whether their priority is HIGH,
                \* the flags the user registers them with, their ids (fd, period, signal,
                \* pid, tid, twice a threshold), bucket sizes, and bounds: on the sources it
                \* creates (max), on the events that wait (keep), and on the hazards after
                \* which the user makes no more calls (harm)
    PrivFds,    \* numbers the kernel gives to the descriptors the library opens
    Periods,    \* periods of the token bucket's timer
    Unlimited,  \* UINT64_MAX
    IntHalf,    \* an int holds -IntHalf .. IntHalf - 1
    OutOfInt,   \* the int that the build makes of a long double out of its range
    MaxSrcs,    \* the largest bound max
    MaxEvents,  \* bound on the events that exist at a time
    MaxRuns     \* bound on the runs of one task under way at a time

ClockId == 1    \* CLOCK_MONOTONIC

ASSUME SourcesAssumption ==
    /\ Unlimited \in Nat /\ MaxSrcs \in Nat /\ MaxEvents \in Nat \ {0} /\ MaxRuns \in Nat
    /\ IntHalf \in Nat \ {0} /\ OutOfInt \in -IntHalf..IntHalf - 1
    /\ Setups \subseteq [kind : {"FD", "TMR", "SGN", "PID", "TASK", "THRESH"}, high : BOOLEAN,
                         flags : SUBSET {"ONESHOT", "AUTOCLOSE"},
                         ids : SUBSET (Nat \ {0}), bursts : SUBSET (0..Unlimited - 1),
                         max : 0..MaxSrcs, keep : 0..MaxEvents - 1, harm : Nat]
    /\ PrivFds \subseteq Nat /\ Periods \subseteq Nat \ {0}
    /\ 1..MaxSrcs \subseteq Elems /\ MaxSrcs <= BstMax

VARIABLES
    setup,      \* the setup of this behaviour
    mstate,     \* mod->state
    pubsubFd,   \* the module has its pipe for messages
    tree,       \* mod->srcs, of source objects
    src,        \* the source objects; refs = 0 is freed, or not created; fired: history
    made,       \* number of objects created
    open,       \* open descriptors
    interest,   \* the epoll set: pairs <<fd, source>>
    off,        \* fds that EPOLLONESHOT has disabled
    signalled,  \* eventfds that are readable
    tasks,      \* tasks on the thread pool: how many runs of each source
    ready,      \* events that epoll_wait returned and the loop has not taken
    events,     \* the events: their source (0: none), and the queues they are in
    errno,      \* the callback left errno set
    tb,         \* mod->tb: tokens, burst and the timer's period (0: no timer)
    hurt,       \* history: the hazards met, see Hazards
    undefined   \* a freed source was used

pollVars == <<src, open, interest, off, signalled>>
vars == <<setup, mstate, pubsubFd, tree, pollVars, made, tasks, ready, events, errno, tb, hurt,
          undefined>>

Hazards == {
    "swap",     \* a node with two children was removed: another source is destroyed
    "close",    \* the fd of a source was closed by the destruction of another
    "late",     \* a polled source was destroyed when its module was not running
    "unpolled", \* epoll refused a source: a handled source holds its fd, or it is closed
    "lost",     \* a registered source was not found when it was to be removed
    "wrong",    \* another source was removed, for a one-shot event or an equal period
    "stale",    \* a source was destroyed, or its fd closed, with an event in ready
    "task",     \* a source was destroyed while its task runs
    "errno",    \* an event was refused because of an errno from the last callback
    "noPipe"}   \* the module was started without the token for its pipe

Srcs == 1..MaxSrcs
Events == 1..MaxEvents
kind == setup.kind
NoSrc == [type |-> "FD", id |-> 0, oneshot |-> FALSE, autoclose |-> FALSE, tb |-> FALSE,
          fd |-> -1, ev |-> FALSE, fresh |-> FALSE, fired |-> FALSE, refs |-> 0]
NoEvent == [src |-> 0, at |-> {}]
NoBucket == [tokens |-> Unlimited, burst |-> Unlimited, period |-> 0]

Init ==
    /\ setup \in Setups
    /\ mstate = "IDLE" /\ pubsubFd = FALSE
    /\ tree = [k \in {kind, "TMR"} |-> EmptyTree]
    /\ src = [o \in Srcs |-> NoSrc] /\ made = 0
    /\ open = IF kind = "FD" THEN setup.ids ELSE {}
    /\ interest = {} /\ off = {} /\ signalled = {} /\ tasks = [o \in Srcs |-> 0]
    /\ ready = {} /\ events = [e \in Events |-> NoEvent] /\ errno = FALSE
    /\ tb = NoBucket /\ hurt = {} /\ undefined = FALSE

Running == mstate = "RUNNING"
Registered(k) == InOrder(tree[k])
AllRegistered ==
    CASE kind = "FD"  -> Registered("FD") \o Registered("TMR")
      [] kind = "TMR" -> Registered("TMR")
      [] OTHER        -> Registered("TMR") \o Registered(kind)

(* fdcmp, tmrcmp and the others: a key against a registered source.  What    *)
(* is left of a difference of periods, of 64 bits, in an int, and of one of  *)
(* thresholds, whose fraction is lost.                                      *)
ToInt(d) == ((d + IntHalf) % (2 * IntHalf)) - IntHalf
Whole(d) == IF d >= 0 THEN d \div 2 ELSE -((-d) \div 2)
Difference(type, d) ==
    CASE type = "TMR"    -> ToInt(d)
      [] type = "THRESH" -> IF Whole(d) \in -IntHalf..IntHalf - 1 THEN Whole(d) ELSE OutOfInt
      [] OTHER           -> d
Cmp(key) == [o \in Srcs |-> Difference(src[o].type, key - src[o].id)]

(* What the comparator reads when it is given a source instead of a key, as *)
(* m_bst_insert and the removal of a one-shot source do: an fd is found,    *)
(* for a timer the clock is, and for the others the private fd, -1 while    *)
(* the source is not polled (without a sign, for a threshold).              *)
AsKey(s) ==
    CASE s.type = "FD" -> s.id [] s.type = "TMR" -> ClockId
      [] s.type = "THRESH" -> 2 * (s.fd % (2 * IntHalf)) [] OTHER -> s.fd

(***************************************************************************)
(* Polling and reference counts, on the record of the variables they touch. *)
(***************************************************************************)
World == [src |-> src, open |-> open, interest |-> interest, off |-> off,
          signalled |-> signalled]

Install(w) ==
    /\ src' = w.src /\ open' = w.open /\ interest' = w.interest
    /\ off' = w.off /\ signalled' = w.signalled

(* The last descriptor closed, the kernel forgets what it knew of it.       *)
Close(w, fd) ==
    [w EXCEPT !.open = @ \ {fd}, !.interest = {e \in @ : e[1] # fd},
              !.off = @ \ {fd}, !.signalled = @ \ {fd}]

(* A timerfd, signalfd, pidfd or eventfd, with the lowest free number.       *)
create_priv_fd(w) == Min(PrivFds \ w.open)

(* poll_set_new_evt with ADD: a private fd is made for every kind but FD,   *)
(* with nothing to read from it yet.  epoll_ctl refuses an fd that is closed *)
(* or in the set already.                                                  *)
AddFails(w, o) ==
    /\ w.src[o].type = "FD"
    /\ w.src[o].id \notin w.open \/ \E e \in w.interest : e[1] = w.src[o].id
PollAdd(w, o) ==
    LET private == w.src[o].type # "FD"
        fd == IF private THEN create_priv_fd(w) ELSE w.src[o].id
    IN  [w EXCEPT !.src[o].fd = fd, !.src[o].ev = TRUE, !.src[o].fresh = private /\ o \in ready,
                  !.open = IF private THEN @ \cup {fd} ELSE @,
                  !.interest = IF AddFails(w, o) THEN @ ELSE @ \cup {<<fd, o>>}]

(* poll_set_new_evt with RM; nothing to do when the source is not polled.   *)
RmFails(w, o) == w.src[o].ev /\ \A e \in w.interest : e[1] # w.src[o].fd

PollRmKeepsFd(w, o) ==
    [w EXCEPT !.src[o].ev = FALSE, !.interest = {e \in @ : e[1] # w.src[o].fd}]

PollRm(w, o) ==
    LET fd == w.src[o].fd
        out == [w EXCEPT !.src[o].ev = FALSE, !.off = @ \ {fd},
                         !.interest = {e \in @ : e[1] # fd}]
    IN  IF ~w.src[o].ev THEN w
        ELSE IF w.src[o].type = "FD" THEN out
        ELSE [Close(out, fd) EXCEPT !.src[o].fd = -1]

(* m_mem_unref; the last reference runs src_priv_dtor, which stops polling  *)
(* only for a running module.                                              *)
Unref(w, o) ==
    LET s == w.src[o]
        unpolled == IF Running THEN PollRm(w, o) ELSE w
        closed == IF s.autoclose THEN Close(unpolled, s.id) ELSE unpolled
    IN  IF s.refs > 1 THEN [w EXCEPT !.src[o].refs = @ - 1]
        ELSE IF \E e \in closed.interest : e[2] = o THEN [closed EXCEPT !.src[o].refs = 0]
        ELSE [closed EXCEPT !.src[o] = NoSrc]

(* What goes wrong when the world changes from now to w.                    *)
Harm(w) ==
    {h \in {"late", "stale", "task"} :
        \E o \in Srcs :
            /\ src[o].refs > 0 /\ w.src[o].refs = 0
            /\ CASE h = "late"  -> \E e \in w.interest : e[2] = o
                 [] h = "stale" -> o \in ready
                 [] h = "task"  -> tasks[o] > 0}
    \cup {h \in {"close"} : \E o \in Srcs : /\ src[o].type = "FD" /\ w.src[o].refs > 0
                                           /\ src[o].id \in open \ w.open}
    \cup {h \in {"stale"} : \E o \in ready : w.src[o].fd # src[o].fd}
    \cup {h \in {"unpolled"} : \E o \in Srcs : /\ w.src[o].ev /\ ~src[o].ev
                                              /\ <<w.src[o].fd, o>> \notin w.interest}

(***************************************************************************)
(* The token bucket.                                                       *)
(***************************************************************************)
(* M_MOD_CONSUME_TOKEN: -EAGAIN without one.  UINT64_MAX tokens, the default, *)
(* are never used up.                                                       *)
Spend(b) == IF b.burst = Unlimited THEN b ELSE [b EXCEPT !.tokens = @ - 1]

(* No tree holds a freed source: a comparator or an iteration would read it. *)
Intact == \A k \in DOMAIN tree : \A o \in TreeData(tree[k]) : src[o].refs > 0
Defined == ~undefined /\ Intact

(***************************************************************************)
(* The queues of events.  outer is the one that a callback was given, inner  *)
(* that of a callback which m_mod_unstash ran in that one: callbacks are    *)
(* not nested deeper here.                                                 *)
(***************************************************************************)
At(queue) == {e \in Events : queue \in events[e].at}
Waiting == At("batch") \cup At("stash")
InCallback == At("outer") # {}
Unheld == {e \in Events : events[e].src # 0 /\ events[e].at = {}}
LoopsTurn == ~InCallback /\ Unheld = {}

Move(evs, some, from, to) ==
    [e \in Events |-> IF e \in some THEN [evs[e] EXCEPT !.at = (@ \ {from}) \cup {to}] ELSE evs[e]]
Free(queues) == [e \in Events |-> [events[e] EXCEPT !.at = @ \ queues]]

(* push_evt gives the batch to the callback.                                *)
HandOver(evs) == Move(evs, {e \in Events : "batch" \in evs[e].at}, "batch", "outer")

(* create_src: an fd has a HIGH priority.  Those events do not wait.        *)
High == kind = "FD" \/ setup.high

(* The user's code can call the library.                                   *)
Callable ==
    /\ Cardinality(hurt) <= setup.harm
    /\ ready = {} \/ InCallback
    /\ Unheld = {} /\ Defined
Call == Callable /\ tb.tokens > 0

(***************************************************************************)
(* Registration.                                                           *)
(***************************************************************************)
(* A source of the user's; tasks and thresholds are one-shot.               *)
create_src(id, oneshot, autoclose) ==
    [NoSrc EXCEPT !.type = kind, !.id = id, !.refs = 1, !.autoclose = autoclose,
                  !.oneshot = oneshot \/ kind \in {"TASK", "THRESH"},
                  !.fd = IF kind = "FD" THEN id ELSE -1]

(* m_bst_insert of s as object o; a source that is refused is freed again,  *)
(* and its fd closed if it owns it.                                         *)
Added(t, w, o, s, k) ==
    LET created == [w EXCEPT !.src[o] = s]
        place == bst_find(t[k], Cmp(AsKey(s)))
        refused == t[k].child[place] # 0
    IN  [refused |-> refused,
         tree |-> IF refused THEN t ELSE [t EXCEPT ![k] = insert_node(@, place, o)],
         w |-> IF refused THEN Unref(created, o)
               ELSE IF Running THEN PollAdd(created, o) ELSE created]

(* An fd that is the user's to register.                                    *)
UserFd(fd) == fd \in open /\ \A o \in Srcs : src[o].type = "TMR" => src[o].fd # fd

(* register_mod_src.  A task starts at once when the module runs.           *)
Register(id, oneshot, autoclose) ==
    LET o == made + 1
        a == Added(tree, World, o, create_src(id, oneshot, autoclose), kind)
    IN  /\ made < setup.max /\ Call
        /\ oneshot => "ONESHOT" \in setup.flags
        /\ autoclose => kind = "FD" /\ "AUTOCLOSE" \in setup.flags
        /\ kind = "FD" => UserFd(id)
        /\ tb' = Spend(tb) /\ made' = o
        /\ tree' = a.tree /\ Install(a.w)
        /\ tasks' = IF kind = "TASK" /\ Running /\ ~a.refused
                    THEN [tasks EXCEPT ![o] = 1] ELSE tasks
        /\ hurt' = hurt \cup Harm(a.w)
        /\ UNCHANGED <<setup, mstate, pubsubFd, ready, events, errno, undefined>>

(* m_bst_remove of the source found for a key in the tree of kind k.        *)
Removed(w, key, k) ==
    LET place == bst_find(tree[k], Cmp(key))
        found == tree[k].child[place]
    IN  IF found = 0 THEN [tree |-> tree, w |-> w, found |-> 0, swap |-> FALSE]
        ELSE [tree |-> [tree EXCEPT ![k] = remove_node(@, place)],
              w |-> Unref(w, DtorArg(tree[k], place)),
              found |-> tree[k].data[found],
              swap |-> TwoChildren(tree[k], place)]

IsRegistered(id, k) == \E o \in ToSet(Registered(k)) : src[o].id = id
RemovalHarm(r, id, k, bucket) ==
    Harm(r.w) \cup (IF r.swap THEN {"swap"} ELSE {})
              \cup (IF r.found # 0 /\ (src[r.found].tb # bucket \/ src[r.found].id # id)
                    THEN {"wrong"} ELSE {})
              \cup (IF r.found = 0 /\ IsRegistered(id, k) THEN {"lost"} ELSE {})

(* deregister_mod_src; tasks cannot be deregistered.                        *)
Deregister(id) ==
    LET r == Removed(World, id, kind)
    IN  /\ Call /\ kind # "TASK"
        /\ tb' = Spend(tb)
        /\ tree' = r.tree /\ Install(r.w)
        /\ hurt' = hurt \cup RemovalHarm(r, id, kind, FALSE)
        /\ UNCHANGED <<setup, mstate, pubsubFd, made, tasks, ready, events, errno, undefined>>

(***************************************************************************)
(* mod.c: starting, pausing and stopping.                                  *)
(***************************************************************************)
(* manage_srcs: every source is polled, no longer polled, or removed from    *)
(* its tree; it returns what the last source returned.                      *)
Manage(op) ==
    LET step(w, o) == CASE op = "ADD" -> PollAdd(w, o) [] op = "RM" -> PollRm(w, o)
                        [] op = "STOP" -> Unref(w, o)
    IN  FoldLeft(step, World, AllRegistered)
LastFails(op) ==
    /\ AllRegistered # <<>>
    /\ IF op = "ADD" THEN AddFails(World, Last(AllRegistered))
                     ELSE RmFails(World, Last(AllRegistered))
StartedTasks == [o \in Srcs |-> tasks[o] + IF kind = "TASK" /\ o \in ToSet(Registered(kind))
                                           THEN 1 ELSE 0]

(* m_mod_start, or start from evaluate_module.  The pipe for messages is    *)
(* registered like a source and takes a token; without one init_pubsub_fd   *)
(* returns -errno, and when that is 0 the module starts without it.         *)
Start(evaluated) ==
    LET b == IF evaluated THEN tb ELSE Spend(tb)
        w == Manage("ADD")
    IN  /\ Callable
        /\ IF evaluated THEN ~InCallback /\ mstate = "IDLE"
           ELSE tb.tokens > 0 /\ mstate \in {"IDLE", "STOPPED"}
        /\ pubsubFd' = (b.tokens > 0)
        /\ tb' = IF b.tokens > 0 THEN Spend(b) ELSE b
        /\ Install(w)
        /\ mstate' = IF LastFails("ADD") THEN mstate ELSE "RUNNING"
        /\ tasks' = StartedTasks /\ \A o \in Srcs : tasks'[o] <= MaxRuns
        /\ hurt' = hurt \cup Harm(w) \cup (IF b.tokens = 0 THEN {"noPipe"} ELSE {})
        /\ UNCHANGED <<setup, tree, made, ready, events, errno, undefined>>

(* It is not 0: the error of an earlier call ends m_mod_start.               *)
StartRefused ==
    /\ Callable /\ tb.tokens = 1 /\ mstate \in {"IDLE", "STOPPED"}
    /\ tb' = Spend(tb) /\ pubsubFd' = FALSE
    /\ UNCHANGED <<setup, mstate, tree, pollVars, made, tasks, ready, events, errno, hurt,
                   undefined>>

Resume ==
    LET w == Manage("ADD")
    IN  /\ Call /\ mstate = "PAUSED"
        /\ tb' = Spend(tb)
        /\ Install(w)
        /\ mstate' = IF LastFails("ADD") THEN mstate ELSE "RUNNING"
        /\ tasks' = StartedTasks /\ \A o \in Srcs : tasks'[o] <= MaxRuns
        /\ hurt' = hurt \cup Harm(w)
        /\ UNCHANGED <<setup, pubsubFd, tree, made, ready, events, errno, undefined>>

Pause ==
    LET w == Manage("RM")
    IN  /\ Call /\ Running
        /\ tb' = Spend(tb)
        /\ Install(w)
        /\ mstate' = IF LastFails("RM") THEN mstate ELSE "PAUSED"
        /\ hurt' = hurt \cup Harm(w)
        /\ UNCHANGED <<setup, pubsubFd, tree, made, tasks, ready, events, errno, undefined>>

(* Every source is removed from its tree; then, with the module STOPPED,     *)
(* reset_module clears the batch and the stash.                             *)
Stop ==
    LET w == Manage("STOP")
    IN  /\ Call /\ mstate \in {"RUNNING", "PAUSED"}
        /\ Install(w)
        /\ tree' = [k \in DOMAIN tree |-> EmptyTree]
        /\ mstate' = "STOPPED" /\ pubsubFd' = FALSE /\ tb' = NoBucket
        /\ events' = Free({"batch", "stash"})
        /\ hurt' = hurt \cup Harm(w)
        /\ UNCHANGED <<setup, made, tasks, ready, errno, undefined>>

(* m_mod_set_tokenbucket: the old timer goes, for a token; unless the rate  *)
(* is 0 (period 0 here) the bucket is filled and pays for the new timer.    *)
SetTokenBucket(period, burst) ==
    LET removes == tb.period # 0 /\ tb.tokens > 0
        r == IF removes THEN Removed(World, tb.period, "TMR")
             ELSE [tree |-> tree, w |-> World, found |-> 0, swap |-> FALSE]
        o == made + 1
        s == [NoSrc EXCEPT !.type = "TMR", !.id = period, !.tb = TRUE, !.refs = 1]
        a == Added(r.tree, r.w, o, s, "TMR")
        full == [tokens |-> burst, burst |-> burst, period |-> period]
        adds == period # 0 /\ burst > 0
    IN  /\ Callable /\ (adds => made < setup.max)
        /\ hurt' = hurt \cup RemovalHarm(r, tb.period, "TMR", TRUE)
        /\ tree' = IF adds THEN a.tree ELSE r.tree
        /\ Install(IF adds THEN a.w ELSE r.w)
        /\ made' = IF adds THEN o ELSE made
        /\ tb' = IF period = 0 THEN NoBucket ELSE IF adds THEN Spend(full) ELSE full
        /\ UNCHANGED <<setup, mstate, pubsubFd, tasks, ready, events, errno, undefined>>

(***************************************************************************)
(* evts.c: the stash.                                                      *)
(***************************************************************************)
(* One of the events that the user's code was given is kept; once, here.    *)
m_mod_stash(e) ==
    /\ Call /\ Running /\ ~High
    /\ e \in (At("outer") \cup At("inner")) \ At("stash") /\ Cardinality(Waiting) < setup.keep
    /\ tb' = Spend(tb)
    /\ events' = [events EXCEPT ![e].at = @ \cup {"stash"}]
    /\ UNCHANGED <<setup, mstate, pubsubFd, tree, pollVars, made, tasks, ready, errno, hurt,
                   undefined>>

(* The callback is run with some of the stash; with how many, and which are  *)
(* the first, is left open here (PubSub has the order).                     *)
m_mod_unstash(some) ==
    /\ Call /\ Running /\ some \subseteq At("stash") /\ At("inner") = {}
    /\ tb' = Spend(tb)
    /\ events' = Move(events, some, "stash", IF InCallback THEN "inner" ELSE "outer")
    /\ UNCHANGED <<setup, mstate, pubsubFd, tree, pollVars, made, tasks, ready, errno, hurt,
                   undefined>>

(***************************************************************************)
(* ctx.c: one round of recv_events.                                        *)
(***************************************************************************)
Readable ==
    {e[2] : e \in {i \in interest : /\ i[1] \notin off
                                    /\ src[i[2]].type \in {"TASK", "THRESH"}
                                        => i[1] \in signalled}}

(* epoll_wait returns some of the events there are, and disables those of   *)
(* one-shot sources.                                                       *)
PollWait ==
    /\ LoopsTurn /\ ready = {} /\ Defined
    /\ \E some \in SUBSET Readable \ {{}} :
          /\ ready' = some
          /\ off' = off \cup {e[1] : e \in {i \in interest : i[2] \in some /\ src[i[2]].oneshot}}
    /\ errno' = FALSE
    /\ UNCHANGED <<setup, mstate, pubsubFd, tree, src, open, interest, signalled, made, tasks,
                   events, tb, hurt, undefined>>

(* The next event.  Nobody kept a reference on its source.                  *)
TakeFreed ==
    /\ LoopsTurn /\ ~undefined
    /\ \E o \in ready : src[o].refs = 0
    /\ undefined' = TRUE
    /\ UNCHANGED <<setup, mstate, pubsubFd, tree, pollVars, made, tasks, ready, events, errno, tb,
                   hurt>>

(* An errno that is not 0, left by the last callback or from reading a       *)
(* private fd that was closed or made anew since epoll_wait, refuses the    *)
(* event and those after it.                                               *)
Consumed(o) ==
    CASE src[o].type \in {"FD", "PID"}      -> {TRUE}
      [] src[o].type \in {"TASK", "THRESH"} -> {src[o].fd \in signalled}
      [] OTHER -> IF src[o].fd = -1 THEN {FALSE} ELSE {TRUE, ~src[o].fresh}
Takes(o, ok) ==
    /\ LoopsTurn /\ Defined /\ o \in ready /\ src[o].refs > 0
    /\ ok \in {c /\ ~errno : c \in Consumed(o)}

TakeRefused(o) ==
    /\ Takes(o, FALSE)
    /\ ready' = {}
    /\ hurt' = hurt \cup (IF errno THEN {"errno"} ELSE {"stale"})
    /\ UNCHANGED <<setup, mstate, pubsubFd, tree, pollVars, made, tasks, events, errno, tb,
                   undefined>>

TakeTokenOver(o) ==
    /\ Takes(o, TRUE) /\ src[o].tb
    /\ ready' = ready \ {o}
    /\ tb' = [tb EXCEPT !.tokens = @ + 1]
    /\ events' \in {events, HandOver(events)}
    /\ UNCHANGED <<setup, mstate, pubsubFd, tree, pollVars, made, tasks, errno, hurt, undefined>>

TakeTokenShort(o) ==
    /\ Takes(o, TRUE) /\ src[o].tb
    /\ ready' = ready \ {o}
    /\ tb' = IF tb.tokens + 1 < tb.burst THEN [tb EXCEPT !.tokens = @ + 1] ELSE tb
    /\ events' \in {events, HandOver(events)}
    /\ UNCHANGED <<setup, mstate, pubsubFd, tree, pollVars, made, tasks, errno, hurt, undefined>>

(* The timer of the bucket adds a token, and its event is dropped at once;   *)
(* but push_evt goes on to hand over a batch that has reached its size.     *)
TakeToken(o) ==
    /\ Takes(o, TRUE) /\ src[o].tb
    /\ ready' = ready \ {o}
    /\ tb' = IF tb.tokens < tb.burst THEN [tb EXCEPT !.tokens = @ + 1] ELSE tb
    /\ events' \in {events, HandOver(events)}
    /\ UNCHANGED <<setup, mstate, pubsubFd, tree, pollVars, made, tasks, errno, hurt, undefined>>

TakeEventNoRef(o) ==
    LET r == IF src[o].oneshot THEN Removed(World, AsKey(src[o]), kind)
             ELSE [tree |-> tree, w |-> World, found |-> o, swap |-> FALSE]
        unused == {e \in Events : events[e].src = 0}
    IN  /\ Takes(o, TRUE) /\ ~src[o].tb /\ unused # {}
        /\ ready' = ready \ {o}
        /\ events' = [events EXCEPT ![Min(unused)] = [src |-> o, at |-> {"outer"}]]
        /\ tree' = r.tree /\ Install(r.w)
        /\ UNCHANGED <<setup, mstate, pubsubFd, made, tasks, errno, tb, hurt, undefined>>

(* The event holds a reference.  A one-shot source is looked up in its tree *)
(* with the source itself as the key, and removed if found.  The event is   *)
(* added to the batch, which the callback is given; unless the priority is   *)
(* not HIGH, and is LOW or the batch is smaller than its size, which the    *)
(* user sets: then it waits, or does not.                                   *)
TakeEvent(o) ==
    LET held == [World EXCEPT !.src[o].refs = @ + 1, !.src[o].fired = src[o].oneshot,
                              !.signalled = @ \ {src[o].fd}]
        r == IF src[o].oneshot THEN Removed(held, AsKey(src[o]), kind)
             ELSE [tree |-> tree, w |-> held, found |-> o, swap |-> FALSE]
        unused == {e \in Events : events[e].src = 0}
        batched == [events EXCEPT ![Min(unused)] = [src |-> o, at |-> {"batch"}]]
    IN  /\ Takes(o, TRUE) /\ ~src[o].tb /\ unused # {}
        /\ ready' = ready \ {o}
        /\ \/ events' = HandOver(batched)
           \/ ~High /\ Cardinality(Waiting) < setup.keep /\ events' = batched
        /\ tree' = r.tree /\ Install(r.w)
        /\ hurt' = hurt \cup Harm(r.w) \cup (IF r.swap THEN {"swap"} ELSE {})
                        \cup (IF r.found = 0 THEN {"lost"}
                              ELSE IF r.found # o THEN {"wrong"} ELSE {})
        /\ UNCHANGED <<setup, mstate, pubsubFd, made, tasks, errno, tb, undefined>>

(* A callback returns, with any errno, and the queue it was given is freed;  *)
(* the next round begins with errno = 0.                                   *)
CallbackReturns ==
    LET queue == IF At("inner") # {} THEN "inner" ELSE "outer"
    IN  /\ InCallback /\ Unheld = {} /\ ~undefined
        /\ events' = Free({queue})
        /\ errno' \in IF queue = "inner" \/ ready = {} THEN {errno} ELSE BOOLEAN
        /\ UNCHANGED <<setup, mstate, pubsubFd, tree, pollVars, made, tasks, ready, tb, hurt,
                       undefined>>

(* evt_dtor: an event that is in no queue lets its source go, in some order. *)
(* When that was the last reference to a source that is polled,             *)
(* poll_set_new_evt sets errno.                                            *)
evt_dtor(e) ==
    LET o == events[e].src
        w == Unref(World, o)
        removes == Running /\ src[o].refs = 1 /\ src[o].ev
    IN  /\ e \in Unheld /\ ~undefined
        /\ events' = [events EXCEPT ![e] = NoEvent]
        /\ errno' = IF removes /\ ~InCallback /\ ready # {} THEN RmFails(World, o) ELSE errno
        /\ Install(w)
        /\ hurt' = hurt \cup Harm(w)
        /\ UNCHANGED <<setup, mstate, pubsubFd, tree, made, tasks, ready, tb, undefined>>

(* evaluate_module, at the end of a round: a threshold is passed.           *)
Alarm(o) ==
    /\ kind = "THRESH" /\ Running /\ LoopsTurn /\ ready = {} /\ Defined
    /\ o \in ToSet(Registered(kind))
    /\ signalled' = signalled \cup {src[o].fd}
    /\ UNCHANGED <<setup, mstate, pubsubFd, tree, src, open, interest, off, made, tasks, ready,
                   events, errno, tb, hurt, undefined>>

(* task_thread: the function has returned, the eventfd is written to; a      *)
(* source that is not polled has none, and nobody will know.                *)
TaskDone(o) ==
    /\ tasks[o] > 0 /\ ~undefined
    /\ tasks' = [tasks EXCEPT ![o] = @ - 1]
    /\ undefined' = (src[o].refs = 0)
    /\ signalled' = IF src[o].refs > 0 /\ src[o].fd # -1 THEN signalled \cup {src[o].fd}
                    ELSE signalled
    /\ UNCHANGED <<setup, mstate, pubsubFd, tree, src, open, interest, off, made, ready, events,
                   errno, tb, hurt>>

(* A comparator, or an iteration, reads the freed source in a tree.         *)
TouchFreed ==
    /\ ~Intact /\ ~undefined
    /\ undefined' = TRUE
    /\ UNCHANGED <<setup, mstate, pubsubFd, tree, pollVars, made, tasks, ready, events, errno, tb,
                   hurt>>

User ==
    \/ \E id \in setup.ids, oneshot, autoclose \in BOOLEAN : Register(id, oneshot, autoclose)
    \/ \E id \in setup.ids : Deregister(id)
    \/ (\E b \in BOOLEAN : Start(b)) \/ StartRefused
    \/ Resume \/ Pause \/ Stop
    \/ \E p \in Periods \cup {0}, b \in setup.bursts : SetTokenBucket(p, b)
    \/ \E e \in Events : m_mod_stash(e)
    \/ \E some \in SUBSET Events : m_mod_unstash(some)

Loop ==
    \/ PollWait \/ TakeFreed
    \/ \E o \in Srcs : TakeRefused(o) \/ TakeToken(o) \/ TakeEvent(o)
    \/ CallbackReturns \/ \E e \in Events : evt_dtor(e)
    \/ \E o \in Srcs : Alarm(o) \/ TaskDone(o)
    \/ TouchFreed

Next == User \/ Loop

Spec == Init /\ [][Next]_vars

(* The loop goes on: callbacks return and their events are freed, an event   *)
(* that was returned is taken, and epoll_wait, which puts what it returned   *)
(* at the end of its list, returns a timer that elapsed sooner or later.     *)
Fairness ==
    /\ WF_vars(CallbackReturns) /\ WF_vars(\E e \in Events : evt_dtor(e))
    /\ WF_vars(\E o \in Srcs : TakeRefused(o) \/ TakeToken(o) \/ TakeEvent(o))
    /\ \A o \in Srcs : SF_vars(PollWait /\ o \in ready')

FairSpec == Spec /\ Fairness

(***************************************************************************)
(* Properties.                                                             *)
(***************************************************************************)
InTree(o) == Cardinality({l \in (DOMAIN tree) \X BstNodes : tree[l[1]].data[l[2]] = o})
EventsOf(o) == {e \in Events : events[e].src = o}
BucketTimers == {o \in Srcs : src[o].tb /\ InTree(o) > 0}

(* A registered source is polled exactly while its module runs, on its own   *)
(* descriptor; any other source that is polled has an event left, which the  *)
(* batch, the stash or a callback keeps: deregistered, it stays in epoll,   *)
(* whatever the state of its module.  A private descriptor is open only     *)
(* while it is polled, and a registered fd is found again by its number.    *)
(* That holds through any order of registration, start, pause, resume,      *)
(* stop, one-shot events, stashing and calls from the callback, but for the  *)
(* cases where the code fails: "swap" (bst.c:79-81), "close" (src.c:389),   *)
(* "late" (src.c:74-78) and "unpolled" (epoll.c:53): an fd registered again  *)
(* by the callback of its one-shot event is refused.  The pipe for messages  *)
(* is there too, unless m_mod_start had no token for it ("noPipe",          *)
(* mod.c:67-80).                                                           *)
SourcesPolled ==
    hurt \cap {"swap", "close", "late", "unpolled"} = {} =>
        LET registered == ToSet(AllRegistered)
        IN  /\ \A o \in registered : (<<src[o].fd, o>> \in interest) <=> Running
            /\ \A e \in interest : /\ e[1] = src[e[2]].fd /\ e[1] \in open
                                  /\ (e[2] \in registered \/ EventsOf(e[2]) # {})
            /\ Running => (pubsubFd \/ "noPipe" \in hurt)
            /\ kind # "FD" => open = {e[1] : e \in interest}
            /\ kind = "FD" => \A o \in ToSet(Registered("FD")) :
                   tree["FD"].data[Found(tree["FD"], Cmp(src[o].id))] = o

(* A source has one reference for its place in the tree and one for each of  *)
(* its events, in the batch, in the stash or with a callback, so it is freed *)
(* when all are gone, whatever the callback does.  A freed source is used   *)
(* only after one of the hazards "swap", "late", "stale" or "task".          *)
SourceAlive ==
    /\ undefined => hurt \cap {"swap", "late", "stale", "task"} # {}
    /\ "swap" \notin hurt => \A o \in Srcs :
           src[o].refs = InTree(o) + Cardinality(EventsOf(o))

(* The bucket never holds more than its burst, and one timer fills it, with *)
(* the period that was set last: every change of the bucket removes the     *)
(* timer before.  That fails when there is no token left to pay for the     *)
(* removal, and when the timer is not found among others or is confused     *)
(* with one of the same period ("lost", "swap", "wrong").                   *)
BucketTimer ==
    /\ tb.tokens <= tb.burst
    /\ hurt \cap {"lost", "swap", "wrong"} = {} =>
           /\ Cardinality(BucketTimers) <= 1
           /\ \A o \in BucketTimers : src[o].id = tb.period

(* A running module without tokens, whose calls are all refused with        *)
(* -EAGAIN, has tokens again later: its timer is polled whatever other      *)
(* events there are.                                                       *)
TokensComeBack ==
    (Running /\ tb.tokens = 0 /\ BucketTimers # {}) ~> (tb.tokens > 0 \/ hurt # {})

(* mod.h:35 of a one-shot source: "Run just once then automatically          *)
(* deregister source."                                                     *)
OneshotOnce ==
    [][\A o \in Srcs : ~(EventsOf(o)' \subseteq EventsOf(o)) /\ src[o].oneshot
                           => ~src[o].fired]_vars

(* docs/concepts/mod.md:63: "If a module gets stopped, reaching             *)
(* M_MOD_STOPPED state, it will destroy any registered source".  Between    *)
(* two rounds of the loop nothing of a stopped module is left in epoll.     *)
StoppedUnpolled == mstate = "STOPPED" /\ LoopsTurn => interest = {}
=============================================================================
