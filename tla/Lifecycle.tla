----------------------------- MODULE Lifecycle -----------------------------
(***************************************************************************)
(* Modules and their context: Lib/core/mod.c and Lib/core/ctx.c.            *)
(*                                                                         *)
(* A context belongs to one thread, so nothing here runs in parallel.  What *)
(* makes it hard is reentrance: the library calls the user's hooks from the *)
(* middle of start(), stop(), mod_deregister(), the evaluation of the idle  *)
(* modules, the dispatching of a batch of events and the flush at the end   *)
(* of the loop, and a hook may call the library back about any module.      *)
(* The call stack is therefore part of the state: one frame for each        *)
(* function that waits for a hook, the frame on top runs.  Code between two *)
(* hooks is one step.                                                       *)
(***************************************************************************)
EXTENDS Integers, FiniteSets, Sequences, SequencesExt

CONSTANTS
    Mods,       \* module objects
    NoMod,
    Name,       \* [Mods -> names]
    Flags,      \* [Mods -> SUBSET {"PERSIST", "ALLOW_REPLACE", "DENY_CTX"}]
    Startups,   \* sets of modules the main program has registered at the start
    Ops,        \* what the user's code calls, by where it runs: [Where -> SUBSET OpName]
    Careful,    \* the user's code respects ClientRules
    SrcsFail,   \* pipe() may fail in init_pubsub_fd, epoll_ctl() in manage_srcs
    MaxCalls,   \* bound on the API calls the user's code makes
    MaxStack,   \* bound on the depth of the stack at which it still makes one
    MaxBatch    \* bound on the events one poll_wait returns

Where == {"main", "eval", "start", "stop", "evt", "flush"}
StateOp == {"start", "pause", "resume", "stop"}
OpName == StateOp \cup {"register", "deregister", "bind", "loop", "dispatch", "quit",
                        "finalize", "ctx_deregister"}

ASSUME LifecycleAssumption ==
    /\ NoMod \notin Mods /\ IsFiniteSet(Mods)
    /\ Flags \in [Mods -> SUBSET {"PERSIST", "ALLOW_REPLACE", "DENY_CTX"}]
    /\ Startups \subseteq SUBSET Mods
    /\ \A S \in Startups : \A x, y \in S : Name[x] = Name[y] => x = y
    /\ Ops \in [Where -> SUBSET OpName]
    /\ Careful \in BOOLEAN /\ SrcsFail \in BOOLEAN
    /\ MaxCalls \in Nat /\ MaxStack \in Nat /\ MaxBatch \in Nat \ {0}

VARIABLES
    state,      \* mod->state, "NONE" before registration
    refs,       \* mod's reference count
    freed,      \* modules whose module_dtor ran
    handle,     \* the user holds the reference m_mod_register gave out
    bound,      \* mod->bound_mods, a list that grows at its head
    modules,    \* c->modules
    persist,    \* M_CTX_PERSIST in c->flags
    key,        \* the thread's key holds the context
    ctxState,   \* c->state
    ctxRefs,    \* the context's reference count
    quit,       \* c->quit
    running,    \* c->stats.running_modules
    finalized,  \* c->finalized
    curr_mod,   \* c->curr_mod
    stack,      \* the call stack, innermost function first
    ret,        \* what the function that just returned returned
    calls,      \* API calls made so far
    undefined   \* memory was used after it was freed

modVars == <<state, refs, freed, handle, bound>>
ctxVars == <<modules, persist, key, ctxState, ctxRefs, quit, running, finalized, curr_mod>>
vars == <<modVars, ctxVars, stack, ret, calls, undefined>>

(* A frame: the function, the module it works on, where it is ("call" is at *)
(* its first call); position of a list iterator or length of the map it     *)
(* iterates; the map entries it has visited; the events of the batch still  *)
(* to dispatch.                                                             *)
Frame(fn, m, at) == [fn |-> fn, mod |-> m, at |-> at, n |-> 0, seen |-> {}, todo |-> <<>>]

Top == Head(stack)
Below == Tail(stack)

(* The last reference to m is gone: module_dtor runs before anything else.  *)
Unreferenced == {m \in Mods : state[m] # "NONE" /\ refs[m] = 0 /\ m \notin freed}

(* The function fn is running.                                              *)
At(fn) == Top.fn = fn /\ ~undefined /\ Unreferenced = {}

Init ==
    /\ modules \in Startups
    /\ state = [m \in Mods |-> IF m \in modules THEN "IDLE" ELSE "NONE"]
    /\ refs = [m \in Mods |-> IF m \in modules THEN 2 ELSE 0]
    /\ freed = {}
    /\ handle = [m \in Mods |-> m \in modules]
    /\ bound = [m \in Mods |-> <<>>]
    /\ persist \in BOOLEAN
    /\ key = TRUE /\ ctxState = "IDLE" /\ ctxRefs = 1 + Cardinality(modules)
    /\ quit = FALSE /\ running = 0 /\ finalized = FALSE /\ curr_mod = NoMod
    /\ stack = <<Frame("user", NoMod, "main")>>
    /\ ret = "ok" /\ calls = 0 /\ undefined = FALSE

(* m_ctx(): NULL without a context, and to the hooks of a DENY_CTX module.  *)
Denied == IF curr_mod = NoMod THEN FALSE ELSE "DENY_CTX" \in Flags[curr_mod]
m_ctx == key /\ ~Denied

M_MOD_ASSERT(m) == state[m] # "ZOMBIE" /\ m_ctx

Occurrences(s, m) == Cardinality({i \in 1..Len(s) : s[i] = m})

(* What is left of the frames below when module m is reset: its sources are *)
(* freed, so events of the current batch point to freed memory; its list of *)
(* bound modules is cleared, so an iterator past the first node dangles.    *)
Dangling(s, m) ==
    [i \in 1..Len(s) |->
        [s[i] EXCEPT
            !.todo = [j \in 1..Len(s[i].todo) |->
                        IF s[i].todo[j].mod = m THEN [s[i].todo[j] EXCEPT !.src = FALSE]
                                                ELSE s[i].todo[j]],
            !.n = IF s[i].fn = "bound" /\ s[i].mod = m /\ @ > 1 THEN -1 ELSE @]]

(* ... and when a node is inserted at the head of m's list.                 *)
Shifted(s, m) ==
    [i \in 1..Len(s) |->
        [s[i] EXCEPT !.n = IF s[i].fn = "bound" /\ s[i].mod = m /\ @ > 1 THEN @ + 1 ELSE @]]

Fail(below) ==
    /\ ret' = "err" /\ stack' = below
    /\ UNCHANGED <<modVars, ctxVars, undefined>>

(* M_MEM_LOCK: a reference on m, here in the counts r, while a block runs.  *)
NotLocked(r, m) == r
Lock(r, m) == [r EXCEPT ![m] = @ + 1]
NotUnlocked(r, m) == r
Unlock(r, m) == [r EXCEPT ![m] = @ - 1]

(* What stop() makes of running_modules.                                    *)
AlwaysOneLess(m) == running - 1
NotRunningAnymore(m) == IF state[m] = "RUNNING" THEN running - 1 ELSE running

(***************************************************************************)
(* start and stop.  optional_hook and call_pubsub_cb take a reference       *)
(* (M_MEM_LOCK), set curr_mod and call the user's hook.  When the sources   *)
(* cannot be added to the poll set, or removed from it for a pause, the call *)
(* returns the error and the module's state is what it was.                 *)
(***************************************************************************)
start(m, starting, below) ==
    \/ /\ ~starting
       /\ state' = [state EXCEPT ![m] = "RUNNING"]
       /\ running' = running + 1
       /\ stack' = below /\ ret' = "ok"
       /\ UNCHANGED <<refs, freed, handle, bound, modules, persist, key, ctxState, ctxRefs,
                      quit, finalized, curr_mod, undefined>>
    \/ SrcsFail /\ Fail(below)
    \/ /\ starting
       /\ state' = [state EXCEPT ![m] = "RUNNING"]
       /\ running' = running + 1
       /\ refs' = Lock(refs, m)
       /\ curr_mod' = m
       /\ stack' = <<Frame("user", m, "start"), Frame("start", m, "call")>> \o below
       /\ UNCHANGED <<freed, handle, bound, modules, persist, key, ctxState, ctxRefs, quit,
                      finalized, ret, undefined>>

(* Stopping frees the sources and resets the module; then on_stop is called.*)
(* r is what the caller has made of the reference counts.                   *)
stop(m, stopping, r, below) ==
    \/ /\ ~stopping
       /\ running' = NotRunningAnymore(m)
       /\ state' = [state EXCEPT ![m] = "PAUSED"]
       /\ stack' = below /\ ret' = "ok"
       /\ refs' = r
       /\ UNCHANGED <<freed, handle, bound, modules, persist, key, ctxState, ctxRefs, quit,
                      finalized, curr_mod, undefined>>
    \/ ~stopping /\ SrcsFail /\ Fail(below)
    \/ /\ stopping
       /\ running' = NotRunningAnymore(m)
       /\ state' = [state EXCEPT ![m] = "STOPPED"]
       /\ bound' = [bound EXCEPT ![m] = <<>>]
       /\ refs' = [x \in Mods |-> Lock(r, m)[x] - Occurrences(bound[m], x)]
       /\ curr_mod' = m
       /\ stack' = <<Frame("user", m, "stop"), Frame("stop", m, "call")>> \o Dangling(below, m)
       /\ UNCHANGED <<freed, handle, persist, key, ctxState, ctxRefs, quit, finalized, ret, undefined>>

(* The hook returns: curr_mod is reset, the lock reference is dropped, and  *)
(* optional_hook reports a false result or that the module was deregistered.*)
HookReturns(result) ==
    /\ At("user") /\ Top.mod # NoMod
    /\ Top.at \in {"stop", "evt", "flush"} => result
    /\ curr_mod' = NoMod
    /\ refs' = Unlock(refs, Top.mod)
    /\ ret' = CASE state[Top.mod] = "ZOMBIE" -> "noent"
                [] state[Top.mod] # "ZOMBIE" /\ result -> "ok"
                [] OTHER -> "false"
    /\ stack' = Below
    /\ UNCHANGED <<state, freed, handle, bound, modules, persist, key, ctxState, ctxRefs, quit,
                   running, finalized, calls, undefined>>

(* start() after on_start: when it returned false the module is stopped and *)
(* start() still returns 0.                                                *)
StartResumes ==
    /\ At("start")
    /\ \/ /\ Top.at = "call" /\ ret = "false"
          /\ stop(Top.mod, TRUE, refs, <<Frame("start", Top.mod, "stopped")>> \o Below)
          /\ UNCHANGED modules
       \/ /\ Top.at = "call" /\ ret # "false"
          /\ stack' = Below
          /\ UNCHANGED <<modVars, ctxVars, ret, undefined>>
       \/ /\ Top.at = "stopped"
          /\ stack' = Below /\ ret' = "ok"
          /\ UNCHANGED <<modVars, ctxVars, undefined>>
    /\ UNCHANGED calls

(* stop() after on_stop: 0 unless the hook deregistered the module.         *)
StopResumes ==
    /\ At("stop")
    /\ ret' = IF ret = "noent" THEN "noent" ELSE "ok"
    /\ stack' = Below
    /\ UNCHANGED <<modVars, ctxVars, calls, undefined>>

(***************************************************************************)
(* m_mod_{start,pause,resume,stop}, cascading to the bound modules.         *)
(***************************************************************************)
ResumeStopped(op) ==
    CASE op = "start"  -> {"IDLE", "STOPPED"}
      [] op = "pause"  -> {"RUNNING"}
      [] op = "resume" -> {"PAUSED", "STOPPED"}
      [] op = "stop"   -> {"RUNNING", "PAUSED"}

(* M_MOD_ASSERT_STATE.                                                      *)
StateAllowed(op) ==
    CASE op = "start"  -> {"IDLE", "STOPPED"}
      [] op = "pause"  -> {"RUNNING"}
      [] op = "resume" -> {"PAUSED"}
      [] op = "stop"   -> {"RUNNING", "PAUSED"}

m_mod_state_op(op, m, below) ==
    LET waiting == <<Frame("bound", m, op)>> \o below
    IN  IF ~(M_MOD_ASSERT(m) /\ state[m] \in StateAllowed(op))
          THEN Fail(below)
          ELSE /\ \/ op \in {"start", "resume"} /\ start(m, op = "start", waiting)
                  \/ op \in {"pause", "stop"} /\ stop(m, op = "stop", refs, waiting)
               /\ UNCHANGED modules

(* M_MOD_BOUND: n is the position of the list iterator, 0 before it starts  *)
(* and -1 when the node it stands on was freed.                             *)
BoundResumes ==
    /\ At("bound")
    /\ LET m == Top.mod
           next == Top.n + 1
       IN  IF Top.n = 0 /\ ret # "ok"
             THEN /\ stack' = Below
                  /\ UNCHANGED <<modVars, ctxVars, ret, undefined>>
           ELSE IF m \in freed \/ Top.n = -1
             THEN /\ undefined' = TRUE
                  /\ UNCHANGED <<modVars, ctxVars, stack, ret>>
           ELSE IF next > Len(bound[m])
             THEN /\ stack' = Below /\ ret' = "ok"
                  /\ UNCHANGED <<modVars, ctxVars, undefined>>
           ELSE m_mod_state_op(Top.at, bound[m][next], <<[Top EXCEPT !.n = next]>> \o Below)
    /\ UNCHANGED calls

(* m_mod_bind(mod, ref): ref's list gets a reference to mod.                *)
m_mod_bind(m, ref, below) ==
    IF ~(M_MOD_ASSERT(m) /\ M_MOD_ASSERT(ref))
      THEN Fail(below)
      ELSE /\ bound' = [bound EXCEPT ![ref] = <<m>> \o @]
           /\ refs' = [refs EXCEPT ![m] = @ + 1]
           /\ stack' = Shifted(below, ref) /\ ret' = "ok"
           /\ UNCHANGED <<state, freed, handle, ctxVars, undefined>>

(***************************************************************************)
(* Registration and deregistration.                                        *)
(***************************************************************************)
Homonyms(m) == {x \in modules : Name[x] = Name[m]}

(* The module is locked, removed from the map, by its name, and stopped.    *)
mod_deregister(m, fromUser, below) ==
    IF \/ ~M_MOD_ASSERT(m) \/ Homonyms(m) = {}
       \/ "PERSIST" \in Flags[m] /\ ctxState = "LOOPING"
      THEN Fail(below)
      ELSE /\ modules' = modules \ Homonyms(m)
           /\ LET locked == Lock(refs, m)
                  removed == [x \in Mods |-> locked[x] - (IF x \in Homonyms(m) THEN 1 ELSE 0)]
                  waiting == Frame("dereg", m, IF fromUser THEN "user" ELSE "lib")
              IN  stop(m, TRUE, removed, <<waiting>> \o below)

(* m_ctx_deregister with no module left, or none it can reach: clearing the *)
(* key makes M_MOD_ASSERT fail for every module ctx_destroy_mods is given.  *)
m_ctx_deregister ==
    IF m_ctx /\ ctxState = "IDLE"
      THEN key' = FALSE /\ ctxRefs' = ctxRefs - 1 /\ ret' = "ok"
      ELSE ret' = "err" /\ UNCHANGED <<key, ctxRefs>>

LastPersists == ctxState = "IDLE" /\ modules = {} /\ persist
LastOne == ctxState = "IDLE" /\ modules = {} /\ ~persist

DeregResumes ==
    /\ At("dereg")
    /\ state' = [state EXCEPT ![Top.mod] = "ZOMBIE"]
    /\ LET user == Top.at = "user" /\ handle[Top.mod]
       IN  /\ refs' = [refs EXCEPT ![Top.mod] = @ - (IF user THEN 2 ELSE 1)]
           /\ handle' = [handle EXCEPT ![Top.mod] = @ /\ ~user]
    /\ IF LastOne THEN m_ctx_deregister ELSE ret' = "ok" /\ UNCHANGED <<key, ctxRefs>>
    /\ stack' = Below
    /\ UNCHANGED <<freed, bound, modules, persist, ctxState, quit, running, finalized,
                   curr_mod, calls, undefined>>

(* The new module takes a reference on the context and is IDLE.  When the   *)
(* context was freed meanwhile this uses freed memory.                      *)
register(m, below) ==
    IF ctxRefs = 0
      THEN undefined' = TRUE /\ UNCHANGED <<modVars, ctxVars, stack, ret>>
    ELSE IF Homonyms(m) # {}
      THEN Fail(below)    \* a hook registered one: m_map_put refuses the second
      ELSE /\ state' = [state EXCEPT ![m] = "IDLE"]
           /\ refs' = [refs EXCEPT ![m] = 2]
           /\ handle' = [handle EXCEPT ![m] = TRUE]
           /\ modules' = modules \cup {m}
           /\ ctxRefs' = ctxRefs + 1
           /\ stack' = below /\ ret' = "ok"
           /\ UNCHANGED <<freed, bound, persist, key, ctxState, quit, running, finalized,
                          curr_mod, undefined>>

m_mod_register(m, below) ==
    IF ~m_ctx \/ finalized THEN Fail(below)
    ELSE IF Homonyms(m) = {} THEN register(m, below)
    ELSE \E x \in Homonyms(m) :
            IF "ALLOW_REPLACE" \in Flags[x]
              THEN mod_deregister(x, FALSE, <<Frame("register", m, "call")>> \o below)
              ELSE Fail(below)

RegisterResumes ==
    /\ At("register")
    /\ IF ret = "ok"
         THEN register(Top.mod, Below)
         ELSE stack' = Below /\ UNCHANGED <<modVars, ctxVars, ret, undefined>>
    /\ UNCHANGED calls

(* module_dtor drops the references m holds on the context and on the       *)
(* modules bound to it.                                                     *)
CtxKept == ctxRefs
CtxUnref == ctxRefs - 1

module_dtor(m) ==
    /\ ~undefined /\ m \in Unreferenced
    /\ freed' = freed \cup {m}
    /\ refs' = [x \in Mods |-> refs[x] - Occurrences(bound[m], x)]
    /\ bound' = [bound EXCEPT ![m] = <<>>]
    /\ ctxRefs' = CtxUnref
    /\ UNCHANGED <<state, handle, modules, persist, key, ctxState, quit, running, finalized,
                   curr_mod, stack, ret, calls, undefined>>

(***************************************************************************)
(* m_map_iterate(c->modules, evaluate_module): entries in table order, any  *)
(* order here.  A result below 0 ends the iteration, and so does a change   *)
(* of the map's length unless it is the current entry that is gone.         *)
(***************************************************************************)
MayIterate(f) == modules \ f.seen

IterEnds(result) ==
    /\ stack' = Below /\ ret' = result
    /\ UNCHANGED <<modVars, ctxVars, calls, undefined>>

EntryDone ==
    IF Top.mod \in modules /\ Cardinality(modules) # Top.n
      THEN IterEnds("err")
      ELSE /\ stack' = <<[Top EXCEPT !.at = "next", !.mod = NoMod]>> \o Below
           /\ UNCHANGED <<modVars, ctxVars, ret, calls, undefined>>

(* evaluate_module on the next entry: on_eval is called on an idle module.  *)
EvalNext ==
    /\ At("iter") /\ Top.at = "next"
    /\ \/ MayIterate(Top) = {} /\ IterEnds("ok")
       \/ \E m \in MayIterate(Top) :
            LET visited == [Top EXCEPT !.mod = m, !.seen = @ \cup {m}, !.n = Cardinality(modules)]
            IN  IF state[m] = "IDLE"
                  THEN /\ refs' = Lock(refs, m)
                       /\ curr_mod' = m
                       /\ stack' = <<Frame("user", m, "eval"), [visited EXCEPT !.at = "evaluated"]>>
                                   \o Below
                       /\ UNCHANGED <<state, freed, handle, bound, modules, persist, key, ctxState,
                                      ctxRefs, quit, running, finalized, ret, calls, undefined>>
                  ELSE /\ stack' = <<visited>> \o Below
                       /\ UNCHANGED <<modVars, ctxVars, ret, calls, undefined>>

(* on_eval returned: the module is started, or the iteration ends.          *)
EvalResumes ==
    /\ At("iter") /\ Top.at = "evaluated"
    /\ IF ret = "ok"
         THEN /\ start(Top.mod, TRUE, <<[Top EXCEPT !.at = "started"]>> \o Below)
              /\ UNCHANGED calls
         ELSE IterEnds(ret)

(* start()'s result is ignored.                                            *)
EvalStarted ==
    /\ At("iter") /\ Top.at = "started"
    /\ EntryDone

(***************************************************************************)
(* The loop.                                                               *)
(***************************************************************************)
loop_start(below) ==
    /\ ctxState' = "LOOPING"
    /\ quit' = FALSE
    /\ stack' = <<Frame("iter", NoMod, "next")>> \o below
    /\ UNCHANGED <<modVars, modules, persist, key, ctxRefs, running, finalized, curr_mod, ret,
                   undefined>>

loop_stop(below) ==
    /\ ctxState' = "IDLE"
    /\ stack' = <<Frame("flush", NoMod, "next"), Frame("lstop", NoMod, "call")>> \o below
    /\ UNCHANGED <<modVars, modules, persist, key, ctxRefs, quit, running, finalized, curr_mod,
                   ret, undefined>>

m_ctx_loop(below) ==
    IF m_ctx /\ ctxState = "IDLE"
      THEN loop_start(<<Frame("loop", NoMod, "call")>> \o below)
      ELSE Fail(below)

Running == {m \in Mods : state[m] = "RUNNING"}

(* poll_wait returns: some sources of running modules are ready.  A module  *)
(* may have several; src is the memory of the source the event points to.   *)
Batches == UNION {[1..n -> [mod : Running, src : {TRUE}]] : n \in 1..MaxBatch}

recv_events(below) ==
    /\ \E batch \in Batches :
            stack' = <<[Frame("recv", NoMod, "call") EXCEPT !.todo = batch]>> \o below
    /\ UNCHANGED <<modVars, ctxVars, ret, undefined>>

WhileRunning == running > 0
LoopGoesOn == ~quit /\ running > 0

LoopResumes ==
    /\ At("loop")
    /\ IF LoopGoesOn
         THEN recv_events(stack)
         ELSE loop_stop(Below)
    /\ UNCHANGED calls

m_ctx_dispatch(below) ==
    IF ~m_ctx THEN Fail(below)
    ELSE IF ctxState = "IDLE" THEN loop_start(below)
    ELSE IF quit \/ running = 0 THEN loop_stop(below)
    ELSE recv_events(below)

(* Calls on_evt, with the module locked.                                    *)
call_pubsub_cb(m, at, below) ==
    /\ refs' = Lock(refs, m)
    /\ curr_mod' = m
    /\ stack' = <<Frame("user", m, at)>> \o below
    /\ UNCHANGED <<state, freed, handle, bound, modules, persist, key, ctxState, ctxRefs, quit,
                   running, finalized, ret, calls, undefined>>

(* The next event of the batch goes to on_evt.  The source it came from may *)
(* be gone by now.                                                          *)
RecvEvent ==
    /\ At("recv") /\ Top.todo # <<>>
    /\ LET e == Head(Top.todo)
       IN  \/ /\ ~e.src
              /\ undefined' = TRUE
              /\ UNCHANGED <<modVars, ctxVars, stack, ret, calls>>
           \/ e.src /\ call_pubsub_cb(e.mod, "evt", <<[Top EXCEPT !.todo = Tail(@)]>> \o Below)

(* poll_wait or the processing of an event sets errno: the rest of the       *)
(* batch is dropped, no idle module is evaluated and, unless it was EINTR or *)
(* EAGAIN, the loop is told to quit.                                         *)
RecvFails(real) ==
    /\ At("recv") /\ Top.todo # <<>>
    /\ Head(Top.todo).src
    /\ quit' = (quit \/ real)
    /\ stack' = Below
    /\ UNCHANGED <<modVars, modules, persist, key, ctxState, ctxRefs, running, finalized,
                   curr_mod, ret, calls, undefined>>

(* The batch is done: idle modules are evaluated again.                     *)
RecvDone ==
    /\ At("recv") /\ Top.todo = <<>>
    /\ stack' = <<Frame("iter", NoMod, "next")>> \o Below
    /\ UNCHANGED <<modVars, ctxVars, ret, calls, undefined>>

FlushPaused(m) == state[m] \in {"RUNNING", "PAUSED"}
Flushed(m) == state[m] = "RUNNING"

(* loop_stop's flush: on_evt of a running module is called if messages are  *)
(* waiting in its pipe.                                                     *)
FlushNext ==
    /\ At("flush") /\ Top.at = "next"
    /\ \/ MayIterate(Top) = {} /\ IterEnds("ok")
       \/ \E m \in MayIterate(Top) :
            LET visited == [Top EXCEPT !.mod = m, !.seen = @ \cup {m}, !.n = Cardinality(modules)]
            IN  \/ /\ stack' = <<visited>> \o Below
                   /\ UNCHANGED <<modVars, ctxVars, ret, calls, undefined>>
                \/ /\ Flushed(m)
                   /\ call_pubsub_cb(m, "flush", <<[visited EXCEPT !.at = "called"]>> \o Below)

FlushCalled ==
    /\ At("flush") /\ Top.at = "called"
    /\ EntryDone

(* The end of loop_stop: a context without modules is deregistered.         *)
LoopStopResumes ==
    /\ At("lstop")
    /\ IF ctxRefs = 0
         THEN undefined' = TRUE /\ UNCHANGED <<key, ctxRefs, stack, ret>>
         ELSE /\ IF LastOne THEN m_ctx_deregister ELSE ret' = "ok" /\ UNCHANGED <<key, ctxRefs>>
              /\ stack' = Below
              /\ UNCHANGED undefined
    /\ UNCHANGED <<modVars, modules, persist, ctxState, quit, running, finalized, curr_mod, calls>>

(***************************************************************************)
(* The user's code: the main program and the hooks.                        *)
(***************************************************************************)
OnStack(fn, m) == \E i \in 1..Len(stack) : stack[i].fn = fn /\ stack[i].mod = m

BeingEvaluated(m) ==
    \E i \in 1..Len(stack) : stack[i].fn = "iter" /\ stack[i].at = "evaluated" /\ stack[i].mod = m

InBatch(m) ==
    \E i \in 1..Len(stack) : \E j \in 1..Len(stack[i].todo) : stack[i].todo[j].mod = m

Flushing == \E i \in 1..Len(stack) : stack[i].fn = "flush"

(* m and the modules its state changes cascade to.                          *)
Affected(m) ==
    {x \in Mods : \A S \in SUBSET Mods :
        (m \in S /\ \A y \in S : Range(bound[y]) \subseteq S) => x \in S}

(* What a client must not do, by operation and module; nor may it bind a    *)
(* module to itself, or bind at all from inside a cascade (see UserBind).   *)
(* A hook does not run the loop: the context has one array of polled events *)
(* (ppriv), and a module whose on_eval does is started twice.               *)
ClientRules(op, m) ==
    /\ op = "start" => \A x \in Affected(m) : ~OnStack("dereg", x) /\ ~BeingEvaluated(x)
    /\ op \in {"stop", "deregister"} => ~InBatch(m)
    /\ op \in {"stop", "deregister"} => ~OnStack("bound", m)
    /\ op = "deregister" => (persist \/ ~Flushing) /\ ~OnStack("dereg", m)
    /\ op = "register" => \A x \in Homonyms(m) :
                                 /\ ~InBatch(x) /\ ~OnStack("bound", x)
                                 /\ persist \/ (ctxState = "LOOPING") \/ modules # {x}
    /\ op = "ctx_deregister" => modules = {} /\ ~Flushing
    /\ op \in {"loop", "dispatch"} => Top.mod = NoMod

UserMay(op, m) ==
    /\ At("user") /\ op \in Ops[Top.at]
    /\ calls < MaxCalls /\ Len(stack) <= MaxStack
    /\ Careful => ClientRules(op, m)
    /\ calls' = calls + 1

UserStateOp(op, m) == UserMay(op, m) /\ handle[m] /\ m_mod_state_op(op, m, stack)
UserDeregister(m) == UserMay("deregister", m) /\ handle[m] /\ mod_deregister(m, TRUE, stack)
UserRegister(m) == UserMay("register", m) /\ state[m] = "NONE" /\ ~OnStack("register", m) /\ m_mod_register(m, stack)
UserBind(m, ref) ==
    /\ UserMay("bind", m) /\ handle[m] /\ handle[ref]
    /\ Careful => m # ref /\ \A x \in Mods : ~OnStack("bound", x)
    /\ m_mod_bind(m, ref, stack)
UserLoop == UserMay("loop", NoMod) /\ m_ctx_loop(stack)
UserDispatch == UserMay("dispatch", NoMod) /\ m_ctx_dispatch(stack)

UserQuit ==
    /\ UserMay("quit", NoMod)
    /\ IF m_ctx /\ ctxState = "LOOPING"
         THEN /\ quit' = TRUE /\ ret' = "ok"
              /\ UNCHANGED <<modVars, modules, persist, key, ctxState, ctxRefs, running, finalized,
                             curr_mod, stack, undefined>>
         ELSE Fail(stack)

UserFinalize ==
    /\ UserMay("finalize", NoMod) /\ m_ctx
    /\ finalized' = TRUE /\ ret' = "ok"
    /\ UNCHANGED <<modVars, modules, persist, key, ctxState, ctxRefs, quit, running, curr_mod,
                   stack, undefined>>

UserCtxDeregister ==
    /\ UserMay("ctx_deregister", NoMod)
    /\ m_ctx_deregister
    /\ UNCHANGED <<modVars, modules, persist, ctxState, quit, running, finalized, curr_mod, stack,
                   undefined>>

-----------------------------------------------------------------------------
(* Steps of the library and returns of hooks.                               *)
LibraryStep ==
    \/ \E result \in BOOLEAN : HookReturns(result)
    \/ StartResumes \/ StopResumes \/ BoundResumes \/ DeregResumes \/ RegisterResumes
    \/ EvalNext \/ EvalResumes \/ EvalStarted
    \/ LoopResumes \/ RecvEvent \/ RecvDone
    \/ \E real \in BOOLEAN : RecvFails(real)
    \/ FlushNext \/ FlushCalled \/ LoopStopResumes

UserStep ==
    \/ \E m \in Mods :
        \/ UserDeregister(m) \/ UserRegister(m)
        \/ \E op \in StateOp : UserStateOp(op, m)
        \/ \E r \in Mods : UserBind(m, r)
    \/ UserLoop \/ UserDispatch \/ UserQuit \/ UserFinalize \/ UserCtxDeregister

(* The main program has nothing more to call.                               *)
Finished == At("user") /\ Top.mod = NoMod /\ UNCHANGED vars

Next ==
    \/ \E m \in Mods : module_dtor(m)
    \/ LibraryStep \/ UserStep \/ Finished

Spec == Init /\ [][Next]_vars

(* The thread keeps running and hooks return.                               *)
FairSpec == Spec /\ WF_vars(\E m \in Mods : module_dtor(m)) /\ WF_vars(LibraryStep)

-----------------------------------------------------------------------------
(***************************************************************************)
(* Properties.                                                             *)
(***************************************************************************)
Born == {m \in Mods : state[m] # "NONE"}
Frames(fn, m) == Cardinality({i \in 1..Len(stack) : stack[i].fn = fn /\ stack[i].mod = m})

(* Every field has a value the code gives it; the unsigned counters never    *)
(* go below 0.                                                              *)
TypeOK ==
    /\ state \in [Mods -> {"NONE", "IDLE", "RUNNING", "PAUSED", "STOPPED", "ZOMBIE"}]
    /\ refs \in [Mods -> Nat] /\ freed \subseteq Mods
    /\ handle \in [Mods -> BOOLEAN] /\ bound \in [Mods -> Seq(Mods)]
    /\ modules \subseteq Mods /\ persist \in BOOLEAN /\ key \in BOOLEAN
    /\ ctxState \in {"IDLE", "LOOPING"} /\ ctxRefs \in Nat
    /\ quit \in BOOLEAN /\ running \in Nat /\ finalized \in BOOLEAN
    /\ curr_mod \in Mods \cup {NoMod}
    /\ ret \in {"ok", "false", "noent", "err"}
    /\ calls \in 0..MaxCalls /\ undefined \in BOOLEAN

(* c->stats.running_modules, on which the loop's end depends, is at every     *)
(* moment the number of modules in state RUNNING, also in the middle of       *)
(* hooks that start, stop and deregister modules.                             *)
RunningModules == running = Cardinality(Running)

(* "MEM-REFS for mod" (mod.h): a module has one reference for being           *)
(* registered, one for the user's handle, one for each hook or deregistration *)
(* of it in progress and one for each module it is bound to; it is destroyed  *)
(* exactly when none is left.                                                 *)
ModRefs ==
    \A m \in Born \ freed :
        refs[m] = (IF m \in modules THEN 1 ELSE 0) + (IF handle[m] THEN 1 ELSE 0)
                  + Frames("user", m) + Frames("dereg", m)
                  + Cardinality(UNION {{<<r, i>> : i \in {j \in 1..Len(bound[r]) : bound[r][j] = m}}
                                          : r \in Mods})

(* "MEM-REFS for ctx" (ctx.h): the context has one reference for being        *)
(* registered and one for each module, so it outlives all of them.            *)
CtxRefs == ctxRefs = (IF key THEN 1 ELSE 0) + Cardinality(Born \ freed)

(* The locks of optional_hook, call_pubsub_cb and mod_deregister suffice: no  *)
(* function uses a module, a source, a list node or the context after it was  *)
(* freed, whatever the hooks it waited for did.                               *)
NoUseAfterFree ==
    /\ ~undefined
    /\ \A i \in 1..Len(stack) :
        /\ stack[i].fn \in {"user", "dereg"} => stack[i].mod \notin freed
        /\ stack[i].fn \in {"loop", "recv", "iter", "flush", "lstop"} => ctxRefs > 0

(* recv_events does not look at the state of the module an event is for.     *)
(* Still, on_evt is called from the loop only on a module that was started and *)
(* not stopped since: one that runs, or one that was paused after poll_wait    *)
(* returned its event.  No idle, stopped or deregistered module gets an event, *)
(* and the flush at the end of the loop leaves paused modules alone.          *)
EventsOnlyWhenStarted ==
    [][Len(stack') > Len(stack) /\ stack'[1].fn = "user" =>
        /\ stack'[1].at = "evt" => state[stack'[1].mod] \in {"RUNNING", "PAUSED"}
        /\ stack'[1].at = "flush" => state[stack'[1].mod] = "RUNNING"]_vars

(* A deregistered module never comes back and never runs again; a module      *)
(* never returns to IDLE; only a running one is paused; and a module that was  *)
(* not paused runs only by being started, with a call of on_start: it cannot  *)
(* be resumed.                                                                *)
LegalTransitions ==
    [][\A m \in Mods : state'[m] # state[m] =>
        /\ state[m] # "ZOMBIE"
        /\ state'[m] = "IDLE" => state[m] = "NONE"
        /\ state'[m] = "PAUSED" => state[m] = "RUNNING"
        /\ state'[m] = "RUNNING" => state[m] = "PAUSED" \/ stack'[1] = Frame("user", m, "start")]_vars

(* A context that is not persistent goes away with its last module: when the  *)
(* main program is in control, the context is idle and modules were           *)
(* registered, either one is left or the context is deregistered.             *)
CtxGoesWithLastModule ==
    Len(stack) = 1 /\ ctxState = "IDLE" /\ ~persist /\ Born # {} /\ modules = {} => ~key

(* m_ctx_loop returns once m_ctx_quit is called or no module is running.      *)
LoopEnds ==
    (\E i \in 1..Len(stack) : stack[i].fn = "loop") /\ (quit \/ running = 0)
        ~> (ctxState = "IDLE" \/ (running > 0 /\ ~quit))

(* docs/core/ctx.md says of m_ctx_deregister that "all of the modules in the   *)
(* context will be deregistered when their context gets deregistered".         *)
CtxTakesModules == ~key /\ Len(stack) = 1 => modules = {}
=============================================================================
