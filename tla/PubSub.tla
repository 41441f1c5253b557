------------------------------- MODULE PubSub -------------------------------
(***************************************************************************)
(* Messages between the modules of a context: Lib/core/ps.c, the events of  *)
(* Lib/core/evts.c and the part of Lib/core/ctx.c that hands them over.     *)
(*                                                                         *)
(* A message is copied for each recipient and its address is written to the *)
(* recipient's pipe.  The loop reads one address at a time, makes an event  *)
(* of it and batches the events of a module until a priority, the batch     *)
(* size or the batch timer makes it call the module's on_evt with all of    *)
(* them.  A callback may call the library again: the callbacks in progress  *)
(* form a stack.  The loop takes the events that one poll_wait reported in a  *)
(* round; between two callbacks one step is one function.                   *)
(***************************************************************************)
EXTENDS Integers, FiniteSets, Sequences, SequencesExt

CONSTANTS
    Mods, NoMod,
    Topics,     \* what is published; "sys" stands for the LIBMODULE_ topics
    Patterns,   \* what is subscribed: topics and regular expressions
    Match,      \* the pairs <<pattern, topic>> that match
    NoTopic, NoSub,
    Subscribed, \* the subscriptions each module starts with, [Mods -> SUBSET Sub]
    Ops,        \* the calls the user's code makes on each module, and on none of them
    Offers,     \* the subscriptions m_mod_ps_subscribe is called for
    Sizes,      \* arguments of m_mod_set_batch_size and m_mod_unstash
    Careful,    \* the user's code respects ClientRules
    PipeSize,   \* the addresses a pipe holds
    MaxSends,   \* bound on the messages sent, system messages included
    MaxCalls    \* bound on the other calls of the user's code

Prio == {"LOW", "NORM", "HIGH"}

(* A subscription object (ev_src_t); gen tells apart successive ones on the  *)
(* same pattern.                                                            *)
Sub == [pat : Patterns, prio : Prio, oneshot : BOOLEAN, gen : 0..MaxCalls]

EventKind == {"pipe", "timer", "closed", "freed"}

OpName == {"tell", "publish", "broadcast", "poisonpill", "subscribe", "unsubscribe", "stash",
           "unstash", "batch", "timeout", "start", "stop", "pause", "resume", "quit", "loop",
           "tick"}

(* A pattern that system messages match.                                     *)
OnSystem(pat) == pat = "sys" \/ <<pat, "sys">> \in Match

(* The subscriptions of a module are a map from their patterns.              *)
ASSUME PubSubAssumption ==
    /\ NoMod \notin Mods /\ IsFiniteSet(Mods)
    /\ "sys" \in Topics /\ NoTopic \notin Topics
    /\ Match \subseteq Patterns \X Topics
    /\ NoSub \notin Sub
    /\ Subscribed \in [Mods -> SUBSET Sub]
    /\ \A m \in Mods : \A s, t \in Subscribed[m] : s.pat = t.pat => s = t
    /\ Careful => \A m \in Mods : \A s \in Subscribed[m] : s.oneshot => ~OnSystem(s.pat)
    /\ Ops \in [Mods \cup {NoMod} -> SUBSET OpName]
    /\ Offers \subseteq Patterns \X Prio \X BOOLEAN
    /\ Sizes \subseteq Nat /\ Careful \in BOOLEAN
    /\ PipeSize \in Nat \ {0} /\ MaxSends \in Nat /\ MaxCalls \in Nat

VARIABLES
    mstate,     \* mod->state
    pipe,       \* the copies whose addresses are in mod's pipe
    subs,       \* mod->subscriptions
    batch,      \* mod->batch.events
    batchLen,   \* mod->batch.len; Unlimited is SIZE_MAX
    timer,      \* the batch timer is registered
    stashed,    \* mod->stashed
    callbacks,  \* callbacks in progress, innermost first
    phase,      \* "loop", "quitting" (ctx->quit), "flush" (in loop_stop) or "idle"
    toFlush,    \* modules loop_stop has still to flush
    ready,      \* what poll_wait reported and the round has still to take
    errno,      \* what the next event taken finds in it
    sent,       \* messages sent so far
    calls,      \* other calls so far
    told,       \* history: the messages written to each pipe
    handed,     \* history: the messages the loop gave to on_evt, in order
    flushed,    \* history: the messages loop_stop gave to on_evt
    dropped,    \* history: the messages freed because the module was not there
    refused,    \* history: the messages read and freed because errno was set
    pilled,     \* history: running modules m_mod_ps_poisonpill was called on
    undefined   \* freed or invalid memory was used

modVars == <<mstate, subs, batchLen, timer, stashed>>
loopVars == <<callbacks, phase, toFlush, ready, errno>>
histVars == <<told, handed, flushed, dropped, refused, pilled>>
vars == <<modVars, pipe, batch, loopVars, sent, calls, histVars, undefined>>

(* More messages than there can be: each loop and each call of the user's    *)
(* code sends at most one system message.                                   *)
Unlimited == MaxSends + 2 * MaxCalls + 2

Init ==
    /\ mstate = [m \in Mods |-> "RUNNING"]
    /\ pipe = [m \in Mods |-> <<>>] /\ batch = [m \in Mods |-> <<>>]
    /\ subs = Subscribed
    /\ batchLen = [m \in Mods |-> 0] /\ timer = [m \in Mods |-> FALSE]
    /\ stashed = [m \in Mods |-> <<>>]
    /\ callbacks = <<>> /\ phase = "loop" /\ toFlush = {}
    /\ ready = {} /\ errno = "none"
    /\ sent = 0 /\ calls = 0
    /\ told = [m \in Mods |-> {}] /\ handed = [m \in Mods |-> <<>>]
    /\ flushed = [m \in Mods |-> {}] /\ dropped = [m \in Mods |-> {}]
    /\ refused = [m \in Mods |-> {}]
    /\ pilled = {} /\ undefined = FALSE

Ids(s) == {s[i].id : i \in 1..Len(s)}

(***************************************************************************)
(* Sending.                                                                *)
(***************************************************************************)
(* A subscription whose pattern is the topic, else any that matches it.     *)
fetch_sub(m, topic) ==
    LET exact == {s \in subs[m] : s.pat = topic}
        regex == {s \in subs[m] : <<s.pat, topic>> \in Match}
    IN  IF exact # {} THEN exact ELSE IF regex # {} THEN regex ELSE {NoSub}

(* Only running and paused modules are told, of a topic only when a          *)
(* subscription is given.                                                   *)
tell_if(state, m, topic, sub) ==
    /\ state[m] \in {"RUNNING", "PAUSED"}
    /\ topic = NoTopic \/ sub # NoSub

(* A message goes to those of the modules `to` that tell_if admits, given    *)
(* their states and pipes; subOf gives each one's subscription.  A failed    *)
(* write drops a reference on the message, which is not reference counted.  *)
TellPubsubMsg(state, pipes, topic, subOf, to) ==
    LET admitted == {m \in to : tell_if(state, m, topic, subOf[m])}
        full     == {m \in admitted : Len(pipes[m]) >= PipeSize}
        written  == admitted \ full
        Copy(m)  == [id |-> sent + 1, sub |-> subOf[m]]
    IN  /\ sent' = IF written = {} THEN sent ELSE sent + 1
        /\ pipe' = [m \in Mods |-> IF m \in written THEN Append(pipes[m], Copy(m)) ELSE pipes[m]]
        /\ told' = [m \in Mods |-> IF m \in written THEN told[m] \cup {sent + 1} ELSE told[m]]
        /\ undefined' = (undefined \/ full # {})

Attached == UNION {subs[m] : m \in Mods} \cup {NoSub}

(* A message on a topic, given the modules' states and pipes.               *)
Publish(state, pipes, topic) ==
    \E subOf \in [Mods -> Attached] :
        /\ \A m \in Mods : subOf[m] \in fetch_sub(m, topic)
        /\ TellPubsubMsg(state, pipes, topic, subOf, Mods)

(***************************************************************************)
(* ClientRules.  What the code that uses the library must respect for the   *)
(* invariants to hold; nothing in the library enforces them.                *)
(***************************************************************************)
Unread(m, sub) == \E i \in 1..Len(pipe[m]) : pipe[m][i].sub = sub

(* Pipes are never filled; the message of loop_stop needs a place too.      *)
PipesHaveRoom == Careful => \A m \in Mods : Len(pipe[m]) + 1 < PipeSize

(* A one-shot subscription is not told again before it is read, and so none   *)
(* is made on system messages.                                               *)
OneshotsAreRead(topic) ==
    Careful => \A m \in Mods : \A s \in fetch_sub(m, topic) :
                  s # NoSub => ~(s.oneshot /\ Unread(m, s))

(* A subscription is neither removed nor replaced while a message for it is  *)
(* unread.                                                                  *)
SubsAreRead(m, pat) == Careful => \A s \in subs[m] : s.pat = pat => ~Unread(m, s)

(* No running module has unread direct messages when the loop stops: none is   *)
(* sent when it may, and an error that stops it is left in errno only when    *)
(* they are read.                                                           *)
Running == {m \in Mods : mstate[m] = "RUNNING"}
MayStop == phase \in {"quitting", "flush"} \/ \E m \in Mods : <<m, "closed">> \in ready
NotStopping == Careful => ~MayStop
DirectAreRead(running) == Careful => \A m \in running : ~Unread(m, NoSub)

(* The source of an event that the round has still to take is not freed.     *)
EventsAreTaken(m, kinds) == Careful => \A kind \in kinds : <<m, kind>> \notin ready

(***************************************************************************)
(* Calls of the user's code: from a callback, or from the main program       *)
(* before, after and between dispatches.                                    *)
(***************************************************************************)
UserRuns == ~undefined /\ (phase = "flush" \/ ready # {} => callbacks # <<>>)
UserSends(op, m) == op \in Ops[m] /\ UserRuns /\ sent < MaxSends /\ PipesHaveRoom
UserCalls(op, m) == op \in Ops[m] /\ UserRuns /\ calls < MaxCalls /\ calls' = calls + 1

m_mod_ps_tell(r) ==
    /\ UserSends("tell", r) /\ NotStopping
    /\ TellPubsubMsg(mstate, pipe, NoTopic, [m \in Mods |-> NoSub], {r})
    /\ UNCHANGED <<modVars, batch, loopVars, calls, handed, flushed, dropped, refused, pilled>>

(* Without a topic a message is broadcast.                                  *)
m_mod_ps_publish(topic) ==
    /\ \/ /\ topic = NoTopic /\ UserSends("broadcast", NoMod) /\ NotStopping
          /\ TellPubsubMsg(mstate, pipe, NoTopic, [m \in Mods |-> NoSub], Mods)
       \/ /\ topic \notin {NoTopic, "sys"} /\ UserSends("publish", NoMod) /\ OneshotsAreRead(topic)
          /\ Publish(mstate, pipe, topic)
    /\ UNCHANGED <<modVars, batch, loopVars, calls, handed, flushed, dropped, refused, pilled>>

(* The pill is a system message told directly: it has a topic and, told      *)
(* directly, no subscription.                                               *)
m_mod_ps_poisonpill(r) ==
    /\ UserCalls("poisonpill", r) /\ PipesHaveRoom /\ mstate[r] = "RUNNING"
    /\ pilled' = pilled \cup {r}
    /\ TellPubsubMsg(mstate, pipe, "sys", [m \in Mods |-> NoSub], {r})
    /\ UNCHANGED <<modVars, batch, loopVars, handed, flushed, dropped, refused>>

(* The same flags on the same pattern only change the user pointer; else a   *)
(* new object takes the place of the old one.                               *)
m_mod_ps_subscribe(m, pat, prio, oneshot) ==
    LET old == {s \in subs[m] : s.pat = pat}
        new == [pat |-> pat, prio |-> prio, oneshot |-> oneshot, gen |-> calls + 1]
    IN  /\ UserCalls("subscribe", m) /\ SubsAreRead(m, pat)
        /\ Careful => ~(oneshot /\ OnSystem(pat))
        /\ subs' = IF \E s \in old : s.prio = prio /\ s.oneshot = oneshot
                   THEN subs
                   ELSE [subs EXCEPT ![m] = (@ \ old) \cup {new}]
        /\ UNCHANGED <<mstate, batchLen, timer, stashed, pipe, batch, loopVars, sent, histVars,
                       undefined>>

m_mod_ps_unsubscribe(m, pat) ==
    /\ UserCalls("unsubscribe", m) /\ SubsAreRead(m, pat)
    /\ \E s \in subs[m] : s.pat = pat /\ subs' = [subs EXCEPT ![m] = @ \ {s}]
    /\ UNCHANGED <<mstate, batchLen, timer, stashed, pipe, batch, loopVars, sent, histVars,
                   undefined>>

m_mod_set_batch_size(m, len) ==
    /\ UserCalls("batch", m)
    /\ batchLen' = [batchLen EXCEPT ![m] = len]
    /\ UNCHANGED <<mstate, subs, timer, stashed, pipe, batch, loopVars, sent, histVars, undefined>>

(* What becomes of the events of m in this round: its timer's descriptor is    *)
(* closed when m is paused, and sources are freed.                           *)
Becomes(m, kinds, fate) ==
    ready' = {e \in ready : e[1] # m \/ e[2] \notin kinds}
             \cup {<<m, fate>> : e \in {d \in ready : d[1] = m /\ d[2] \in kinds}}

(* Timed batching without a size is unlimited, and stays so when the timer   *)
(* is removed.  The batch timer is the only timer of the module; the one       *)
(* that was set is removed first.                                           *)
m_mod_set_batch_timeout(m, on) ==
    /\ UserCalls("timeout", m) /\ EventsAreTaken(m, {"timer", "closed"})
    /\ Becomes(m, {"timer", "closed"}, "freed")
    /\ timer' = [timer EXCEPT ![m] = on]
    /\ batchLen' = IF on /\ batchLen[m] = 0 THEN [batchLen EXCEPT ![m] = Unlimited] ELSE batchLen
    /\ UNCHANGED <<mstate, subs, stashed, pipe, batch, callbacks, phase, toFlush, errno, sent,
                   histVars, undefined>>

(***************************************************************************)
(* Events handed to a module.                                              *)
(***************************************************************************)
(* on_evt is called with no event too.                                      *)
CallAnyway(m, evts, why) ==
    callbacks' = <<[mod |-> m, evts |-> evts, why |-> why]>> \o callbacks

(* call_pubsub_cb: the user's on_evt runs on top of what was running, unless *)
(* there is nothing to hand over.                                           *)
call_pubsub_cb(m, evts, why) ==
    callbacks' = IF evts = <<>> THEN callbacks
                 ELSE <<[mod |-> m, evts |-> evts, why |-> why]>> \o callbacks

(* A callback returns and its events are destroyed, unless they are stashed.  *)
(* What it left in errno is there when the loop takes its next event.        *)
CallbackReturns ==
    /\ callbacks # <<>> /\ ~undefined
    /\ callbacks' = Tail(callbacks)
    /\ errno' \in IF Len(callbacks) = 1 /\ ready # {} THEN {"none", "again", "error"} ELSE {"none"}
    /\ errno' = "error" => DirectAreRead(Running)
    /\ UNCHANGED <<modVars, pipe, batch, phase, toFlush, ready, sent, calls, histVars, undefined>>

Prio_(evt) == IF evt.sub = NoSub THEN "NORM" ELSE evt.sub.prio

(* Any event may be stashed.                                                *)
RefusesNone(evt) == FALSE

(* A callback stashes one of the events it was given.                       *)
StashRefuses(evt) == Prio_(evt) = "HIGH"
m_mod_stash(evt) ==
    /\ callbacks # <<>> /\ UserCalls("stash", callbacks[1].mod)
    /\ evt \in Range(callbacks[1].evts) /\ ~StashRefuses(evt)
    /\ mstate[callbacks[1].mod] = "RUNNING"
    /\ stashed' = [stashed EXCEPT ![callbacks[1].mod] = Append(@, evt)]
    /\ UNCHANGED <<mstate, subs, batchLen, timer, pipe, batch, loopVars, sent, histVars, undefined>>

(* The loop over the stash ends before its len-th event.                    *)
m_mod_unstash(m, len) ==
    /\ UserCalls("unstash", m) /\ mstate[m] = "RUNNING" /\ len > 0
    /\ LET n == IF len - 1 < Len(stashed[m]) THEN len - 1 ELSE Len(stashed[m])
       IN  /\ stashed' = [stashed EXCEPT ![m] = SubSeq(@, n + 1, Len(@))]
           /\ call_pubsub_cb(m, SubSeq(stashed[m], 1, n), "unstash")
    /\ UNCHANGED <<mstate, subs, batchLen, timer, pipe, batch, phase, toFlush, ready, errno, sent,
                   histVars, undefined>>

(***************************************************************************)
(* The loop.                                                               *)
(***************************************************************************)
Polling == phase \in {"loop", "quitting"} /\ callbacks = <<>> /\ ~undefined

(* Pipes with messages and elapsed timers, of the modules that are polled.    *)
Reported == {<<m, "pipe">> : m \in {r \in Running : pipe[r] # <<>>}}
            \cup {<<m, "timer">> : m \in {r \in Running : timer[r]}}

(* A round: any of them are reported.                                        *)
PollWait ==
    /\ Polling /\ phase = "loop" /\ ready = {}
    /\ ready' \in SUBSET Reported \ {{}}
    /\ errno' = "none"
    /\ UNCHANGED <<modVars, pipe, batch, callbacks, phase, toFlush, sent, calls, histVars,
                   undefined>>

(* The round takes an event, whatever state its module is in by now.          *)
Takes(m, kind) == Polling /\ <<m, kind>> \in ready

(* An error found in errno ends the round, and a real one the loop; what was   *)
(* not taken is reported again.                                             *)
EndRound(err) ==
    /\ ready' = {} /\ errno' = "none"
    /\ phase' = IF err = "error" THEN "quitting" ELSE phase

(* A subscription is kept by the module and by the events made from it.     *)
SubAlive(m, sub) ==
    \/ sub \in subs[m] \cup {NoSub}
    \/ \E evt \in Range(batch[m]) \cup Range(stashed[m])
                     \cup UNION {Range(callbacks[i].evts) : i \in 1..Len(callbacks)} :
          evt.sub = sub

(* push_evt: whether the events, the last of which has just been added, are   *)
(* handed over now.                                                         *)
HandsOver(m, evts) ==
    CASE Prio_(Last(evts)) = "HIGH" -> TRUE
      [] Prio_(Last(evts)) = "LOW"  -> FALSE
      [] OTHER                      -> Len(evts) >= batchLen[m]

(* The queue of batched events is not replaced.                             *)
HandKeeping(m, evts, why) ==
    /\ call_pubsub_cb(m, evts, why)
    /\ handed' = [handed EXCEPT ![m] = @ \o [i \in 1..Len(evts) |-> evts[i].id]]
    /\ UNCHANGED batch

(* The events are handed over and a new queue takes their place.            *)
HandBatch(m, evts, why) ==
    /\ batch' = [batch EXCEPT ![m] = <<>>]
    /\ call_pubsub_cb(m, evts, why)
    /\ handed' = [handed EXCEPT ![m] = @ \o [i \in 1..Len(evts) |-> evts[i].id]]

(* An event is pushed before the batched ones.                              *)
PushFirst(m, evt) ==
    LET evts == <<evt>> \o batch[m]
    IN  IF Prio_(evt) # "LOW" /\ Len(evts) >= batchLen[m]
        THEN HandBatch(m, evts, "recv")
        ELSE batch' = [batch EXCEPT ![m] = evts] /\ UNCHANGED <<callbacks, handed>>

push_evt(m, evt) ==
    LET evts == Append(batch[m], evt)
    IN  IF HandsOver(m, evts)
        THEN HandBatch(m, evts, "recv")
        ELSE batch' = [batch EXCEPT ![m] = evts] /\ UNCHANGED <<callbacks, handed>>

(* recv_events on a pipe: process_ps takes one message.  Reading the          *)
(* message's subscription once it is freed is undefined.  A one-shot         *)
(* subscription is removed by its pattern.                                  *)
Recv(m) ==
    LET evt == Head(pipe[m])
    IN  /\ Takes(m, "pipe") /\ errno = "none" /\ pipe[m] # <<>>
        /\ ready' = ready \ {<<m, "pipe">>}
        /\ pipe' = [pipe EXCEPT ![m] = Tail(@)]
        /\ undefined' = (undefined \/ ~SubAlive(m, evt.sub))
        /\ subs' = IF evt.sub # NoSub /\ evt.sub.oneshot
                   THEN [subs EXCEPT ![m] = {s \in @ : s.pat # evt.sub.pat}]
                   ELSE subs
        /\ push_evt(m, evt)
        /\ UNCHANGED <<mstate, batchLen, timer, stashed, phase, toFlush, errno, sent, calls, told,
                       flushed, dropped, refused, pilled>>

(* recv_events on a pipe when errno is set: the message has been read and is   *)
(* freed.                                                                   *)
Refuse(m) ==
    /\ Takes(m, "pipe") /\ errno # "none" /\ pipe[m] # <<>>
    /\ pipe' = [pipe EXCEPT ![m] = Tail(@)]
    /\ refused' = [refused EXCEPT ![m] = @ \cup {Head(pipe[m]).id}]
    /\ undefined' = (undefined \/ ~SubAlive(m, Head(pipe[m]).sub))
    /\ EndRound(errno)
    /\ UNCHANGED <<modVars, batch, callbacks, toFlush, sent, calls, told, handed, flushed, dropped,
                   pilled>>

(* What errno is after reading the batch timer: its closed descriptor is       *)
(* invalid, and one that was opened again may not have elapsed.              *)
TimerErrno(m, kind) ==
    CASE kind = "closed" /\ mstate[m] = "PAUSED"  -> {"error"}
      [] kind = "closed" /\ mstate[m] = "RUNNING" -> {"again", errno}
      [] OTHER                                    -> {errno}

TimerKind == {"timer", "closed", "freed"}

(* The elapsed timer does not force anything.                               *)
TimerAtSize(m, kind) ==
    /\ Takes(m, kind) /\ errno = "none" /\ Len(batch[m]) >= batchLen[m]
    /\ ready' = ready \ {<<m, kind>>}
    /\ HandBatch(m, batch[m], "timer")
    /\ UNCHANGED <<modVars, pipe, phase, toFlush, errno, sent, calls, told, flushed, dropped,
                   refused, pilled, undefined>>

(* recv_events on the batch timer, which hands over what is batched; on any    *)
(* source that was freed, it is undefined.                                  *)
BatchTimer(m, kind) ==
    /\ Takes(m, kind)
    /\ \E err \in TimerErrno(m, kind) :
          \/ /\ err = "none"
             /\ ready' = ready \ {<<m, kind>>}
             /\ HandBatch(m, batch[m], "timer")
             /\ UNCHANGED <<errno, phase>>
          \/ /\ err # "none"
             /\ EndRound(err)
             /\ UNCHANGED <<batch, callbacks, handed>>
    /\ undefined' = (undefined \/ kind = "freed")
    /\ UNCHANGED <<modVars, pipe, toFlush, sent, calls, told, flushed, dropped, refused, pilled>>

(* The tick of the context, if one is set, is a system message; errno is not   *)
(* looked at.                                                               *)
process_tick ==
    /\ Polling /\ (phase = "loop" \/ ready # {})
    /\ "tick" \in Ops[NoMod] /\ sent < MaxSends /\ PipesHaveRoom
    /\ Publish(mstate, pipe, "sys")
    /\ UNCHANGED <<modVars, batch, loopVars, calls, handed, flushed, dropped, refused, pilled>>

m_ctx_quit ==
    /\ phase = "loop" /\ UserCalls("quit", NoMod)
    /\ DirectAreRead(Running)
    /\ phase' = "quitting"
    /\ UNCHANGED <<modVars, pipe, batch, callbacks, toFlush, ready, errno, sent, histVars,
                   undefined>>

(* loop_stop sends its message, then flushes each module.                   *)
loop_stop ==
    /\ Polling /\ ready = {}
    /\ phase = "quitting" \/ Running = {}
    /\ phase' = "flush" /\ toFlush' = Mods
    /\ Publish(mstate, pipe, "sys")
    /\ UNCHANGED <<modVars, batch, callbacks, ready, errno, calls, handed, flushed, dropped,
                   refused, pilled>>

(* A running module is given its unread messages in one callback, whatever    *)
(* their priority and ahead of those in the batch; an event cannot be made    *)
(* of a message without a subscription.  Others lose their messages.          *)
flush_pubsub_msgs(m) ==
    /\ phase = "flush" /\ callbacks = <<>> /\ ~undefined /\ m \in toFlush
    /\ toFlush' = toFlush \ {m}
    /\ pipe' = [pipe EXCEPT ![m] = <<>>]
    /\ \/ /\ mstate[m] = "RUNNING"
          /\ undefined' = (\E evt \in Range(pipe[m]) : evt.sub = NoSub \/ ~SubAlive(m, evt.sub))
          /\ call_pubsub_cb(m, pipe[m], "flush")
          /\ flushed' = [flushed EXCEPT ![m] = @ \cup Ids(pipe[m])]
          /\ UNCHANGED dropped
       \/ /\ mstate[m] # "RUNNING"
          /\ dropped' = [dropped EXCEPT ![m] = @ \cup Ids(pipe[m])]
          /\ UNCHANGED <<callbacks, flushed, undefined>>
    /\ UNCHANGED <<modVars, batch, phase, ready, errno, sent, calls, told, handed, refused, pilled>>

LoopStopped ==
    /\ phase = "flush" /\ callbacks = <<>> /\ ~undefined /\ toFlush = {}
    /\ phase' = "idle"
    /\ UNCHANGED <<modVars, pipe, batch, callbacks, toFlush, ready, errno, sent, calls, histVars,
                   undefined>>

(* m_ctx_loop or m_ctx_dispatch starts the loop again.                      *)
loop_start ==
    /\ phase = "idle" /\ UserCalls("loop", NoMod) /\ PipesHaveRoom
    /\ phase' = "loop"
    /\ Publish(mstate, pipe, "sys")
    /\ UNCHANGED <<modVars, batch, callbacks, toFlush, ready, errno, handed, flushed, dropped,
                   refused, pilled>>

(***************************************************************************)
(* Starting and stopping modules; their hooks are empty here.               *)
(***************************************************************************)
SetState(op, m, from, to) ==
    /\ UserCalls(op, m) /\ PipesHaveRoom
    /\ mstate[m] \in from
    /\ mstate' = [mstate EXCEPT ![m] = to]

start(m, resume) ==
    /\ IF resume THEN SetState("resume", m, {"PAUSED"}, "RUNNING")
                 ELSE SetState("start", m, {"STOPPED"}, "RUNNING")
    /\ MayStop => DirectAreRead({m})
    /\ Publish(mstate', pipe, "sys")
    /\ UNCHANGED <<subs, batchLen, timer, stashed, batch, loopVars, handed, flushed, dropped,
                   refused, pilled>>

(* The descriptors of the timers are closed, the pipe is not.                 *)
m_mod_pause(m) ==
    /\ SetState("pause", m, {"RUNNING"}, "PAUSED")
    /\ <<m, "timer">> \in ready => DirectAreRead(Running)
    /\ Becomes(m, {"timer"}, "closed")
    /\ Publish(mstate', pipe, "sys")
    /\ UNCHANGED <<subs, batchLen, timer, stashed, batch, callbacks, phase, toFlush, errno, handed,
                   flushed, dropped, refused, pilled>>

(* reset_module: what a stopped module forgets, its sources included.       *)
reset_module(m) ==
    /\ subs' = [subs EXCEPT ![m] = {}]
    /\ stashed' = [stashed EXCEPT ![m] = <<>>]
    /\ batch' = [batch EXCEPT ![m] = <<>>]
    /\ batchLen' = [batchLen EXCEPT ![m] = 0]
    /\ timer' = [timer EXCEPT ![m] = FALSE]

(* The unread messages are not flushed.                                     *)
StopUnflushed(m) ==
    /\ SetState("stop", m, {"RUNNING", "PAUSED"}, "STOPPED") /\ EventsAreTaken(m, EventKind)
    /\ Becomes(m, EventKind, "freed")
    /\ dropped' = [dropped EXCEPT ![m] = @ \cup Ids(batch[m])]
    /\ reset_module(m)
    /\ Publish(mstate', pipe, "sys")
    /\ UNCHANGED <<callbacks, phase, toFlush, errno, handed, flushed, refused, pilled>>

(* The unread messages go with the pipe, the batched ones with the rest.    *)
m_mod_stop(m) ==
    /\ SetState("stop", m, {"RUNNING", "PAUSED"}, "STOPPED") /\ EventsAreTaken(m, EventKind)
    /\ Becomes(m, EventKind, "freed")
    /\ dropped' = [dropped EXCEPT ![m] = @ \cup Ids(pipe[m]) \cup Ids(batch[m])]
    /\ reset_module(m)
    /\ Publish(mstate', [pipe EXCEPT ![m] = <<>>], "sys")
    /\ UNCHANGED <<callbacks, phase, toFlush, errno, handed, flushed, refused, pilled>>

-----------------------------------------------------------------------------
LibraryStep ==
    \/ CallbackReturns
    \/ loop_stop
    \/ LoopStopped
    \/ PollWait
    \/ \E m \in Mods : Recv(m) \/ Refuse(m) \/ flush_pubsub_msgs(m)
    \/ \E m \in Mods, kind \in TimerKind : BatchTimer(m, kind)

UserCall(m) ==
    \/ m_mod_ps_tell(m)
    \/ m_mod_ps_poisonpill(m)
    \/ \E o \in Offers : m_mod_ps_subscribe(m, o[1], o[2], o[3])
    \/ \E pat \in Patterns : m_mod_ps_unsubscribe(m, pat)
    \/ \E n \in Sizes : m_mod_set_batch_size(m, n) \/ m_mod_unstash(m, n)
    \/ \E b \in BOOLEAN : m_mod_set_batch_timeout(m, b) \/ start(m, b)
    \/ m_mod_pause(m)
    \/ m_mod_stop(m)

Next ==
    \/ LibraryStep
    \/ \E m \in Mods : UserCall(m)
    \/ \E topic \in Topics \cup {NoTopic} : m_mod_ps_publish(topic)
    \/ callbacks # <<>> /\ \E evt \in Range(callbacks[1].evts) : m_mod_stash(evt)
    \/ process_tick
    \/ m_ctx_quit
    \/ loop_start

Spec == Init /\ [][Next]_vars

(* Callbacks return and a round takes its events; the loop polls, and does     *)
(* not pass over the readable pipes for ever because of elapsed timers;        *)
(* loop_stop visits every module.                                           *)
RoundStep ==
    \E m \in Mods : Recv(m) \/ Refuse(m) \/ \E kind \in TimerKind : BatchTimer(m, kind)
PipeReported == PollWait /\ \E m \in Mods : <<m, "pipe">> \in ready'

FairSpec ==
    /\ Spec
    /\ WF_vars(CallbackReturns) /\ WF_vars(RoundStep) /\ WF_vars(PollWait)
    /\ SF_vars(PipeReported)
    /\ WF_vars(loop_stop) /\ WF_vars(LoopStopped)
    /\ \A m \in Mods : WF_vars(flush_pubsub_msgs(m))

-----------------------------------------------------------------------------
(***************************************************************************)
(* Properties.                                                             *)
(***************************************************************************)
Msg == [id : Nat, sub : Sub \cup {NoSub}]

(* Every variable of the messaging code has its type.                       *)
TypeOK ==
    /\ mstate \in [Mods -> {"RUNNING", "PAUSED", "STOPPED"}]
    /\ pipe \in [Mods -> Seq(Msg)] /\ batch \in [Mods -> Seq(Msg)]
    /\ stashed \in [Mods -> Seq(Msg)]
    /\ subs \in [Mods -> SUBSET Sub]
    /\ batchLen \in [Mods -> Nat] /\ timer \in [Mods -> BOOLEAN]
    /\ callbacks \in Seq([mod : Mods, evts : Seq(Msg) \ {<<>>},
                          why : {"recv", "timer", "flush", "unstash"}])
    /\ phase \in {"loop", "quitting", "flush", "idle"} /\ toFlush \subseteq Mods
    /\ ready \subseteq Mods \X EventKind /\ errno \in {"none", "again", "error"}
    /\ sent \in Nat /\ calls \in Nat
    /\ told \in [Mods -> SUBSET (1..sent)] /\ handed \in [Mods -> Seq(1..sent)]
    /\ flushed \in [Mods -> SUBSET (1..sent)] /\ dropped \in [Mods -> SUBSET (1..sent)]
    /\ refused \in [Mods -> SUBSET (1..sent)]
    /\ pilled \subseteq Mods
    /\ undefined \in BOOLEAN

(* Whatever is written to a module's pipe is in exactly one place: still      *)
(* unread, batched, given to on_evt by the loop or by loop_stop, freed        *)
(* because the module was not there to get it, or read and freed because a     *)
(* callback earlier in the same round had left errno set (tell_if, push_evt,  *)
(* recv_events, flush_pubsub_msgs, stop).  No message is delivered twice, and   *)
(* one of a module that is there is lost in that one way only.               *)
Conserved ==
    \A m \in Mods : \A id \in told[m] :
        LET places == <<id \in Ids(pipe[m]), id \in Ids(batch[m]), id \in Range(handed[m]),
                        id \in flushed[m], id \in dropped[m], id \in refused[m]>>
        IN  Cardinality({i \in DOMAIN places : places[i]}) = 1

(* A module gets its messages in the order in which they were sent: those the  *)
(* loop has handed over, those in the batch and those in the pipe continue    *)
(* each other (tell_if's write, process_ps's read, push_evt's queue).         *)
InOrder ==
    \A m \in Mods :
        LET line == handed[m] \o [i \in 1..Len(batch[m] \o pipe[m]) |->
                                     (batch[m] \o pipe[m])[i].id]
        IN  \A i, j \in DOMAIN line : i < j => line[i] < line[j]

(* Within ClientRules no freed or missing subscription is used, although a    *)
(* message holds no reference on its subscription (ps.c alloc_ps_msg), and no  *)
(* write to a pipe fails.                                                    *)
NoUndefined == ~undefined

(* An event of high priority is never kept waiting, in the batch or in the     *)
(* stash, and the loop never wakes a module for events of low priority only   *)
(* unless the batch timer elapses (push_evt, m_mod_stash).                    *)
PrioritiesHold ==
    /\ \A m \in Mods : \A evt \in Range(batch[m]) \cup Range(stashed[m]) : Prio_(evt) # "HIGH"
    /\ \A i \in 1..Len(callbacks) :
          callbacks[i].why = "recv" => \E evt \in Range(callbacks[i].evts) : Prio_(evt) # "LOW"

(* What is written to the pipe of a module that stays able to read it is       *)
(* read, and with a batch timer it is handed over: no message stays behind     *)
(* while the loop runs (recv_events, push_evt, the batch timer).              *)
Held(m) == pipe[m] # <<>> \/ (timer[m] /\ batch[m] # <<>>)
MessagesArrive ==
    \A m \in Mods :
        Held(m) ~> (~Held(m) \/ mstate[m] # "RUNNING" \/ phase = "idle")

(* docs/concepts/mod.md: a poison pill stops the module, after the messages    *)
(* sent before.  tell_if never writes it.                                     *)
PillStops == \A m \in Mods : (m \in pilled) ~> (mstate[m] # "RUNNING" \/ phase = "idle")
=============================================================================
