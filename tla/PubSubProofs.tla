---------------------------- MODULE PubSubProofs ----------------------------
(***************************************************************************)
(* Proofs about the messages between modules: for any modules, topics,       *)
(* subscriptions and calls of the user's code.                               *)
(***************************************************************************)
EXTENDS PubSub, FiniteSetTheorems, TLAPS

-----------------------------------------------------------------------------
(***************************************************************************)
(* Sequences of messages.                                                   *)
(***************************************************************************)
LEMMA SeqMonotone ==
    ASSUME NEW S, NEW T, S \subseteq T, NEW s \in Seq(S)
    PROVE  s \in Seq(T)
  OBVIOUS

LEMMA TailIndex ==
    ASSUME NEW S, NEW s \in Seq(S), s # <<>>
    PROVE  /\ Tail(s) \in Seq(S) /\ Len(Tail(s)) = Len(s) - 1 /\ Len(s) \in Nat \ {0}
           /\ \A i \in 1..Len(Tail(s)) : i + 1 \in 1..Len(s) /\ Tail(s)[i] = s[i + 1]
           /\ Head(s) = s[1] /\ 1 \in 1..Len(s) /\ Head(s) \in S
  OBVIOUS

LEMMA AppendIndex ==
    ASSUME NEW S, NEW s \in Seq(S), NEW x \in S
    PROVE  /\ Append(s, x) \in Seq(S) /\ Len(Append(s, x)) = Len(s) + 1 /\ Len(s) \in Nat
           /\ \A i \in 1..Len(s) : Append(s, x)[i] = s[i]
           /\ Append(s, x)[Len(s) + 1] = x
  OBVIOUS

LEMMA ConcatIndex ==
    ASSUME NEW S, NEW s \in Seq(S), NEW t \in Seq(S)
    PROVE  /\ s \o t \in Seq(S) /\ Len(s \o t) = Len(s) + Len(t)
           /\ Len(s) \in Nat /\ Len(t) \in Nat
           /\ \A i \in 1..Len(s) : (s \o t)[i] = s[i]
           /\ \A i \in 1..Len(t) : Len(s) + i \in 1..Len(s \o t) /\ (s \o t)[Len(s) + i] = t[i]
           /\ \A i \in 1..Len(s \o t) :
                i \in 1..Len(s) \/ (i - Len(s) \in 1..Len(t) /\ (s \o t)[i] = t[i - Len(s)])
  OBVIOUS

LEMMA ZeroLength ==
    ASSUME NEW S, NEW s \in Seq(S), Len(s) = 0
    PROVE  s = <<>>
  OBVIOUS

LEMMA RangeIndex ==
    ASSUME NEW S, NEW s \in Seq(S)
    PROVE  \A x : x \in Range(s) <=> \E i \in 1..Len(s) : s[i] = x
  BY DEF Range

-----------------------------------------------------------------------------
(***************************************************************************)
(* What sending does, whoever sends: the modules of W, whose pipes have room, *)
(* get a copy of message sent + 1, for one of their subscriptions or none.   *)
(***************************************************************************)
Copies(W, subOf, pipes) ==
    /\ W \in SUBSET Mods
    /\ sent' = IF W = {} THEN sent ELSE sent + 1
    /\ pipe' = [m \in Mods |-> IF m \in W THEN Append(pipes[m], [id |-> sent + 1, sub |-> subOf[m]])
                                          ELSE pipes[m]]
    /\ told' = [m \in Mods |-> IF m \in W THEN told[m] \cup {sent + 1} ELSE told[m]]
    /\ \A m \in W : Len(pipes[m]) < PipeSize /\ subOf[m] \in subs[m] \cup {NoSub}

Sends(pipes) == \E W, subOf : Copies(W, subOf, pipes)

LEMMA TellSends ==
    ASSUME TypeOK, NEW state, NEW pipes \in [Mods -> Seq(Msg)], NEW topic, NEW subOf,
           NEW to \in SUBSET Mods, TellPubsubMsg(state, pipes, topic, subOf, to),
           \A m \in Mods : subOf[m] \in subs[m] \cup {NoSub}
    PROVE  Sends(pipes) /\ undefined' \in BOOLEAN
  <1> DEFINE adm == {m \in to : tell_if(state, m, topic, subOf[m])}
             W   == adm \ {m \in adm : Len(pipes[m]) >= PipeSize}
  <1>1. \A m \in Mods : Len(pipes[m]) \in Nat
    OBVIOUS
  <1>2. PipeSize \in Nat
    BY PubSubAssumption
  <1>3. \A m \in W : m \in Mods /\ Len(pipes[m]) < PipeSize
    BY <1>1, <1>2
  <1>4. Copies(W, subOf, pipes)
    BY <1>3 DEF Copies, TellPubsubMsg
  <1>5. undefined' \in BOOLEAN
    BY DEF TellPubsubMsg
  <1> QED
    BY <1>4, <1>5 DEF Sends

LEMMA DirectSends ==
    ASSUME TypeOK, NEW topic, NEW to \in SUBSET Mods,
           TellPubsubMsg(mstate, pipe, topic, [m \in Mods |-> NoSub], to)
    PROVE  Sends(pipe) /\ undefined' \in BOOLEAN
  <1> DEFINE none == [m \in Mods |-> NoSub]
  <1>1. \A m \in Mods : none[m] \in subs[m] \cup {NoSub}
    OBVIOUS
  <1>2. pipe \in [Mods -> Seq(Msg)]
    BY DEF TypeOK
  <1> HIDE DEF none
  <1> QED
    BY <1>1, <1>2, TellSends DEF none

LEMMA PublishSends ==
    ASSUME TypeOK, NEW state, NEW pipes \in [Mods -> Seq(Msg)], NEW topic,
           Publish(state, pipes, topic)
    PROVE  Sends(pipes) /\ undefined' \in BOOLEAN
  <1>1. PICK subOf \in [Mods -> Attached] :
            /\ \A m \in Mods : subOf[m] \in fetch_sub(m, topic)
            /\ TellPubsubMsg(state, pipes, topic, subOf, Mods)
    BY DEF Publish
  <1>2. \A m \in Mods : subOf[m] \in subs[m] \cup {NoSub}
    BY <1>1 DEF fetch_sub
  <1> QED
    BY <1>1, <1>2, TellSends

-----------------------------------------------------------------------------
(***************************************************************************)
(* Types.  A message in a pipe or in a batch has been sent.                  *)
(***************************************************************************)
IdsSent ==
    \A m \in Mods :
        /\ \A i \in 1..Len(pipe[m]) : pipe[m][i].id \in 1..sent
        /\ \A i \in 1..Len(batch[m]) : batch[m][i].id \in 1..sent

(* The type of the part of the state that sending changes.                  *)
SentType ==
    /\ pipe \in [Mods -> Seq(Msg)] /\ sent \in Nat
    /\ told \in [Mods -> SUBSET (1..sent)] /\ handed \in [Mods -> Seq(1..sent)]
    /\ flushed \in [Mods -> SUBSET (1..sent)] /\ dropped \in [Mods -> SUBSET (1..sent)]
    /\ refused \in [Mods -> SUBSET (1..sent)]
    /\ IdsSent

(* The type of the rest.                                                    *)
RestType ==
    /\ mstate \in [Mods -> {"RUNNING", "PAUSED", "STOPPED"}]
    /\ batch \in [Mods -> Seq(Msg)] /\ stashed \in [Mods -> Seq(Msg)]
    /\ subs \in [Mods -> SUBSET Sub]
    /\ batchLen \in [Mods -> Nat] /\ timer \in [Mods -> BOOLEAN]
    /\ callbacks \in Seq([mod : Mods, evts : Seq(Msg) \ {<<>>},
                          why : {"recv", "timer", "flush", "unstash"}])
    /\ phase \in {"loop", "quitting", "flush", "idle"} /\ toFlush \subseteq Mods
    /\ ready \subseteq Mods \X EventKind /\ errno \in {"none", "again", "error"}
    /\ calls \in Nat /\ pilled \subseteq Mods
    /\ undefined \in BOOLEAN

TypeInv == SentType /\ RestType

LEMMA TypeParts == TypeInv => TypeOK
  BY DEF TypeInv, SentType, RestType, TypeOK

(* Sending keeps the types, when the histories are as before; also when the   *)
(* pipes are first emptied, or the batch or the history shrinks or grows.    *)
LEMMA SendsType ==
    ASSUME SentType, RestType, NEW pipes \in [Mods -> Seq(Msg)], Sends(pipes),
           \A m \in Mods : \A i \in 1..Len(pipes[m]) : pipes[m][i].id \in 1..sent,
           batch' \in [Mods -> Seq(Msg)],
           \A m \in Mods : \A i \in 1..Len(batch'[m]) : batch'[m][i].id \in 1..sent,
           handed' = handed, flushed' = flushed, dropped' \in [Mods -> SUBSET (1..sent)],
           refused' = refused
    PROVE  SentType'
  <1>1. PICK W, subOf : Copies(W, subOf, pipes)
    BY DEF Sends
  <1>2. sent \in Nat /\ sent' \in Nat /\ sent <= sent' /\ (W # {} => sent' = sent + 1)
    BY <1>1 DEF Copies, SentType
  <1>3. 1..sent \subseteq 1..sent'
    BY <1>2
  <1>4. \A m \in W : [id |-> sent + 1, sub |-> subOf[m]] \in Msg /\ sent + 1 \in 1..sent'
    <2> SUFFICES ASSUME NEW m \in W
                 PROVE  [id |-> sent + 1, sub |-> subOf[m]] \in Msg /\ sent + 1 \in 1..sent'
      OBVIOUS
    <2>1. m \in Mods /\ subOf[m] \in subs[m] \cup {NoSub}
      BY <1>1 DEF Copies
    <2>2. subOf[m] \in Sub \cup {NoSub}
      BY <2>1 DEF RestType
    <2>3. sent + 1 \in Nat /\ sent + 1 \in 1..sent'
      BY <1>2
    <2> QED
      BY <2>2, <2>3 DEF Msg
  <1>5. pipe' \in [Mods -> Seq(Msg)]
    BY <1>1, <1>4, AppendIndex DEF Copies
  <1>6. told' \in [Mods -> SUBSET (1..sent')]
    BY <1>1, <1>3, <1>4 DEF Copies, SentType
  <1>7. handed' \in [Mods -> Seq(1..sent')]
    BY <1>3, SeqMonotone DEF SentType
  <1>8. /\ flushed' \in [Mods -> SUBSET (1..sent')] /\ dropped' \in [Mods -> SUBSET (1..sent')]
        /\ refused' \in [Mods -> SUBSET (1..sent')]
    BY <1>3 DEF SentType
  <1>9. ASSUME NEW m \in Mods, NEW i \in 1..Len(pipe'[m]) PROVE pipe'[m][i].id \in 1..sent'
    <2>1. CASE m \notin W
      BY <1>1, <1>3, <2>1 DEF Copies
    <2>2. CASE m \in W
      <3> DEFINE c == [id |-> sent + 1, sub |-> subOf[m]]
      <3>1. pipe'[m] = Append(pipes[m], c)
        BY <1>1, <2>2 DEF Copies
      <3>2. i \in 1..Len(pipes[m]) \/ i = Len(pipes[m]) + 1
        BY <3>1, <1>4, <2>2, AppendIndex
      <3>3. CASE i \in 1..Len(pipes[m])
        BY <3>1, <3>3, <1>3, <1>4, <2>2, AppendIndex
      <3>4. CASE i = Len(pipes[m]) + 1
        BY <3>1, <3>4, <1>4, <2>2, AppendIndex
      <3> QED
        BY <3>2, <3>3, <3>4
    <2> QED
      BY <2>1, <2>2
  <1>10. IdsSent'
    BY <1>3, <1>9 DEF IdsSent
  <1> QED
    BY <1>2, <1>5, <1>6, <1>7, <1>8, <1>10 DEF SentType

Frame == [mod : Mods, evts : Seq(Msg) \ {<<>>}, why : {"recv", "timer", "flush", "unstash"}]

LEMMA PushIndex ==
    ASSUME NEW S, NEW s \in Seq(S), NEW x \in S
    PROVE  /\ <<x>> \o s \in Seq(S) /\ Len(<<x>> \o s) = Len(s) + 1 /\ Len(s) \in Nat
           /\ (<<x>> \o s)[1] = x
           /\ \A i \in 1..Len(<<x>> \o s) :
                i = 1 \/ (i - 1 \in 1..Len(s) /\ (<<x>> \o s)[i] = s[i - 1])
  OBVIOUS

(* A callback is pushed with the events it is called with.                  *)
LEMMA CallType ==
    ASSUME RestType, NEW m \in Mods, NEW evts \in Seq(Msg),
           NEW why \in {"recv", "timer", "flush", "unstash"}, call_pubsub_cb(m, evts, why)
    PROVE  callbacks' \in Seq(Frame)
  <1>1. callbacks \in Seq(Frame)
    BY DEF RestType, Frame
  <1>2. CASE evts = <<>>
    BY <1>1, <1>2 DEF call_pubsub_cb
  <1>3. CASE evts # <<>>
    <2> DEFINE f == [mod |-> m, evts |-> evts, why |-> why]
    <2>1. f \in Frame
      BY <1>3 DEF Frame
    <2> HIDE DEF f
    <2>2. <<f>> \o callbacks \in Seq(Frame)
      BY <1>1, <2>1, PushIndex
    <2> QED
      BY <1>3, <2>2 DEF call_pubsub_cb, f
  <1> QED
    BY <1>2, <1>3

(* The identifiers of a sequence of messages, in order.                     *)
IdSeq(s) == [i \in 1..Len(s) |-> s[i].id]

LEMMA IdSeqType ==
    ASSUME NEW s \in Seq(Msg), NEW n \in Nat, \A i \in 1..Len(s) : s[i].id \in 1..n
    PROVE  /\ IdSeq(s) \in Seq(1..n) /\ Len(IdSeq(s)) = Len(s)
           /\ \A i \in 1..Len(s) : IdSeq(s)[i] = s[i].id
  BY DEF IdSeq

LEMMA IdsType ==
    ASSUME NEW s \in Seq(Msg), NEW n \in Nat, \A i \in 1..Len(s) : s[i].id \in 1..n
    PROVE  Ids(s) \in SUBSET (1..n)
  BY DEF Ids

(* Handing over a batch keeps the types.                                    *)
LEMMA HandType ==
    ASSUME SentType, RestType, NEW m \in Mods, NEW evts \in Seq(Msg),
           NEW why \in {"recv", "timer", "flush", "unstash"}, HandBatch(m, evts, why),
           \A i \in 1..Len(evts) : evts[i].id \in 1..sent
    PROVE  /\ callbacks' \in Seq(Frame) /\ batch' \in [Mods -> Seq(Msg)]
           /\ handed' \in [Mods -> Seq(1..sent)]
           /\ \A q \in Mods : \A i \in 1..Len(batch'[q]) : batch'[q][i].id \in 1..sent
  <1>1. callbacks' \in Seq(Frame)
    BY CallType DEF HandBatch
  <1>2. batch' = [batch EXCEPT ![m] = <<>>] /\ <<>> \in Seq(Msg) /\ Len(<<>>) = 0
    BY DEF HandBatch
  <1>3. batch' \in [Mods -> Seq(Msg)]
    BY <1>2 DEF RestType
  <1>4. handed' = [handed EXCEPT ![m] = handed[m] \o IdSeq(evts)]
    BY DEF HandBatch, IdSeq
  <1>5. IdSeq(evts) \in Seq(1..sent)
    BY IdSeqType DEF SentType
  <1>6. handed[m] \o IdSeq(evts) \in Seq(1..sent)
    BY <1>5, ConcatIndex DEF SentType
  <1>7. handed' \in [Mods -> Seq(1..sent)]
    BY <1>4, <1>6 DEF SentType
  <1>8. \A q \in Mods : \A i \in 1..Len(batch'[q]) : batch'[q][i].id \in 1..sent
    BY <1>2 DEF SentType, RestType, IdsSent
  <1> QED
    BY <1>1, <1>3, <1>7, <1>8

(* A step that leaves the messages where they are.                          *)
Still == UNCHANGED <<pipe, batch, sent, told, handed, flushed, dropped, refused>>

LEMMA StillType == SentType /\ Still => SentType'
  BY DEF SentType, Still, IdsSent

LEMMA FrameType ==
    Seq(Frame) = Seq([mod : Mods, evts : Seq(Msg) \ {<<>>},
                      why : {"recv", "timer", "flush", "unstash"}])
  BY DEF Frame

(* What becomes of the events of a round keeps their type.                  *)
LEMMA BecomesType ==
    ASSUME NEW m \in Mods, NEW kinds, NEW fate \in EventKind, Becomes(m, kinds, fate),
           ready \subseteq Mods \X EventKind
    PROVE  ready' \subseteq Mods \X EventKind
  BY DEF Becomes

LEMMA TypeInit == Init => TypeInv
  <1> SUFFICES ASSUME Init PROVE TypeInv
    OBVIOUS
  <1>1. <<>> \in Seq(Msg) /\ <<>> \in Seq(1..sent) /\ Len(<<>>) = 0 /\ <<>> \in Seq(Frame)
    OBVIOUS
  <1>2. SentType
    BY <1>1 DEF Init, SentType, IdsSent
  <1>3. RestType
    BY <1>1, PubSubAssumption, FrameType DEF Init, RestType
  <1> QED
    BY <1>2, <1>3 DEF TypeInv

LEMMA TypeStep == TypeInv /\ [Next]_vars => TypeInv'
  <1> SUFFICES ASSUME SentType, RestType, [Next]_vars PROVE SentType' /\ RestType'
    BY DEF TypeInv
  <1> USE FrameType
  <1>0. TypeOK
    BY TypeParts DEF TypeInv
  <1>a. \A m \in Mods : pipe[m] \in Seq(Msg) /\ batch[m] \in Seq(Msg) /\ stashed[m] \in Seq(Msg)
    BY DEF SentType, RestType
  <1>b. /\ pipe \in [Mods -> Seq(Msg)] /\ batch \in [Mods -> Seq(Msg)]
        /\ sent \in Nat /\ dropped \in [Mods -> SUBSET (1..sent)]
        /\ \A m \in Mods : \A i \in 1..Len(pipe[m]) : pipe[m][i].id \in 1..sent
        /\ \A m \in Mods : \A i \in 1..Len(batch[m]) : batch[m][i].id \in 1..sent
    BY DEF SentType, RestType, IdsSent
  <1>c. callbacks \in Seq(Frame) /\ calls \in Nat /\ calls + 1 \in Nat
    BY DEF RestType
  <1>1. CASE CallbackReturns
    <2>1. Still
      BY <1>1 DEF CallbackReturns, Still, histVars
    <2>2. callbacks' \in Seq(Frame)
      BY <1>1, <1>c, TailIndex DEF CallbackReturns
    <2>3. errno' \in {"none", "again", "error"}
      BY <1>1 DEF CallbackReturns
    <2> QED
      BY <1>1, <2>1, <2>2, <2>3, StillType DEF CallbackReturns, RestType, modVars, histVars
  <1>2. CASE loop_stop
    <2>1. Sends(pipe) /\ undefined' \in BOOLEAN
      BY <1>2, <1>0, <1>b, PublishSends DEF loop_stop
    <2>2. SentType'
      BY <1>2, <1>b, <2>1, SendsType DEF loop_stop
    <2> QED
      BY <1>2, <2>1, <2>2 DEF loop_stop, RestType, modVars
  <1>3. CASE LoopStopped
    BY <1>3, StillType DEF LoopStopped, Still, RestType, modVars, histVars
  <1>4. ASSUME NEW m \in Mods, Recv(m) PROVE SentType' /\ RestType'
    <2> DEFINE evt == Head(pipe[m])
    <2>1. pipe[m] # <<>> /\ pipe' = [pipe EXCEPT ![m] = Tail(pipe[m])] /\ push_evt(m, evt)
      BY <1>4 DEF Recv
    <2>2. /\ evt \in Msg /\ Tail(pipe[m]) \in Seq(Msg) /\ evt.id \in 1..sent
          /\ \A i \in 1..Len(Tail(pipe[m])) : Tail(pipe[m])[i].id \in 1..sent
      <3>1. pipe[m] \in Seq(Msg)
        BY <1>a
      <3> QED
        BY <3>1, <2>1, <1>b, TailIndex
    <2> HIDE DEF evt
    <2>3. pipe' \in [Mods -> Seq(Msg)]
      BY <1>b, <2>1, <2>2
    <2>4. \A q \in Mods : \A i \in 1..Len(pipe'[q]) : pipe'[q][i].id \in 1..sent
      BY <1>b, <2>1, <2>2
    <2> DEFINE evts == Append(batch[m], evt)
    <2>5. evts \in Seq(Msg) /\ \A i \in 1..Len(evts) : evts[i].id \in 1..sent
      <3>1. batch[m] \in Seq(Msg)
        BY <1>a
      <3>2. \A i \in 1..Len(evts) : i \in 1..Len(batch[m]) \/ i = Len(batch[m]) + 1
        BY <3>1, <2>2, AppendIndex
      <3> QED
        BY <3>1, <3>2, <2>2, <1>b, AppendIndex
    <2>6. /\ callbacks' \in Seq(Frame) /\ batch' \in [Mods -> Seq(Msg)]
          /\ handed' \in [Mods -> Seq(1..sent)]
          /\ \A q \in Mods : \A i \in 1..Len(batch'[q]) : batch'[q][i].id \in 1..sent
      <3>1. CASE HandBatch(m, evts, "recv")
        BY <3>1, <2>5, HandType
      <3>2. CASE batch' = [batch EXCEPT ![m] = evts] /\ UNCHANGED <<callbacks, handed>>
        <4> HIDE DEF evts
        <4> QED
          BY <3>2, <2>5, <1>b, <1>c DEF SentType
      <3> QED
        BY <2>1, <3>1, <3>2 DEF push_evt
    <2>7. subs' \in [Mods -> SUBSET Sub]
      BY <1>4 DEF Recv, RestType
    <2>8. SentType'
      BY <1>4, <2>3, <2>4, <2>6 DEF Recv, SentType, IdsSent
    <2>9. undefined' \in BOOLEAN /\ ready' \subseteq Mods \X EventKind
      BY <1>4 DEF Recv, RestType
    <2> QED
      BY <1>4, <2>6, <2>7, <2>8, <2>9 DEF Recv, RestType
  <1>23. CASE PollWait
    <2>1. Still
      BY <1>23 DEF PollWait, Still, histVars
    <2>2. Reported \subseteq Mods \X EventKind
      BY DEF Reported, Running, EventKind
    <2>3. ready' \subseteq Mods \X EventKind /\ errno' = "none"
      BY <1>23, <2>2 DEF PollWait
    <2>4. UNCHANGED <<modVars, batch, callbacks, phase, toFlush, calls, histVars, undefined>>
      BY <1>23 DEF PollWait
    <2>5. SentType'
      BY <2>1, StillType
    <2> QED
      BY <2>3, <2>4, <2>5 DEF RestType, modVars, histVars
  <1>24. ASSUME NEW m \in Mods, Refuse(m) PROVE SentType' /\ RestType'
    <2>1. pipe[m] # <<>> /\ pipe' = [pipe EXCEPT ![m] = Tail(pipe[m])]
      BY <1>24 DEF Refuse
    <2>2. /\ Head(pipe[m]).id \in 1..sent /\ Tail(pipe[m]) \in Seq(Msg)
          /\ \A i \in 1..Len(Tail(pipe[m])) : Tail(pipe[m])[i].id \in 1..sent
      <3>1. pipe[m] \in Seq(Msg)
        BY <1>a
      <3> QED
        BY <3>1, <2>1, <1>b, TailIndex
    <2>3. pipe' \in [Mods -> Seq(Msg)]
      BY <1>b, <2>1, <2>2
    <2>4. \A q \in Mods : \A i \in 1..Len(pipe'[q]) : pipe'[q][i].id \in 1..sent
      BY <1>b, <2>1, <2>2
    <2>5. refused' \in [Mods -> SUBSET (1..sent)]
      BY <1>24, <2>2 DEF Refuse, SentType
    <2>6. SentType'
      BY <1>24, <2>3, <2>4, <2>5 DEF Refuse, SentType, IdsSent
    <2>7. undefined' \in BOOLEAN
      BY <1>24 DEF Refuse
    <2>8. /\ ready' \subseteq Mods \X EventKind /\ errno' \in {"none", "again", "error"}
          /\ phase' \in {"loop", "quitting", "flush", "idle"}
      BY <1>24 DEF Refuse, EndRound, RestType
    <2> QED
      BY <1>24, <2>6, <2>7, <2>8 DEF Refuse, RestType, modVars
  <1>5. ASSUME NEW m \in Mods, NEW kind \in TimerKind, BatchTimer(m, kind)
        PROVE  SentType' /\ RestType'
    <2>1. /\ callbacks' \in Seq(Frame) /\ batch' \in [Mods -> Seq(Msg)]
          /\ handed' \in [Mods -> Seq(1..sent)]
          /\ \A q \in Mods : \A i \in 1..Len(batch'[q]) : batch'[q][i].id \in 1..sent
      <3>1. CASE HandBatch(m, batch[m], "timer")
        BY <3>1, <1>a, <1>b, HandType
      <3>2. CASE UNCHANGED <<batch, callbacks, handed>>
        BY <3>2, <1>b, <1>c DEF SentType
      <3> QED
        BY <1>5, <3>1, <3>2 DEF BatchTimer
    <2>2. /\ ready' \subseteq Mods \X EventKind /\ errno' \in {"none", "again", "error"}
          /\ phase' \in {"loop", "quitting", "flush", "idle"}
      BY <1>5 DEF BatchTimer, EndRound, RestType
    <2>3. undefined' \in BOOLEAN
      BY <1>5 DEF BatchTimer
    <2>4. SentType'
      BY <1>5, <2>1 DEF BatchTimer, SentType, IdsSent
    <2> QED
      BY <1>5, <2>1, <2>2, <2>3, <2>4 DEF BatchTimer, RestType, modVars
  <1>6. ASSUME NEW m \in Mods, flush_pubsub_msgs(m) PROVE SentType' /\ RestType'
    <2>1. Ids(pipe[m]) \in SUBSET (1..sent)
      BY <1>a, <1>b, IdsType
    <2>2. <<>> \in Seq(Msg) /\ Len(<<>>) = 0
      OBVIOUS
    <2>3. pipe' \in [Mods -> Seq(Msg)] /\ IdsSent'
      <3>1. pipe' = [pipe EXCEPT ![m] = <<>>] /\ UNCHANGED <<batch, sent>>
        BY <1>6 DEF flush_pubsub_msgs
      <3> QED
        BY <1>b, <2>2, <3>1 DEF IdsSent
    <2>4. flushed' \in [Mods -> SUBSET (1..sent)] /\ dropped' \in [Mods -> SUBSET (1..sent)]
      BY <1>6, <2>1 DEF flush_pubsub_msgs, SentType
    <2>5. callbacks' \in Seq(Frame)
      BY <1>6, <1>a, <1>c, CallType DEF flush_pubsub_msgs
    <2>6. SentType'
      BY <1>6, <2>3, <2>4 DEF flush_pubsub_msgs, SentType
    <2>7. undefined' \in BOOLEAN
      BY <1>6 DEF flush_pubsub_msgs, RestType
    <2> QED
      BY <1>6, <2>5, <2>6, <2>7 DEF flush_pubsub_msgs, RestType, modVars
  <1>7. ASSUME NEW m \in Mods, m_mod_ps_tell(m) PROVE SentType' /\ RestType'
    <2>1. Sends(pipe) /\ undefined' \in BOOLEAN
      BY <1>7, <1>0, DirectSends DEF m_mod_ps_tell
    <2>2. SentType'
      BY <1>7, <1>b, <2>1, SendsType DEF m_mod_ps_tell
    <2> QED
      BY <1>7, <2>1, <2>2 DEF m_mod_ps_tell, RestType, modVars, loopVars
  <1>8. ASSUME NEW m \in Mods, m_mod_ps_poisonpill(m) PROVE SentType' /\ RestType'
    <2>1. Sends(pipe) /\ undefined' \in BOOLEAN
      BY <1>8, <1>0, DirectSends DEF m_mod_ps_poisonpill
    <2>2. SentType'
      BY <1>8, <1>b, <2>1, SendsType DEF m_mod_ps_poisonpill
    <2> QED
      BY <1>8, <1>c, <2>1, <2>2 DEF m_mod_ps_poisonpill, UserCalls, RestType, modVars, loopVars
  <1>9. ASSUME NEW m \in Mods, NEW o \in Offers, m_mod_ps_subscribe(m, o[1], o[2], o[3])
        PROVE  SentType' /\ RestType'
    <2>1. SentType'
      BY <1>9, StillType DEF m_mod_ps_subscribe, Still, histVars
    <2>2. [pat |-> o[1], prio |-> o[2], oneshot |-> o[3], gen |-> calls + 1] \in Sub
      <3>1. o[1] \in Patterns /\ o[2] \in Prio /\ o[3] \in BOOLEAN
        BY PubSubAssumption
      <3>2. calls + 1 \in 0..MaxCalls
        BY <1>9, <1>c, PubSubAssumption DEF m_mod_ps_subscribe, UserCalls
      <3> QED
        BY <3>1, <3>2 DEF Sub
    <2>3. subs' \in [Mods -> SUBSET Sub]
      BY <1>9, <2>2 DEF m_mod_ps_subscribe, RestType
    <2> QED
      BY <1>9, <1>c, <2>1, <2>3 DEF m_mod_ps_subscribe, UserCalls, RestType, loopVars, histVars
  <1>10. ASSUME NEW m \in Mods, NEW pat \in Patterns, m_mod_ps_unsubscribe(m, pat)
         PROVE  SentType' /\ RestType'
    <2>1. SentType'
      BY <1>10, StillType DEF m_mod_ps_unsubscribe, Still, histVars
    <2>2. subs' \in [Mods -> SUBSET Sub]
      BY <1>10 DEF m_mod_ps_unsubscribe, RestType
    <2> QED
      BY <1>10, <1>c, <2>1, <2>2 DEF m_mod_ps_unsubscribe, UserCalls, RestType, loopVars, histVars
  <1>11. ASSUME NEW m \in Mods, NEW n \in Sizes, m_mod_set_batch_size(m, n)
         PROVE  SentType' /\ RestType'
    <2>1. SentType'
      BY <1>11, StillType DEF m_mod_set_batch_size, Still, histVars
    <2> QED
      BY <1>11, <1>c, <2>1, PubSubAssumption
      DEF m_mod_set_batch_size, UserCalls, RestType, loopVars, histVars
  <1>12. ASSUME NEW m \in Mods, NEW len \in Sizes, m_mod_unstash(m, len)
         PROVE  SentType' /\ RestType'
    <2>1. SentType'
      BY <1>12, StillType DEF m_mod_unstash, Still, histVars
    <2>2. PICK n : /\ n = IF len - 1 < Len(stashed[m]) THEN len - 1 ELSE Len(stashed[m])
                   /\ stashed' = [stashed EXCEPT ![m] = SubSeq(stashed[m], n + 1, Len(stashed[m]))]
                   /\ call_pubsub_cb(m, SubSeq(stashed[m], 1, n), "unstash")
      BY <1>12 DEF m_mod_unstash
    <2>3. len \in Nat /\ len > 0
      BY <1>12, PubSubAssumption DEF m_mod_unstash
    <2>4. stashed[m] \in Seq(Msg) /\ Len(stashed[m]) \in Nat
      BY <1>a
    <2>5. n \in 0..Len(stashed[m])
      BY <2>2, <2>3, <2>4
    <2>6. /\ SubSeq(stashed[m], 1, n) \in Seq(Msg)
          /\ SubSeq(stashed[m], n + 1, Len(stashed[m])) \in Seq(Msg)
      BY <2>4, <2>5
    <2>7. callbacks' \in Seq(Frame)
      BY <2>2, <2>6, CallType
    <2>8. stashed' \in [Mods -> Seq(Msg)]
      BY <2>2, <2>6 DEF RestType
    <2> QED
      BY <1>12, <1>c, <2>1, <2>7, <2>8 DEF m_mod_unstash, UserCalls, RestType, histVars
  <1>13. ASSUME NEW m \in Mods, NEW b \in BOOLEAN, m_mod_set_batch_timeout(m, b)
         PROVE  SentType' /\ RestType'
    <2>1. SentType'
      BY <1>13, StillType DEF m_mod_set_batch_timeout, Still, histVars
    <2>2. Unlimited \in Nat
      BY PubSubAssumption DEF Unlimited
    <2>3. ready' \subseteq Mods \X EventKind
      BY <1>13, BecomesType DEF m_mod_set_batch_timeout, RestType, EventKind
    <2> QED
      BY <1>13, <1>c, <2>1, <2>2, <2>3
      DEF m_mod_set_batch_timeout, UserCalls, RestType, histVars
  <1>14. ASSUME NEW m \in Mods, NEW b \in BOOLEAN, start(m, b) PROVE SentType' /\ RestType'
    <2>1. Sends(pipe) /\ undefined' \in BOOLEAN
      BY <1>14, <1>0, <1>b, PublishSends DEF start
    <2>2. SentType'
      BY <1>14, <1>b, <2>1, SendsType DEF start
    <2> QED
      BY <1>14, <1>c, <2>1, <2>2 DEF start, SetState, UserCalls, RestType, loopVars
  <1>15. ASSUME NEW m \in Mods, m_mod_pause(m) PROVE SentType' /\ RestType'
    <2>1. Sends(pipe) /\ undefined' \in BOOLEAN
      BY <1>15, <1>0, <1>b, PublishSends DEF m_mod_pause
    <2>2. SentType'
      BY <1>15, <1>b, <2>1, SendsType DEF m_mod_pause
    <2>3. ready' \subseteq Mods \X EventKind
      BY <1>15, BecomesType DEF m_mod_pause, RestType, EventKind
    <2> QED
      BY <1>15, <1>c, <2>1, <2>2, <2>3 DEF m_mod_pause, SetState, UserCalls, RestType
  <1>16. ASSUME NEW m \in Mods, m_mod_stop(m) PROVE SentType' /\ RestType'
    <2> DEFINE pipes == [pipe EXCEPT ![m] = <<>>]
    <2>1. <<>> \in Seq(Msg) /\ Len(<<>>) = 0
      OBVIOUS
    <2>2. pipes \in [Mods -> Seq(Msg)]
      BY <1>b, <2>1
    <2>3. \A q \in Mods : \A i \in 1..Len(pipes[q]) : pipes[q][i].id \in 1..sent
      BY <1>b, <2>1
    <2>4. Publish(mstate', pipes, "sys")
      BY <1>16 DEF m_mod_stop
    <2> HIDE DEF pipes
    <2>5. Sends(pipes) /\ undefined' \in BOOLEAN
      BY <2>4, <1>0, <2>2, PublishSends
    <2>6. Ids(pipe[m]) \in SUBSET (1..sent) /\ Ids(batch[m]) \in SUBSET (1..sent)
      BY <1>a, <1>b, IdsType
    <2>7. dropped' \in [Mods -> SUBSET (1..sent)]
      BY <1>16, <1>b, <2>6 DEF m_mod_stop
    <2>8. /\ batch' \in [Mods -> Seq(Msg)]
          /\ \A q \in Mods : \A i \in 1..Len(batch'[q]) : batch'[q][i].id \in 1..sent
      BY <1>16, <1>b, <2>1 DEF m_mod_stop, reset_module
    <2>9. SentType'
      BY <1>16, <2>2, <2>3, <2>5, <2>7, <2>8, SendsType DEF m_mod_stop
    <2>10. ready' \subseteq Mods \X EventKind
      BY <1>16, BecomesType DEF m_mod_stop, RestType, EventKind
    <2> QED
      BY <1>16, <1>c, <2>1, <2>5, <2>8, <2>9, <2>10
      DEF m_mod_stop, reset_module, SetState, UserCalls, RestType
  <1>17. ASSUME NEW topic \in Topics \cup {NoTopic}, m_mod_ps_publish(topic)
         PROVE  SentType' /\ RestType'
    <2>1. Sends(pipe) /\ undefined' \in BOOLEAN
      <3>1. CASE TellPubsubMsg(mstate, pipe, NoTopic, [m \in Mods |-> NoSub], Mods)
        BY <3>1, <1>0, DirectSends
      <3>2. CASE Publish(mstate, pipe, topic)
        BY <3>2, <1>0, <1>b, PublishSends
      <3> QED
        BY <1>17, <3>1, <3>2 DEF m_mod_ps_publish
    <2>2. SentType'
      BY <1>17, <1>b, <2>1, SendsType DEF m_mod_ps_publish
    <2> QED
      BY <1>17, <2>1, <2>2 DEF m_mod_ps_publish, RestType, modVars, loopVars
  <1>18. ASSUME callbacks # <<>>, NEW evt \in Range(callbacks[1].evts), m_mod_stash(evt)
         PROVE  SentType' /\ RestType'
    <2>1. SentType'
      BY <1>18, StillType DEF m_mod_stash, Still, histVars
    <2>2. callbacks[1] \in Frame
      BY <1>18, <1>c
    <2>3. callbacks[1].mod \in Mods /\ callbacks[1].evts \in Seq(Msg)
      BY <2>2 DEF Frame
    <2>4. evt \in Msg
      BY <1>18, <2>3, RangeIndex
    <2>5. stashed' \in [Mods -> Seq(Msg)]
      <3>1. Append(stashed[callbacks[1].mod], evt) \in Seq(Msg)
        BY <2>3, <2>4, <1>a, AppendIndex
      <3> QED
        BY <1>18, <3>1 DEF m_mod_stash, RestType
    <2> QED
      BY <1>18, <1>c, <2>1, <2>5 DEF m_mod_stash, UserCalls, RestType, loopVars, histVars
  <1>19. CASE process_tick
    <2>1. Sends(pipe) /\ undefined' \in BOOLEAN
      BY <1>19, <1>0, <1>b, PublishSends DEF process_tick
    <2>2. SentType'
      BY <1>19, <1>b, <2>1, SendsType DEF process_tick
    <2> QED
      BY <1>19, <2>1, <2>2 DEF process_tick, RestType, modVars, loopVars
  <1>20. CASE m_ctx_quit
    BY <1>20, <1>c, StillType DEF m_ctx_quit, UserCalls, Still, RestType, modVars, histVars
  <1>21. CASE loop_start
    <2>1. Sends(pipe) /\ undefined' \in BOOLEAN
      BY <1>21, <1>0, <1>b, PublishSends DEF loop_start
    <2>2. SentType'
      BY <1>21, <1>b, <2>1, SendsType DEF loop_start
    <2> QED
      BY <1>21, <1>c, <2>1, <2>2 DEF loop_start, UserCalls, RestType, modVars
  <1>22. CASE UNCHANGED vars
    BY <1>22, StillType DEF vars, modVars, loopVars, histVars, Still, RestType
  <1> QED
    BY <1>1, <1>2, <1>3, <1>4, <1>5, <1>6, <1>7, <1>8, <1>9, <1>10, <1>11, <1>12, <1>13,
       <1>14, <1>15, <1>16, <1>17, <1>18, <1>19, <1>20, <1>21, <1>22, <1>23, <1>24
    DEF Next, LibraryStep, UserCall

(* Every variable of the messaging code keeps its type, and no message is in  *)
(* a pipe, a batch or a history before it is sent.                           *)
THEOREM TypesHold == Spec => []TypeOK
  <1>1. Spec => []TypeInv
    BY TypeInit, TypeStep, PTL DEF Spec
  <1> QED
    BY <1>1, TypeParts, PTL

-----------------------------------------------------------------------------
(***************************************************************************)
(* Order.  What a module was handed, its batch and its pipe are each in the  *)
(* order of sending, and come one after the other.                           *)
(***************************************************************************)
Ordered(h, b, p) ==
    /\ \A i, j \in 1..Len(h) : i < j => h[i] < h[j]
    /\ \A i, j \in 1..Len(b) : i < j => b[i].id < b[j].id
    /\ \A i, j \in 1..Len(p) : i < j => p[i].id < p[j].id
    /\ \A i \in 1..Len(h), j \in 1..Len(b) : h[i] < b[j].id
    /\ \A i \in 1..Len(h), j \in 1..Len(p) : h[i] < p[j].id
    /\ \A i \in 1..Len(b), j \in 1..Len(p) : b[i].id < p[j].id

(* The three are made of messages up to the n-th.                           *)
UpTo(h, b, p, n) ==
    /\ h \in Seq(1..n) /\ b \in Seq(Msg) /\ p \in Seq(Msg) /\ n \in Nat
    /\ \A i \in 1..Len(b) : b[i].id \in 1..n
    /\ \A i \in 1..Len(p) : p[i].id \in 1..n

LEMMA OrderSent ==
    ASSUME NEW h, NEW b, NEW p, NEW n, UpTo(h, b, p, n), Ordered(h, b, p),
           NEW c \in Msg, c.id = n + 1
    PROVE  Ordered(h, b, Append(p, c))
  <1>1. p \in Seq(Msg) /\ Len(p) \in Nat /\ n \in Nat
    BY DEF UpTo
  <1>2. /\ \A i \in 1..Len(Append(p, c)) : i \in 1..Len(p) \/ i = Len(p) + 1
        /\ \A i \in 1..Len(p) : Append(p, c)[i] = p[i]
        /\ Append(p, c)[Len(p) + 1].id = n + 1
    BY <1>1, AppendIndex
  <1>3. /\ \A i \in 1..Len(h) : h[i] \in 1..n
        /\ \A i \in 1..Len(b) : b[i].id \in 1..n
        /\ \A i \in 1..Len(p) : p[i].id \in 1..n
    BY DEF UpTo
  <1>4. PICK q : q = Append(p, c)
    OBVIOUS
  <1>5. \A i, j \in 1..Len(q) : i < j => q[i].id < q[j].id
    BY <1>1, <1>2, <1>3, <1>4 DEF Ordered
  <1>6. ASSUME NEW j \in 1..Len(q)
        PROVE  /\ \A i \in 1..Len(h) : h[i] < q[j].id
               /\ \A i \in 1..Len(b) : b[i].id < q[j].id
    <2>1. CASE j \in 1..Len(p)
      BY <1>2, <1>4, <2>1 DEF Ordered
    <2>2. CASE j = Len(p) + 1
      BY <1>1, <1>2, <1>3, <1>4, <2>2
    <2> QED
      BY <1>2, <1>4, <2>1, <2>2
  <1> QED
    BY <1>4, <1>5, <1>6 DEF Ordered

LEMMA OrderBatched ==
    ASSUME NEW h, NEW b, NEW p, NEW n, UpTo(h, b, p, n), Ordered(h, b, p), p # <<>>
    PROVE  Ordered(h, Append(b, Head(p)), Tail(p))
  <1>1. b \in Seq(Msg) /\ p \in Seq(Msg) /\ Len(b) \in Nat /\ Len(p) \in Nat
    BY DEF UpTo
  <1>2. PICK t : /\ t = Tail(p) /\ Len(t) = Len(p) - 1
                 /\ \A i \in 1..Len(t) : i + 1 \in 1..Len(p) /\ t[i] = p[i + 1]
    BY <1>1, TailIndex
  <1>3. Head(p) \in Msg /\ Head(p) = p[1] /\ 1 \in 1..Len(p)
    BY <1>1, TailIndex
  <1> DEFINE a == Append(b, Head(p))
  <1>4. /\ Len(a) = Len(b) + 1
        /\ \A i \in 1..Len(b) : a[i] = b[i]
        /\ a[Len(b) + 1] = p[1]
    BY <1>1, <1>3, AppendIndex
  <1> HIDE DEF a
  <1>5. \A i \in 1..Len(a) : i \in 1..Len(b) \/ i = Len(b) + 1
    BY <1>1, <1>4
  <1>6. \A i \in 1..Len(t) : 1 < i + 1
    OBVIOUS
  <1>7. \A i, j \in 1..Len(a) : i < j => a[i].id < a[j].id
    BY <1>1, <1>3, <1>4, <1>5 DEF Ordered
  <1>8. \A i, j \in 1..Len(t) : i < j => t[i].id < t[j].id
    BY <1>1, <1>2 DEF Ordered
  <1>9. \A i \in 1..Len(h), j \in 1..Len(a) : h[i] < a[j].id
    BY <1>3, <1>4, <1>5 DEF Ordered
  <1>10. \A i \in 1..Len(h), j \in 1..Len(t) : h[i] < t[j].id
    BY <1>2 DEF Ordered
  <1>11. \A i \in 1..Len(a), j \in 1..Len(t) : a[i].id < t[j].id
    BY <1>2, <1>3, <1>4, <1>5, <1>6 DEF Ordered
  <1> QED
    BY <1>2, <1>7, <1>8, <1>9, <1>10, <1>11 DEF Ordered, a

LEMMA OrderHanded ==
    ASSUME NEW h, NEW b, NEW p, NEW n, UpTo(h, b, p, n), Ordered(h, b, p)
    PROVE  Ordered(h \o IdSeq(b), <<>>, p)
  <1>1. h \in Seq(1..n) /\ Len(h) \in Nat /\ b \in Seq(Msg) /\ Len(b) \in Nat /\ n \in Nat
    BY DEF UpTo
  <1>2. /\ IdSeq(b) \in Seq(1..n) /\ Len(IdSeq(b)) = Len(b)
        /\ \A i \in 1..Len(b) : IdSeq(b)[i] = b[i].id
    BY <1>1, IdSeqType DEF UpTo
  <1> DEFINE g == h \o IdSeq(b)
  <1>3. \A i \in 1..Len(g) :
            \/ i \in 1..Len(h) /\ g[i] = h[i]
            \/ i - Len(h) \in 1..Len(b) /\ g[i] = b[i - Len(h)].id
    <2>1. \A i \in 1..Len(h) : g[i] = h[i]
      BY <1>1, <1>2, ConcatIndex
    <2>2. \A i \in 1..Len(g) :
             i \in 1..Len(h) \/ (i - Len(h) \in 1..Len(b) /\ g[i] = IdSeq(b)[i - Len(h)])
      BY <1>1, <1>2, ConcatIndex
    <2> QED
      BY <1>2, <2>1, <2>2
  <1>4. Len(g) \in Nat
    BY <1>1, <1>2, ConcatIndex
  <1> HIDE DEF g
  <1>5. ASSUME NEW i \in 1..Len(g), NEW j \in 1..Len(g), i < j PROVE g[i] < g[j]
    <2>1. CASE i \in 1..Len(h) /\ g[i] = h[i]
      BY <1>3, <1>5, <2>1 DEF Ordered
    <2>2. CASE i - Len(h) \in 1..Len(b) /\ g[i] = b[i - Len(h)].id
      <3>1. j \notin 1..Len(h) /\ i - Len(h) < j - Len(h)
        BY <1>1, <1>4, <1>5, <2>2
      <3>2. j - Len(h) \in 1..Len(b) /\ g[j] = b[j - Len(h)].id
        BY <1>3, <3>1
      <3> QED
        BY <2>2, <3>1, <3>2 DEF Ordered
    <2> QED
      BY <1>3, <2>1, <2>2
  <1>6. \A i \in 1..Len(g), j \in 1..Len(p) : g[i] < p[j].id
    BY <1>3 DEF Ordered
  <1>7. Len(<<>>) = 0
    OBVIOUS
  <1> QED
    BY <1>5, <1>6, <1>7 DEF Ordered, g

LEMMA OrderDropped ==
    ASSUME NEW h, NEW b, NEW p, Ordered(h, b, p)
    PROVE  Ordered(h, b, <<>>) /\ Ordered(h, <<>>, <<>>)
  BY DEF Ordered

LEMMA OrderRefused ==
    ASSUME NEW h, NEW b, NEW p \in Seq(Msg), Ordered(h, b, p), p # <<>>
    PROVE  Ordered(h, b, Tail(p))
  <1>1. PICK t : /\ t = Tail(p) /\ Len(t) = Len(p) - 1
                 /\ \A i \in 1..Len(t) : i + 1 \in 1..Len(p) /\ t[i] = p[i + 1]
    BY TailIndex
  <1>2. Len(p) \in Nat
    OBVIOUS
  <1>3. \A i, j \in 1..Len(t) : i < j => t[i].id < t[j].id
    BY <1>1, <1>2 DEF Ordered
  <1> QED
    BY <1>1, <1>3 DEF Ordered

OrderInv == \A m \in Mods : Ordered(handed[m], batch[m], pipe[m])

(* The invariant is InOrder, stated without the concatenation.              *)
LEMMA OrderLine == TypeInv /\ OrderInv => InOrder
  <1> SUFFICES ASSUME TypeInv, OrderInv, NEW m \in Mods
               PROVE  LET line == handed[m] \o IdSeq(batch[m] \o pipe[m])
                      IN  \A i, j \in DOMAIN line : i < j => line[i] < line[j]
    BY DEF InOrder, IdSeq
  <1>1. /\ handed[m] \in Seq(1..sent) /\ batch[m] \in Seq(Msg) /\ pipe[m] \in Seq(Msg)
        /\ sent \in Nat
        /\ \A i \in 1..Len(batch[m]) : batch[m][i].id \in 1..sent
        /\ \A i \in 1..Len(pipe[m]) : pipe[m][i].id \in 1..sent
    BY DEF TypeInv, SentType, RestType, IdsSent
  <1>2. PICK h, b, p : h = handed[m] /\ b = batch[m] /\ p = pipe[m]
    OBVIOUS
  <1>3. PICK n : n = sent
    OBVIOUS
  <1>4. Ordered(h, b, p)
    BY <1>2 DEF OrderInv
  <1>5. UpTo(h, b, p, n)
    BY <1>1, <1>2, <1>3 DEF UpTo
  <1> DEFINE q == b \o p
  <1>6. /\ q \in Seq(Msg)
        /\ \A i \in 1..Len(q) :
             \/ i \in 1..Len(b) /\ q[i] = b[i]
             \/ i - Len(b) \in 1..Len(p) /\ q[i] = p[i - Len(b)]
    BY <1>5, ConcatIndex DEF UpTo
  <1> HIDE DEF q
  <1>7. n \in Nat /\ Len(b) \in Nat /\ Len(p) \in Nat /\ Len(h) \in Nat /\ Len(q) \in Nat
    BY <1>5, <1>6 DEF UpTo
  <1>8. \A i \in 1..Len(q) : q[i].id \in 1..n
    BY <1>5, <1>6 DEF UpTo
  <1>9. ASSUME NEW i \in 1..Len(q), NEW j \in 1..Len(q), i < j PROVE q[i].id < q[j].id
    <2>1. CASE i \in 1..Len(b) /\ q[i] = b[i]
      BY <1>4, <1>6, <1>9, <2>1 DEF Ordered
    <2>2. CASE i - Len(b) \in 1..Len(p) /\ q[i] = p[i - Len(b)]
      <3>1. j \notin 1..Len(b) /\ i - Len(b) < j - Len(b)
        BY <1>7, <1>9, <2>2
      <3>2. j - Len(b) \in 1..Len(p) /\ q[j] = p[j - Len(b)]
        BY <1>6, <3>1
      <3> QED
        BY <1>4, <2>2, <3>1, <3>2 DEF Ordered
    <2> QED
      BY <1>6, <2>1, <2>2
  <1>10. \A i \in 1..Len(h), j \in 1..Len(q) : h[i] < q[j].id
    BY <1>4, <1>6 DEF Ordered
  <1> DEFINE e == <<>>
  <1>11. Len(e) = 0 /\ e \in Seq(Msg)
    OBVIOUS
  <1> HIDE DEF e
  <1>12. Ordered(h, q, e)
    BY <1>4, <1>9, <1>10, <1>11 DEF Ordered
  <1>13. UpTo(h, q, e, n)
    BY <1>5, <1>6, <1>8, <1>11 DEF UpTo
  <1>14. Ordered(h \o IdSeq(q), <<>>, e)
    BY <1>12, <1>13, OrderHanded
  <1>15. h \o IdSeq(q) \in Seq(1..n)
    BY <1>5, <1>6, <1>7, <1>8, IdSeqType, ConcatIndex DEF UpTo
  <1>16. DOMAIN (h \o IdSeq(q)) = 1..Len(h \o IdSeq(q))
    BY <1>15
  <1> QED
    BY <1>2, <1>14, <1>16 DEF Ordered, q

-----------------------------------------------------------------------------
(***************************************************************************)
(* The steps that move messages.  Stopping a module empties its pipe and its *)
(* batch, then sends.                                                        *)
(***************************************************************************)
Forgets(m) ==
    /\ batch' = [batch EXCEPT ![m] = <<>>]
    /\ dropped' = [dropped EXCEPT ![m] = @ \cup Ids(pipe[m]) \cup Ids(batch[m])]
    /\ Sends([pipe EXCEPT ![m] = <<>>])
    /\ UNCHANGED <<handed, flushed, refused>>

(* An elapsed timer hands the batch over.                                   *)
Hands(m) ==
    /\ HandBatch(m, batch[m], "timer")
    /\ UNCHANGED <<pipe, sent, told, flushed, dropped, refused>>

OnlySends == Sends(pipe) /\ UNCHANGED <<batch, handed, flushed, dropped, refused>>

LEMMA MessageSteps ==
    ASSUME TypeInv, [Next]_vars
    PROVE  \/ Still \/ OnlySends
           \/ \E m \in Mods : Recv(m) \/ Refuse(m) \/ Hands(m) \/ flush_pubsub_msgs(m) \/ Forgets(m)
  <1> USE DEF Still, OnlySends, histVars
  <1>0. TypeOK
    BY TypeParts
  <1>a. pipe \in [Mods -> Seq(Msg)]
    BY <1>0 DEF TypeOK
  <1>1. CASE CallbackReturns
    BY <1>1 DEF CallbackReturns
  <1>2. CASE loop_stop
    BY <1>2, <1>0, <1>a, PublishSends DEF loop_stop
  <1>3. CASE LoopStopped
    BY <1>3 DEF LoopStopped
  <1>4. CASE \E m \in Mods : Recv(m) \/ Refuse(m) \/ flush_pubsub_msgs(m)
    BY <1>4
  <1>20. CASE PollWait
    BY <1>20 DEF PollWait
  <1>21. ASSUME NEW m \in Mods, NEW kind \in TimerKind, BatchTimer(m, kind)
         PROVE  Hands(m) \/ Still
    BY <1>21 DEF BatchTimer, Hands
  <1>5. ASSUME NEW m \in Mods, m_mod_ps_tell(m) PROVE OnlySends
    BY <1>5, <1>0, DirectSends DEF m_mod_ps_tell
  <1>6. ASSUME NEW m \in Mods, m_mod_ps_poisonpill(m) PROVE OnlySends
    BY <1>6, <1>0, DirectSends DEF m_mod_ps_poisonpill
  <1>7. ASSUME NEW m \in Mods, NEW o \in Offers, m_mod_ps_subscribe(m, o[1], o[2], o[3])
        PROVE  Still
    BY <1>7 DEF m_mod_ps_subscribe
  <1>8. ASSUME NEW m \in Mods, NEW pat \in Patterns, m_mod_ps_unsubscribe(m, pat) PROVE Still
    BY <1>8 DEF m_mod_ps_unsubscribe
  <1>9. ASSUME NEW m \in Mods, NEW n \in Sizes, m_mod_set_batch_size(m, n) \/ m_mod_unstash(m, n)
        PROVE  Still
    BY <1>9 DEF m_mod_set_batch_size, m_mod_unstash
  <1>10. ASSUME NEW m \in Mods, NEW b \in BOOLEAN, m_mod_set_batch_timeout(m, b) PROVE Still
    BY <1>10 DEF m_mod_set_batch_timeout
  <1>11. ASSUME NEW m \in Mods, NEW b \in BOOLEAN, start(m, b) PROVE OnlySends
    BY <1>11, <1>0, <1>a, PublishSends DEF start
  <1>12. ASSUME NEW m \in Mods, m_mod_pause(m) PROVE OnlySends
    BY <1>12, <1>0, <1>a, PublishSends DEF m_mod_pause
  <1>13. ASSUME NEW m \in Mods, m_mod_stop(m) PROVE Forgets(m)
    <2> DEFINE pipes == [pipe EXCEPT ![m] = <<>>]
    <2>1. pipes \in [Mods -> Seq(Msg)]
      BY <1>a
    <2>2. Publish(mstate', pipes, "sys")
      BY <1>13 DEF m_mod_stop
    <2> HIDE DEF pipes
    <2>3. Sends(pipes)
      BY <2>1, <2>2, <1>0, PublishSends
    <2> QED
      BY <1>13, <2>3 DEF m_mod_stop, reset_module, Forgets, pipes
  <1>14. ASSUME NEW topic \in Topics \cup {NoTopic}, m_mod_ps_publish(topic) PROVE OnlySends
    <2>1. Sends(pipe)
      <3>1. CASE TellPubsubMsg(mstate, pipe, NoTopic, [m \in Mods |-> NoSub], Mods)
        BY <3>1, <1>0, DirectSends
      <3>2. CASE Publish(mstate, pipe, topic)
        BY <3>2, <1>0, <1>a, PublishSends
      <3> QED
        BY <1>14, <3>1, <3>2 DEF m_mod_ps_publish
    <2> QED
      BY <1>14, <2>1 DEF m_mod_ps_publish
  <1>15. ASSUME callbacks # <<>>, NEW evt \in Range(callbacks[1].evts), m_mod_stash(evt)
         PROVE  Still
    BY <1>15 DEF m_mod_stash
  <1>16. CASE process_tick
    BY <1>16, <1>0, <1>a, PublishSends DEF process_tick
  <1>17. CASE m_ctx_quit
    BY <1>17 DEF m_ctx_quit
  <1>18. CASE loop_start
    BY <1>18, <1>0, <1>a, PublishSends DEF loop_start
  <1>19. CASE UNCHANGED vars
    BY <1>19 DEF vars
  <1> HIDE DEF Still, OnlySends
  <1> QED
    BY <1>1, <1>2, <1>3, <1>4, <1>5, <1>6, <1>7, <1>8, <1>9, <1>10, <1>11, <1>12, <1>13,
       <1>14, <1>15, <1>16, <1>17, <1>18, <1>19, <1>20, <1>21
    DEF Next, LibraryStep, UserCall

(* What a module sees of a message sent to some modules.                    *)
LEMMA SendsEffect ==
    ASSUME TypeInv, NEW pipes \in [Mods -> Seq(Msg)], Sends(pipes), NEW m \in Mods
    PROVE  \/ pipe'[m] = pipes[m] /\ told'[m] = told[m]
           \/ \E c \in Msg : /\ c.id = sent + 1 /\ sent' = sent + 1
                             /\ pipe'[m] = Append(pipes[m], c)
                             /\ told'[m] = told[m] \cup {sent + 1}
  <1>1. PICK W, subOf : Copies(W, subOf, pipes)
    BY DEF Sends
  <1>2. CASE m \notin W
    BY <1>1, <1>2 DEF Copies
  <1>3. CASE m \in W
    <2> DEFINE c == [id |-> sent + 1, sub |-> subOf[m]]
    <2>1. subOf[m] \in Sub \cup {NoSub}
      BY <1>1, <1>3 DEF Copies, TypeInv, RestType
    <2>2. sent + 1 \in Nat
      BY DEF TypeInv, SentType
    <2>3. c \in Msg /\ c.id = sent + 1
      BY <2>1, <2>2 DEF Msg
    <2>4. sent' = sent + 1 /\ pipe'[m] = Append(pipes[m], c) /\ told'[m] = told[m] \cup {sent + 1}
      BY <1>1, <1>3 DEF Copies
    <2> HIDE DEF c
    <2> QED
      BY <2>3, <2>4
  <1> QED
    BY <1>2, <1>3

LEMMA ModuleUpTo ==
    ASSUME TypeInv, NEW m \in Mods
    PROVE  UpTo(handed[m], batch[m], pipe[m], sent)
  BY DEF TypeInv, SentType, RestType, IdsSent, UpTo

LEMMA OrderStep == TypeInv /\ OrderInv /\ [Next]_vars => OrderInv'
  <1> SUFFICES ASSUME TypeInv, OrderInv, [Next]_vars, NEW q \in Mods
               PROVE  Ordered(handed'[q], batch'[q], pipe'[q])
    BY DEF OrderInv
  <1>0. /\ Ordered(handed[q], batch[q], pipe[q])
        /\ UpTo(handed[q], batch[q], pipe[q], sent)
    BY ModuleUpTo DEF OrderInv
  <1>a. /\ pipe \in [Mods -> Seq(Msg)] /\ batch \in [Mods -> Seq(Msg)] /\ DOMAIN handed = Mods
        /\ sent \in Nat
    BY DEF TypeInv, SentType, RestType
  <1>1. CASE Still
    BY <1>0, <1>1 DEF Still
  <1>2. CASE OnlySends
    <2>1. handed'[q] = handed[q] /\ batch'[q] = batch[q]
      BY <1>2 DEF OnlySends
    <2>2. CASE pipe'[q] = pipe[q]
      BY <1>0, <2>1, <2>2
    <2>3. CASE \E c \in Msg : c.id = sent + 1 /\ pipe'[q] = Append(pipe[q], c)
      BY <1>0, <2>1, <2>3, OrderSent
    <2>4. Sends(pipe)
      BY <1>2 DEF OnlySends
    <2>5. \/ pipe'[q] = pipe[q] /\ told'[q] = told[q]
          \/ \E c \in Msg : /\ c.id = sent + 1 /\ sent' = sent + 1
                            /\ pipe'[q] = Append(pipe[q], c)
                            /\ told'[q] = told[q] \cup {sent + 1}
      BY <1>a, <2>4, SendsEffect
    <2> QED
      BY <2>2, <2>3, <2>5
  <1>3. ASSUME NEW m \in Mods, Recv(m) PROVE Ordered(handed'[q], batch'[q], pipe'[q])
    <2>1. CASE q # m
      BY <1>3, <1>0, <1>a, <2>1 DEF Recv, push_evt, HandBatch
    <2>2. CASE q = m
      <3> DEFINE evts == Append(batch[m], Head(pipe[m]))
      <3>1. pipe[m] # <<>> /\ pipe'[m] = Tail(pipe[m])
        BY <1>3, <1>a DEF Recv
      <3>2. Ordered(handed[m], evts, Tail(pipe[m]))
        BY <1>0, <2>2, <3>1, OrderBatched
      <3>3. UpTo(handed[m], evts, Tail(pipe[m]), sent)
        <4>1. batch[m] \in Seq(Msg) /\ pipe[m] \in Seq(Msg) /\ Len(batch[m]) \in Nat
          BY <1>a
        <4>2. /\ Head(pipe[m]) \in Msg /\ Tail(pipe[m]) \in Seq(Msg)
              /\ Head(pipe[m]).id \in 1..sent
              /\ \A i \in 1..Len(Tail(pipe[m])) : Tail(pipe[m])[i].id \in 1..sent
          BY <4>1, <3>1, <1>0, <2>2, TailIndex DEF UpTo
        <4>3. evts \in Seq(Msg)
          BY <4>1, <4>2, AppendIndex
        <4>4. \A i \in 1..Len(evts) : i \in 1..Len(batch[m]) \/ i = Len(batch[m]) + 1
          BY <4>1, <4>2, AppendIndex
        <4>5. \A i \in 1..Len(evts) : evts[i].id \in 1..sent
          BY <4>1, <4>2, <4>4, <1>0, <2>2, AppendIndex DEF UpTo
        <4> HIDE DEF evts
        <4> QED
          BY <4>2, <4>3, <4>5, <1>0, <2>2 DEF UpTo
      <3>4. push_evt(m, Head(pipe[m]))
        BY <1>3 DEF Recv
      <3>5. CASE HandBatch(m, evts, "recv")
        <4>1. batch'[m] = <<>> /\ handed'[m] = handed[m] \o IdSeq(evts)
          BY <3>5, <1>a DEF HandBatch, IdSeq
        <4> HIDE DEF evts
        <4> QED
          BY <4>1, <2>2, <3>1, <3>2, <3>3, OrderHanded
      <3>6. CASE batch' = [batch EXCEPT ![m] = evts] /\ UNCHANGED <<callbacks, handed>>
        BY <3>6, <1>a, <2>2, <3>1, <3>2
      <3> QED
        BY <3>4, <3>5, <3>6 DEF push_evt
    <2> QED
      BY <2>1, <2>2
  <1>7. ASSUME NEW m \in Mods, Refuse(m) PROVE Ordered(handed'[q], batch'[q], pipe'[q])
    <2>1. /\ pipe[m] # <<>> /\ pipe' = [pipe EXCEPT ![m] = Tail(pipe[m])]
          /\ UNCHANGED <<batch, handed>>
      BY <1>7 DEF Refuse
    <2>2. CASE q # m
      BY <1>0, <1>a, <2>1, <2>2
    <2>3. CASE q = m
      <3>1. pipe'[q] = Tail(pipe[q]) /\ pipe[q] \in Seq(Msg)
        BY <1>a, <2>1, <2>3
      <3> QED
        BY <1>0, <2>1, <2>3, <3>1, OrderRefused
    <2> QED
      BY <2>2, <2>3
  <1>4. ASSUME NEW m \in Mods, Hands(m) PROVE Ordered(handed'[q], batch'[q], pipe'[q])
    <2>1. pipe'[q] = pipe[q]
      BY <1>4 DEF Hands
    <2>2. CASE q # m
      BY <1>4, <1>0, <1>a, <2>1, <2>2 DEF Hands, HandBatch
    <2>3. CASE q = m
      <3>1. batch'[q] = <<>> /\ handed'[q] = handed[q] \o IdSeq(batch[q])
        BY <1>4, <1>a, <2>3 DEF Hands, HandBatch, IdSeq
      <3> QED
        BY <3>1, <2>1, <1>0, OrderHanded
    <2> QED
      BY <2>2, <2>3
  <1>5. ASSUME NEW m \in Mods, flush_pubsub_msgs(m)
        PROVE  Ordered(handed'[q], batch'[q], pipe'[q])
    BY <1>5, <1>0, <1>a, OrderDropped DEF flush_pubsub_msgs
  <1>6. ASSUME NEW m \in Mods, Forgets(m) PROVE Ordered(handed'[q], batch'[q], pipe'[q])
    <2> DEFINE pipes == [pipe EXCEPT ![m] = <<>>]
    <2>1. Sends(pipes) /\ handed'[q] = handed[q] /\ batch' = [batch EXCEPT ![m] = <<>>]
      BY <1>6 DEF Forgets
    <2>2. pipes \in [Mods -> Seq(Msg)] /\ <<>> \in Seq(Msg) /\ Len(<<>>) = 0
      BY <1>a
    <2>3. Ordered(handed'[q], batch'[q], pipes[q])
      BY <1>0, <1>a, <2>1, OrderDropped
    <2>4. UpTo(handed'[q], batch'[q], pipes[q], sent)
      BY <1>0, <1>a, <2>1, <2>2 DEF UpTo
    <2> HIDE DEF pipes
    <2>5. CASE pipe'[q] = pipes[q]
      BY <2>3, <2>5
    <2>6. CASE \E c \in Msg : c.id = sent + 1 /\ pipe'[q] = Append(pipes[q], c)
      BY <2>3, <2>4, <2>6, OrderSent
    <2> QED
      BY <2>1, <2>2, <2>5, <2>6, SendsEffect
  <1> QED
    BY <1>1, <1>2, <1>3, <1>4, <1>5, <1>6, <1>7, MessageSteps

LEMMA OrderInit == Init => OrderInv
  BY DEF Init, OrderInv, Ordered

(* A module gets its messages in the order in which they were sent, for any   *)
(* number of modules and messages (tell_if's write, process_ps's read,        *)
(* push_evt's queue, the batch timer, flush_pubsub_msgs and stop).            *)
THEOREM MessagesInOrder == Spec => []InOrder
  <1>1. TypeInv /\ OrderInv /\ [Next]_vars => (TypeInv /\ OrderInv)'
    BY TypeStep, OrderStep
  <1>2. Spec => [](TypeInv /\ OrderInv)
    BY <1>1, TypeInit, OrderInit, PTL DEF Spec
  <1> QED
    BY <1>2, OrderLine, PTL

-----------------------------------------------------------------------------
(***************************************************************************)
(* Conservation.  The six places a message can be in share no message and   *)
(* together hold all that the module was told.                               *)
(***************************************************************************)
Places(P, B, H, F, D, R, T) ==
    /\ T \subseteq P \cup B \cup H \cup F \cup D \cup R
    /\ P \cap B = {} /\ P \cap H = {} /\ P \cap F = {} /\ P \cap D = {}
    /\ B \cap H = {} /\ B \cap F = {} /\ B \cap D = {}
    /\ H \cap F = {} /\ H \cap D = {}
    /\ F \cap D = {}
    /\ R \cap P = {} /\ R \cap B = {} /\ R \cap H = {} /\ R \cap F = {} /\ R \cap D = {}

PlacesOf(m) == Places(Ids(pipe[m]), Ids(batch[m]), Range(handed[m]), flushed[m], dropped[m],
                      refused[m], told[m])
PlacesInv == \A m \in Mods : PlacesOf(m)

LEMMA NoIds == Ids(<<>>) = {}
  BY DEF Ids

LEMMA AppendIds ==
    ASSUME NEW s \in Seq(Msg), NEW c \in Msg
    PROVE  Ids(Append(s, c)) = Ids(s) \cup {c.id}
  <1> DEFINE a == Append(s, c)
  <1>1. /\ \A i \in 1..Len(a) : i \in 1..Len(s) \/ i = Len(s) + 1
        /\ \A i \in 1..Len(s) : i \in 1..Len(a) /\ a[i] = s[i]
        /\ Len(s) + 1 \in 1..Len(a) /\ a[Len(s) + 1] = c
    BY AppendIndex
  <1> HIDE DEF a
  <1>2. Ids(a) = Ids(s) \cup {c.id}
    BY <1>1 DEF Ids
  <1> QED
    BY <1>2 DEF a

(* Taking the first message of an ordered pipe takes its identifier.        *)
LEMMA TailIds ==
    ASSUME NEW s \in Seq(Msg), s # <<>>,
           \A i, j \in 1..Len(s) : i < j => s[i].id < s[j].id
    PROVE  Ids(Tail(s)) = Ids(s) \ {Head(s).id} /\ Head(s).id \in Ids(s)
  <1> DEFINE t == Tail(s)
  <1>1. /\ Len(t) = Len(s) - 1 /\ Len(s) \in Nat /\ 1 \in 1..Len(s) /\ Head(s) = s[1]
        /\ \A i \in 1..Len(t) : i + 1 \in 1..Len(s) /\ t[i] = s[i + 1]
    BY TailIndex
  <1> HIDE DEF t
  <1>2. \A i \in 1..Len(s) : i = 1 \/ (i - 1 \in 1..Len(t) /\ t[i - 1] = s[i])
    BY <1>1
  <1>3. \A i \in 1..Len(s) : s[i].id \in Nat
    <2>1. \A i \in 1..Len(s) : s[i] \in Msg
      OBVIOUS
    <2> QED
      BY <2>1 DEF Msg
  <1>4. \A i \in 1..Len(s) : i # 1 => s[1].id < s[i].id
    BY <1>1
  <1>5. \A i \in 1..Len(s) : i # 1 => s[1].id # s[i].id
    BY <1>1, <1>3, <1>4
  <1>6. ASSUME NEW x \in Ids(t) PROVE x \in Ids(s) /\ x # s[1].id
    <2>1. PICK i \in 1..Len(t) : x = t[i].id
      BY <1>6 DEF Ids
    <2>2. i + 1 \in 1..Len(s) /\ i + 1 # 1 /\ x = s[i + 1].id
      BY <1>1, <2>1
    <2> QED
      BY <1>5, <2>2 DEF Ids
  <1>7. ASSUME NEW x \in Ids(s), x # s[1].id PROVE x \in Ids(t)
    BY <1>2, <1>7 DEF Ids
  <1>8. s[1].id \in Ids(s)
    BY <1>1 DEF Ids
  <1>9. Ids(t) = Ids(s) \ {s[1].id}
    BY <1>6, <1>7
  <1> QED
    BY <1>1, <1>8, <1>9 DEF t

LEMMA HandedIds ==
    ASSUME NEW n \in Nat, NEW h \in Seq(1..n), NEW s \in Seq(Msg),
           \A i \in 1..Len(s) : s[i].id \in 1..n
    PROVE  Range(h \o IdSeq(s)) = Range(h) \cup Ids(s)
  <1> DEFINE g == h \o IdSeq(s)
  <1>1. /\ IdSeq(s) \in Seq(1..n) /\ Len(IdSeq(s)) = Len(s)
        /\ \A i \in 1..Len(s) : IdSeq(s)[i] = s[i].id
    BY IdSeqType
  <1>2. /\ g \in Seq(1..n)
        /\ \A i \in 1..Len(h) : i \in 1..Len(g) /\ g[i] = h[i]
        /\ \A i \in 1..Len(s) : Len(h) + i \in 1..Len(g) /\ g[Len(h) + i] = s[i].id
        /\ \A i \in 1..Len(g) :
             i \in 1..Len(h) \/ (i - Len(h) \in 1..Len(s) /\ g[i] = s[i - Len(h)].id)
    <2>1. g \in Seq(1..n)
      BY <1>1, ConcatIndex
    <2>2. \A i \in 1..Len(h) : i \in 1..Len(g) /\ g[i] = h[i]
      BY <1>1, ConcatIndex
    <2>3. \A i \in 1..Len(s) : Len(h) + i \in 1..Len(g) /\ g[Len(h) + i] = IdSeq(s)[i]
      BY <1>1, ConcatIndex
    <2>4. \A i \in 1..Len(g) :
             i \in 1..Len(h) \/ (i - Len(h) \in 1..Len(s) /\ g[i] = IdSeq(s)[i - Len(h)])
      BY <1>1, ConcatIndex
    <2> HIDE DEF g
    <2> QED
      BY <1>1, <2>1, <2>2, <2>3, <2>4
  <1>3. /\ \A x : x \in Range(g) <=> \E i \in 1..Len(g) : g[i] = x
        /\ \A x : x \in Range(h) <=> \E i \in 1..Len(h) : h[i] = x
    BY <1>2, RangeIndex
  <1> HIDE DEF g
  <1>4. ASSUME NEW x \in Range(g) PROVE x \in Range(h) \cup Ids(s)
    <2>1. PICK i \in 1..Len(g) : g[i] = x
      BY <1>3, <1>4
    <2>2. CASE i \in 1..Len(h)
      BY <1>2, <1>3, <2>1, <2>2
    <2>3. CASE i - Len(h) \in 1..Len(s) /\ g[i] = s[i - Len(h)].id
      BY <2>1, <2>3 DEF Ids
    <2> QED
      BY <1>2, <2>1, <2>2, <2>3
  <1>5. ASSUME NEW x \in Range(h) \cup Ids(s) PROVE x \in Range(g)
    <2>1. CASE x \in Range(h)
      BY <1>2, <1>3, <2>1
    <2>2. CASE x \in Ids(s)
      <3>1. PICK i \in 1..Len(s) : s[i].id = x
        BY <2>2 DEF Ids
      <3> QED
        BY <1>2, <1>3, <3>1
    <2> QED
      BY <1>5, <2>1, <2>2
  <1>6. Range(g) = Range(h) \cup Ids(s)
    BY <1>4, <1>5
  <1> QED
    BY <1>6 DEF g

(* A message that has just been sent is in no place yet.                    *)
LEMMA PlacesSent ==
    ASSUME NEW P, NEW B, NEW H, NEW F, NEW D, NEW R, NEW T, Places(P, B, H, F, D, R, T), NEW x,
           x \notin P \cup B \cup H \cup F \cup D \cup R
    PROVE  Places(P \cup {x}, B, H, F, D, R, T \cup {x})
  BY DEF Places

LEMMA PlacesBatched ==
    ASSUME NEW P, NEW B, NEW H, NEW F, NEW D, NEW R, NEW T, Places(P, B, H, F, D, R, T), NEW x \in P
    PROVE  /\ Places(P \ {x}, B \cup {x}, H, F, D, R, T)
           /\ Places(P \ {x}, B, H, F, D, R \cup {x}, T)
  BY DEF Places

LEMMA PlacesHanded ==
    ASSUME NEW P, NEW B, NEW H, NEW F, NEW D, NEW R, NEW T, Places(P, B, H, F, D, R, T)
    PROVE  Places(P, {}, H \cup B, F, D, R, T)
  BY DEF Places

LEMMA PlacesFlushed ==
    ASSUME NEW P, NEW B, NEW H, NEW F, NEW D, NEW R, NEW T, Places(P, B, H, F, D, R, T)
    PROVE  /\ Places({}, B, H, F \cup P, D, R, T)
           /\ Places({}, B, H, F, D \cup P, R, T)
           /\ Places({}, {}, H, F, D \cup P \cup B, R, T)
  BY DEF Places

(* A message told is in one place and one only: this is Conserved.          *)
LEMMA PlacesConserved == PlacesInv => Conserved
  <1> SUFFICES ASSUME PlacesInv, NEW m \in Mods, NEW id \in told[m]
               PROVE  LET places == <<id \in Ids(pipe[m]), id \in Ids(batch[m]),
                                      id \in Range(handed[m]), id \in flushed[m],
                                      id \in dropped[m], id \in refused[m]>>
                      IN  Cardinality({i \in DOMAIN places : places[i]}) = 1
    BY DEF Conserved
  <1> DEFINE p1 == id \in Ids(pipe[m])
             p2 == id \in Ids(batch[m])
             p3 == id \in Range(handed[m])
             p4 == id \in flushed[m]
             p5 == id \in dropped[m]
             p6 == id \in refused[m]
             places == <<p1, p2, p3, p4, p5, p6>>
             S == {i \in DOMAIN places : places[i]}
  <1>1. /\ p1 \/ p2 \/ p3 \/ p4 \/ p5 \/ p6
        /\ ~(p1 /\ p2) /\ ~(p1 /\ p3) /\ ~(p1 /\ p4) /\ ~(p1 /\ p5)
        /\ ~(p2 /\ p3) /\ ~(p2 /\ p4) /\ ~(p2 /\ p5)
        /\ ~(p3 /\ p4) /\ ~(p3 /\ p5)
        /\ ~(p4 /\ p5)
        /\ ~(p6 /\ p1) /\ ~(p6 /\ p2) /\ ~(p6 /\ p3) /\ ~(p6 /\ p4) /\ ~(p6 /\ p5)
    BY DEF PlacesInv, PlacesOf, Places
  <1> HIDE DEF p1, p2, p3, p4, p5, p6
  <1>2. DOMAIN places = 1..6
    OBVIOUS
  <1>3. /\ places[1] = p1 /\ places[2] = p2 /\ places[3] = p3 /\ places[4] = p4
        /\ places[5] = p5 /\ places[6] = p6
    OBVIOUS
  <1>4. \E k \in 1..6 : places[k] /\ \A i \in 1..6 : places[i] => i = k
    BY <1>1, <1>3
  <1> HIDE DEF places
  <1>5. \E k : S = {k}
    BY <1>2, <1>4
  <1>6. Cardinality(S) = 1
    BY <1>5, FS_Singleton
  <1> QED
    BY <1>6 DEF S, places, p1, p2, p3, p4, p5, p6

LEMMA PlacesStep == TypeInv /\ OrderInv /\ PlacesInv /\ [Next]_vars => PlacesInv'
  <1> SUFFICES ASSUME TypeInv, OrderInv, PlacesInv, [Next]_vars, NEW q \in Mods
               PROVE  PlacesOf(q)'
    BY DEF PlacesInv
  <1>0. PlacesOf(q)
    BY DEF PlacesInv
  <1>a. /\ pipe \in [Mods -> Seq(Msg)] /\ batch \in [Mods -> Seq(Msg)] /\ DOMAIN handed = Mods
        /\ DOMAIN flushed = Mods /\ DOMAIN dropped = Mods /\ DOMAIN refused = Mods /\ sent \in Nat
        /\ flushed[q] \subseteq 1..sent /\ dropped[q] \subseteq 1..sent
        /\ refused[q] \subseteq 1..sent
    BY DEF TypeInv, SentType, RestType
  <1>b. UpTo(handed[q], batch[q], pipe[q], sent) /\ Ordered(handed[q], batch[q], pipe[q])
    BY ModuleUpTo DEF OrderInv
  <1>c. /\ Ids(pipe[q]) \subseteq 1..sent /\ Ids(batch[q]) \subseteq 1..sent
        /\ Range(handed[q]) \subseteq 1..sent
    <2>1. \A x : x \in Range(handed[q]) <=> \E i \in 1..Len(handed[q]) : handed[q][i] = x
      BY <1>b, RangeIndex DEF UpTo
    <2>2. Range(handed[q]) \subseteq 1..sent
      BY <1>b, <2>1 DEF UpTo
    <2> QED
      BY <1>b, <2>2, IdsType DEF UpTo
  <1>d. sent + 1 \notin 1..sent
    BY <1>a
  <1>1. CASE Still
    BY <1>0, <1>1 DEF Still, PlacesOf
  <1>2. CASE OnlySends
    <2>1. /\ batch'[q] = batch[q] /\ handed'[q] = handed[q] /\ flushed'[q] = flushed[q]
          /\ dropped'[q] = dropped[q] /\ refused'[q] = refused[q] /\ Sends(pipe)
      BY <1>2 DEF OnlySends
    <2>2. CASE pipe'[q] = pipe[q] /\ told'[q] = told[q]
      BY <1>0, <2>1, <2>2 DEF PlacesOf
    <2>3. ASSUME NEW c \in Msg, c.id = sent + 1, pipe'[q] = Append(pipe[q], c),
                 told'[q] = told[q] \cup {sent + 1}
          PROVE  PlacesOf(q)'
      <3>1. Ids(pipe'[q]) = Ids(pipe[q]) \cup {sent + 1}
        BY <1>a, <2>3, AppendIds
      <3>2. Places(Ids(pipe[q]) \cup {sent + 1}, Ids(batch[q]), Range(handed[q]), flushed[q],
                   dropped[q], refused[q], told[q] \cup {sent + 1})
        BY <1>0, <1>a, <1>c, <1>d, PlacesSent DEF PlacesOf
      <3> QED
        BY <2>1, <2>3, <3>1, <3>2 DEF PlacesOf
    <2>4. \/ pipe'[q] = pipe[q] /\ told'[q] = told[q]
          \/ \E c \in Msg : /\ c.id = sent + 1 /\ sent' = sent + 1
                            /\ pipe'[q] = Append(pipe[q], c)
                            /\ told'[q] = told[q] \cup {sent + 1}
      BY <1>a, <2>1, SendsEffect
    <2> QED
      BY <2>2, <2>3, <2>4
  <1>3. ASSUME NEW m \in Mods, Recv(m) PROVE PlacesOf(q)'
    <2>1. /\ pipe[m] # <<>> /\ pipe' = [pipe EXCEPT ![m] = Tail(pipe[m])]
          /\ push_evt(m, Head(pipe[m])) /\ UNCHANGED <<told, flushed, dropped, refused>>
      BY <1>3 DEF Recv
    <2>2. CASE q # m
      <3>1. pipe'[q] = pipe[q] /\ batch'[q] = batch[q] /\ handed'[q] = handed[q]
        BY <1>a, <2>1, <2>2 DEF push_evt, HandBatch
      <3> QED
        BY <1>0, <2>1, <3>1 DEF PlacesOf
    <2>3. CASE q = m
      <3> DEFINE x == Head(pipe[q]).id
                 evts == Append(batch[q], Head(pipe[q]))
      <3>1. pipe[q] \in Seq(Msg) /\ batch[q] \in Seq(Msg) /\ pipe[q] # <<>>
        BY <1>a, <2>1, <2>3
      <3>2. Head(pipe[q]) \in Msg
        BY <3>1, TailIndex
      <3>3. Ids(pipe'[q]) = Ids(pipe[q]) \ {x} /\ x \in Ids(pipe[q])
        <4>1. pipe'[q] = Tail(pipe[q])
          BY <1>a, <2>1, <2>3
        <4> QED
          BY <1>b, <3>1, <4>1, TailIds DEF Ordered
      <3>4. Ids(evts) = Ids(batch[q]) \cup {x} /\ evts \in Seq(Msg)
        BY <3>1, <3>2, AppendIds, AppendIndex
      <3>5. Places(Ids(pipe'[q]), Ids(evts), Range(handed[q]), flushed'[q], dropped'[q],
                   refused'[q], told'[q])
        <4> HIDE DEF x, evts
        <4>1. Places(Ids(pipe[q]) \ {x}, Ids(batch[q]) \cup {x}, Range(handed[q]), flushed[q],
                     dropped[q], refused[q], told[q])
          BY <1>0, <3>3, PlacesBatched DEF PlacesOf
        <4> QED
          BY <2>1, <3>3, <3>4, <4>1
      <3>6. CASE HandBatch(m, evts, "recv")
        <4>1. batch'[q] = <<>> /\ handed'[q] = handed[q] \o IdSeq(evts)
          BY <3>6, <1>a, <2>3 DEF HandBatch, IdSeq
        <4>2. \A i \in 1..Len(evts) : evts[i].id \in 1..sent
          <5>1. \A i \in 1..Len(evts) : evts[i].id \in Ids(evts)
            BY DEF Ids
          <5> HIDE DEF evts
          <5> QED
            BY <1>c, <3>3, <3>4, <5>1
        <4> HIDE DEF evts
        <4>3. Range(handed'[q]) = Range(handed[q]) \cup Ids(evts)
          BY <1>a, <1>b, <3>4, <4>1, <4>2, HandedIds DEF UpTo
        <4>4. Places(Ids(pipe'[q]), {}, Range(handed[q]) \cup Ids(evts), flushed'[q], dropped'[q],
                     refused'[q], told'[q])
          BY <3>5, PlacesHanded
        <4>5. Ids(batch'[q]) = {}
          BY <4>1, NoIds
        <4> QED
          BY <4>3, <4>4, <4>5 DEF PlacesOf
      <3>7. CASE batch' = [batch EXCEPT ![m] = evts] /\ UNCHANGED <<callbacks, handed>>
        <4>1. batch'[q] = evts /\ handed'[q] = handed[q]
          BY <1>a, <2>3, <3>7
        <4> QED
          BY <3>5, <4>1 DEF PlacesOf
      <3> QED
        BY <2>1, <2>3, <3>6, <3>7 DEF push_evt
    <2> QED
      BY <2>2, <2>3
  <1>7. ASSUME NEW m \in Mods, Refuse(m) PROVE PlacesOf(q)'
    <2>1. /\ pipe[m] # <<>> /\ pipe' = [pipe EXCEPT ![m] = Tail(pipe[m])]
          /\ refused' = [refused EXCEPT ![m] = @ \cup {Head(pipe[m]).id}]
          /\ UNCHANGED <<batch, told, handed, flushed, dropped>>
      BY <1>7 DEF Refuse
    <2>2. CASE q # m
      <3>1. pipe'[q] = pipe[q] /\ refused'[q] = refused[q]
        BY <1>a, <2>1, <2>2
      <3> QED
        BY <1>0, <2>1, <3>1 DEF PlacesOf
    <2>3. CASE q = m
      <3> DEFINE x == Head(pipe[q]).id
      <3>1. pipe[q] \in Seq(Msg) /\ pipe[q] # <<>>
        BY <1>a, <2>1, <2>3
      <3>2. pipe'[q] = Tail(pipe[q]) /\ refused'[q] = refused[q] \cup {x}
        BY <1>a, <2>1, <2>3
      <3>3. Ids(pipe'[q]) = Ids(pipe[q]) \ {x} /\ x \in Ids(pipe[q])
        BY <1>b, <3>1, <3>2, TailIds DEF Ordered
      <3> HIDE DEF x
      <3>4. Places(Ids(pipe[q]) \ {x}, Ids(batch[q]), Range(handed[q]), flushed[q], dropped[q],
                   refused[q] \cup {x}, told[q])
        BY <1>0, <3>3, PlacesBatched DEF PlacesOf
      <3> QED
        BY <2>1, <3>2, <3>3, <3>4 DEF PlacesOf
    <2> QED
      BY <2>2, <2>3
  <1>4. ASSUME NEW m \in Mods, Hands(m) PROVE PlacesOf(q)'
    <2>1. HandBatch(m, batch[m], "timer") /\ UNCHANGED <<pipe, told, flushed, dropped, refused>>
      BY <1>4 DEF Hands
    <2>2. CASE q # m
      <3>1. batch'[q] = batch[q] /\ handed'[q] = handed[q]
        BY <1>a, <2>1, <2>2 DEF HandBatch
      <3> QED
        BY <1>0, <2>1, <3>1 DEF PlacesOf
    <2>3. CASE q = m
      <3>1. batch'[q] = <<>> /\ handed'[q] = handed[q] \o IdSeq(batch[q])
        BY <1>a, <2>1, <2>3 DEF HandBatch, IdSeq
      <3>2. Range(handed'[q]) = Range(handed[q]) \cup Ids(batch[q])
        BY <1>b, <3>1, HandedIds DEF UpTo
      <3>3. Places(Ids(pipe[q]), {}, Range(handed[q]) \cup Ids(batch[q]), flushed[q], dropped[q],
                   refused[q], told[q])
        BY <1>0, PlacesHanded DEF PlacesOf
      <3>4. Ids(batch'[q]) = {}
        BY <3>1, NoIds
      <3> QED
        BY <2>1, <3>2, <3>3, <3>4 DEF PlacesOf
    <2> QED
      BY <2>2, <2>3
  <1>5. ASSUME NEW m \in Mods, flush_pubsub_msgs(m) PROVE PlacesOf(q)'
    <2>1. pipe' = [pipe EXCEPT ![m] = <<>>] /\ UNCHANGED <<batch, told, handed, refused>>
      BY <1>5 DEF flush_pubsub_msgs
    <2>2. \/ /\ flushed' = [flushed EXCEPT ![m] = @ \cup Ids(pipe[m])]
             /\ UNCHANGED dropped
          \/ /\ dropped' = [dropped EXCEPT ![m] = @ \cup Ids(pipe[m])]
             /\ UNCHANGED flushed
      BY <1>5 DEF flush_pubsub_msgs
    <2>3. CASE q # m
      <3>1. pipe'[q] = pipe[q] /\ flushed'[q] = flushed[q] /\ dropped'[q] = dropped[q]
        BY <1>a, <2>1, <2>2, <2>3
      <3> QED
        BY <1>0, <2>1, <3>1 DEF PlacesOf
    <2>4. CASE q = m
      <3>1. Ids(pipe'[q]) = {}
        BY <1>a, <2>1, <2>4, NoIds
      <3>2. \/ flushed'[q] = flushed[q] \cup Ids(pipe[q]) /\ dropped'[q] = dropped[q]
            \/ dropped'[q] = dropped[q] \cup Ids(pipe[q]) /\ flushed'[q] = flushed[q]
        BY <1>a, <2>2, <2>4
      <3>3. /\ Places({}, Ids(batch[q]), Range(handed[q]), flushed[q] \cup Ids(pipe[q]),
                      dropped[q], refused[q], told[q])
            /\ Places({}, Ids(batch[q]), Range(handed[q]), flushed[q],
                      dropped[q] \cup Ids(pipe[q]), refused[q], told[q])
        BY <1>0, PlacesFlushed DEF PlacesOf
      <3> QED
        BY <2>1, <3>1, <3>2, <3>3 DEF PlacesOf
    <2> QED
      BY <2>3, <2>4
  <1>6. ASSUME NEW m \in Mods, Forgets(m) PROVE PlacesOf(q)'
    <2> DEFINE pipes == [pipe EXCEPT ![m] = <<>>]
    <2>1. Sends(pipes) /\ pipes \in [Mods -> Seq(Msg)]
      BY <1>6, <1>a DEF Forgets
    <2>2. /\ Places(Ids(pipes[q]), Ids(batch'[q]), Range(handed'[q]), flushed'[q], dropped'[q],
                    refused'[q], told[q])
          /\ Ids(pipes[q]) \subseteq 1..sent /\ Ids(batch'[q]) \subseteq 1..sent
          /\ Range(handed'[q]) \subseteq 1..sent
          /\ flushed'[q] \subseteq 1..sent /\ dropped'[q] \subseteq 1..sent
          /\ refused'[q] \subseteq 1..sent
      <3>1. handed'[q] = handed[q] /\ flushed'[q] = flushed[q] /\ refused'[q] = refused[q]
        BY <1>6 DEF Forgets
      <3>2. CASE q # m
        <4>1. pipes[q] = pipe[q] /\ batch'[q] = batch[q] /\ dropped'[q] = dropped[q]
          BY <1>6, <1>a, <3>2 DEF Forgets
        <4> QED
          BY <1>0, <1>a, <1>c, <3>1, <4>1 DEF PlacesOf
      <3>3. CASE q = m
        <4>1. /\ pipes[q] = <<>> /\ batch'[q] = <<>>
              /\ dropped'[q] = dropped[q] \cup Ids(pipe[q]) \cup Ids(batch[q])
          BY <1>6, <1>a, <3>3 DEF Forgets
        <4>2. Ids(pipes[q]) = {} /\ Ids(batch'[q]) = {}
          BY <4>1, NoIds
        <4>3. Places({}, {}, Range(handed[q]), flushed[q],
                     dropped[q] \cup Ids(pipe[q]) \cup Ids(batch[q]), refused[q], told[q])
          BY <1>0, PlacesFlushed DEF PlacesOf
        <4> QED
          BY <1>a, <1>c, <3>1, <4>1, <4>2, <4>3
      <3> QED
        BY <3>2, <3>3
    <2> HIDE DEF pipes
    <2>3. CASE pipe'[q] = pipes[q] /\ told'[q] = told[q]
      BY <2>2, <2>3 DEF PlacesOf
    <2>4. ASSUME NEW c \in Msg, c.id = sent + 1, pipe'[q] = Append(pipes[q], c),
                 told'[q] = told[q] \cup {sent + 1}
          PROVE  PlacesOf(q)'
      <3>1. Ids(pipe'[q]) = Ids(pipes[q]) \cup {sent + 1}
        BY <2>1, <2>4, AppendIds
      <3>2. Places(Ids(pipes[q]) \cup {sent + 1}, Ids(batch'[q]), Range(handed'[q]), flushed'[q],
                   dropped'[q], refused'[q], told[q] \cup {sent + 1})
        BY <1>d, <2>2, PlacesSent
      <3> QED
        BY <2>4, <3>1, <3>2 DEF PlacesOf
    <2>5. \/ pipe'[q] = pipes[q] /\ told'[q] = told[q]
          \/ \E c \in Msg : /\ c.id = sent + 1 /\ sent' = sent + 1
                            /\ pipe'[q] = Append(pipes[q], c)
                            /\ told'[q] = told[q] \cup {sent + 1}
      BY <2>1, SendsEffect
    <2> QED
      BY <2>3, <2>4, <2>5
  <1> QED
    BY <1>1, <1>2, <1>3, <1>4, <1>5, <1>6, <1>7, MessageSteps

LEMMA PlacesInit == Init => PlacesInv
  <1> SUFFICES ASSUME Init, NEW m \in Mods PROVE PlacesOf(m)
    BY DEF PlacesInv
  <1>1. Range(<<>>) = {}
    BY DEF Range
  <1> QED
    BY <1>1, NoIds DEF Init, PlacesOf, Places

(* Whatever is written to a module's pipe is in exactly one place, however    *)
(* many modules, messages and calls there are: none is delivered twice, and    *)
(* one of a module that is there is lost only when it is read while errno is   *)
(* set (tell_if, push_evt, recv_events, flush_pubsub_msgs, stop).             *)
THEOREM MessagesConserved == Spec => []Conserved
  <1>1. TypeInv /\ OrderInv /\ PlacesInv /\ [Next]_vars => (TypeInv /\ OrderInv /\ PlacesInv)'
    BY TypeStep, OrderStep, PlacesStep
  <1>2. Spec => [](TypeInv /\ OrderInv /\ PlacesInv)
    BY <1>1, TypeInit, OrderInit, PlacesInit, PTL DEF Spec
  <1> QED
    BY <1>2, PlacesConserved, PTL

-----------------------------------------------------------------------------
(***************************************************************************)
(* Priorities.                                                              *)
(***************************************************************************)
LEMMA EventSteps ==
    ASSUME [Next]_vars
    PROVE  \/ UNCHANGED <<batch, stashed, callbacks>>
           \/ CallbackReturns
           \/ \E m \in Mods : \/ Recv(m) \/ (Hands(m) /\ stashed' = stashed)
                              \/ flush_pubsub_msgs(m) \/ m_mod_stop(m)
                              \/ \E n \in Sizes : m_mod_unstash(m, n)
           \/ callbacks # <<>> /\ \E evt \in Range(callbacks[1].evts) : m_mod_stash(evt)
  <1> USE DEF modVars, loopVars
  <1>1. CASE loop_stop \/ LoopStopped
    BY <1>1 DEF loop_stop, LoopStopped
  <1>2. ASSUME NEW m \in Mods, UserCall(m)
        PROVE  \/ UNCHANGED <<batch, stashed, callbacks>> \/ m_mod_stop(m)
               \/ \E n \in Sizes : m_mod_unstash(m, n)
    BY <1>2
    DEF UserCall, m_mod_ps_tell, m_mod_ps_poisonpill, m_mod_ps_subscribe, m_mod_ps_unsubscribe,
        m_mod_set_batch_size, m_mod_set_batch_timeout, start, m_mod_pause
  <1>3. ASSUME NEW topic, m_mod_ps_publish(topic) PROVE UNCHANGED <<batch, stashed, callbacks>>
    BY <1>3 DEF m_mod_ps_publish
  <1>4. CASE process_tick \/ m_ctx_quit \/ loop_start
    BY <1>4 DEF process_tick, m_ctx_quit, loop_start
  <1>5. CASE UNCHANGED vars
    BY <1>5 DEF vars
  <1>6. ASSUME NEW m \in Mods, Refuse(m) PROVE UNCHANGED <<batch, stashed, callbacks>>
    BY <1>6 DEF Refuse
  <1>7. CASE PollWait
    BY <1>7 DEF PollWait
  <1>8. ASSUME NEW m \in Mods, NEW kind \in TimerKind, BatchTimer(m, kind)
        PROVE  UNCHANGED <<batch, stashed, callbacks>> \/ (Hands(m) /\ stashed' = stashed)
    BY <1>8 DEF BatchTimer, Hands
  <1> QED
    BY <1>1, <1>2, <1>3, <1>4, <1>5, <1>6, <1>7, <1>8 DEF Next, LibraryStep

LowBatch == \A m \in Mods : \A i \in 1..Len(batch[m]) : Prio_(batch[m][i]) # "HIGH"
LowStash == \A m \in Mods : \A i \in 1..Len(stashed[m]) : Prio_(stashed[m][i]) # "HIGH"

(* A callback's events say why the loop calls it.                           *)
Worth(f) == f.why = "recv" => \E i \in 1..Len(f.evts) : Prio_(f.evts[i]) # "LOW"
WorthCalling == \A i \in 1..Len(callbacks) : Worth(callbacks[i])

PrioInv == LowBatch /\ LowStash /\ WorthCalling

LEMMA PrioParts == TypeInv /\ PrioInv => PrioritiesHold
  <1> SUFFICES ASSUME TypeInv, LowBatch, LowStash, WorthCalling PROVE PrioritiesHold
    BY DEF PrioInv
  <1>1. ASSUME NEW m \in Mods
        PROVE  /\ \A x : x \in Range(batch[m]) <=> \E i \in 1..Len(batch[m]) : batch[m][i] = x
               /\ \A x : x \in Range(stashed[m]) <=>
                         \E i \in 1..Len(stashed[m]) : stashed[m][i] = x
    BY RangeIndex DEF TypeInv, RestType
  <1>2. ASSUME NEW i \in 1..Len(callbacks)
        PROVE  \A x : x \in Range(callbacks[i].evts) <=>
                      \E j \in 1..Len(callbacks[i].evts) : callbacks[i].evts[j] = x
    <2>1. callbacks[i] \in Frame
      BY FrameType DEF TypeInv, RestType
    <2>2. callbacks[i].evts \in Seq(Msg)
      BY <2>1 DEF Frame
    <2> QED
      BY <2>2, RangeIndex
  <1>3. ASSUME NEW m \in Mods, NEW evt \in Range(batch[m]) \cup Range(stashed[m])
        PROVE  Prio_(evt) # "HIGH"
    <2>1. CASE evt \in Range(batch[m])
      <3>1. PICK i \in 1..Len(batch[m]) : batch[m][i] = evt
        BY <1>1, <2>1
      <3> QED
        BY <3>1 DEF LowBatch
    <2>2. CASE evt \in Range(stashed[m])
      <3>1. PICK i \in 1..Len(stashed[m]) : stashed[m][i] = evt
        BY <1>1, <2>2
      <3> QED
        BY <3>1 DEF LowStash
    <2> QED
      BY <1>3, <2>1, <2>2
  <1>4. ASSUME NEW i \in 1..Len(callbacks), callbacks[i].why = "recv"
        PROVE  \E evt \in Range(callbacks[i].evts) : Prio_(evt) # "LOW"
    BY <1>2, <1>4 DEF WorthCalling, Worth
  <1> QED
    BY <1>3, <1>4 DEF PrioritiesHold

(* Pushing a callback worth its call keeps the stack so.                    *)
LEMMA WorthPushed ==
    ASSUME TypeInv, WorthCalling, NEW m \in Mods, NEW evts \in Seq(Msg), NEW why,
           call_pubsub_cb(m, evts, why),
           why = "recv" => \E i \in 1..Len(evts) : Prio_(evts[i]) # "LOW",
           why \in {"recv", "timer", "flush", "unstash"}
    PROVE  WorthCalling'
  <1>1. CASE evts = <<>>
    BY <1>1 DEF call_pubsub_cb, WorthCalling, Worth, Prio_
  <1>2. CASE evts # <<>>
    <2> DEFINE f == [mod |-> m, evts |-> evts, why |-> why]
    <2>1. f \in Frame /\ f.why = why /\ f.evts = evts
      BY <1>2 DEF Frame
    <2>2. callbacks' = <<f>> \o callbacks
      BY <1>2 DEF call_pubsub_cb
    <2>3. Worth(f)
      BY <2>1 DEF Worth
    <2> HIDE DEF f
    <2>4. callbacks \in Seq(Frame)
      BY FrameType DEF TypeInv, RestType
    <2>5. \A i \in 1..Len(callbacks') :
             callbacks'[i] = f \/ (i - 1 \in 1..Len(callbacks) /\ callbacks'[i] = callbacks[i - 1])
      BY <2>1, <2>2, <2>4, PushIndex
    <2> QED
      BY <2>3, <2>5 DEF WorthCalling, Worth, Prio_
  <1> QED
    BY <1>1, <1>2

LEMMA PrioStep == TypeInv /\ PrioInv /\ [Next]_vars => PrioInv'
  <1> SUFFICES ASSUME TypeInv, LowBatch, LowStash, WorthCalling, [Next]_vars PROVE PrioInv'
    BY DEF PrioInv
  <1>a. /\ batch \in [Mods -> Seq(Msg)] /\ stashed \in [Mods -> Seq(Msg)]
        /\ pipe \in [Mods -> Seq(Msg)] /\ callbacks \in Seq(Frame)
    BY FrameType DEF TypeInv, SentType, RestType
  <1>b. Len(<<>>) = 0
    OBVIOUS
  <1>1. CASE UNCHANGED <<batch, stashed, callbacks>>
    BY <1>1 DEF PrioInv, LowBatch, LowStash, WorthCalling, Worth, Prio_
  <1>2. CASE CallbackReturns
    <2>1. UNCHANGED <<batch, stashed>> /\ callbacks' = Tail(callbacks) /\ callbacks # <<>>
      BY <1>2 DEF CallbackReturns, modVars
    <2>2. \A i \in 1..Len(callbacks') :
             i + 1 \in 1..Len(callbacks) /\ callbacks'[i] = callbacks[i + 1]
      BY <1>a, <2>1, TailIndex
    <2>3. WorthCalling'
      BY <2>2 DEF WorthCalling, Worth, Prio_
    <2> QED
      BY <2>1, <2>3 DEF PrioInv, LowBatch, LowStash, Prio_
  <1>3. ASSUME NEW m \in Mods, Recv(m) PROVE PrioInv'
    <2> DEFINE evt == Head(pipe[m])
               evts == Append(batch[m], evt)
    <2>1. pipe[m] # <<>> /\ push_evt(m, evt) /\ stashed' = stashed
      BY <1>3 DEF Recv
    <2>2. evt \in Msg
      BY <1>a, <2>1, TailIndex
    <2> HIDE DEF evt
    <2>3. /\ evts \in Seq(Msg) /\ Len(evts) = Len(batch[m]) + 1 /\ Len(batch[m]) \in Nat
          /\ \A i \in 1..Len(batch[m]) : evts[i] = batch[m][i]
          /\ evts[Len(evts)] = evt
      BY <1>a, <2>2, AppendIndex
    <2>4. Last(evts) = evt
      BY <2>3 DEF Last
    <2>5. LowStash'
      BY <2>1 DEF LowStash, Prio_
    <2>6. CASE HandsOver(m, evts) /\ HandBatch(m, evts, "recv")
      <3>1. Prio_(evt) # "LOW"
        BY <2>4, <2>6 DEF HandsOver
      <3> HIDE DEF evts
      <3>2. batch' = [batch EXCEPT ![m] = <<>>] /\ call_pubsub_cb(m, evts, "recv")
        BY <2>6 DEF HandBatch
      <3>3. \E i \in 1..Len(evts) : Prio_(evts[i]) # "LOW"
        BY <2>3, <3>1
      <3>4. WorthCalling'
        BY <2>3, <3>2, <3>3, WorthPushed
      <3>5. LowBatch'
        BY <1>a, <1>b, <3>2 DEF LowBatch, Prio_
      <3> QED
        BY <2>5, <3>4, <3>5 DEF PrioInv
    <2>7. CASE /\ ~HandsOver(m, evts)
               /\ batch' = [batch EXCEPT ![m] = evts] /\ UNCHANGED <<callbacks, handed>>
      <3>1. Prio_(evt) # "HIGH"
        BY <2>4, <2>7 DEF HandsOver
      <3> HIDE DEF evts
      <3>2. \A i \in 1..Len(evts) : i \in 1..Len(batch[m]) \/ i = Len(evts)
        BY <2>3
      <3>3. \A i \in 1..Len(evts) : Prio_(evts[i]) # "HIGH"
        BY <2>3, <3>1, <3>2 DEF LowBatch
      <3>4. LowBatch'
        BY <1>a, <2>7, <3>3 DEF LowBatch, Prio_
      <3>5. WorthCalling'
        BY <2>7 DEF WorthCalling, Worth, Prio_
      <3> QED
        BY <2>5, <3>4, <3>5 DEF PrioInv
    <2> QED
      BY <2>1, <2>6, <2>7 DEF push_evt
  <1>4. ASSUME NEW m \in Mods, Hands(m), stashed' = stashed PROVE PrioInv'
    <2>1. /\ batch' = [batch EXCEPT ![m] = <<>>] /\ call_pubsub_cb(m, batch[m], "timer")
          /\ stashed' = stashed
      BY <1>4 DEF Hands, HandBatch
    <2>2. WorthCalling'
      BY <1>a, <2>1, WorthPushed
    <2>3. LowBatch' /\ LowStash'
      BY <1>a, <1>b, <2>1 DEF LowBatch, LowStash, Prio_
    <2> QED
      BY <2>2, <2>3 DEF PrioInv
  <1>5. ASSUME NEW m \in Mods, flush_pubsub_msgs(m) PROVE PrioInv'
    <2>1. UNCHANGED <<batch, stashed>>
      BY <1>5 DEF flush_pubsub_msgs, modVars
    <2>2. WorthCalling'
      <3>1. CASE call_pubsub_cb(m, pipe[m], "flush")
        BY <1>a, <3>1, WorthPushed
      <3>2. CASE callbacks' = callbacks
        BY <3>2 DEF WorthCalling, Worth, Prio_
      <3> QED
        BY <1>5, <3>1, <3>2 DEF flush_pubsub_msgs
    <2> QED
      BY <2>1, <2>2 DEF PrioInv, LowBatch, LowStash, Prio_
  <1>6. ASSUME NEW m \in Mods, m_mod_stop(m) PROVE PrioInv'
    <2>1. /\ batch' = [batch EXCEPT ![m] = <<>>] /\ stashed' = [stashed EXCEPT ![m] = <<>>]
          /\ callbacks' = callbacks
      BY <1>6 DEF m_mod_stop, reset_module
    <2>2. LowBatch' /\ LowStash'
      BY <1>a, <1>b, <2>1 DEF LowBatch, LowStash, Prio_
    <2>3. WorthCalling'
      BY <2>1 DEF WorthCalling, Worth, Prio_
    <2> QED
      BY <2>2, <2>3 DEF PrioInv
  <1>7. ASSUME NEW m \in Mods, NEW len \in Sizes, m_mod_unstash(m, len) PROVE PrioInv'
    <2>1. PICK n : /\ n = IF len - 1 < Len(stashed[m]) THEN len - 1 ELSE Len(stashed[m])
                   /\ stashed' = [stashed EXCEPT ![m] = SubSeq(stashed[m], n + 1, Len(stashed[m]))]
                   /\ call_pubsub_cb(m, SubSeq(stashed[m], 1, n), "unstash")
      BY <1>7 DEF m_mod_unstash
    <2>2. len \in Nat /\ len > 0 /\ batch' = batch
      BY <1>7, PubSubAssumption DEF m_mod_unstash
    <2>3. stashed[m] \in Seq(Msg) /\ Len(stashed[m]) \in Nat
      BY <1>a
    <2>4. n \in 0..Len(stashed[m])
      BY <2>1, <2>2, <2>3
    <2>5. /\ SubSeq(stashed[m], 1, n) \in Seq(Msg)
          /\ Len(SubSeq(stashed[m], n + 1, Len(stashed[m]))) = Len(stashed[m]) - n
          /\ \A i \in 1..(Len(stashed[m]) - n) :
                SubSeq(stashed[m], n + 1, Len(stashed[m]))[i] = stashed[m][n + i]
      BY <2>3, <2>4
    <2>6. \A i \in 1..(Len(stashed[m]) - n) : n + i \in 1..Len(stashed[m])
      BY <2>3, <2>4
    <2>7. WorthCalling'
      BY <2>1, <2>5, WorthPushed
    <2>8. LowStash'
      <3>1. \A q \in Mods : q # m => stashed'[q] = stashed[q]
        BY <1>a, <2>1
      <3>2. stashed'[m] = SubSeq(stashed[m], n + 1, Len(stashed[m]))
        BY <1>a, <2>1
      <3>3. \A i \in 1..Len(stashed'[m]) : Prio_(stashed'[m][i]) # "HIGH"
        BY <2>5, <2>6, <3>2 DEF LowStash
      <3> QED
        BY <3>1, <3>3 DEF LowStash, Prio_
    <2> QED
      BY <2>2, <2>7, <2>8 DEF PrioInv, LowBatch, Prio_
  <1>8. ASSUME callbacks # <<>>, NEW evt \in Range(callbacks[1].evts), m_mod_stash(evt)
        PROVE  PrioInv'
    <2> DEFINE m == callbacks[1].mod
    <2>1. /\ stashed' = [stashed EXCEPT ![m] = Append(stashed[m], evt)]
          /\ UNCHANGED <<batch, callbacks>> /\ Prio_(evt) # "HIGH"
      BY <1>8 DEF m_mod_stash, StashRefuses, loopVars
    <2>2. callbacks[1] \in Frame
      BY <1>8, <1>a
    <2>3. m \in Mods /\ callbacks[1].evts \in Seq(Msg)
      BY <2>2 DEF Frame
    <2>4. evt \in Msg
      BY <2>3, RangeIndex
    <2>5. PICK p \in Mods : p = m
      BY <2>3
    <2> HIDE DEF m
    <2>6. /\ \A i \in 1..Len(Append(stashed[p], evt)) :
               i \in 1..Len(stashed[p]) \/ i = Len(stashed[p]) + 1
          /\ \A i \in 1..Len(stashed[p]) : Append(stashed[p], evt)[i] = stashed[p][i]
          /\ Append(stashed[p], evt)[Len(stashed[p]) + 1] = evt
      BY <1>a, <2>4, AppendIndex
    <2>7. \A i \in 1..Len(stashed'[p]) : Prio_(stashed'[p][i]) # "HIGH"
      BY <1>a, <2>1, <2>5, <2>6 DEF LowStash
    <2>8. LowStash'
      BY <1>a, <2>1, <2>5, <2>7 DEF LowStash, Prio_
    <2> QED
      BY <2>1, <2>8 DEF PrioInv, LowBatch, WorthCalling, Worth, Prio_
  <1> QED
    BY <1>1, <1>2, <1>3, <1>4, <1>5, <1>6, <1>7, <1>8, EventSteps

LEMMA PrioInit == Init => PrioInv
  BY DEF Init, PrioInv, LowBatch, LowStash, WorthCalling

(* No event of high priority waits in a batch or in the stash, and the loop    *)
(* wakes no module for events of low priority only (push_evt, m_mod_stash).    *)
THEOREM PrioritiesAreHeld == Spec => []PrioritiesHold
  <1>1. TypeInv /\ PrioInv /\ [Next]_vars => (TypeInv /\ PrioInv)'
    BY TypeStep, PrioStep
  <1>2. Spec => [](TypeInv /\ PrioInv)
    BY <1>1, TypeInit, PrioInit, PTL DEF Spec
  <1> QED
    BY <1>2, PrioParts, PTL

-----------------------------------------------------------------------------
(***************************************************************************)
(* Memory.  When the user's code respects ClientRules, freed or missing      *)
(* subscriptions are never used and no write to a pipe fails.  For a pipe p   *)
(* and subscriptions S:                                                      *)
(***************************************************************************)
(* the subscription of an unread message is still there;                    *)
Kept(p, S) == \A i \in 1..Len(p) : p[i].sub \in S \cup {NoSub}

(* a one-shot subscription has at most one message unread, since reading it   *)
(* removes the subscriptions of its pattern;                                *)
Once(p) ==
    \A i, j \in 1..Len(p) :
        p[i].sub # NoSub /\ p[i].sub.oneshot /\ p[i].sub = p[j].sub => i = j

(* there is one subscription for a pattern, and no one-shot one gets system   *)
(* messages;                                                                *)
Keyed(S) == /\ \A s, t \in S : s.pat = t.pat => s = t
            /\ \A s \in S : s.oneshot => ~OnSystem(s.pat)

(* and a pipe holds direct messages.                                        *)
Direct(p) == \E i \in 1..Len(p) : p[i].sub = NoSub

(* A pipe has room but for the modules loop_stop has still to flush.         *)
Room == \A m \in Mods : phase # "flush" \/ m \notin toFlush => Len(pipe[m]) < PipeSize

SubsSafe == \A m \in Mods : Kept(pipe[m], subs[m]) /\ Once(pipe[m]) /\ Keyed(subs[m])

(* A running module has no direct message unread once the loop stops, or will  *)
(* because of an error in errno or of a descriptor that was closed.          *)
Stops == MayStop \/ errno = "error"
NoDirect == Stops => \A m \in Mods : mstate[m] = "RUNNING" => ~Direct(pipe[m])

(* No source of the round is freed, the round is over when the loop stops, and  *)
(* errno is set only between a callback and the next event, when no code of    *)
(* the user runs.                                                           *)
RoundInv ==
    /\ errno # "none" => callbacks = <<>> /\ ready # {}
    /\ phase = "flush" => ready = {}
    /\ \A m \in Mods : <<m, "freed">> \notin ready

MemoryInv == ~undefined /\ Room /\ SubsSafe /\ NoDirect /\ RoundInv

LEMMA UserErrno == MemoryInv /\ UserRuns => errno = "none"
  BY DEF MemoryInv, RoundInv, UserRuns

(* Within ClientRules the events whose source would be freed are taken.      *)
LEMMA NoneBecomes ==
    ASSUME TypeInv, Careful, NEW m \in Mods, NEW kinds, EventsAreTaken(m, kinds), NEW fate,
           Becomes(m, kinds, fate)
    PROVE  ready' = ready
  <1>1. ready \subseteq Mods \X EventKind
    BY DEF TypeInv, RestType
  <1>2. ASSUME NEW e \in ready PROVE ~(e[1] = m /\ e[2] \in kinds)
    <2>1. e = <<e[1], e[2]>>
      BY <1>1
    <2> QED
      BY <1>2, <2>1 DEF EventsAreTaken
  <1> QED
    BY <1>2 DEF Becomes

LEMMA AppendMemory ==
    ASSUME NEW p \in Seq(Msg), NEW S, NEW c \in Msg, Kept(p, S), Once(p),
           c.sub \in S \cup {NoSub},
           c.sub # NoSub /\ c.sub.oneshot => \A i \in 1..Len(p) : p[i].sub # c.sub
    PROVE  /\ Kept(Append(p, c), S) /\ Once(Append(p, c)) /\ Len(Append(p, c)) = Len(p) + 1
           /\ c.sub # NoSub /\ Direct(Append(p, c)) => Direct(p)
  <1> DEFINE a == Append(p, c)
  <1>1. /\ Len(a) = Len(p) + 1 /\ Len(p) \in Nat
        /\ \A i \in 1..Len(a) : i \in 1..Len(p) \/ i = Len(p) + 1
        /\ \A i \in 1..Len(p) : a[i] = p[i]
        /\ a[Len(p) + 1] = c
    BY AppendIndex
  <1> HIDE DEF a
  <1>2. Kept(a, S)
    BY <1>1 DEF Kept
  <1>3. ASSUME NEW i \in 1..Len(a), NEW j \in 1..Len(a),
               a[i].sub # NoSub, a[i].sub.oneshot, a[i].sub = a[j].sub
        PROVE  i = j
    <2>1. CASE i \in 1..Len(p) /\ j \in 1..Len(p)
      BY <1>1, <1>3, <2>1 DEF Once
    <2>2. CASE i = Len(p) + 1 /\ j \in 1..Len(p)
      BY <1>1, <1>3, <2>2
    <2>3. CASE i \in 1..Len(p) /\ j = Len(p) + 1
      BY <1>1, <1>3, <2>3
    <2> QED
      BY <1>1, <2>1, <2>2, <2>3
  <1>4. Once(a)
    BY <1>3 DEF Once
  <1>5. c.sub # NoSub /\ Direct(a) => Direct(p)
    BY <1>1 DEF Direct
  <1> QED
    BY <1>1, <1>2, <1>4, <1>5 DEF a

LEMMA EmptyMemory ==
    ASSUME NEW S
    PROVE  Kept(<<>>, S) /\ Once(<<>>) /\ ~Direct(<<>>) /\ Len(<<>>) = 0
  BY DEF Kept, Once, Direct

(* Reading the first message, which removes a one-shot subscription.        *)
LEMMA TailMemory ==
    ASSUME NEW p \in Seq(Msg), p # <<>>, NEW S \in SUBSET Sub, Kept(p, S), Once(p), Keyed(S),
           NEW R, R = IF p[1].sub # NoSub /\ p[1].sub.oneshot
                      THEN {s \in S : s.pat # p[1].sub.pat} ELSE S
    PROVE  /\ Kept(Tail(p), R) /\ Once(Tail(p)) /\ Keyed(R)
           /\ Direct(Tail(p)) => Direct(p)
           /\ Len(Tail(p)) < Len(p)
  <1> DEFINE t == Tail(p)
  <1>1. /\ Len(t) = Len(p) - 1 /\ Len(p) \in Nat /\ 1 \in 1..Len(p)
        /\ \A i \in 1..Len(t) : i + 1 \in 1..Len(p) /\ t[i] = p[i + 1]
    BY TailIndex
  <1> HIDE DEF t
  <1>2. Once(t)
    BY <1>1 DEF Once
  <1>3. Direct(t) => Direct(p)
    BY <1>1 DEF Direct
  <1>4. Keyed(R)
    BY DEF Keyed
  <1>5. ASSUME NEW i \in 1..Len(t) PROVE t[i].sub \in R \cup {NoSub}
    <2>1. i + 1 \in 1..Len(p) /\ t[i] = p[i + 1] /\ i + 1 # 1
      BY <1>1
    <2>2. t[i].sub \in S \cup {NoSub} /\ p[1].sub \in S \cup {NoSub}
      BY <1>1, <2>1 DEF Kept
    <2>3. CASE t[i].sub # NoSub /\ p[1].sub # NoSub /\ p[1].sub.oneshot
      <3>1. p[1].sub # p[i + 1].sub
        BY <1>1, <2>1, <2>3 DEF Once
      <3>2. t[i].sub.pat # p[1].sub.pat
        BY <2>1, <2>2, <2>3, <3>1 DEF Keyed
      <3> QED
        BY <2>2, <2>3, <3>2
    <2> QED
      BY <2>2, <2>3
  <1>6. Kept(t, R)
    BY <1>5 DEF Kept
  <1> QED
    BY <1>1, <1>2, <1>3, <1>4, <1>6 DEF t

(* Reading the first message, which keeps the subscription.                 *)
LEMMA TailKept ==
    ASSUME NEW p \in Seq(Msg), p # <<>>, NEW S, Kept(p, S), Once(p)
    PROVE  /\ Kept(Tail(p), S) /\ Once(Tail(p))
           /\ Direct(Tail(p)) => Direct(p)
           /\ Len(Tail(p)) < Len(p) /\ Len(Tail(p)) \in Nat
  <1>1. PICK t : /\ t = Tail(p) /\ Len(t) = Len(p) - 1 /\ Len(p) \in Nat \ {0}
                 /\ \A i \in 1..Len(t) : i + 1 \in 1..Len(p) /\ t[i] = p[i + 1]
    BY TailIndex
  <1>2. Kept(t, S)
    BY <1>1 DEF Kept
  <1>3. Once(t)
    BY <1>1 DEF Once
  <1>4. Direct(t) => Direct(p)
    BY <1>1 DEF Direct
  <1> QED
    BY <1>1, <1>2, <1>3, <1>4

(* What a module may find in its pipe after a topic was published.          *)
Gets(q, state, pipes) ==
    \/ pipe'[q] = pipes[q]
    \/ \E c \in Msg :
          /\ pipe'[q] = Append(pipes[q], c) /\ state[q] \in {"RUNNING", "PAUSED"}
          /\ c.sub \in subs[q] /\ c.sub # NoSub
          /\ c.sub.oneshot => \A i \in 1..Len(pipes[q]) : pipes[q][i].sub # c.sub

LEMMA PublishGets ==
    ASSUME TypeInv, MemoryInv, Careful, NEW state, NEW pipes \in [Mods -> Seq(Msg)],
           NEW topic \in Topics, Publish(state, pipes, topic),
           topic = "sys" \/ (pipes = pipe /\ OneshotsAreRead(topic)),
           \A m \in Mods : Len(pipes[m]) < PipeSize
    PROVE  ~undefined' /\ \A q \in Mods : Gets(q, state, pipes)
  <1>1. PICK subOf \in [Mods -> Attached] :
            /\ \A m \in Mods : subOf[m] \in fetch_sub(m, topic)
            /\ TellPubsubMsg(state, pipes, topic, subOf, Mods)
    BY DEF Publish
  <1>2. \A m \in Mods : Len(pipes[m]) \in Nat /\ ~(Len(pipes[m]) >= PipeSize)
    BY PubSubAssumption
  <1>3. ~undefined'
    BY <1>1, <1>2 DEF TellPubsubMsg, MemoryInv
  <1>4. topic # NoTopic
    BY PubSubAssumption
  <1>5. ASSUME NEW q \in Mods PROVE Gets(q, state, pipes)
    <2> DEFINE c == [id |-> sent + 1, sub |-> subOf[q]]
    <2>1. CASE ~tell_if(state, q, topic, subOf[q])
      BY <1>1, <2>1 DEF TellPubsubMsg, Gets
    <2>2. CASE tell_if(state, q, topic, subOf[q])
      <3>1. pipe'[q] = Append(pipes[q], c)
        BY <1>1, <1>2, <2>2 DEF TellPubsubMsg
      <3>2. state[q] \in {"RUNNING", "PAUSED"} /\ subOf[q] # NoSub
        BY <1>4, <2>2 DEF tell_if
      <3>3. subOf[q] \in fetch_sub(q, topic) /\ subOf[q] \in subs[q]
        BY <1>1, <3>2 DEF fetch_sub
      <3>4. subOf[q] \in Sub
        BY <3>3 DEF TypeInv, RestType
      <3>5. c \in Msg /\ c.sub = subOf[q]
        BY <3>4 DEF Msg, TypeInv, SentType
      <3>6. subOf[q].oneshot => \A i \in 1..Len(pipes[q]) : pipes[q][i].sub # subOf[q]
        <4>1. CASE topic = "sys"
          <5>1. OnSystem(subOf[q].pat)
            BY <3>2, <3>3, <4>1 DEF fetch_sub, OnSystem
          <5> QED
            BY <3>3, <5>1 DEF MemoryInv, SubsSafe, Keyed
        <4>2. CASE pipes = pipe /\ OneshotsAreRead(topic)
          <5>1. ~(subOf[q].oneshot /\ Unread(q, subOf[q]))
            BY <3>2, <3>3, <4>2 DEF OneshotsAreRead
          <5> QED
            BY <4>2, <5>1 DEF Unread
        <4> QED
          BY <4>1, <4>2
      <3> HIDE DEF c
      <3> QED
        BY <3>1, <3>2, <3>3, <3>5, <3>6 DEF Gets
    <2> QED
      BY <2>1, <2>2
  <1> QED
    BY <1>3, <1>5

(* A publication leaves what is said of a pipe true.                        *)
LEMMA GetsMemory ==
    ASSUME NEW q \in Mods, NEW state, NEW pipes \in [Mods -> Seq(Msg)], Gets(q, state, pipes),
           Kept(pipes[q], subs[q]), Once(pipes[q])
    PROVE  /\ Kept(pipe'[q], subs[q]) /\ Once(pipe'[q])
           /\ Direct(pipe'[q]) => Direct(pipes[q])
           /\ Len(pipe'[q]) <= Len(pipes[q]) + 1
  <1>1. pipes[q] \in Seq(Msg) /\ Len(pipes[q]) \in Nat
    OBVIOUS
  <1>2. CASE pipe'[q] = pipes[q]
    BY <1>1, <1>2
  <1>3. ASSUME NEW c \in Msg, pipe'[q] = Append(pipes[q], c), c.sub \in subs[q], c.sub # NoSub,
               c.sub.oneshot => \A i \in 1..Len(pipes[q]) : pipes[q][i].sub # c.sub
        PROVE  /\ Kept(pipe'[q], subs[q]) /\ Once(pipe'[q])
               /\ Direct(pipe'[q]) => Direct(pipes[q])
               /\ Len(pipe'[q]) <= Len(pipes[q]) + 1
    <2>1. /\ Kept(Append(pipes[q], c), subs[q]) /\ Once(Append(pipes[q], c))
          /\ Len(Append(pipes[q], c)) = Len(pipes[q]) + 1
          /\ c.sub # NoSub /\ Direct(Append(pipes[q], c)) => Direct(pipes[q])
      BY <1>1, <1>3, AppendMemory
    <2> QED
      BY <1>1, <1>3, <2>1
  <1> QED
    BY <1>2, <1>3 DEF Gets

LEMMA MemorySame ==
    /\ MemoryInv /\ RoundInv'
    /\ UNCHANGED <<pipe, subs, mstate, phase, toFlush, ready, errno, undefined>>
    => MemoryInv'
  BY DEF MemoryInv, Room, SubsSafe, NoDirect, Stops, MayStop, Kept, Once, Keyed, Direct, OnSystem

LEMMA RoundSame ==
    /\ RoundInv /\ UNCHANGED <<callbacks, ready, errno>>
    /\ phase' = phase \/ phase' # "flush" \/ ready = {}
    => RoundInv'
  BY DEF RoundInv

(* A user's or the library's publication on modules that keep their          *)
(* subscriptions, with a place left in every pipe.                          *)
LEMMA PublishMemory ==
    ASSUME TypeInv, MemoryInv, Careful, NEW state, NEW topic \in Topics,
           Publish(state, pipe, topic), topic = "sys" \/ OneshotsAreRead(topic),
           PipesHaveRoom, subs' = subs, RoundInv',
           \A m \in Mods : Stops' /\ mstate'[m] = "RUNNING" => ~Direct(pipe[m])
    PROVE  MemoryInv'
  <1>1. pipe \in [Mods -> Seq(Msg)] /\ PipeSize \in Nat /\ \A m \in Mods : Len(pipe[m]) \in Nat
    BY PubSubAssumption DEF TypeInv, SentType
  <1>2. \A m \in Mods : Len(pipe[m]) + 1 < PipeSize /\ Len(pipe[m]) < PipeSize
    BY <1>1 DEF PipesHaveRoom
  <1>3. ~undefined' /\ \A q \in Mods : Gets(q, state, pipe)
    BY <1>1, <1>2, PublishGets
  <1>4. ASSUME NEW q \in Mods
        PROVE  /\ Kept(pipe'[q], subs[q]) /\ Once(pipe'[q])
               /\ Direct(pipe'[q]) => Direct(pipe[q])
               /\ Len(pipe'[q]) <= Len(pipe[q]) + 1
    BY <1>1, <1>3, GetsMemory DEF MemoryInv, SubsSafe
  <1>5. \A q \in Mods : Len(pipe'[q]) \in Int
    <2>1. ASSUME NEW q \in Mods PROVE pipe'[q] \in Seq(Msg)
      <3>1. CASE pipe'[q] = pipe[q]
        BY <1>1, <3>1
      <3>2. CASE \E c \in Msg : pipe'[q] = Append(pipe[q], c)
        BY <1>1, <3>2, AppendIndex
      <3> QED
        BY <1>3, <3>1, <3>2 DEF Gets
    <2> QED
      BY <2>1
  <1>6. Room'
    BY <1>1, <1>2, <1>4, <1>5 DEF Room
  <1>7. SubsSafe'
    BY <1>4 DEF MemoryInv, SubsSafe, Keyed, Kept, Once, OnSystem
  <1>8. NoDirect'
    BY <1>4 DEF NoDirect, Direct
  <1> QED
    BY <1>3, <1>6, <1>7, <1>8 DEF MemoryInv

(* A direct message, which has no subscription, goes to modules that are not   *)
(* about to be flushed.                                                      *)
LEMMA DirectMemory ==
    ASSUME TypeInv, MemoryInv, Careful, NEW to \in SUBSET Mods,
           TellPubsubMsg(mstate, pipe, NoTopic, [m \in Mods |-> NoSub], to),
           PipesHaveRoom, NotStopping, UserRuns,
           UNCHANGED <<subs, mstate, phase, toFlush, callbacks, ready, errno>>
    PROVE  MemoryInv'
  <1> DEFINE c == [id |-> sent + 1, sub |-> NoSub]
  <1>1. pipe \in [Mods -> Seq(Msg)] /\ PipeSize \in Nat /\ \A m \in Mods : Len(pipe[m]) \in Nat
    BY PubSubAssumption DEF TypeInv, SentType
  <1>2. \A m \in Mods : Len(pipe[m]) + 1 < PipeSize /\ ~(Len(pipe[m]) >= PipeSize)
    BY <1>1 DEF PipesHaveRoom
  <1>3. ~undefined'
    BY <1>2 DEF TellPubsubMsg, MemoryInv
  <1>4. \A q \in Mods : pipe'[q] \in {pipe[q], Append(pipe[q], c)}
    BY DEF TellPubsubMsg
  <1>5. c \in Msg /\ c.sub = NoSub
    BY DEF Msg, TypeInv, SentType
  <1> HIDE DEF c
  <1>6. ASSUME NEW q \in Mods
        PROVE  /\ Kept(pipe'[q], subs[q]) /\ Once(pipe'[q])
               /\ Len(pipe'[q]) \in Int /\ Len(pipe'[q]) <= Len(pipe[q]) + 1
    <2>1. pipe[q] \in Seq(Msg) /\ Kept(pipe[q], subs[q]) /\ Once(pipe[q])
      BY <1>1 DEF MemoryInv, SubsSafe
    <2>2. CASE pipe'[q] = pipe[q]
      BY <1>1, <2>1, <2>2
    <2>3. CASE pipe'[q] = Append(pipe[q], c)
      <3>1. /\ Kept(Append(pipe[q], c), subs[q]) /\ Once(Append(pipe[q], c))
            /\ Len(Append(pipe[q], c)) = Len(pipe[q]) + 1
        BY <2>1, <1>5, AppendMemory
      <3> QED
        BY <1>1, <2>3, <3>1
    <2> QED
      BY <1>4, <2>2, <2>3
  <1>7. Room'
    BY <1>1, <1>2, <1>6 DEF Room
  <1>8. SubsSafe'
    BY <1>6 DEF MemoryInv, SubsSafe, Keyed, Kept, Once, OnSystem
  <1>9. NoDirect'
    BY UserErrno DEF NotStopping, NoDirect, Stops, MayStop
  <1>10. RoundInv'
    BY RoundSame DEF MemoryInv
  <1> QED
    BY <1>3, <1>7, <1>8, <1>9, <1>10 DEF MemoryInv

LEMMA MemoryStep == Careful /\ TypeInv /\ MemoryInv /\ [Next]_vars => MemoryInv'
  <1> SUFFICES ASSUME Careful, TypeInv, MemoryInv, [Next]_vars PROVE MemoryInv'
    OBVIOUS
  <1> USE DEF modVars, loopVars
  <1>a. pipe \in [Mods -> Seq(Msg)] /\ PipeSize \in Nat /\ \A m \in Mods : Len(pipe[m]) \in Nat
    BY PubSubAssumption DEF TypeInv, SentType
  <1>b. subs \in [Mods -> SUBSET Sub] /\ mstate \in [Mods -> {"RUNNING", "PAUSED", "STOPPED"}]
    BY DEF TypeInv, RestType
  <1>c. "sys" \in Topics /\ "sys" # NoTopic /\ NoSub \notin Sub
    BY PubSubAssumption
  <1>d. ~undefined /\ Room /\ SubsSafe /\ NoDirect /\ RoundInv
    BY DEF MemoryInv
  <1>e. UserRuns => errno = "none"
    BY UserErrno
  <1>f. /\ UNCHANGED <<callbacks, ready, errno>>
        /\ phase' = phase \/ phase' # "flush" \/ ready = {}
        => RoundInv'
    BY <1>d, RoundSame
  <1>g. UNCHANGED <<phase, ready, errno>> => (Stops' <=> Stops)
    BY DEF Stops, MayStop
  <1>h. callbacks \in Seq(Frame)
    BY FrameType DEF TypeInv, RestType
  <1>1. CASE CallbackReturns
    <2>1. /\ callbacks' = Tail(callbacks) /\ callbacks # <<>>
          /\ errno' \in IF Len(callbacks) = 1 /\ ready # {} THEN {"none", "again", "error"}
                                                          ELSE {"none"}
          /\ errno' = "error" => DirectAreRead(Running)
          /\ UNCHANGED <<pipe, subs, mstate, phase, toFlush, ready, undefined>>
      BY <1>1 DEF CallbackReturns
    <2>2. errno' # "none" => callbacks' = <<>> /\ ready' # {}
      <3>1. Len(Tail(callbacks)) = Len(callbacks) - 1 /\ Tail(callbacks) \in Seq(Frame)
        BY <1>h, <2>1, TailIndex
      <3>2. Len(callbacks) = 1 => Tail(callbacks) = <<>>
        <4>1. PICK t : t = Tail(callbacks)
          OBVIOUS
        <4>2. Len(callbacks) = 1 => Len(t) = 0
          BY <3>1, <4>1
        <4>3. t \in Seq(Frame)
          BY <3>1, <4>1
        <4> QED
          BY <4>1, <4>2, <4>3, ZeroLength
      <3> QED
        BY <2>1, <3>2
    <2>3. RoundInv'
      BY <1>d, <2>1, <2>2 DEF RoundInv
    <2>4. errno' = "error" => \A m \in Mods : mstate[m] = "RUNNING" => ~Direct(pipe[m])
      BY <2>1 DEF DirectAreRead, Running, Unread, Direct
    <2>5. NoDirect'
      BY <1>d, <2>1, <2>4 DEF NoDirect, Stops, MayStop, Direct
    <2>6. Room' /\ SubsSafe'
      BY <1>d, <2>1 DEF Room, SubsSafe, Keyed, Kept, Once, OnSystem
    <2> QED
      BY <1>d, <2>1, <2>3, <2>5, <2>6 DEF MemoryInv
  <1>22. CASE PollWait
    <2>1. /\ phase = "loop" /\ ready' \in SUBSET Reported /\ errno' = "none"
          /\ UNCHANGED <<pipe, subs, mstate, phase, toFlush, undefined>>
      BY <1>22 DEF PollWait
    <2>2. \A m \in Mods : <<m, "freed">> \notin ready' /\ <<m, "closed">> \notin ready'
      BY <2>1 DEF Reported
    <2>3. RoundInv' /\ ~Stops'
      BY <2>1, <2>2 DEF RoundInv, Stops, MayStop
    <2>4. Room' /\ SubsSafe'
      BY <1>d, <2>1 DEF Room, SubsSafe, Keyed, Kept, Once, OnSystem
    <2> QED
      BY <1>d, <2>1, <2>3, <2>4 DEF MemoryInv, NoDirect
  <1>23. ASSUME NEW m \in Mods, Refuse(m) PROVE MemoryInv'
    <2>1. /\ pipe[m] # <<>> /\ pipe' = [pipe EXCEPT ![m] = Tail(pipe[m])]
          /\ undefined' = (undefined \/ ~SubAlive(m, Head(pipe[m]).sub))
          /\ UNCHANGED <<mstate, subs, toFlush>>
          /\ ready' = {} /\ errno' = "none" /\ phase \in {"loop", "quitting"}
          /\ phase' = IF errno = "error" THEN "quitting" ELSE phase
      BY <1>23 DEF Refuse, EndRound, Takes, Polling
    <2>2. /\ pipe[m] \in Seq(Msg) /\ Head(pipe[m]) = pipe[m][1] /\ 1 \in 1..Len(pipe[m])
          /\ Kept(pipe[m], subs[m]) /\ Once(pipe[m])
      BY <1>a, <1>d, <2>1, TailIndex DEF SubsSafe
    <2>3. SubAlive(m, Head(pipe[m]).sub)
      BY <2>2 DEF Kept, SubAlive
    <2>4. pipe'[m] = Tail(pipe[m]) /\ \A q \in Mods : q # m => pipe'[q] = pipe[q]
      BY <1>a, <2>1
    <2>5. /\ Kept(pipe'[m], subs[m]) /\ Once(pipe'[m])
          /\ Direct(pipe'[m]) => Direct(pipe[m])
          /\ Len(pipe'[m]) < Len(pipe[m]) /\ Len(pipe'[m]) \in Nat
      BY <2>1, <2>2, <2>4, TailKept
    <2>6. \A q \in Mods : Kept(pipe'[q], subs'[q]) /\ Once(pipe'[q]) /\ Keyed(subs'[q])
      BY <1>d, <2>1, <2>4, <2>5 DEF SubsSafe
    <2>7. SubsSafe'
      BY <2>6 DEF SubsSafe, Keyed, Kept, Once, OnSystem
    <2>8. Room'
      BY <1>a, <1>d, <2>1, <2>4, <2>5 DEF Room
    <2>9. Stops' => Stops
      BY <2>1 DEF Stops, MayStop
    <2>10. NoDirect'
      BY <1>d, <2>1, <2>4, <2>5, <2>9 DEF NoDirect, Direct
    <2>11. RoundInv'
      BY <2>1 DEF RoundInv
    <2> QED
      BY <1>d, <2>1, <2>3, <2>7, <2>8, <2>10, <2>11 DEF MemoryInv
  <1>2. CASE loop_stop
    <2>1. /\ phase \in {"loop", "quitting"} /\ phase' = "flush" /\ toFlush' = Mods
          /\ Publish(mstate, pipe, "sys") /\ UNCHANGED <<subs, mstate>>
          /\ phase = "quitting" \/ \A m \in Mods : mstate[m] # "RUNNING"
          /\ ready = {} /\ UNCHANGED <<callbacks, ready, errno>>
      BY <1>2 DEF loop_stop, Polling, Running
    <2>2. \A m \in Mods : Len(pipe[m]) < PipeSize
      BY <1>d, <2>1 DEF Room
    <2>3. ~undefined' /\ \A q \in Mods : Gets(q, mstate, pipe)
      BY <1>a, <1>c, <2>1, <2>2, PublishGets
    <2>4. ASSUME NEW q \in Mods
          PROVE  /\ Kept(pipe'[q], subs[q]) /\ Once(pipe'[q])
                 /\ Direct(pipe'[q]) => Direct(pipe[q])
      BY <1>a, <1>d, <2>3, GetsMemory DEF SubsSafe
    <2>5. SubsSafe'
      BY <1>d, <2>1, <2>4 DEF SubsSafe, Keyed, Kept, Once, OnSystem
    <2>6. NoDirect'
      BY <1>d, <2>1, <2>4 DEF NoDirect, Stops, MayStop, Direct
    <2>7. Room'
      BY <2>1 DEF Room
    <2> QED
      BY <1>f, <2>1, <2>3, <2>5, <2>6, <2>7 DEF MemoryInv
  <1>3. CASE LoopStopped
    <2>1. /\ phase = "flush" /\ phase' = "idle" /\ toFlush = {}
          /\ UNCHANGED <<pipe, subs, mstate, toFlush, undefined, callbacks, ready, errno>>
      BY <1>3 DEF LoopStopped
    <2>2. Room'
      BY <1>d, <2>1 DEF Room
    <2>3. SubsSafe'
      BY <1>d, <2>1 DEF SubsSafe, Keyed, Kept, Once, OnSystem
    <2>4. NoDirect'
      BY <1>d, <2>1 DEF NoDirect, Stops, MayStop, Direct
    <2> QED
      BY <1>d, <1>f, <2>1, <2>2, <2>3, <2>4 DEF MemoryInv
  <1>4. ASSUME NEW m \in Mods, Recv(m) PROVE MemoryInv'
    <2>1. /\ pipe[m] # <<>> /\ pipe' = [pipe EXCEPT ![m] = Tail(pipe[m])]
          /\ undefined' = (undefined \/ ~SubAlive(m, Head(pipe[m]).sub))
          /\ UNCHANGED <<mstate, phase, toFlush, errno>>
          /\ errno = "none" /\ ready' \subseteq ready
      BY <1>4 DEF Recv
    <2>2. /\ pipe[m] \in Seq(Msg) /\ Head(pipe[m]) = pipe[m][1] /\ 1 \in 1..Len(pipe[m])
          /\ Kept(pipe[m], subs[m]) /\ Once(pipe[m]) /\ Keyed(subs[m])
      BY <1>a, <1>d, <2>1, TailIndex DEF SubsSafe
    <2>3. SubAlive(m, Head(pipe[m]).sub)
      BY <2>2 DEF Kept, SubAlive
    <2>4. subs'[m] = IF pipe[m][1].sub # NoSub /\ pipe[m][1].sub.oneshot
                     THEN {s \in subs[m] : s.pat # pipe[m][1].sub.pat} ELSE subs[m]
      BY <1>4, <1>b, <2>2 DEF Recv
    <2>5. \A q \in Mods : q # m => subs'[q] = subs[q] /\ pipe'[q] = pipe[q]
      BY <1>4, <1>a, <1>b DEF Recv
    <2>6. pipe'[m] = Tail(pipe[m])
      BY <1>a, <2>1
    <2>7. /\ Kept(pipe'[m], subs'[m]) /\ Once(pipe'[m]) /\ Keyed(subs'[m])
          /\ Direct(pipe'[m]) => Direct(pipe[m])
          /\ Len(pipe'[m]) < Len(pipe[m])
      <3>1. subs[m] \in SUBSET Sub
        BY <1>b
      <3> QED
        BY <2>1, <2>2, <2>4, <2>6, <3>1, TailMemory
    <2>8. SubsSafe'
      <3>1. ASSUME NEW q \in Mods, q # m
            PROVE  Kept(pipe'[q], subs'[q]) /\ Once(pipe'[q]) /\ Keyed(subs'[q])
        BY <1>d, <2>5, <3>1 DEF SubsSafe
      <3>2. \A q \in Mods : Kept(pipe'[q], subs'[q]) /\ Once(pipe'[q]) /\ Keyed(subs'[q])
        BY <2>7, <3>1
      <3> QED
        BY <3>2 DEF SubsSafe, Keyed, Kept, Once, OnSystem
    <2>11. Stops' => Stops
      BY <2>1 DEF Stops, MayStop
    <2>9. NoDirect'
      BY <1>d, <2>1, <2>5, <2>7, <2>11 DEF NoDirect, Direct
    <2>12. RoundInv'
      BY <1>d, <2>1 DEF RoundInv
    <2>10. Room'
      <3>1. Len(pipe'[m]) \in Int
        BY <2>2, <2>6, TailIndex, <2>1
      <3> QED
        BY <1>a, <1>d, <2>1, <2>5, <2>7, <3>1 DEF Room
    <2> QED
      BY <1>d, <2>1, <2>3, <2>8, <2>9, <2>10, <2>12 DEF MemoryInv
  <1>5. ASSUME NEW m \in Mods, NEW kind \in TimerKind, BatchTimer(m, kind) PROVE MemoryInv'
    <2>1. /\ undefined' = (undefined \/ kind = "freed") /\ <<m, kind>> \in ready
          /\ UNCHANGED <<pipe, subs, mstate, toFlush>> /\ phase \in {"loop", "quitting"}
      BY <1>5 DEF BatchTimer, Takes, Polling
    <2>2. ~undefined'
      BY <1>d, <2>1 DEF RoundInv
    <2>3. PICK err \in TimerErrno(m, kind) :
             \/ err = "none" /\ ready' = ready \ {<<m, kind>>} /\ UNCHANGED <<errno, phase>>
             \/ err # "none" /\ EndRound(err)
      BY <1>5 DEF BatchTimer
    <2>4. /\ err = "none" => errno = "none"
          /\ err = "error" => Stops
      BY <2>1, <2>3 DEF TimerErrno, Stops, MayStop
    <2>5. RoundInv'
      BY <1>d, <2>3, <2>4 DEF RoundInv, EndRound
    <2>6. Stops' => Stops
      BY <2>3, <2>4 DEF Stops, MayStop, EndRound
    <2>7. NoDirect'
      BY <1>d, <2>1, <2>6 DEF NoDirect, Direct
    <2>8. phase' \in {"loop", "quitting"}
      BY <2>1, <2>3 DEF EndRound
    <2>9. Room' /\ SubsSafe'
      BY <1>d, <2>1, <2>8 DEF Room, SubsSafe, Keyed, Kept, Once, OnSystem
    <2> QED
      BY <2>2, <2>5, <2>7, <2>9 DEF MemoryInv
  <1>6. ASSUME NEW m \in Mods, flush_pubsub_msgs(m) PROVE MemoryInv'
    <2>1. /\ phase = "flush" /\ toFlush' = toFlush \ {m} /\ pipe' = [pipe EXCEPT ![m] = <<>>]
          /\ UNCHANGED <<mstate, subs, phase, ready, errno>> /\ callbacks = <<>>
      BY <1>6 DEF flush_pubsub_msgs
    <2>2. ASSUME mstate[m] = "RUNNING" PROVE ~undefined'
      <3>1. undefined' = (\E evt \in Range(pipe[m]) : evt.sub = NoSub \/ ~SubAlive(m, evt.sub))
        BY <1>6, <2>2 DEF flush_pubsub_msgs
      <3>2. \A x : x \in Range(pipe[m]) <=> \E i \in 1..Len(pipe[m]) : pipe[m][i] = x
        BY <1>a, RangeIndex
      <3>3. ~Direct(pipe[m]) /\ Kept(pipe[m], subs[m])
        BY <1>d, <2>1, <2>2 DEF NoDirect, Stops, MayStop, SubsSafe
      <3>4. \A evt \in Range(pipe[m]) : evt.sub # NoSub /\ SubAlive(m, evt.sub)
        BY <3>2, <3>3 DEF Direct, Kept, SubAlive
      <3> QED
        BY <3>1, <3>4
    <2>3. mstate[m] # "RUNNING" => ~undefined'
      BY <1>6, <1>d DEF flush_pubsub_msgs
    <2>4. pipe'[m] = <<>> /\ \A q \in Mods : q # m => pipe'[q] = pipe[q]
      BY <1>a, <2>1
    <2>5. Room'
      <3>1. Len(pipe'[m]) < PipeSize
        BY <2>4, EmptyMemory, PubSubAssumption
      <3> QED
        BY <1>d, <2>1, <2>4, <3>1 DEF Room
    <2>6. \A q \in Mods : Kept(pipe'[q], subs'[q]) /\ Once(pipe'[q]) /\ Keyed(subs'[q])
      BY <1>d, <2>1, <2>4, EmptyMemory DEF SubsSafe
    <2>7. SubsSafe'
      BY <2>6 DEF SubsSafe, Keyed, Kept, Once, OnSystem
    <2>8. \A q \in Mods : mstate[q] = "RUNNING" => ~Direct(pipe'[q])
      BY <1>d, <2>1, <2>4, EmptyMemory DEF NoDirect, Stops, MayStop
    <2>9. NoDirect'
      BY <2>1, <2>8 DEF NoDirect, Direct
    <2>10. RoundInv'
      BY <1>d, <1>6, <2>1 DEF RoundInv, flush_pubsub_msgs
    <2> QED
      BY <2>2, <2>3, <2>5, <2>7, <2>9, <2>10 DEF MemoryInv
  <1>7. ASSUME NEW m \in Mods, m_mod_ps_tell(m) PROVE MemoryInv'
    BY <1>7, DirectMemory DEF m_mod_ps_tell, UserSends
  <1>8. ASSUME NEW m \in Mods, m_mod_ps_poisonpill(m) PROVE MemoryInv'
    <2>1. /\ TellPubsubMsg(mstate, pipe, "sys", [q \in Mods |-> NoSub], {m})
          /\ UNCHANGED <<subs, mstate, phase, toFlush, callbacks, ready, errno>>
      BY <1>8 DEF m_mod_ps_poisonpill
    <2>2. ~tell_if(mstate, m, "sys", NoSub)
      BY <1>c DEF tell_if
    <2>3. {q \in {m} : tell_if(mstate, q, "sys", [p \in Mods |-> NoSub][q])} = {}
      BY <2>2
    <2>4. pipe' = [q \in Mods |-> pipe[q]] /\ undefined' = (undefined \/ FALSE)
      BY <2>1, <2>3 DEF TellPubsubMsg
    <2>5. pipe' = pipe
      BY <1>a, <2>4
    <2>6. undefined' = undefined
      BY <2>4 DEF TypeInv, RestType
    <2> QED
      BY <1>f, <2>1, <2>5, <2>6, MemorySame
  <1>9. ASSUME NEW m \in Mods, NEW o \in Offers, m_mod_ps_subscribe(m, o[1], o[2], o[3])
        PROVE  MemoryInv'
    <2> DEFINE old == {s \in subs[m] : s.pat = o[1]}
               new == [pat |-> o[1], prio |-> o[2], oneshot |-> o[3], gen |-> calls + 1]
    <2>1. /\ UNCHANGED <<pipe, mstate, phase, toFlush, undefined, callbacks, ready, errno>>
          /\ SubsAreRead(m, o[1]) /\ ~(o[3] /\ OnSystem(o[1]))
      BY <1>9 DEF m_mod_ps_subscribe
    <2>2. CASE subs' = subs
      BY <1>f, <2>1, <2>2, MemorySame
    <2>3. CASE subs' = [subs EXCEPT ![m] = (subs[m] \ old) \cup {new}]
      <3>1. new.pat = o[1] /\ new.oneshot = o[3]
        OBVIOUS
      <3>2. subs'[m] = (subs[m] \ old) \cup {new} /\ \A q \in Mods : q # m => subs'[q] = subs[q]
        BY <1>b, <2>3
      <3> HIDE DEF new
      <3>3. Keyed(subs'[m])
        BY <1>d, <2>1, <3>1, <3>2 DEF SubsSafe, Keyed
      <3>4. Kept(pipe[m], subs'[m])
        <4>1. \A i \in 1..Len(pipe[m]) : pipe[m][i].sub \notin old
          BY <2>1 DEF SubsAreRead, Unread
        <4> QED
          BY <1>d, <3>2, <4>1 DEF SubsSafe, Kept
      <3>5. \A q \in Mods : Kept(pipe'[q], subs'[q]) /\ Once(pipe'[q]) /\ Keyed(subs'[q])
        BY <1>d, <2>1, <3>2, <3>3, <3>4 DEF SubsSafe
      <3>6. SubsSafe'
        BY <3>5 DEF SubsSafe, Keyed, Kept, Once, OnSystem
      <3>7. Room' /\ NoDirect'
        BY <1>d, <1>g, <2>1 DEF Room, NoDirect, Direct
      <3> QED
        BY <1>d, <1>f, <2>1, <3>6, <3>7 DEF MemoryInv
    <2> QED
      BY <1>9, <2>2, <2>3 DEF m_mod_ps_subscribe
  <1>10. ASSUME NEW m \in Mods, NEW pat \in Patterns, m_mod_ps_unsubscribe(m, pat)
         PROVE  MemoryInv'
    <2>1. /\ UNCHANGED <<pipe, mstate, phase, toFlush, undefined, callbacks, ready, errno>>
          /\ SubsAreRead(m, pat)
      BY <1>10 DEF m_mod_ps_unsubscribe
    <2>2. PICK s \in subs[m] : s.pat = pat /\ subs' = [subs EXCEPT ![m] = subs[m] \ {s}]
      BY <1>10 DEF m_mod_ps_unsubscribe
    <2>3. subs'[m] = subs[m] \ {s} /\ \A q \in Mods : q # m => subs'[q] = subs[q]
      BY <1>b, <2>2
    <2>4. Kept(pipe[m], subs'[m]) /\ Keyed(subs'[m])
      BY <1>d, <2>1, <2>2, <2>3 DEF SubsSafe, Kept, Keyed, SubsAreRead, Unread
    <2>5. \A q \in Mods : Kept(pipe'[q], subs'[q]) /\ Once(pipe'[q]) /\ Keyed(subs'[q])
      BY <1>d, <2>1, <2>3, <2>4 DEF SubsSafe
    <2>6. SubsSafe'
      BY <2>5 DEF SubsSafe, Keyed, Kept, Once, OnSystem
    <2>7. Room' /\ NoDirect'
      BY <1>d, <1>g, <2>1 DEF Room, NoDirect, Direct
    <2> QED
      BY <1>d, <1>f, <2>1, <2>6, <2>7 DEF MemoryInv
  <1>11. ASSUME NEW m \in Mods, NEW n \in Sizes, m_mod_set_batch_size(m, n) \/ m_mod_unstash(m, n)
         PROVE  MemoryInv'
    <2>1. UNCHANGED <<pipe, subs, mstate, phase, toFlush, ready, errno, undefined>> /\ UserRuns
      BY <1>11 DEF m_mod_set_batch_size, m_mod_unstash, UserCalls
    <2>2. RoundInv'
      BY <1>d, <1>e, <2>1 DEF RoundInv
    <2> QED
      BY <2>1, <2>2, MemorySame
  <1>12. ASSUME NEW m \in Mods, NEW b \in BOOLEAN, m_mod_set_batch_timeout(m, b)
         PROVE  MemoryInv'
    <2>1. /\ UNCHANGED <<pipe, subs, mstate, callbacks, phase, toFlush, errno, undefined>>
          /\ ready' = ready
      BY <1>12, NoneBecomes DEF m_mod_set_batch_timeout
    <2> QED
      BY <1>f, <2>1, MemorySame
  <1>13. ASSUME NEW m \in Mods, NEW b \in BOOLEAN, start(m, b) PROVE MemoryInv'
    <2>1. /\ Publish(mstate', pipe, "sys") /\ PipesHaveRoom
          /\ UNCHANGED <<subs, phase, toFlush, callbacks, ready, errno>>
          /\ mstate' = [mstate EXCEPT ![m] = "RUNNING"]
          /\ MayStop => DirectAreRead({m})
          /\ UserRuns
      BY <1>13 DEF start, SetState, UserCalls
    <2>2. Stops' => MayStop /\ Stops
      BY <1>e, <2>1 DEF Stops, MayStop
    <2>3. \A q \in Mods : Stops' /\ mstate'[q] = "RUNNING" => ~Direct(pipe[q])
      BY <1>b, <1>d, <2>1, <2>2 DEF NoDirect, DirectAreRead, Unread, Direct
    <2> QED
      BY <1>c, <1>f, <2>1, <2>3, PublishMemory
  <1>14. ASSUME NEW m \in Mods, m_mod_pause(m) PROVE MemoryInv'
    <2>1. /\ Publish(mstate', pipe, "sys") /\ PipesHaveRoom
          /\ UNCHANGED <<subs, callbacks, phase, toFlush, errno>> /\ UserRuns
          /\ mstate' = [mstate EXCEPT ![m] = "PAUSED"]
          /\ <<m, "timer">> \in ready => DirectAreRead(Running)
          /\ Becomes(m, {"timer"}, "closed")
      BY <1>14 DEF m_mod_pause, SetState, UserCalls
    <2>2. ready \subseteq Mods \X EventKind
      BY DEF TypeInv, RestType
    <2>3. \A e \in ready : e[1] = m /\ e[2] = "timer" => e = <<m, "timer">>
      BY <2>2
    <2>4. Stops' => Stops \/ <<m, "timer">> \in ready
      BY <2>1, <2>3 DEF Becomes, Stops, MayStop
    <2>5. \A q \in Mods : Stops' /\ mstate'[q] = "RUNNING" => ~Direct(pipe[q])
      <3>1. \A q \in Mods : mstate'[q] = "RUNNING" => mstate[q] = "RUNNING"
        BY <1>b, <2>1
      <3> QED
        BY <1>d, <2>1, <2>4, <3>1 DEF NoDirect, DirectAreRead, Running, Unread, Direct
    <2>6. RoundInv'
      BY <1>d, <1>e, <2>1, <2>2 DEF RoundInv, Becomes
    <2> QED
      BY <1>c, <2>1, <2>5, <2>6, PublishMemory
  <1>15. ASSUME NEW m \in Mods, m_mod_stop(m) PROVE MemoryInv'
    <2> DEFINE pipes == [pipe EXCEPT ![m] = <<>>]
    <2>1. /\ Publish(mstate', pipes, "sys") /\ PipesHaveRoom
          /\ UNCHANGED <<callbacks, phase, toFlush, errno>> /\ ready' = ready
          /\ mstate' = [mstate EXCEPT ![m] = "STOPPED"] /\ subs' = [subs EXCEPT ![m] = {}]
      BY <1>15, NoneBecomes DEF m_mod_stop, SetState, reset_module
    <2>2. /\ pipes \in [Mods -> Seq(Msg)] /\ pipes[m] = <<>>
          /\ \A q \in Mods : q # m => pipes[q] = pipe[q]
      BY <1>a
    <2>3. \A q \in Mods : Len(pipes[q]) + 1 < PipeSize /\ Len(pipes[q]) < PipeSize
      <3>1. \A q \in Mods : Len(pipe[q]) + 1 < PipeSize
        BY <2>1 DEF PipesHaveRoom
      <3>2. Len(pipes[m]) = 0
        BY <2>2, EmptyMemory
      <3> HIDE DEF pipes
      <3>3. Len(pipe[m]) + 1 < PipeSize
        BY <3>1
      <3>4. ASSUME NEW q \in Mods PROVE Len(pipes[q]) + 1 < PipeSize /\ Len(pipes[q]) < PipeSize
        <4>1. CASE q = m
          BY <1>a, <3>2, <3>3, <4>1
        <4>2. CASE q # m
          BY <1>a, <2>2, <3>1, <4>2
        <4> QED
          BY <4>1, <4>2
      <3> QED
        BY <3>4
    <2> HIDE DEF pipes
    <2>4. ~undefined' /\ \A q \in Mods : Gets(q, mstate', pipes)
      BY <1>c, <2>1, <2>2, <2>3, PublishGets
    <2>5. pipe'[m] = <<>>
      BY <1>b, <2>1, <2>2, <2>4 DEF Gets
    <2>6. /\ subs'[m] = {} /\ mstate'[m] # "RUNNING"
          /\ \A q \in Mods : q # m => subs'[q] = subs[q] /\ mstate'[q] = mstate[q]
      BY <1>b, <2>1
    <2>7. ASSUME NEW q \in Mods
          PROVE  /\ Kept(pipe'[q], subs[q]) /\ Once(pipe'[q])
                 /\ Direct(pipe'[q]) => Direct(pipes[q])
                 /\ Len(pipe'[q]) <= Len(pipes[q]) + 1
      <3>1. Kept(pipes[q], subs[q]) /\ Once(pipes[q])
        BY <1>d, <2>2, EmptyMemory DEF SubsSafe
      <3> QED
        BY <2>2, <2>4, <3>1, GetsMemory
    <2>8. \A q \in Mods : Kept(pipe'[q], subs'[q]) /\ Once(pipe'[q]) /\ Keyed(subs'[q])
      <3>1. Keyed({}) /\ Kept(<<>>, {})
        BY EmptyMemory DEF Keyed
      <3> QED
        BY <1>d, <2>5, <2>6, <2>7, <3>1 DEF SubsSafe
    <2>9. SubsSafe'
      BY <2>8 DEF SubsSafe, Keyed, Kept, Once, OnSystem
    <2>10. NoDirect'
      <3>1. ASSUME NEW q \in Mods, mstate'[q] = "RUNNING", Stops PROVE ~Direct(pipe'[q])
        BY <1>d, <2>2, <2>6, <2>7, <3>1 DEF NoDirect
      <3> QED
        BY <1>g, <2>1, <3>1 DEF NoDirect, Direct
    <2>11. Room'
      <3>1. ASSUME NEW q \in Mods PROVE Len(pipe'[q]) \in Int /\ Len(pipes[q]) \in Nat
        <4>1. pipes[q] \in Seq(Msg)
          BY <2>2
        <4>2. CASE pipe'[q] = pipes[q]
          BY <4>1, <4>2
        <4>3. CASE \E c \in Msg : pipe'[q] = Append(pipes[q], c)
          BY <4>1, <4>3, AppendIndex
        <4> QED
          BY <2>4, <4>2, <4>3 DEF Gets
      <3> QED
        BY <1>a, <2>3, <2>7, <3>1 DEF Room
    <2> QED
      BY <1>f, <2>1, <2>4, <2>9, <2>10, <2>11 DEF MemoryInv
  <1>16. ASSUME NEW topic \in Topics \cup {NoTopic}, m_mod_ps_publish(topic) PROVE MemoryInv'
    <2>1. /\ UNCHANGED <<subs, mstate, phase, toFlush, callbacks, ready, errno>> /\ PipesHaveRoom
          /\ UserRuns
      BY <1>16 DEF m_mod_ps_publish, UserSends
    <2>2. CASE /\ TellPubsubMsg(mstate, pipe, NoTopic, [m \in Mods |-> NoSub], Mods)
               /\ NotStopping
      BY <2>1, <2>2, DirectMemory
    <2>3. CASE topic # NoTopic /\ OneshotsAreRead(topic) /\ Publish(mstate, pipe, topic)
      <3>1. \A m \in Mods : Stops' /\ mstate'[m] = "RUNNING" => ~Direct(pipe[m])
        BY <1>d, <1>g, <2>1 DEF NoDirect
      <3> QED
        BY <1>f, <2>1, <2>3, <3>1, PublishMemory
    <2> QED
      BY <1>16, <2>2, <2>3 DEF m_mod_ps_publish
  <1>17. ASSUME callbacks # <<>>, NEW evt \in Range(callbacks[1].evts), m_mod_stash(evt)
         PROVE  MemoryInv'
    BY <1>f, <1>17, MemorySame DEF m_mod_stash
  <1>18. CASE process_tick
    <2>1. /\ Publish(mstate, pipe, "sys") /\ PipesHaveRoom
          /\ UNCHANGED <<subs, mstate, phase, toFlush, callbacks, ready, errno>>
      BY <1>18 DEF process_tick
    <2>2. \A m \in Mods : Stops' /\ mstate'[m] = "RUNNING" => ~Direct(pipe[m])
      BY <1>d, <1>g, <2>1 DEF NoDirect
    <2> QED
      BY <1>c, <1>f, <2>1, <2>2, PublishMemory
  <1>19. CASE m_ctx_quit
    <2>1. /\ phase = "loop" /\ phase' = "quitting"
          /\ UNCHANGED <<pipe, subs, mstate, toFlush, undefined, callbacks, ready, errno>>
          /\ \A m \in Mods : mstate[m] = "RUNNING" => ~Unread(m, NoSub)
      BY <1>19 DEF m_ctx_quit, DirectAreRead, Running
    <2>2. NoDirect'
      BY <2>1 DEF NoDirect, Unread, Direct
    <2>3. Room'
      BY <1>d, <2>1 DEF Room
    <2>4. SubsSafe'
      BY <1>d, <2>1 DEF SubsSafe, Keyed, Kept, Once, OnSystem
    <2> QED
      BY <1>d, <1>f, <2>1, <2>2, <2>3, <2>4 DEF MemoryInv
  <1>20. CASE loop_start
    <2>1. /\ Publish(mstate, pipe, "sys") /\ PipesHaveRoom /\ phase' = "loop"
          /\ UNCHANGED <<subs, mstate, toFlush, callbacks, ready, errno>>
      BY <1>20 DEF loop_start
    <2>2. \A m \in Mods : Stops' /\ mstate'[m] = "RUNNING" => ~Direct(pipe[m])
      BY <1>d, <2>1 DEF NoDirect, Stops, MayStop
    <2> QED
      BY <1>c, <1>f, <2>1, <2>2, PublishMemory
  <1>21. CASE UNCHANGED vars
    BY <1>f, <1>21, MemorySame DEF vars
  <1> QED
    BY <1>1, <1>2, <1>3, <1>4, <1>5, <1>6, <1>7, <1>8, <1>9, <1>10, <1>11, <1>12, <1>13,
       <1>14, <1>15, <1>16, <1>17, <1>18, <1>19, <1>20, <1>21, <1>22, <1>23
    DEF Next, LibraryStep, UserCall

LEMMA MemoryInit == Careful /\ Init => MemoryInv
  <1> SUFFICES ASSUME Careful, Init PROVE MemoryInv
    OBVIOUS
  <1>1. /\ \A m \in Mods : pipe[m] = <<>> /\ subs[m] = Subscribed[m]
        /\ phase = "loop" /\ ~undefined
    BY DEF Init
  <1>2. Room
    BY <1>1, EmptyMemory, PubSubAssumption DEF Room
  <1>3. \A m \in Mods : Keyed(subs[m])
    BY <1>1, PubSubAssumption DEF Keyed
  <1>4. SubsSafe
    BY <1>1, <1>3, EmptyMemory DEF SubsSafe
  <1>5. ~Stops /\ RoundInv
    BY <1>1 DEF Init, Stops, MayStop, RoundInv
  <1> QED
    BY <1>1, <1>2, <1>4, <1>5 DEF MemoryInv, NoDirect

(* When the user's code respects ClientRules, no freed or missing             *)
(* subscription is used and no write to a pipe fails, although a message      *)
(* holds no reference on its subscription (ps.c alloc_ps_msg, process_ps,     *)
(* flush_pubsub_msgs).                                                       *)
THEOREM CarefulClientsAreSafe == Careful => (Spec => []NoUndefined)
  <1> SUFFICES ASSUME Careful PROVE Spec => []NoUndefined
    OBVIOUS
  <1>1. Init => TypeInv /\ MemoryInv
    BY TypeInit, MemoryInit
  <1>2. TypeInv /\ MemoryInv /\ [Next]_vars => (TypeInv /\ MemoryInv)'
    BY TypeStep, MemoryStep
  <1>3. TypeInv /\ MemoryInv => NoUndefined
    BY DEF MemoryInv, NoUndefined
  <1> QED
    BY <1>1, <1>2, <1>3, PTL DEF Spec
=============================================================================
