--------------------------- MODULE LifecycleProofs ---------------------------
(***************************************************************************)
(* Proofs about modules and their context, for any modules, names, flags,    *)
(* hooks and depth of the call stack: the context's references, the legal     *)
(* changes of state, the modules that run and the events they get;           *)
(* the reference counts of modules; and that nothing is used after it was     *)
(* freed.  Everything here is about what may be on the stack when a hook calls *)
(* the library back.                                                         *)
(***************************************************************************)
EXTENDS Lifecycle, FiniteSetTheorems, SequenceTheorems, TLAPS

States == {"NONE", "IDLE", "RUNNING", "PAUSED", "STOPPED", "ZOMBIE"}
Fns == {"user", "start", "stop", "bound", "dereg", "register", "iter", "loop", "recv", "flush",
        "lstop"}
Ats == Where \cup StateOp \cup {"call", "stopped", "user", "lib", "next", "evaluated", "started",
                                "called"}
Event == [mod : Mods, src : BOOLEAN]
FrameType == [fn : Fns, mod : Mods \cup {NoMod}, at : Ats, n : Nat \cup {-1}, seen : SUBSET Mods,
              todo : Seq(Event)]

-----------------------------------------------------------------------------
(***************************************************************************)
(* Sequences.                                                               *)
(***************************************************************************)
LEMMA PushIndex ==
    ASSUME NEW S, NEW s \in Seq(S), NEW x \in S
    PROVE  /\ <<x>> \o s \in Seq(S) /\ Len(<<x>> \o s) = Len(s) + 1 /\ Len(s) \in Nat
           /\ (<<x>> \o s)[1] = x
           /\ \A i \in 1..Len(s) : i + 1 \in 1..Len(<<x>> \o s) /\ (<<x>> \o s)[i + 1] = s[i]
           /\ \A i \in 1..Len(<<x>> \o s) :
                i = 1 \/ (i - 1 \in 1..Len(s) /\ (<<x>> \o s)[i] = s[i - 1])
  OBVIOUS

LEMMA PushTwo ==
    ASSUME NEW S, NEW s \in Seq(S), NEW x \in S, NEW y \in S
    PROVE  <<x, y>> \o s = <<x>> \o (<<y>> \o s)
  <1>1. <<x>> \in Seq(S) /\ <<y>> \in Seq(S) /\ <<x, y>> \in Seq(S)
    OBVIOUS
  <1> DEFINE t == <<x>> \o <<y>>
  <1>2. t \in Seq(S) /\ Len(t) = 2 /\ t[1] = x /\ t[2] = y
    BY <1>1, ConcatProperties
  <1>3. Len(<<x, y>>) = 2 /\ <<x, y>>[1] = x /\ <<x, y>>[2] = y
    OBVIOUS
  <1> HIDE DEF t
  <1>4. \A i \in 1..Len(t) : t[i] = <<x, y>>[i]
    BY <1>2, <1>3
  <1>5. <<x, y>> = t
    BY <1>1, <1>2, <1>3, <1>4, SeqEqual
  <1> QED
    BY <1>1, <1>5, ConcatAssociative DEF t

LEMMA TailIndex ==
    ASSUME NEW S, NEW s \in Seq(S), Len(s) > 1
    PROVE  /\ Tail(s) \in Seq(S) /\ Len(Tail(s)) = Len(s) - 1 /\ Len(s) \in Nat
           /\ \A i \in 1..Len(Tail(s)) : i + 1 \in 1..Len(s) /\ Tail(s)[i] = s[i + 1]
  OBVIOUS

LEMMA HeadFirst ==
    ASSUME NEW S, NEW s \in Seq(S), Len(s) >= 1
    PROVE  Head(s) = s[1] /\ Head(s) \in S
  OBVIOUS

LEMMA NewFrame ==
    ASSUME NEW fn \in Fns, NEW m \in Mods \cup {NoMod}, NEW at \in Ats
    PROVE  /\ Frame(fn, m, at) \in FrameType
           /\ Frame(fn, m, at).fn = fn /\ Frame(fn, m, at).mod = m /\ Frame(fn, m, at).at = at
           /\ Frame(fn, m, at).todo = <<>>
  BY DEF Frame, FrameType

-----------------------------------------------------------------------------
(***************************************************************************)
(* The stack.  A frame that awaits the result of a hook has that hook's       *)
(* frame on top of it.                                                       *)
(***************************************************************************)
Awaits(f) == (f.fn = "iter" /\ f.at = "evaluated") \/ (f.fn = "start" /\ f.at = "call")

(* The modules the frames work on, given the modules' states: those to        *)
(* register are not registered yet, the others are.                         *)
FrameOK(f, st) ==
    /\ f.fn = "user" /\ f.at # "main" => f.mod \in Mods
    /\ f.fn \in {"start", "stop", "bound", "dereg"} \/ Awaits(f) => f.mod \in Mods
    /\ f.fn \in {"start", "dereg"} \/ Awaits(f) => st[f.mod] # "NONE"
    /\ f.fn = "bound" => f.at \in StateOp
    /\ f.fn = "register" => f.mod \in Mods /\ st[f.mod] = "NONE"

Main(f) == f.fn = "user" /\ f.at = "main"

Shape(s, st) ==
    /\ s \in Seq(FrameType) /\ Len(s) >= 1
    /\ Main(s[Len(s)]) /\ s[Len(s)].mod = NoMod
    /\ \A i \in 1..Len(s) : FrameOK(s[i], st) /\ (Main(s[i]) => i = Len(s))
    /\ \A i, j \in 1..Len(s) :
          s[i].fn = "register" /\ s[j].fn = "register" /\ s[i].mod = s[j].mod => i = j
    /\ \A i \in 1..Len(s), j \in 1..Len(s) :
          j = i + 1 /\ Awaits(s[j]) => s[i].fn = "user" /\ s[i].mod = s[j].mod

(* Nothing but a hook may be pushed on a stack that awaits it.               *)
Ready(s, st) == Shape(s, st) /\ ~Awaits(s[1])

LEMMA ShapePush ==
    ASSUME NEW s, NEW st, Shape(s, st), NEW f \in FrameType, FrameOK(f, st), ~Main(f),
           Awaits(s[1]) => f.fn = "user" /\ f.mod = s[1].mod,
           f.fn = "register" => \A i \in 1..Len(s) : ~(s[i].fn = "register" /\ s[i].mod = f.mod)
    PROVE  Shape(<<f>> \o s, st) /\ (<<f>> \o s)[1] = f
  <1> DEFINE t == <<f>> \o s
  <1>1. s \in Seq(FrameType) /\ Len(s) \in Nat /\ Len(s) >= 1
    BY DEF Shape
  <1>2. /\ t \in Seq(FrameType) /\ Len(t) = Len(s) + 1 /\ t[1] = f
        /\ \A i \in 1..Len(s) : i + 1 \in 1..Len(t) /\ t[i + 1] = s[i]
        /\ \A i \in 1..Len(t) : i = 1 \/ (i - 1 \in 1..Len(s) /\ t[i] = s[i - 1])
    BY <1>1, PushIndex
  <1> HIDE DEF t
  <1>3. Main(t[Len(t)]) /\ t[Len(t)].mod = NoMod
    <2>1. Len(s) \in 1..Len(s)
      BY <1>1
    <2>2. t[Len(t)] = s[Len(s)]
      BY <1>2, <2>1
    <2> QED
      BY <2>2 DEF Shape
  <1>4. ASSUME NEW i \in 1..Len(t) PROVE FrameOK(t[i], st) /\ (Main(t[i]) => i = Len(t))
    <2>1. CASE i = 1
      BY <1>2, <2>1
    <2>2. CASE i - 1 \in 1..Len(s) /\ t[i] = s[i - 1]
      <3>1. FrameOK(s[i - 1], st) /\ (Main(s[i - 1]) => i - 1 = Len(s))
        BY <2>2 DEF Shape
      <3> QED
        BY <1>1, <1>2, <2>2, <3>1
    <2> QED
      BY <1>2, <2>1, <2>2
  <1>5. ASSUME NEW i \in 1..Len(t), NEW j \in 1..Len(t), t[i].fn = "register",
               t[j].fn = "register", t[i].mod = t[j].mod
        PROVE  i = j
    <2>1. CASE i = 1 /\ j # 1
      BY <1>2, <1>5, <2>1
    <2>2. CASE i # 1 /\ j = 1
      BY <1>2, <1>5, <2>2
    <2>3. CASE i # 1 /\ j # 1
      <3>1. i - 1 \in 1..Len(s) /\ j - 1 \in 1..Len(s) /\ t[i] = s[i - 1] /\ t[j] = s[j - 1]
        BY <1>2, <2>3
      <3>2. i - 1 = j - 1
        BY <1>5, <3>1 DEF Shape
      <3> QED
        BY <3>2
    <2> QED
      BY <2>1, <2>2, <2>3
  <1>6. ASSUME NEW i \in 1..Len(t), NEW j \in 1..Len(t), j = i + 1, Awaits(t[j])
        PROVE  t[i].fn = "user" /\ t[i].mod = t[j].mod
    <2>1. CASE i = 1
      <3>1. t[j] = s[1]
        BY <1>1, <1>2, <1>6, <2>1
      <3> QED
        BY <1>2, <1>6, <2>1, <3>1
    <2>2. CASE i # 1
      <3>1. i - 1 \in 1..Len(s) /\ j - 1 \in 1..Len(s) /\ t[i] = s[i - 1] /\ t[j] = s[j - 1]
        BY <1>2, <1>6, <2>2
      <3>2. j - 1 = (i - 1) + 1
        BY <1>6
      <3> QED
        BY <1>6, <3>1, <3>2 DEF Shape
    <2> QED
      BY <2>1, <2>2
  <1>7. Len(t) >= 1
    BY <1>1, <1>2
  <1>8. Shape(t, st)
    BY <1>2, <1>3, <1>4, <1>5, <1>6, <1>7 DEF Shape
  <1> QED
    BY <1>2, <1>8 DEF t

(* A function returns: the frame below runs.                                *)
LEMMA ShapePop ==
    ASSUME NEW s, NEW st, Shape(s, st), ~Main(s[1])
    PROVE  /\ Len(s) > 1 /\ Shape(Tail(s), st)
           /\ Tail(s) \in Seq(FrameType) /\ Len(Tail(s)) >= 1
           /\ Awaits(Tail(s)[1]) => s[1].fn = "user" /\ s[1].mod = Tail(s)[1].mod
  <1> DEFINE t == Tail(s)
  <1>1. s \in Seq(FrameType) /\ Len(s) \in Nat /\ Len(s) > 1
    BY DEF Shape
  <1>2. /\ t \in Seq(FrameType) /\ Len(t) = Len(s) - 1
        /\ \A i \in 1..Len(t) : i + 1 \in 1..Len(s) /\ t[i] = s[i + 1]
    BY <1>1, TailIndex
  <1> HIDE DEF t
  <1>3. Len(t) >= 1 /\ 1 \in 1..Len(t) /\ Len(t) \in 1..Len(t)
    BY <1>1, <1>2
  <1>4. Main(t[Len(t)]) /\ t[Len(t)].mod = NoMod
    <2>1. t[Len(t)] = s[Len(s)]
      BY <1>1, <1>2, <1>3
    <2> QED
      BY <2>1 DEF Shape
  <1>5. ASSUME NEW i \in 1..Len(t) PROVE FrameOK(t[i], st) /\ (Main(t[i]) => i = Len(t))
    <2>1. FrameOK(s[i + 1], st) /\ (Main(s[i + 1]) => i + 1 = Len(s))
      BY <1>2 DEF Shape
    <2> QED
      BY <1>1, <1>2, <2>1
  <1>6. ASSUME NEW i \in 1..Len(t), NEW j \in 1..Len(t), t[i].fn = "register",
               t[j].fn = "register", t[i].mod = t[j].mod
        PROVE  i = j
    <2>1. i + 1 = j + 1
      BY <1>2, <1>6 DEF Shape
    <2> QED
      BY <2>1
  <1>7. ASSUME NEW i \in 1..Len(t), NEW j \in 1..Len(t), j = i + 1, Awaits(t[j])
        PROVE  t[i].fn = "user" /\ t[i].mod = t[j].mod
    <2>1. /\ i + 1 \in 1..Len(s) /\ j + 1 \in 1..Len(s) /\ j + 1 = (i + 1) + 1
          /\ t[i] = s[i + 1] /\ t[j] = s[j + 1]
      BY <1>2, <1>7
    <2>2. Awaits(s[j + 1])
      BY <1>7, <2>1
    <2>3. s[i + 1].fn = "user" /\ s[i + 1].mod = s[j + 1].mod
      BY <2>1, <2>2 DEF Shape
    <2> QED
      BY <2>1, <2>3
  <1>8. Shape(t, st)
    BY <1>2, <1>3, <1>4, <1>5, <1>6, <1>7 DEF Shape
  <1>9. Awaits(t[1]) => s[1].fn = "user" /\ s[1].mod = t[1].mod
    <2>1. t[1] = s[2] /\ 1 \in 1..Len(s) /\ 2 \in 1..Len(s) /\ 2 = 1 + 1
      BY <1>1, <1>2, <1>3
    <2> QED
      BY <2>1 DEF Shape
  <1> QED
    BY <1>1, <1>2, <1>3, <1>8, <1>9 DEF t

(* Two stacks of the same functions on the same modules; t has no event the   *)
(* source of which s has lost.                                              *)
Alike(s, t) ==
    /\ s \in Seq(FrameType) /\ t \in Seq(FrameType) /\ Len(t) = Len(s)
    /\ \A i \in 1..Len(s) :
          /\ t[i].fn = s[i].fn /\ t[i].mod = s[i].mod /\ t[i].at = s[i].at
          /\ Len(t[i].todo) = Len(s[i].todo)
          /\ \A j \in 1..Len(s[i].todo) :
                /\ t[i].todo[j].mod = s[i].todo[j].mod
                /\ t[i].todo[j].src => s[i].todo[j].src

LEMMA ShapeAlike ==
    ASSUME NEW s, NEW t, NEW st, Shape(s, st), Alike(s, t)
    PROVE  Shape(t, st) /\ (Awaits(t[1]) <=> Awaits(s[1]))
  <1>1. /\ t \in Seq(FrameType) /\ Len(t) = Len(s) /\ Len(s) \in Nat /\ Len(s) >= 1
        /\ \A i \in 1..Len(s) : t[i].fn = s[i].fn /\ t[i].mod = s[i].mod /\ t[i].at = s[i].at
    BY DEF Alike, Shape
  <1>2. 1 \in 1..Len(s) /\ Len(s) \in 1..Len(s)
    BY <1>1
  <1>3. \A i \in 1..Len(s) : /\ Awaits(t[i]) <=> Awaits(s[i])
                             /\ Main(t[i]) <=> Main(s[i])
                             /\ FrameOK(s[i], st) => FrameOK(t[i], st)
    BY <1>1 DEF Awaits, Main, FrameOK
  <1> QED
    BY <1>1, <1>2, <1>3 DEF Shape

(* The states of modules may change, but none that is to be registered is.   *)
LEMMA ShapeState ==
    ASSUME NEW s, NEW st, NEW su, Shape(s, st),
           \A m \in Mods : st[m] # "NONE" => su[m] # "NONE",
           \A i \in 1..Len(s) : s[i].fn = "register" => su[s[i].mod] = "NONE"
    PROVE  Shape(s, su)
  <1>1. \A i \in 1..Len(s) : FrameOK(s[i], su)
    BY DEF Shape, FrameOK
  <1> QED
    BY <1>1 DEF Shape

(* What resetting a module, or binding one to it, does to the frames below.   *)
LEMMA DanglingAlike ==
    ASSUME NEW s \in Seq(FrameType), NEW m \in Mods
    PROVE  /\ Alike(s, Dangling(s, m))
           /\ \A i \in 1..Len(s) : \A j \in 1..Len(Dangling(s, m)[i].todo) :
                 Dangling(s, m)[i].todo[j].mod = m => ~Dangling(s, m)[i].todo[j].src
  <1> DEFINE Todo(f) == [j \in 1..Len(f.todo) |->
                            IF f.todo[j].mod = m THEN [f.todo[j] EXCEPT !.src = FALSE]
                                                 ELSE f.todo[j]]
             N(f) == IF f.fn = "bound" /\ f.mod = m /\ f.n > 1 THEN -1 ELSE f.n
             D(f) == [f EXCEPT !.todo = Todo(f), !.n = N(f)]
             d == Dangling(s, m)
  <1>1. d = [i \in 1..Len(s) |-> D(s[i])]
    BY DEF Dangling
  <1>2. ASSUME NEW f \in FrameType
        PROVE  /\ D(f) \in FrameType
               /\ D(f).fn = f.fn /\ D(f).mod = f.mod /\ D(f).at = f.at
               /\ Len(D(f).todo) = Len(f.todo)
               /\ \A j \in 1..Len(f.todo) :
                     /\ D(f).todo[j].mod = f.todo[j].mod
                     /\ D(f).todo[j].src => f.todo[j].src
                     /\ f.todo[j].mod = m => ~D(f).todo[j].src
    <2>1. f.todo \in Seq(Event) /\ f.n \in Nat \cup {-1}
      BY DEF FrameType
    <2>2. \A j \in 1..Len(f.todo) : f.todo[j] \in Event
      BY <2>1
    <2>3. \A j \in 1..Len(f.todo) :
             /\ Todo(f)[j] \in Event /\ Todo(f)[j].mod = f.todo[j].mod
             /\ Todo(f)[j].src => f.todo[j].src
             /\ f.todo[j].mod = m => ~Todo(f)[j].src
      BY <2>2 DEF Event
    <2>4. Todo(f) \in Seq(Event) /\ Len(Todo(f)) = Len(f.todo)
      <3>1. Len(f.todo) \in Nat
        BY <2>1
      <3>2. Todo(f) \in [1..Len(f.todo) -> Event]
        BY <2>3
      <3> QED
        BY <3>1, <3>2
    <2>5. N(f) \in Nat \cup {-1}
      BY <2>1
    <2> HIDE DEF Todo, N
    <2>6. /\ D(f) \in FrameType /\ D(f).todo = Todo(f)
          /\ D(f).fn = f.fn /\ D(f).mod = f.mod /\ D(f).at = f.at
      BY <2>4, <2>5 DEF FrameType
    <2> QED
      BY <2>3, <2>4, <2>6
  <1> HIDE DEF D
  <1>3. \A i \in 1..Len(s) : s[i] \in FrameType
    OBVIOUS
  <1>4. d \in Seq(FrameType) /\ Len(d) = Len(s) /\ \A i \in 1..Len(s) : d[i] = D(s[i])
    <2>1. Len(s) \in Nat
      OBVIOUS
    <2>2. d \in [1..Len(s) -> FrameType]
      BY <1>1, <1>2, <1>3
    <2> QED
      BY <1>1, <2>1, <2>2
  <1> HIDE DEF d
  <1>5. Alike(s, d)
    BY <1>2, <1>3, <1>4 DEF Alike
  <1>6. ASSUME NEW i \in 1..Len(s), NEW j \in 1..Len(d[i].todo), d[i].todo[j].mod = m
        PROVE  ~d[i].todo[j].src
    BY <1>2, <1>3, <1>4, <1>6
  <1> QED
    BY <1>5, <1>6 DEF d

LEMMA ShiftedAlike ==
    ASSUME NEW s \in Seq(FrameType), NEW m \in Mods
    PROVE  Alike(s, Shifted(s, m))
  <1> DEFINE N(f) == IF f.fn = "bound" /\ f.mod = m /\ f.n > 1 THEN f.n + 1 ELSE f.n
             D(f) == [f EXCEPT !.n = N(f)]
             d == Shifted(s, m)
  <1>1. d = [i \in 1..Len(s) |-> D(s[i])]
    BY DEF Shifted
  <1>2. ASSUME NEW f \in FrameType
        PROVE  /\ D(f) \in FrameType
               /\ D(f).fn = f.fn /\ D(f).mod = f.mod /\ D(f).at = f.at /\ D(f).todo = f.todo
    <2>1. N(f) \in Nat \cup {-1}
      BY DEF FrameType
    <2> HIDE DEF N
    <2> QED
      BY <2>1 DEF FrameType
  <1> HIDE DEF D
  <1>3. \A i \in 1..Len(s) : s[i] \in FrameType
    OBVIOUS
  <1>4. d \in Seq(FrameType) /\ Len(d) = Len(s) /\ \A i \in 1..Len(s) : d[i] = D(s[i])
    <2>1. Len(s) \in Nat
      OBVIOUS
    <2>2. d \in [1..Len(s) -> FrameType]
      BY <1>1, <1>2, <1>3
    <2> QED
      BY <1>1, <2>1, <2>2
  <1> HIDE DEF d
  <1>5. Alike(s, d)
    BY <1>2, <1>3, <1>4 DEF Alike
  <1> QED
    BY <1>5 DEF d

-----------------------------------------------------------------------------
(***************************************************************************)
(* The rest of the state: what is registered, held by the user or freed was  *)
(* born, and the context counts its modules.                                 *)
(***************************************************************************)
DataInv ==
    /\ state \in [Mods -> States] /\ bound \in [Mods -> Seq(Mods)]
    /\ handle \in [Mods -> BOOLEAN] /\ key \in BOOLEAN /\ ctxRefs \in Int
    /\ modules \subseteq Born /\ freed \subseteq Born
    /\ \A m \in Mods : handle[m] => m \in Born
    /\ CtxRefs

(* A hook that returns tells its caller if the module was deregistered.      *)
RetOK ==
    Awaits(stack[1]) /\ ret \in {"ok", "false"} => state[stack[1].mod] # "ZOMBIE"

CoreInv == DataInv /\ Shape(stack, state) /\ RetOK

LegalStep ==
    \A m \in Mods : state'[m] # state[m] =>
        /\ state[m] # "ZOMBIE"
        /\ state'[m] = "IDLE" => state[m] = "NONE"
        /\ state'[m] = "PAUSED" => state[m] = "RUNNING"
        /\ state'[m] = "RUNNING" => state[m] = "PAUSED" \/ stack'[1] = Frame("user", m, "start")

Good == CoreInv' /\ LegalStep

LEMMA CtxSame ==
    ASSUME CtxRefs, Born' = Born, UNCHANGED <<freed, key, ctxRefs>>
    PROVE  CtxRefs'
  BY DEF CtxRefs

LEMMA SameStates ==
    ASSUME state' = state
    PROVE  Born' = Born /\ LegalStep
  BY DEF Born, LegalStep

(* A step that leaves the modules as they are and pops or pushes frames.      *)
LEMMA DataSame ==
    ASSUME DataInv, UNCHANGED <<state, bound, handle, key, ctxRefs, modules, freed>>
    PROVE  DataInv' /\ LegalStep
  <1>1. Born' = Born /\ LegalStep /\ CtxRefs'
    BY SameStates, CtxSame DEF DataInv
  <1> QED
    BY <1>1 DEF DataInv

LEMMA ReadyGood ==
    ASSUME DataInv', LegalStep, NEW s, stack' = s, Ready(s, state')
    PROVE  Good
  BY DEF Good, CoreInv, Ready, RetOK

LEMMA UserReady ==
    ASSUME CoreInv, Top.fn = "user"
    PROVE  Ready(stack, state) /\ stack[1] = Top /\ Top \in FrameType
  <1>1. stack[1] = Top /\ Top \in FrameType
    BY HeadFirst DEF CoreInv, Shape, Top
  <1> QED
    BY <1>1 DEF CoreInv, Ready, Awaits

(* A function other than a hook returns.                                    *)
LEMMA BelowReady ==
    ASSUME CoreInv, Top.fn # "user"
    PROVE  /\ Ready(Below, state) /\ Below \in Seq(FrameType) /\ Len(stack) > 1
           /\ stack[1] = Top /\ Top \in FrameType /\ FrameOK(Top, state)
  <1>1. stack[1] = Top /\ Top \in FrameType /\ 1 \in 1..Len(stack)
    BY HeadFirst DEF CoreInv, Shape, Top
  <1>2. ~Main(stack[1])
    BY <1>1 DEF Main
  <1>3. FrameOK(Top, state)
    BY <1>1 DEF CoreInv, Shape
  <1> QED
    BY <1>1, <1>2, <1>3, ShapePop DEF CoreInv, Ready, Below

LEMMA FailGood ==
    ASSUME CoreInv, NEW below, Ready(below, state), Fail(below)
    PROVE  Good
  <1>1. DataInv' /\ LegalStep /\ state' = state
    BY DataSame DEF Fail, modVars, ctxVars, CoreInv
  <1> QED
    BY <1>1, ReadyGood DEF Fail

(* Pushing a frame that awaits nothing and registers nothing.                *)
LEMMA PlainPush ==
    ASSUME NEW s, NEW st, Ready(s, st), NEW f \in FrameType, FrameOK(f, st), ~Main(f),
           f.fn # "register", ~Awaits(f)
    PROVE  Ready(<<f>> \o s, st)
  <1>1. Shape(<<f>> \o s, st) /\ (<<f>> \o s)[1] = f
    BY ShapePush DEF Ready
  <1> QED
    BY <1>1 DEF Ready

(* Calling a hook of m from a function that awaits it.                       *)
LEMMA HookPush ==
    ASSUME NEW s, NEW st, Ready(s, st), NEW g \in FrameType, FrameOK(g, st), Awaits(g),
           NEW at \in Where \ {"main"}
    PROVE  Ready(<<Frame("user", g.mod, at), g>> \o s, st)
  <1> DEFINE u == Frame("user", g.mod, at)
  <1>1. g.mod \in Mods /\ ~Main(g) /\ g.fn # "register"
    BY DEF FrameOK, Awaits, Main
  <1>2. u \in FrameType /\ u.fn = "user" /\ u.mod = g.mod /\ u.at = at
    <2>1. "user" \in Fns /\ at \in Ats /\ g.mod \in Mods \cup {NoMod}
      BY <1>1 DEF Fns, Ats
    <2> QED
      BY <2>1, NewFrame
  <1> HIDE DEF u
  <1>3. FrameOK(u, st) /\ ~Main(u) /\ ~Awaits(u)
    BY <1>1, <1>2 DEF FrameOK, Main, Awaits
  <1>4. Shape(<<g>> \o s, st) /\ (<<g>> \o s)[1] = g
    BY <1>1, ShapePush DEF Ready
  <1>5. Shape(<<u>> \o (<<g>> \o s), st) /\ (<<u>> \o (<<g>> \o s))[1] = u
    BY <1>1, <1>2, <1>3, <1>4, ShapePush
  <1>6. <<u, g>> \o s = <<u>> \o (<<g>> \o s)
    BY <1>2, PushTwo DEF Ready, Shape
  <1> QED
    BY <1>3, <1>5, <1>6 DEF Ready, u

(* Calling a hook of m from a function that ignores its result.              *)
LEMMA CallPush ==
    ASSUME NEW s, NEW st, Ready(s, st), NEW g \in FrameType, FrameOK(g, st), ~Awaits(g), ~Main(g),
           g.fn # "register", NEW m \in Mods, NEW at \in Where \ {"main"}
    PROVE  Ready(<<Frame("user", m, at)>> \o (<<g>> \o s), st)
  <1> DEFINE u == Frame("user", m, at)
  <1>1. u \in FrameType /\ u.fn = "user" /\ u.mod = m /\ u.at = at
    <2>1. "user" \in Fns /\ at \in Ats /\ m \in Mods \cup {NoMod}
      BY DEF Fns, Ats
    <2> QED
      BY <2>1, NewFrame
  <1> HIDE DEF u
  <1>2. FrameOK(u, st) /\ ~Main(u) /\ ~Awaits(u) /\ u.fn # "register"
    BY <1>1 DEF FrameOK, Main, Awaits
  <1>3. Ready(<<g>> \o s, st)
    BY PlainPush
  <1> QED
    BY <1>1, <1>2, <1>3, PlainPush DEF u

-----------------------------------------------------------------------------
(***************************************************************************)
(* What the operations do to the modules' states and to the stack.           *)
(***************************************************************************)
LEMMA BornSame ==
    ASSUME DataInv, NEW m \in Born, NEW x \in States \ {"NONE"}, state' = [state EXCEPT ![m] = x]
    PROVE  /\ Born' = Born /\ state' \in [Mods -> States]
           /\ \A s : Shape(s, state) => Shape(s, state')
           /\ \A s : Ready(s, state) => Ready(s, state')
  <1>1. m \in Mods /\ state[m] # "NONE" /\ state \in [Mods -> States]
    BY DEF Born, DataInv
  <1>2. /\ \A q \in Mods : state'[q] = IF q = m THEN x ELSE state[q]
        /\ state' \in [Mods -> States]
    BY <1>1
  <1>3. \A q \in Mods : state'[q] = "NONE" <=> state[q] = "NONE"
    BY <1>1, <1>2
  <1>4. Born' = Born
    BY <1>3 DEF Born
  <1>5. ASSUME NEW s, Shape(s, state) PROVE Shape(s, state')
    <2>1. \A i \in 1..Len(s) : s[i].fn = "register" => state'[s[i].mod] = "NONE"
      BY <1>3, <1>5 DEF Shape, FrameOK
    <2>2. \A q \in Mods : state[q] # "NONE" => state'[q] # "NONE"
      BY <1>3
    <2> QED
      BY <1>5, <2>1, <2>2, ShapeState
  <1> QED
    BY <1>2, <1>4, <1>5 DEF Ready

LEMMA LegalChange ==
    ASSUME DataInv, NEW m \in Born, NEW x \in States, state' = [state EXCEPT ![m] = x],
           state[m] = "ZOMBIE" => x = "ZOMBIE", x # "IDLE", x = "PAUSED" => state[m] = "RUNNING",
           x = "RUNNING" => state[m] = "PAUSED" \/ stack'[1] = Frame("user", m, "start")
    PROVE  LegalStep
  <1>1. m \in Mods /\ state \in [Mods -> States]
    BY DEF Born, DataInv
  <1>2. \A q \in Mods : state'[q] = IF q = m THEN x ELSE state[q]
    BY <1>1
  <1> QED
    BY <1>2 DEF LegalStep

(* The context is deregistered, or not.                                      *)
LEMMA CtxDrop ==
    ASSUME DataInv, Born' = Born, freed' = freed,
           m_ctx_deregister \/ UNCHANGED <<key, ctxRefs>>
    PROVE  CtxRefs' /\ key' \in BOOLEAN /\ ctxRefs' \in Int
  <1>1. CASE UNCHANGED <<key, ctxRefs>>
    BY <1>1 DEF DataInv, CtxRefs
  <1>2. CASE m_ctx_deregister /\ ~UNCHANGED <<key, ctxRefs>>
    <2>1. key /\ key' = FALSE /\ ctxRefs' = ctxRefs - 1
      BY <1>2 DEF m_ctx_deregister, m_ctx
    <2>2. ctxRefs = 1 + Cardinality(Born \ freed) /\ ctxRefs \in Int
      BY <2>1 DEF DataInv, CtxRefs
    <2>3. IsFiniteSet(Born \ freed)
      <3>1. Born \ freed \subseteq Mods
        BY DEF Born
      <3> QED
        BY <3>1, FS_Subset, LifecycleAssumption
    <2>4. Cardinality(Born \ freed) \in Nat
      BY <2>3, FS_CardinalityType
    <2>5. ctxRefs' = 0 + Cardinality(Born \ freed)
      BY <2>1, <2>2, <2>4
    <2>6. CtxRefs'
      BY <2>1, <2>5 DEF CtxRefs
    <2>7. ctxRefs' \in Int
      BY <2>1, <2>2
    <2> QED
      BY <2>1, <2>6, <2>7
  <1> QED
    BY <1>1, <1>2

LEMMA StartGood ==
    ASSUME CoreInv, NEW m \in Born, NEW starting, NEW below, Ready(below, state),
           state[m] # "ZOMBIE", starting \/ state[m] = "PAUSED", start(m, starting, below)
    PROVE  Good
  <1>1. CASE Fail(below)
    BY <1>1, FailGood
  <1>2. CASE /\ state' = [state EXCEPT ![m] = "RUNNING"]
             /\ UNCHANGED <<freed, handle, bound, modules, key, ctxRefs>>
             /\ \/ stack' = below /\ state[m] = "PAUSED"
                \/ stack' = <<Frame("user", m, "start"), Frame("start", m, "call")>> \o below
    <2>1. m \in Mods /\ state[m] # "NONE"
      BY DEF Born
    <2>2. "RUNNING" \in States \ {"NONE"} /\ DataInv
      BY DEF States, CoreInv
    <2>3. Born' = Born /\ state' \in [Mods -> States] /\ Ready(below, state')
      BY <1>2, <2>2, BornSame
    <2>4. LegalStep
      <3>1. state[m] = "PAUSED" \/ stack'[1] = Frame("user", m, "start")
        BY <1>2
      <3> QED
        BY <1>2, <2>2, <3>1, LegalChange
    <2>5. CtxRefs'
      BY <1>2, <2>2, <2>3, CtxSame DEF DataInv
    <2>6. DataInv'
      BY <1>2, <2>2, <2>3, <2>5 DEF DataInv
    <2>7. CASE stack' = below
      BY <2>3, <2>4, <2>6, <2>7, ReadyGood
    <2>8. CASE stack' = <<Frame("user", m, "start"), Frame("start", m, "call")>> \o below
      <3> DEFINE g == Frame("start", m, "call")
      <3>1. "start" \in Fns /\ "call" \in Ats /\ m \in Mods \cup {NoMod}
        BY <2>1 DEF Fns, Ats
      <3>2. g \in FrameType /\ g.fn = "start" /\ g.mod = m /\ g.at = "call"
        BY <3>1, NewFrame
      <3> HIDE DEF g
      <3>3. state'[m] # "NONE"
        BY <2>1, <2>3 DEF Born
      <3>4. FrameOK(g, state') /\ Awaits(g)
        BY <2>1, <3>2, <3>3 DEF FrameOK, Awaits
      <3>5. "start" \in Where \ {"main"}
        BY DEF Where
      <3>6. Ready(<<Frame("user", g.mod, "start"), g>> \o below, state')
        BY <2>3, <3>2, <3>4, <3>5, HookPush
      <3>7. Ready(stack', state')
        BY <2>8, <3>2, <3>6 DEF g
      <3> QED
        BY <2>4, <2>6, <3>7, ReadyGood
    <2> QED
      BY <1>2, <2>7, <2>8
  <1> QED
    BY <1>1, <1>2 DEF start

LEMMA StopGood ==
    ASSUME CoreInv, NEW m \in Born, NEW stopping \in BOOLEAN, NEW r, NEW below,
           Ready(below, state), state[m] # "ZOMBIE", stopping \/ state[m] = "RUNNING",
           modules' \subseteq Born, stop(m, stopping, r, below)
    PROVE  Good
  <1>1. m \in Mods /\ state[m] # "NONE" /\ DataInv
    BY DEF Born, CoreInv
  <1> SUFFICES ASSUME ~Fail(below) PROVE Good
    BY FailGood
  <1>2. PICK x \in {"STOPPED", "PAUSED"} :
           /\ state' = [state EXCEPT ![m] = x]
           /\ x = "PAUSED" => state[m] = "RUNNING"
    BY DEF stop
  <1>3. x \in States \ {"NONE"} /\ x # "IDLE"
    BY DEF States
  <1>4. Born' = Born /\ state' \in [Mods -> States] /\ \A s : Ready(s, state) => Ready(s, state')
    BY <1>1, <1>2, <1>3, BornSame
  <1>5. LegalStep
    BY <1>1, <1>2, <1>3, LegalChange
  <1>6. UNCHANGED <<freed, handle, key, ctxRefs>>
    BY DEF stop
  <1>7. CtxRefs'
    BY <1>1, <1>4, <1>6, CtxSame DEF DataInv
  <1>8. bound' \in [Mods -> Seq(Mods)]
    <2>1. bound' = bound \/ bound' = [bound EXCEPT ![m] = <<>>]
      BY DEF stop
    <2>2. bound \in [Mods -> Seq(Mods)] /\ <<>> \in Seq(Mods)
      BY <1>1 DEF DataInv
    <2> QED
      BY <2>1, <2>2
  <1>9. DataInv'
    BY <1>1, <1>4, <1>6, <1>7, <1>8 DEF DataInv
  <1>10. CASE ~stopping
    <2>1. stack' = below
      BY <1>10 DEF stop
    <2> QED
      BY <1>4, <1>5, <1>9, <2>1, ReadyGood
  <1>11. CASE stopping
    <2> DEFINE d == Dangling(below, m)
               g == Frame("stop", m, "call")
               u == Frame("user", m, "stop")
    <2>1. stack' = <<u, g>> \o d
      BY <1>11 DEF stop
    <2>2. below \in Seq(FrameType) /\ Ready(below, state')
      BY <1>4 DEF Ready, Shape
    <2>3. Alike(below, d)
      BY <1>1, <2>2, DanglingAlike
    <2> HIDE DEF d
    <2>4. Ready(d, state') /\ d \in Seq(FrameType)
      BY <2>2, <2>3, ShapeAlike DEF Ready, Shape
    <2>5. /\ "user" \in Fns /\ "stop" \in Fns /\ "call" \in Ats /\ "stop" \in Ats
          /\ m \in Mods \cup {NoMod}
      BY <1>1 DEF Fns, Ats, Where
    <2>6. g \in FrameType /\ g.fn = "stop" /\ g.mod = m /\ g.at = "call" /\ u \in FrameType
      BY <2>5, NewFrame
    <2> HIDE DEF g
    <2>7. FrameOK(g, state') /\ ~Awaits(g) /\ ~Main(g) /\ g.fn # "register"
      BY <1>1, <2>6 DEF FrameOK, Awaits, Main
    <2>8. "stop" \in Where \ {"main"}
      BY DEF Where
    <2>9. Ready(<<u>> \o (<<g>> \o d), state')
      BY <1>1, <2>4, <2>6, <2>7, <2>8, CallPush
    <2> HIDE DEF u
    <2>10. stack' = <<u>> \o (<<g>> \o d)
      BY <2>1, <2>4, <2>6, PushTwo
    <2> QED
      BY <1>5, <1>9, <2>9, <2>10, ReadyGood
  <1> QED
    BY <1>10, <1>11

(* A state change and its cascade: M_MOD_ASSERT_STATE keeps it legal.        *)
LEMMA StateOpGood ==
    ASSUME CoreInv, NEW op \in StateOp, NEW m \in Mods, NEW below, Ready(below, state),
           m_mod_state_op(op, m, below)
    PROVE  Good
  <1> DEFINE w == Frame("bound", m, op)
             waiting == <<w>> \o below
  <1>1. CASE Fail(below)
    BY <1>1, FailGood
  <1>2. CASE ~Fail(below)
    <2>1. /\ state[m] # "ZOMBIE" /\ state[m] \in StateAllowed(op)
          /\ \/ op \in {"start", "resume"} /\ start(m, op = "start", waiting)
             \/ op \in {"pause", "stop"} /\ stop(m, op = "stop", refs, waiting)
          /\ UNCHANGED modules
      BY <1>2 DEF m_mod_state_op, M_MOD_ASSERT
    <2>2. m \in Born /\ (op = "pause" => state[m] = "RUNNING")
      BY <2>1 DEF StateAllowed, StateOp, Born
    <2>3. w \in FrameType /\ w.fn = "bound" /\ w.mod = m /\ w.at = op
      <3>1. "bound" \in Fns /\ op \in Ats /\ m \in Mods \cup {NoMod}
        BY DEF Fns, Ats
      <3> QED
        BY <3>1, NewFrame
    <2> HIDE DEF w
    <2>4. FrameOK(w, state) /\ ~Main(w) /\ ~Awaits(w)
      BY <2>3 DEF FrameOK, Main, Awaits
    <2>5. Ready(waiting, state)
      BY <2>3, <2>4, PlainPush
    <2> HIDE DEF waiting
    <2>6. CASE op \in {"start", "resume"} /\ start(m, op = "start", waiting)
      <3>1. op = "start" \/ state[m] = "PAUSED"
        BY <2>1, <2>6 DEF StateAllowed
      <3> QED
        BY <2>1, <2>2, <2>5, <2>6, <3>1, StartGood
    <2>7. CASE op \in {"pause", "stop"} /\ stop(m, op = "stop", refs, waiting)
      <3>1. modules' \subseteq Born
        BY <2>1 DEF CoreInv, DataInv
      <3>2. op = "stop" \/ state[m] = "RUNNING"
        BY <2>2, <2>7
      <3>3. (op = "stop") \in BOOLEAN
        OBVIOUS
      <3> QED
        BY <2>1, <2>2, <2>5, <2>7, <3>1, <3>2, <3>3, StopGood
    <2> QED
      BY <2>1, <2>6, <2>7
  <1> QED
    BY <1>1, <1>2

LEMMA DeregGood ==
    ASSUME CoreInv, NEW m \in Born, NEW fromUser, NEW below, Ready(below, state),
           mod_deregister(m, fromUser, below)
    PROVE  Good
  <1>1. CASE Fail(below)
    BY <1>1, FailGood
  <1>2. CASE ~Fail(below)
    <2> DEFINE w == Frame("dereg", m, IF fromUser THEN "user" ELSE "lib")
               waiting == <<w>> \o below
    <2>1. PICK r : stop(m, TRUE, r, waiting)
      BY <1>2 DEF mod_deregister
    <2>2. state[m] # "ZOMBIE" /\ modules' \subseteq modules
      BY <1>2 DEF mod_deregister, M_MOD_ASSERT
    <2>3. m \in Mods /\ state[m] # "NONE" /\ modules' \subseteq Born
      BY <2>2 DEF Born, CoreInv, DataInv
    <2>4. w \in FrameType /\ w.fn = "dereg" /\ w.mod = m
      <3>1. /\ "dereg" \in Fns /\ (IF fromUser THEN "user" ELSE "lib") \in Ats
            /\ m \in Mods \cup {NoMod}
        BY <2>3 DEF Fns, Ats
      <3> QED
        BY <3>1, NewFrame
    <2> HIDE DEF w
    <2>5. FrameOK(w, state) /\ ~Main(w) /\ ~Awaits(w)
      BY <2>3, <2>4 DEF FrameOK, Main, Awaits
    <2>6. Ready(waiting, state)
      BY <2>4, <2>5, PlainPush
    <2> HIDE DEF waiting
    <2> QED
      BY <2>1, <2>2, <2>3, <2>6, StopGood
  <1> QED
    BY <1>1, <1>2

(* A module is born: it was not, and no other frame is to register it.       *)
LEMMA RegisterGood ==
    ASSUME CoreInv, NEW m \in Mods, state[m] = "NONE", NEW below, Ready(below, state),
           \A i \in 1..Len(below) : ~(below[i].fn = "register" /\ below[i].mod = m),
           register(m, below)
    PROVE  Good
  <1> USE DEF CoreInv
  <1>1. CASE Fail(below)
    BY <1>1, FailGood
  <1>2. CASE UNCHANGED <<modVars, ctxVars, stack, ret>>
    <2>1. DataInv' /\ LegalStep
      BY <1>2, DataSame DEF modVars, ctxVars
    <2> QED
      BY <1>2, <2>1 DEF Good, RetOK, modVars
  <1>3. CASE /\ state' = [state EXCEPT ![m] = "IDLE"]
             /\ handle' = [handle EXCEPT ![m] = TRUE]
             /\ modules' = modules \cup {m}
             /\ ctxRefs' = ctxRefs + 1
             /\ stack' = below
             /\ UNCHANGED <<freed, bound, key>>
    <2>1. /\ state' \in [Mods -> States]
          /\ \A q \in Mods : state'[q] = IF q = m THEN "IDLE" ELSE state[q]
      BY <1>3 DEF DataInv, States
    <2>2. Born' = Born \cup {m} /\ m \notin Born /\ m \notin freed
      BY <2>1 DEF Born, DataInv
    <2>3. LegalStep
      BY <2>1 DEF LegalStep
    <2>4. CtxRefs'
      <3>1. IsFiniteSet(Born \ freed)
        <4>1. Born \ freed \subseteq Mods
          BY DEF Born
        <4> QED
          BY <4>1, FS_Subset, LifecycleAssumption
      <3>2. Cardinality((Born \ freed) \cup {m}) = Cardinality(Born \ freed) + 1
        BY <2>2, <3>1, FS_AddElement
      <3>3. (Born \ freed)' = (Born \ freed) \cup {m}
        BY <1>3, <2>2
      <3>4. Cardinality(Born \ freed) \in Nat
        BY <3>1, FS_CardinalityType
      <3>5. ctxRefs' = (IF key THEN 1 ELSE 0) + Cardinality((Born \ freed) \cup {m})
        BY <1>3, <3>2, <3>4 DEF DataInv, CtxRefs
      <3>6. ctxRefs' = (IF key' THEN 1 ELSE 0) + Cardinality((Born \ freed)')
        BY <1>3, <3>3, <3>5
      <3> QED
        BY <3>6 DEF CtxRefs
    <2>5. handle' \in [Mods -> BOOLEAN] /\ \A q \in Mods : handle'[q] => q \in Born'
      BY <1>3, <2>2 DEF DataInv
    <2>6. ctxRefs' \in Int /\ modules' \subseteq Born' /\ freed' \subseteq Born'
      BY <1>3, <2>2 DEF DataInv
    <2>7. DataInv'
      BY <1>3, <2>1, <2>4, <2>5, <2>6 DEF DataInv
    <2>8. \A q \in Mods : state[q] # "NONE" => state'[q] # "NONE"
      BY <2>1
    <2>9. \A i \in 1..Len(below) : below[i].fn = "register" => state'[below[i].mod] = "NONE"
      BY <2>1 DEF Ready, Shape, FrameOK
    <2>10. Shape(below, state')
      BY <2>8, <2>9, ShapeState DEF Ready
    <2>11. Ready(below, state')
      BY <2>10 DEF Ready
    <2> QED
      BY <1>3, <2>3, <2>7, <2>11, ReadyGood
  <1> QED
    BY <1>1, <1>2, <1>3 DEF register

LEMMA MRegisterGood ==
    ASSUME CoreInv, NEW m \in Mods, state[m] = "NONE", NEW below, Ready(below, state),
           \A i \in 1..Len(below) : ~(below[i].fn = "register" /\ below[i].mod = m),
           m_mod_register(m, below)
    PROVE  Good
  <1>1. CASE Fail(below)
    BY <1>1, FailGood
  <1>2. CASE register(m, below)
    BY <1>2, RegisterGood
  <1>3. CASE \E x \in Homonyms(m) :
                 mod_deregister(x, FALSE, <<Frame("register", m, "call")>> \o below)
    <2>1. PICK x \in Homonyms(m) :
                 mod_deregister(x, FALSE, <<Frame("register", m, "call")>> \o below)
      BY <1>3
    <2>2. x \in Born
      BY DEF Homonyms, CoreInv, DataInv
    <2> DEFINE w == Frame("register", m, "call")
               waiting == <<w>> \o below
    <2>3. w \in FrameType /\ w.fn = "register" /\ w.mod = m
      <3>1. "register" \in Fns /\ "call" \in Ats /\ m \in Mods \cup {NoMod}
        BY DEF Fns, Ats
      <3> QED
        BY <3>1, NewFrame
    <2> HIDE DEF w
    <2>4. FrameOK(w, state) /\ ~Main(w) /\ ~Awaits(w)
      BY <2>3 DEF FrameOK, Main, Awaits
    <2>5. Shape(waiting, state) /\ waiting[1] = w
      BY <2>3, <2>4, ShapePush DEF Ready
    <2>6. Ready(waiting, state)
      BY <2>4, <2>5 DEF Ready
    <2>7. mod_deregister(x, FALSE, waiting)
      BY <2>1 DEF w
    <2> HIDE DEF waiting
    <2> QED
      BY <2>2, <2>6, <2>7, DeregGood
  <1> QED
    BY <1>1, <1>2, <1>3 DEF m_mod_register

-----------------------------------------------------------------------------
(***************************************************************************)
(* One lemma per step of the library.                                       *)
(***************************************************************************)
LEMMA QuietGood ==
    ASSUME CoreInv, UNCHANGED <<state, bound, handle, key, ctxRefs, modules, freed>>,
           NEW s, stack' = s, Ready(s, state)
    PROVE  Good
  <1>1. DataInv' /\ LegalStep /\ Ready(s, state')
    BY DataSame DEF CoreInv
  <1> QED
    BY <1>1, ReadyGood

LEMMA AllSame ==
    ASSUME CoreInv, UNCHANGED <<state, bound, handle, key, ctxRefs, modules, freed, stack, ret>>
    PROVE  Good
  <1>1. DataInv' /\ LegalStep
    BY DataSame DEF CoreInv
  <1> QED
    BY <1>1 DEF Good, CoreInv, RetOK

LEMMA DtorGood ==
    ASSUME CoreInv, NEW m \in Mods, module_dtor(m)
    PROVE  Good
  <1> USE DEF CoreInv
  <1>1. /\ m \in Born /\ m \notin freed
        /\ freed' = freed \cup {m} /\ bound' = [bound EXCEPT ![m] = <<>>]
        /\ ctxRefs' = ctxRefs - 1
        /\ UNCHANGED <<state, handle, modules, key, stack, ret>>
    BY DEF module_dtor, Unreferenced, CtxUnref, Born
  <1>2. Born' = Born /\ LegalStep
    BY <1>1, SameStates
  <1>3. CtxRefs' /\ ctxRefs' \in Int
    <2>1. IsFiniteSet(Born \ freed) /\ m \in Born \ freed
      <3>1. Born \ freed \subseteq Mods
        BY DEF Born
      <3> QED
        BY <1>1, <3>1, FS_Subset, LifecycleAssumption
    <2>2. Cardinality((Born \ freed) \ {m}) = Cardinality(Born \ freed) - 1
      BY <2>1, FS_RemoveElement
    <2>3. (Born \ freed)' = (Born \ freed) \ {m}
      BY <1>1, <1>2
    <2>4. Cardinality(Born \ freed) \in Nat
      BY <2>1, FS_CardinalityType
    <2>5. ctxRefs' = (IF key THEN 1 ELSE 0) + Cardinality((Born \ freed) \ {m})
      BY <1>1, <2>2, <2>4 DEF DataInv, CtxRefs
    <2>6. ctxRefs' = (IF key' THEN 1 ELSE 0) + Cardinality((Born \ freed)')
      BY <1>1, <2>3, <2>5
    <2>7. ctxRefs' \in Int
      BY <1>1 DEF DataInv
    <2> QED
      BY <2>6, <2>7 DEF CtxRefs
  <1>4. bound' \in [Mods -> Seq(Mods)]
    <2>1. <<>> \in Seq(Mods)
      OBVIOUS
    <2> QED
      BY <1>1, <2>1 DEF DataInv
  <1>5. DataInv'
    BY <1>1, <1>2, <1>3, <1>4 DEF DataInv
  <1> QED
    BY <1>1, <1>2, <1>5 DEF Good, RetOK

LEMMA HookReturnsGood ==
    ASSUME CoreInv, NEW result \in BOOLEAN, HookReturns(result)
    PROVE  Good
  <1>1. Top.fn = "user" /\ Top.mod # NoMod /\ stack' = Below
    BY DEF HookReturns, At
  <1>2. stack[1] = Top /\ 1 \in 1..Len(stack)
    BY HeadFirst DEF CoreInv, Shape, Top
  <1>3. ~Main(stack[1])
    BY <1>1, <1>2 DEF CoreInv, Shape
  <1>4. /\ Shape(Below, state)
        /\ Awaits(Below[1]) => Below[1].mod = Top.mod
    BY <1>2, <1>3, ShapePop DEF CoreInv, Below
  <1>5. UNCHANGED <<state, bound, handle, key, ctxRefs, modules, freed>>
    BY DEF HookReturns
  <1>6. DataInv' /\ LegalStep
    BY <1>5, DataSame DEF CoreInv
  <1>7. state[Top.mod] = "ZOMBIE" => ret' = "noent"
    BY DEF HookReturns
  <1>8. RetOK'
    <2>1. ASSUME Awaits(Below[1]), ret' \in {"ok", "false"} PROVE state[Below[1].mod] # "ZOMBIE"
      BY <1>4, <1>7, <2>1
    <2> QED
      BY <1>1, <1>5, <2>1 DEF RetOK
  <1> QED
    BY <1>1, <1>4, <1>5, <1>6, <1>8 DEF Good, CoreInv

LEMMA StartResumesGood ==
    ASSUME CoreInv, StartResumes
    PROVE  Good
  <1> DEFINE w == Frame("start", Top.mod, "stopped")
  <1>1. Top.fn = "start"
    BY DEF StartResumes, At
  <1>2. /\ Ready(Below, state) /\ stack[1] = Top /\ FrameOK(Top, state)
    BY <1>1, BelowReady
  <1>3. Top.mod \in Born
    BY <1>1, <1>2 DEF FrameOK, Born
  <1>4. CASE /\ Top.at = "call" /\ ret = "false" /\ UNCHANGED modules
             /\ stop(Top.mod, TRUE, refs, <<w>> \o Below)
    <2>1. state[Top.mod] # "ZOMBIE"
      BY <1>1, <1>2, <1>4 DEF CoreInv, RetOK, Awaits
    <2>2. w \in FrameType /\ w.fn = "start" /\ w.mod = Top.mod /\ w.at = "stopped"
      <3>1. "start" \in Fns /\ "stopped" \in Ats /\ Top.mod \in Mods \cup {NoMod}
        BY <1>3 DEF Fns, Ats, Born
      <3> QED
        BY <3>1, NewFrame
    <2>3. stop(Top.mod, TRUE, refs, <<w>> \o Below)
      BY <1>4
    <2> HIDE DEF w
    <2>4. FrameOK(w, state) /\ ~Main(w) /\ ~Awaits(w)
      BY <1>3, <2>2 DEF FrameOK, Main, Awaits, Born
    <2>5. Ready(<<w>> \o Below, state)
      BY <1>2, <2>2, <2>4, PlainPush
    <2>6. modules' \subseteq Born
      BY <1>4 DEF CoreInv, DataInv
    <2> QED
      BY <1>3, <2>1, <2>3, <2>5, <2>6, StopGood
  <1>5. CASE stack' = Below /\ UNCHANGED <<modVars, ctxVars>>
    BY <1>2, <1>5, QuietGood DEF modVars, ctxVars
  <1> QED
    BY <1>4, <1>5 DEF StartResumes

LEMMA StopResumesGood ==
    ASSUME CoreInv, StopResumes
    PROVE  Good
  <1>1. Ready(Below, state)
    BY BelowReady DEF StopResumes, At
  <1> QED
    BY <1>1, QuietGood DEF StopResumes, modVars, ctxVars

LEMMA BoundResumesGood ==
    ASSUME CoreInv, BoundResumes
    PROVE  Good
  <1> DEFINE next == Top.n + 1
             w == [Top EXCEPT !.n = next]
  <1>1. Top.fn = "bound"
    BY DEF BoundResumes, At
  <1>2. Ready(Below, state) /\ Top \in FrameType /\ FrameOK(Top, state)
    BY <1>1, BelowReady
  <1>3. CASE stack' = Below /\ UNCHANGED <<modVars, ctxVars>>
    BY <1>2, <1>3, QuietGood DEF modVars, ctxVars
  <1>4. CASE UNCHANGED <<modVars, ctxVars, stack, ret>>
    BY <1>4, AllSame DEF modVars, ctxVars
  <1>5. CASE /\ ~(Top.n = 0 /\ ret # "ok") /\ Top.n # -1 /\ ~(next > Len(bound[Top.mod]))
             /\ m_mod_state_op(Top.at, bound[Top.mod][next], <<w>> \o Below)
    <2>1. w \in FrameType /\ w.fn = "bound" /\ w.mod = Top.mod /\ w.at = Top.at
      BY <1>1, <1>2 DEF FrameType
    <2>2. FrameOK(w, state) /\ ~Main(w) /\ ~Awaits(w)
      BY <1>1, <1>2, <2>1 DEF FrameOK, Main, Awaits
    <2> HIDE DEF w
    <2>3. Ready(<<w>> \o Below, state)
      BY <1>2, <2>1, <2>2, PlainPush
    <2>4. Top.mod \in Mods /\ Top.at \in StateOp /\ next \in Nat /\ next >= 1
      BY <1>1, <1>2, <1>5 DEF FrameOK, FrameType
    <2>5. bound[Top.mod] \in Seq(Mods)
      BY <2>4 DEF CoreInv, DataInv
    <2>6. bound[Top.mod][next] \in Mods
      BY <1>5, <2>4, <2>5
    <2> QED
      BY <1>5, <2>3, <2>4, <2>6, StateOpGood
  <1> QED
    BY <1>3, <1>4, <1>5 DEF BoundResumes

LEMMA RegisterResumesGood ==
    ASSUME CoreInv, RegisterResumes
    PROVE  Good
  <1>1. Top.fn = "register"
    BY DEF RegisterResumes, At
  <1>2. Ready(Below, state) /\ FrameOK(Top, state) /\ Len(stack) > 1 /\ stack[1] = Top
    BY <1>1, BelowReady
  <1>3. Top.mod \in Mods /\ state[Top.mod] = "NONE"
    BY <1>1, <1>2 DEF FrameOK
  <1>4. \A i \in 1..Len(Below) : ~(Below[i].fn = "register" /\ Below[i].mod = Top.mod)
    <2>1. /\ stack \in Seq(FrameType) /\ Len(stack) \in Nat /\ 1 \in 1..Len(stack)
          /\ \A i \in 1..Len(Below) : i + 1 \in 1..Len(stack) /\ Below[i] = stack[i + 1]
      BY <1>2, TailIndex DEF CoreInv, Shape, Below
    <2>2. ASSUME NEW i \in 1..Len(Below), Below[i].fn = "register", Below[i].mod = Top.mod
          PROVE  FALSE
      <3>1. i + 1 = 1
        BY <1>1, <1>2, <2>1, <2>2 DEF CoreInv, Shape
      <3> QED
        BY <3>1
    <2> QED
      BY <2>2
  <1>5. CASE register(Top.mod, Below)
    BY <1>2, <1>3, <1>4, <1>5, RegisterGood
  <1>6. CASE stack' = Below /\ UNCHANGED <<modVars, ctxVars>>
    BY <1>2, <1>6, QuietGood DEF modVars, ctxVars
  <1> QED
    BY <1>5, <1>6 DEF RegisterResumes

LEMMA DeregResumesGood ==
    ASSUME CoreInv, DeregResumes
    PROVE  Good
  <1>1. Top.fn = "dereg"
    BY DEF DeregResumes, At
  <1>2. Ready(Below, state) /\ FrameOK(Top, state)
    BY <1>1, BelowReady
  <1>3. Top.mod \in Born /\ DataInv
    BY <1>1, <1>2 DEF FrameOK, Born, CoreInv
  <1>4. PICK m \in Born : m = Top.mod
    BY <1>3
  <1>5. /\ state' = [state EXCEPT ![m] = "ZOMBIE"] /\ stack' = Below
        /\ UNCHANGED <<freed, bound, modules>>
        /\ m_ctx_deregister \/ UNCHANGED <<key, ctxRefs>>
    BY <1>4 DEF DeregResumes
  <1>6. "ZOMBIE" \in States \ {"NONE"}
    BY DEF States
  <1>7. Born' = Born /\ state' \in [Mods -> States] /\ Ready(Below, state')
    BY <1>2, <1>3, <1>5, <1>6, BornSame
  <1>8. LegalStep
    BY <1>3, <1>5, <1>6, LegalChange
  <1>9. CtxRefs' /\ key' \in BOOLEAN /\ ctxRefs' \in Int
    BY <1>3, <1>5, <1>7, CtxDrop
  <1>10. handle' \in [Mods -> BOOLEAN] /\ \A q \in Mods : handle'[q] => handle[q]
    <2> DEFINE user == Top.at = "user" /\ handle[Top.mod]
    <2>1. handle' = [handle EXCEPT ![m] = @ /\ ~user]
      BY <1>4 DEF DeregResumes
    <2> HIDE DEF user
    <2>2. handle \in [Mods -> BOOLEAN]
      BY <1>3 DEF DataInv
    <2> QED
      BY <2>1, <2>2
  <1>11. DataInv'
    BY <1>3, <1>5, <1>7, <1>9, <1>10 DEF DataInv
  <1> QED
    BY <1>5, <1>7, <1>8, <1>11, ReadyGood

(* A new frame of the loop.                                                 *)
LEMMA LoopFrame ==
    ASSUME NEW fn \in {"iter", "flush", "lstop", "loop", "recv"}, NEW at \in {"next", "call"},
           NEW s, NEW st, Ready(s, st)
    PROVE  Frame(fn, NoMod, at) \in FrameType /\ Ready(<<Frame(fn, NoMod, at)>> \o s, st)
  <1> DEFINE w == Frame(fn, NoMod, at)
  <1>1. fn \in Fns /\ at \in Ats /\ NoMod \in Mods \cup {NoMod}
    BY DEF Fns, Ats
  <1>2. w \in FrameType /\ w.fn = fn /\ w.at = at
    BY <1>1, NewFrame
  <1> HIDE DEF w
  <1>3. FrameOK(w, st) /\ ~Main(w) /\ ~Awaits(w) /\ w.fn # "register"
    BY <1>2 DEF FrameOK, Main, Awaits
  <1>4. Ready(<<w>> \o s, st)
    BY <1>2, <1>3, PlainPush
  <1> QED
    BY <1>2, <1>4 DEF w

LEMMA ModulesCounted ==
    ASSUME DataInv
    PROVE  modules \subseteq Mods /\ Cardinality(modules) \in Nat
  <1>1. modules \subseteq Mods
    BY DEF DataInv, Born
  <1> QED
    BY <1>1, FS_Subset, FS_CardinalityType, LifecycleAssumption

(* The frame f of an iteration of the map has come to entry m.               *)
Visit(f, m, at) ==
    [f EXCEPT !.mod = m, !.seen = f.seen \cup {m}, !.n = Cardinality(modules), !.at = at]

LEMMA Visited ==
    ASSUME DataInv, NEW f \in FrameType, f.fn \in {"iter", "flush"}, NEW m \in modules,
           NEW at \in {"next", "evaluated", "called"}, at = "evaluated" => f.fn = "iter"
    PROVE  /\ Visit(f, m, at) \in FrameType
           /\ Visit(f, m, at).fn = f.fn /\ Visit(f, m, at).mod = m
           /\ FrameOK(Visit(f, m, at), state) /\ ~Main(Visit(f, m, at))
           /\ Awaits(Visit(f, m, at)) <=> at = "evaluated"
  <1> DEFINE g == Visit(f, m, at)
  <1>1. m \in Mods /\ state[m] # "NONE" /\ Cardinality(modules) \in Nat /\ at \in Ats
    BY ModulesCounted DEF DataInv, Born, Ats
  <1>2. f.seen \cup {m} \in SUBSET Mods
    BY <1>1 DEF FrameType
  <1>3. g \in FrameType /\ g.fn = f.fn /\ g.mod = m /\ g.at = at
    BY <1>1, <1>2 DEF FrameType, Visit
  <1> HIDE DEF g
  <1>4. FrameOK(g, state) /\ ~Main(g) /\ (Awaits(g) <=> at = "evaluated")
    BY <1>1, <1>3 DEF FrameOK, Main, Awaits
  <1> QED
    BY <1>3, <1>4 DEF g

LEMMA EntryDoneGood ==
    ASSUME CoreInv, Top.fn \in {"iter", "flush"}, EntryDone
    PROVE  Good
  <1> DEFINE w == [Top EXCEPT !.at = "next", !.mod = NoMod]
  <1>1. Ready(Below, state) /\ Top \in FrameType
    BY BelowReady
  <1>2. w \in FrameType /\ w.fn = Top.fn /\ w.at = "next"
    BY <1>1 DEF FrameType, Ats
  <1>3. \/ stack' = Below /\ UNCHANGED <<modVars, ctxVars>>
        \/ stack' = <<w>> \o Below /\ UNCHANGED <<modVars, ctxVars>>
    BY DEF EntryDone, IterEnds
  <1> HIDE DEF w
  <1>4. FrameOK(w, state) /\ ~Main(w) /\ ~Awaits(w) /\ w.fn # "register"
    BY <1>2 DEF FrameOK, Main, Awaits
  <1>5. Ready(<<w>> \o Below, state)
    BY <1>1, <1>2, <1>4, PlainPush
  <1> QED
    BY <1>1, <1>3, <1>5, QuietGood DEF modVars, ctxVars

LEMMA EvalNextGood ==
    ASSUME CoreInv, EvalNext
    PROVE  Good
  <1>1. Top.fn = "iter" /\ Top.at = "next"
    BY DEF EvalNext, At
  <1>2. Ready(Below, state) /\ Top \in FrameType
    BY <1>1, BelowReady
  <1>3. CASE IterEnds("ok")
    BY <1>2, <1>3, QuietGood DEF IterEnds, modVars, ctxVars
  <1>4. CASE ~IterEnds("ok")
    <2>1. PICK m \in modules :
            \/ /\ stack' = <<Frame("user", m, "eval"), Visit(Top, m, "evaluated")>> \o Below
               /\ UNCHANGED <<state, bound, handle, key, ctxRefs, modules, freed>>
            \/ /\ stack' = <<Visit(Top, m, "next")>> \o Below
               /\ UNCHANGED <<state, bound, handle, key, ctxRefs, modules, freed>>
      <3>1. PICK m \in modules :
              LET v == [Top EXCEPT !.mod = m, !.seen = @ \cup {m}, !.n = Cardinality(modules)]
              IN  \/ /\ stack' = <<Frame("user", m, "eval"), [v EXCEPT !.at = "evaluated"]>> \o Below
                     /\ UNCHANGED <<state, bound, handle, key, ctxRefs, modules, freed>>
                  \/ /\ stack' = <<v>> \o Below
                     /\ UNCHANGED <<state, bound, handle, key, ctxRefs, modules, freed>>
        BY <1>4 DEF EvalNext, MayIterate, modVars, ctxVars
      <3> DEFINE v == [Top EXCEPT !.mod = m, !.seen = @ \cup {m}, !.n = Cardinality(modules)]
      <3>2. [v EXCEPT !.at = "evaluated"] = Visit(Top, m, "evaluated")
        BY <1>2 DEF FrameType, Visit
      <3>3. v = Visit(Top, m, "next")
        BY <1>1, <1>2 DEF FrameType, Visit
      <3> HIDE DEF v
      <3> QED
        BY <3>1, <3>2, <3>3 DEF v
    <2>2. \A at \in {"next", "evaluated"} :
             /\ Visit(Top, m, at) \in FrameType /\ Visit(Top, m, at).fn = Top.fn
             /\ Visit(Top, m, at).mod = m
             /\ FrameOK(Visit(Top, m, at), state) /\ ~Main(Visit(Top, m, at))
             /\ Awaits(Visit(Top, m, at)) <=> at = "evaluated"
      BY <1>1, <1>2, Visited DEF CoreInv
    <2>3. CASE stack' = <<Visit(Top, m, "next")>> \o Below
      <3>1. Ready(<<Visit(Top, m, "next")>> \o Below, state)
        BY <1>1, <1>2, <2>2, PlainPush
      <3> QED
        BY <2>1, <2>3, <3>1, QuietGood
    <2>4. CASE stack' = <<Frame("user", m, "eval"), Visit(Top, m, "evaluated")>> \o Below
      <3>1. "eval" \in Where \ {"main"}
        BY DEF Where
      <3>2. Ready(<<Frame("user", Visit(Top, m, "evaluated").mod, "eval"), Visit(Top, m, "evaluated")>>
                  \o Below, state)
        BY <1>2, <2>2, <3>1, HookPush
      <3>3. Ready(<<Frame("user", m, "eval"), Visit(Top, m, "evaluated")>> \o Below, state)
        BY <2>2, <3>2
      <3> QED
        BY <2>1, <2>4, <3>3, QuietGood
    <2> QED
      BY <2>1, <2>3, <2>4
  <1> QED
    BY <1>3, <1>4

LEMMA EvalResumesGood ==
    ASSUME CoreInv, EvalResumes
    PROVE  Good
  <1> DEFINE w == [Top EXCEPT !.at = "started"]
  <1>1. Top.fn = "iter" /\ Top.at = "evaluated"
    BY DEF EvalResumes, At
  <1>2. Ready(Below, state) /\ Top \in FrameType /\ FrameOK(Top, state) /\ stack[1] = Top
    BY <1>1, BelowReady
  <1>3. CASE IterEnds(ret)
    BY <1>2, <1>3, QuietGood DEF IterEnds, modVars, ctxVars
  <1>4. CASE ret = "ok" /\ start(Top.mod, TRUE, <<w>> \o Below)
    <2>1. Top.mod \in Born /\ state[Top.mod] # "ZOMBIE"
      BY <1>1, <1>2, <1>4 DEF FrameOK, Awaits, Born, CoreInv, RetOK
    <2>2. w \in FrameType /\ w.fn = "iter" /\ w.at = "started"
      BY <1>1, <1>2 DEF FrameType, Ats
    <2> HIDE DEF w
    <2>3. FrameOK(w, state) /\ ~Main(w) /\ ~Awaits(w)
      BY <2>2 DEF FrameOK, Main, Awaits
    <2>4. Ready(<<w>> \o Below, state)
      BY <1>2, <2>2, <2>3, PlainPush
    <2> QED
      BY <1>4, <2>1, <2>4, StartGood
  <1> QED
    BY <1>3, <1>4 DEF EvalResumes

LEMMA LoopStartGood ==
    ASSUME CoreInv, NEW below, Ready(below, state), loop_start(below) \/ loop_stop(below)
    PROVE  Good
  <1> DEFINE i == Frame("iter", NoMod, "next")
             f == Frame("flush", NoMod, "next")
             l == Frame("lstop", NoMod, "call")
  <1>1. /\ stack' = <<i>> \o below \/ stack' = <<f, l>> \o below
        /\ UNCHANGED <<state, bound, handle, key, ctxRefs, modules, freed>>
    BY DEF loop_start, loop_stop, modVars
  <1>2. Ready(<<i>> \o below, state)
    BY LoopFrame
  <1>3. Ready(<<l>> \o below, state) /\ l \in FrameType
    BY LoopFrame
  <1>4. Ready(<<f>> \o (<<l>> \o below), state) /\ f \in FrameType
    BY <1>3, LoopFrame
  <1> HIDE DEF f, l, i
  <1>5. <<f, l>> \o below = <<f>> \o (<<l>> \o below)
    <2>1. below \in Seq(FrameType)
      BY DEF Ready, Shape
    <2> QED
      BY <1>3, <1>4, <2>1, PushTwo
  <1> QED
    BY <1>1, <1>2, <1>4, <1>5, QuietGood

LEMMA RecvGood ==
    ASSUME CoreInv, NEW below, Ready(below, state), recv_events(below)
    PROVE  Good
  <1>1. PICK batch \in Batches :
            stack' = <<[Frame("recv", NoMod, "call") EXCEPT !.todo = batch]>> \o below
    BY DEF recv_events
  <1> DEFINE r == Frame("recv", NoMod, "call")
             w == [r EXCEPT !.todo = batch]
  <1>2. r \in FrameType /\ r.fn = "recv"
    <2>1. "recv" \in Fns /\ "call" \in Ats /\ NoMod \in Mods \cup {NoMod}
      BY DEF Fns, Ats
    <2> QED
      BY <2>1, NewFrame
  <1>3. batch \in Seq(Event)
    <2>1. PICK n \in 1..MaxBatch : batch \in [1..n -> [mod : Running, src : {TRUE}]]
      BY DEF Batches
    <2>2. [mod : Running, src : {TRUE}] \subseteq Event
      BY DEF Running, Event
    <2>3. batch \in [1..n -> Event]
      BY <2>1, <2>2
    <2>4. n \in Nat
      BY LifecycleAssumption
    <2> QED
      BY <2>3, <2>4
  <1> HIDE DEF r
  <1>4. w \in FrameType /\ w.fn = "recv"
    BY <1>2, <1>3 DEF FrameType
  <1>5. stack' = <<w>> \o below
    BY <1>1 DEF r
  <1> HIDE DEF w
  <1>6. FrameOK(w, state) /\ ~Main(w) /\ ~Awaits(w)
    BY <1>4 DEF FrameOK, Main, Awaits
  <1>7. Ready(<<w>> \o below, state)
    BY <1>4, <1>6, PlainPush
  <1> QED
    BY <1>5, <1>7, QuietGood DEF recv_events, modVars, ctxVars

LEMMA LoopResumesGood ==
    ASSUME CoreInv, LoopResumes
    PROVE  Good
  <1>1. Top.fn = "loop"
    BY DEF LoopResumes, At
  <1>2. Ready(Below, state) /\ stack[1] = Top
    BY <1>1, BelowReady
  <1>3. Ready(stack, state)
    BY <1>1, <1>2 DEF CoreInv, Ready, Awaits
  <1> QED
    BY <1>2, <1>3, RecvGood, LoopStartGood DEF LoopResumes

(* on_evt is called, from the batch or the flush.                            *)
LEMMA EventGood ==
    ASSUME CoreInv, NEW m \in Mods, NEW at \in {"evt", "flush"}, NEW g \in FrameType,
           FrameOK(g, state), ~Awaits(g), ~Main(g), g.fn # "register", Ready(Below, state),
           call_pubsub_cb(m, at, <<g>> \o Below)
    PROVE  Good
  <1>1. at \in Where \ {"main"}
    BY DEF Where
  <1>2. Ready(<<Frame("user", m, at)>> \o (<<g>> \o Below), state)
    BY <1>1, CallPush
  <1> QED
    BY <1>2, QuietGood DEF call_pubsub_cb

LEMMA RecvEventGood ==
    ASSUME CoreInv, RecvEvent
    PROVE  Good
  <1> DEFINE e == Head(Top.todo)
             g == [Top EXCEPT !.todo = Tail(@)]
  <1>1. Top.fn = "recv" /\ Top.todo # <<>>
    BY DEF RecvEvent, At
  <1>2. Ready(Below, state) /\ Top \in FrameType
    BY <1>1, BelowReady
  <1>3. CASE UNCHANGED <<modVars, ctxVars, stack, ret>>
    BY <1>3, AllSame DEF modVars, ctxVars
  <1>4. CASE call_pubsub_cb(e.mod, "evt", <<g>> \o Below)
    <2>1. Top.todo \in Seq(Event)
      BY <1>2 DEF FrameType
    <2>2. e \in Event /\ Tail(Top.todo) \in Seq(Event)
      BY <1>1, <2>1
    <2>3. e.mod \in Mods
      BY <2>2 DEF Event
    <2>4. g \in FrameType /\ g.fn = "recv"
      BY <1>1, <1>2, <2>2 DEF FrameType
    <2> HIDE DEF e, g
    <2>5. FrameOK(g, state) /\ ~Main(g) /\ ~Awaits(g)
      BY <2>4 DEF FrameOK, Main, Awaits
    <2> QED
      BY <1>2, <1>4, <2>3, <2>4, <2>5, EventGood
  <1> QED
    BY <1>3, <1>4 DEF RecvEvent

LEMMA RecvEndsGood ==
    ASSUME CoreInv, RecvDone \/ \E real \in BOOLEAN : RecvFails(real)
    PROVE  Good
  <1>1. Top.fn = "recv"
    BY DEF RecvDone, RecvFails, At
  <1>2. Ready(Below, state)
    BY <1>1, BelowReady
  <1>3. Ready(<<Frame("iter", NoMod, "next")>> \o Below, state)
    BY <1>2, LoopFrame
  <1> QED
    BY <1>2, <1>3, QuietGood DEF RecvDone, RecvFails, modVars, ctxVars

LEMMA FlushNextGood ==
    ASSUME CoreInv, FlushNext
    PROVE  Good
  <1>1. Top.fn = "flush" /\ Top.at = "next"
    BY DEF FlushNext, At
  <1>2. Ready(Below, state) /\ Top \in FrameType
    BY <1>1, BelowReady
  <1>3. CASE IterEnds("ok")
    BY <1>2, <1>3, QuietGood DEF IterEnds, modVars, ctxVars
  <1>4. CASE ~IterEnds("ok")
    <2>1. PICK m \in modules :
            \/ call_pubsub_cb(m, "flush", <<Visit(Top, m, "called")>> \o Below)
            \/ /\ stack' = <<Visit(Top, m, "next")>> \o Below
               /\ UNCHANGED <<state, bound, handle, key, ctxRefs, modules, freed>>
      <3>1. PICK m \in modules :
              LET v == [Top EXCEPT !.mod = m, !.seen = @ \cup {m}, !.n = Cardinality(modules)]
              IN  \/ call_pubsub_cb(m, "flush", <<[v EXCEPT !.at = "called"]>> \o Below)
                  \/ /\ stack' = <<v>> \o Below
                     /\ UNCHANGED <<state, bound, handle, key, ctxRefs, modules, freed>>
        BY <1>4 DEF FlushNext, MayIterate, modVars, ctxVars
      <3> DEFINE v == [Top EXCEPT !.mod = m, !.seen = @ \cup {m}, !.n = Cardinality(modules)]
      <3>2. [v EXCEPT !.at = "called"] = Visit(Top, m, "called")
        BY <1>2 DEF FrameType, Visit
      <3>3. v = Visit(Top, m, "next")
        BY <1>1, <1>2 DEF FrameType, Visit
      <3> HIDE DEF v
      <3> QED
        BY <3>1, <3>2, <3>3 DEF v
    <2>2. \A at \in {"next", "called"} :
             /\ Visit(Top, m, at) \in FrameType /\ Visit(Top, m, at).fn = Top.fn
             /\ FrameOK(Visit(Top, m, at), state) /\ ~Main(Visit(Top, m, at)) /\ ~Awaits(Visit(Top, m, at))
      BY <1>1, <1>2, Visited DEF CoreInv
    <2>3. CASE /\ stack' = <<Visit(Top, m, "next")>> \o Below
               /\ UNCHANGED <<state, bound, handle, key, ctxRefs, modules, freed>>
      <3>1. Ready(<<Visit(Top, m, "next")>> \o Below, state)
        BY <1>1, <1>2, <2>2, PlainPush
      <3> QED
        BY <2>3, <3>1, QuietGood
    <2>4. CASE call_pubsub_cb(m, "flush", <<Visit(Top, m, "called")>> \o Below)
      <3>1. m \in Mods
        BY ModulesCounted DEF CoreInv
      <3> QED
        BY <1>1, <1>2, <2>2, <2>4, <3>1, EventGood
    <2> QED
      BY <2>1, <2>3, <2>4
  <1> QED
    BY <1>3, <1>4

LEMMA LoopStopResumesGood ==
    ASSUME CoreInv, LoopStopResumes
    PROVE  Good
  <1> USE DEF CoreInv
  <1>1. Top.fn = "lstop"
    BY DEF LoopStopResumes, At
  <1>2. Ready(Below, state)
    BY <1>1, BelowReady
  <1>3. CASE UNCHANGED <<key, ctxRefs, stack, ret>>
    BY <1>3, AllSame DEF LoopStopResumes, modVars
  <1>4. CASE stack' = Below /\ (m_ctx_deregister \/ UNCHANGED <<key, ctxRefs>>)
    <2>1. UNCHANGED <<state, bound, handle, modules, freed>>
      BY DEF LoopStopResumes, modVars
    <2>2. Born' = Born /\ LegalStep
      BY <2>1, SameStates
    <2>3. CtxRefs' /\ key' \in BOOLEAN /\ ctxRefs' \in Int
      BY <1>4, <2>1, <2>2, CtxDrop
    <2>4. DataInv'
      BY <2>1, <2>2, <2>3 DEF DataInv
    <2>5. Ready(Below, state')
      BY <1>2, <2>1
    <2> QED
      BY <1>4, <2>2, <2>4, <2>5, ReadyGood
  <1> QED
    BY <1>3, <1>4 DEF LoopStopResumes

(* The user's code runs on a stack that awaits nothing.                      *)
LEMMA UserGood ==
    ASSUME CoreInv, UserStep
    PROVE  Good
  <1>1. Top.fn = "user"
    BY DEF UserStep, UserDeregister, UserRegister, UserStateOp, UserBind, UserLoop, UserDispatch,
           UserQuit, UserFinalize, UserCtxDeregister, UserMay, At
  <1>2. Ready(stack, state) /\ stack \in Seq(FrameType) /\ DataInv
    BY <1>1, UserReady DEF Ready, Shape, CoreInv
  <1>3. ASSUME NEW m \in Mods, UserDeregister(m) PROVE Good
    <2>1. m \in Born /\ mod_deregister(m, TRUE, stack)
      BY <1>2, <1>3 DEF UserDeregister, DataInv
    <2> QED
      BY <1>2, <2>1, DeregGood
  <1>4. ASSUME NEW m \in Mods, UserRegister(m) PROVE Good
    <2>1. /\ state[m] = "NONE" /\ m_mod_register(m, stack)
          /\ \A i \in 1..Len(stack) : ~(stack[i].fn = "register" /\ stack[i].mod = m)
      BY <1>4 DEF UserRegister, OnStack
    <2> QED
      BY <1>2, <2>1, MRegisterGood
  <1>5. ASSUME NEW m \in Mods, NEW op \in StateOp, UserStateOp(op, m) PROVE Good
    BY <1>2, <1>5, StateOpGood DEF UserStateOp
  <1>6. ASSUME NEW m \in Mods, NEW q \in Mods, UserBind(m, q) PROVE Good
    <2>1. CASE Fail(stack)
      BY <1>2, <2>1, FailGood
    <2>2. CASE /\ bound' = [bound EXCEPT ![q] = <<m>> \o @]
               /\ stack' = Shifted(stack, q)
               /\ UNCHANGED <<state, freed, handle, modules, key, ctxRefs>>
      <3>1. bound' \in [Mods -> Seq(Mods)]
        <4>1. bound \in [Mods -> Seq(Mods)] /\ bound[q] \in Seq(Mods)
          BY <1>2 DEF DataInv
        <4>2. <<m>> \o bound[q] \in Seq(Mods)
          BY <4>1
        <4> QED
          BY <2>2, <4>1, <4>2
      <3>2. Born' = Born /\ LegalStep
        BY <2>2, SameStates
      <3>3. CtxRefs'
        BY <1>2, <2>2, <3>2, CtxSame DEF DataInv
      <3>4. DataInv'
        BY <1>2, <2>2, <3>1, <3>2, <3>3 DEF DataInv
      <3>5. Alike(stack, Shifted(stack, q))
        BY <1>2, ShiftedAlike
      <3>6. Shape(Shifted(stack, q), state) /\ (Awaits(Shifted(stack, q)[1]) <=> Awaits(stack[1]))
        BY <1>2, <3>5, ShapeAlike DEF Ready
      <3>7. Ready(Shifted(stack, q), state')
        BY <1>2, <2>2, <3>6 DEF Ready
      <3> QED
        BY <2>2, <3>2, <3>4, <3>7, ReadyGood
    <2> QED
      BY <1>6, <2>1, <2>2 DEF UserBind, m_mod_bind, ctxVars
  <1>7. CASE UserLoop
    <2>1. CASE loop_start(<<Frame("loop", NoMod, "call")>> \o stack)
      <3>1. Ready(<<Frame("loop", NoMod, "call")>> \o stack, state)
        BY <1>2, LoopFrame
      <3> QED
        BY <2>1, <3>1, LoopStartGood
    <2> QED
      BY <1>2, <1>7, <2>1, FailGood DEF UserLoop, m_ctx_loop
  <1>8. CASE UserDispatch
    BY <1>2, <1>8, FailGood, LoopStartGood, RecvGood DEF UserDispatch, m_ctx_dispatch
  <1>9. CASE UserQuit
    <2>1. CASE Fail(stack)
      BY <1>2, <2>1, FailGood
    <2> QED
      BY <1>2, <1>9, <2>1, QuietGood DEF UserQuit, modVars
  <1>10. CASE UserFinalize
    BY <1>2, <1>10, QuietGood DEF UserFinalize, modVars
  <1>11. CASE UserCtxDeregister
    <2>1. UNCHANGED <<state, bound, handle, modules, freed, stack>> /\ m_ctx_deregister
      BY <1>11 DEF UserCtxDeregister, modVars
    <2>2. Born' = Born /\ LegalStep
      BY <2>1, SameStates
    <2>3. CtxRefs' /\ key' \in BOOLEAN /\ ctxRefs' \in Int
      BY <1>2, <2>1, <2>2, CtxDrop
    <2>4. DataInv'
      BY <1>2, <2>1, <2>2, <2>3 DEF DataInv
    <2>5. Ready(stack, state')
      BY <1>2, <2>1
    <2> QED
      BY <2>1, <2>2, <2>4, <2>5, ReadyGood
  <1> QED
    BY <1>3, <1>4, <1>5, <1>6, <1>7, <1>8, <1>9, <1>10, <1>11 DEF UserStep

LEMMA CoreInit == Init => CoreInv
  <1> SUFFICES ASSUME Init PROVE CoreInv
    OBVIOUS
  <1>1. modules \subseteq Mods
    BY LifecycleAssumption DEF Init
  <1>2. /\ state = [m \in Mods |-> IF m \in modules THEN "IDLE" ELSE "NONE"]
        /\ handle = [m \in Mods |-> m \in modules] /\ bound = [m \in Mods |-> <<>>]
        /\ freed = {} /\ key = TRUE /\ ctxRefs = 1 + Cardinality(modules)
        /\ stack = <<Frame("user", NoMod, "main")>>
    BY DEF Init
  <1>3. Born = modules
    BY <1>1, <1>2 DEF Born
  <1>4. DataInv
    <2>1. Cardinality(modules) \in Nat
      BY <1>1, FS_Subset, FS_CardinalityType, LifecycleAssumption
    <2>2. ctxRefs \in Int
      BY <1>2, <2>1
    <2>3. Born \ freed = modules
      BY <1>2, <1>3
    <2>4. CtxRefs
      BY <1>2, <2>3 DEF CtxRefs
    <2>5. state \in [Mods -> States]
      BY <1>2 DEF States
    <2>6. bound \in [Mods -> Seq(Mods)]
      <3>1. <<>> \in Seq(Mods)
        OBVIOUS
      <3> QED
        BY <1>2, <3>1
    <2>7. handle \in [Mods -> BOOLEAN] /\ \A m \in Mods : handle[m] => m \in Born
      <3>1. \A m \in Mods : handle[m] <=> m \in Born
        BY <1>2, <1>3, Zenon
      <3>2. handle \in [Mods -> BOOLEAN]
        <4>1. \A m \in Mods : (m \in modules) \in BOOLEAN
          OBVIOUS
        <4>2. [m \in Mods |-> m \in modules] \in [Mods -> BOOLEAN]
          BY <4>1, Zenon
        <4> QED
          BY <1>2, <4>2, Zenon
      <3> QED
        BY <3>1, <3>2
    <2> QED
      BY <1>2, <1>3, <2>2, <2>4, <2>5, <2>6, <2>7 DEF DataInv
  <1>5. Shape(stack, state) /\ ~Awaits(stack[1])
    <2> DEFINE f == Frame("user", NoMod, "main")
    <2>1. f \in FrameType /\ f.fn = "user" /\ f.mod = NoMod /\ f.at = "main"
      <3>1. "user" \in Fns /\ "main" \in Ats /\ NoMod \in Mods \cup {NoMod}
        BY DEF Fns, Ats, Where
      <3> QED
        BY <3>1, NewFrame
    <2>2. stack = <<f>>
      BY <1>2
    <2> HIDE DEF f
    <2>3. stack \in Seq(FrameType) /\ Len(stack) = 1 /\ stack[1] = f
      BY <2>1, <2>2
    <2>4. Main(f) /\ FrameOK(f, state) /\ ~Awaits(f)
      BY <2>1 DEF Main, FrameOK, Awaits
    <2>5. \A i \in 1..Len(stack) : i = 1
      BY <2>3
    <2> QED
      BY <2>1, <2>3, <2>4, <2>5 DEF Shape
  <1> QED
    BY <1>4, <1>5 DEF CoreInv, RetOK

LEMMA CoreStep == CoreInv /\ [Next]_vars => Good
  <1> SUFFICES ASSUME CoreInv, [Next]_vars PROVE Good
    OBVIOUS
  <1>1. CASE UNCHANGED vars
    BY <1>1, AllSame DEF vars, modVars, ctxVars
  <1>2. ASSUME NEW m \in Mods, module_dtor(m) PROVE Good
    BY <1>2, DtorGood
  <1>3. CASE UserStep
    BY <1>3, UserGood
  <1>4. CASE LibraryStep
    <2>1. CASE EvalStarted
      BY <2>1, EntryDoneGood DEF EvalStarted, At
    <2>2. CASE FlushCalled
      BY <2>2, EntryDoneGood DEF FlushCalled, At
    <2> QED
      BY <1>4, <2>1, <2>2, HookReturnsGood, StartResumesGood, StopResumesGood, BoundResumesGood,
         DeregResumesGood, RegisterResumesGood, EvalNextGood, EvalResumesGood, LoopResumesGood,
         RecvEventGood, RecvEndsGood, FlushNextGood, LoopStopResumesGood DEF LibraryStep
  <1>5. CASE Finished
    BY <1>1, <1>5 DEF Finished
  <1> QED
    BY <1>1, <1>2, <1>3, <1>4, <1>5 DEF Next

LEMMA CoreHolds == Spec => []CoreInv
  <1>1. CoreInv /\ [Next]_vars => CoreInv'
    BY CoreStep DEF Good
  <1> QED
    BY <1>1, CoreInit, PTL DEF Spec

(***************************************************************************)
(* The context's reference count is exact: one reference while the thread's  *)
(* key holds the context and one for each module registered (module_new) and *)
(* not destroyed (module_dtor), whatever the hooks called in between.         *)
(***************************************************************************)
THEOREM ContextIsCounted == Spec => []CtxRefs
  <1>1. CoreInv => CtxRefs
    BY DEF CoreInv, DataInv
  <1> QED
    BY <1>1, CoreHolds, PTL

(***************************************************************************)
(* A deregistered module never changes state again, no module returns to      *)
(* IDLE and only a running one is paused.  The hard steps are the ones of     *)
(* start() and evaluate_module(), which change the state of a module after    *)
(* a hook that may have deregistered it: optional_hook's result tells them.   *)
(***************************************************************************)
THEOREM TransitionsAreLegal == Spec => LegalTransitions
  <1>1. CoreInv /\ [Next]_vars => [\A m \in Mods : state'[m] # state[m] =>
            /\ state[m] # "ZOMBIE"
            /\ state'[m] = "IDLE" => state[m] = "NONE"
            /\ state'[m] = "PAUSED" => state[m] = "RUNNING"
            /\ state'[m] = "RUNNING"
                  => state[m] = "PAUSED" \/ stack'[1] = Frame("user", m, "start")]_vars
    BY CoreStep DEF Good, LegalStep
  <1> QED
    BY <1>1, CoreHolds, PTL DEF Spec, LegalTransitions

-----------------------------------------------------------------------------
(***************************************************************************)
(* With clients that keep to ClientRules, the context knows how many modules  *)
(* run and no module gets an event unless it was started.  What follows is    *)
(* about what the frames of the stack still are going to do when they resume, *)
(* and why no hook called in between can make that wrong.                     *)
(***************************************************************************)
(* The modules a state change of m cascades to, given the bound modules b.    *)
Reach(b, m) ==
    {x \in Mods : \A S \in SUBSET Mods :
        (m \in S /\ \A y \in S : Range(b[y]) \subseteq S) => x \in S}

LEMMA AffectedReach == \A m : Affected(m) = Reach(bound, m)
  BY DEF Affected, Reach

LEMMA ReachSelf ==
    ASSUME NEW b, NEW m \in Mods
    PROVE  m \in Reach(b, m)
  BY DEF Reach

LEMMA ReachNext ==
    ASSUME NEW b, NEW m \in Mods, NEW z \in Range(b[m])
    PROVE  Reach(b, z) \subseteq Reach(b, m)
  <1> SUFFICES ASSUME NEW x \in Reach(b, z), NEW S \in SUBSET Mods, m \in S,
                      \A y \in S : Range(b[y]) \subseteq S
               PROVE  x \in Mods /\ x \in S
    BY DEF Reach
  <1>1. z \in S
    OBVIOUS
  <1> QED
    BY <1>1 DEF Reach

LEMMA ReachShrink ==
    ASSUME NEW b, NEW c, \A y \in Mods : Range(c[y]) \subseteq Range(b[y]), NEW m
    PROVE  Reach(c, m) \subseteq Reach(b, m)
  <1> SUFFICES ASSUME NEW x \in Reach(c, m), NEW S \in SUBSET Mods, m \in S,
                      \A y \in S : Range(b[y]) \subseteq S
               PROVE  x \in Mods /\ x \in S
    BY DEF Reach
  <1>1. \A y \in S : Range(c[y]) \subseteq S
    OBVIOUS
  <1> QED
    BY <1>1 DEF Reach

-----------------------------------------------------------------------------
(***************************************************************************)
(* The invariant.  A module that is being evaluated or deregistered does not  *)
(* run meanwhile; events are in the frames that receive them, and one whose    *)
(* source is alive is of a module that runs or is paused.                     *)
(***************************************************************************)
Active == {"RUNNING", "PAUSED"}
Evaluated(f) == f.fn = "iter" /\ f.at = "evaluated"

Alone(f, st) ==
    /\ f.fn # "recv" => Len(f.todo) = 0
    /\ f.fn = "dereg" \/ Evaluated(f) => f.mod \in Mods
    /\ Evaluated(f) => st[f.mod] \in {"IDLE", "STOPPED", "ZOMBIE"}
    /\ f.fn = "dereg" => st[f.mod] \in {"STOPPED", "ZOMBIE"}
    /\ \A k \in 1..Len(f.todo) : f.todo[k].src => st[f.todo[k].mod] \in Active

(* Frame f may be above frame g: the loop does not run inside an evaluation   *)
(* or a deregistration; a cascade of starts reaches no module that is being   *)
(* evaluated or deregistered below.                                          *)
Over(f, g, b) ==
    /\ f.fn \in {"iter", "loop", "recv"} => g.fn \notin {"iter", "dereg"}
    /\ f.fn = "bound" /\ f.at = "start" /\ (g.fn = "dereg" \/ Evaluated(g))
          => g.mod \notin Reach(b, f.mod)

Calm(s, st) == \A i \in 1..Len(s) : Alone(s[i], st)
Ordered(s, b) == \A i, j \in 1..Len(s) : i < j => Over(s[i], s[j], b)
Run(s, st, b) == s \in Seq(FrameType) /\ Calm(s, st) /\ Ordered(s, b)

RunInv == RunningModules /\ Run(stack, state, bound)

(* on_evt is called for a module that is started and not stopped.            *)
EventFrame(f) == f.fn = "user" /\ f.at \in {"evt", "flush"}
Calls(s) ==
    Len(s) > Len(stack) /\ EventFrame(s[1]) =>
        /\ s[1].at = "evt" => state[s[1].mod] \in Active
        /\ s[1].at = "flush" => state[s[1].mod] = "RUNNING"

RunGood == RunInv' /\ Calls(stack')

LEMMA RunPush ==
    ASSUME NEW s, NEW st, NEW b, Run(s, st, b), NEW f \in FrameType, Alone(f, st),
           \A i \in 1..Len(s) : Over(f, s[i], b)
    PROVE  Run(<<f>> \o s, st, b) /\ (<<f>> \o s)[1] = f
  <1> DEFINE t == <<f>> \o s
  <1>1. s \in Seq(FrameType) /\ Len(s) \in Nat
    BY DEF Run
  <1>2. /\ t \in Seq(FrameType) /\ Len(t) = Len(s) + 1 /\ t[1] = f
        /\ \A i \in 1..Len(t) : i = 1 \/ (i - 1 \in 1..Len(s) /\ t[i] = s[i - 1])
    BY <1>1, PushIndex
  <1> HIDE DEF t
  <1>3. ASSUME NEW i \in 1..Len(t) PROVE Alone(t[i], st)
    BY <1>2 DEF Run, Calm
  <1>4. ASSUME NEW i \in 1..Len(t), NEW j \in 1..Len(t), i < j PROVE Over(t[i], t[j], b)
    <2>1. j - 1 \in 1..Len(s) /\ t[j] = s[j - 1]
      BY <1>2, <1>4
    <2>2. CASE i = 1
      BY <1>2, <2>1, <2>2
    <2>3. CASE i # 1
      <3>1. i - 1 \in 1..Len(s) /\ t[i] = s[i - 1] /\ i - 1 < j - 1
        BY <1>2, <1>4, <2>3
      <3> QED
        BY <2>1, <3>1 DEF Run, Ordered
    <2> QED
      BY <2>2, <2>3
  <1>5. Run(t, st, b)
    BY <1>2, <1>3, <1>4 DEF Run, Calm, Ordered
  <1> QED
    BY <1>2, <1>5 DEF t

LEMMA RunPop ==
    ASSUME NEW s, NEW st, NEW b, Run(s, st, b), Len(s) > 1
    PROVE  /\ Run(Tail(s), st, b) /\ Len(Tail(s)) = Len(s) - 1
           /\ \A i \in 1..Len(Tail(s)) : Over(s[1], Tail(s)[i], b)
           /\ Alone(s[1], st)
  <1> DEFINE t == Tail(s)
  <1>1. s \in Seq(FrameType) /\ Len(s) \in Nat
    BY DEF Run
  <1>2. /\ t \in Seq(FrameType) /\ Len(t) = Len(s) - 1
        /\ \A i \in 1..Len(t) : i + 1 \in 1..Len(s) /\ t[i] = s[i + 1]
    BY <1>1, TailIndex
  <1> HIDE DEF t
  <1>3. Calm(t, st)
    BY <1>2 DEF Run, Calm
  <1>4. ASSUME NEW i \in 1..Len(t), NEW j \in 1..Len(t), i < j PROVE Over(t[i], t[j], b)
    <2>1. /\ i + 1 \in 1..Len(s) /\ j + 1 \in 1..Len(s) /\ i + 1 < j + 1
          /\ t[i] = s[i + 1] /\ t[j] = s[j + 1]
      BY <1>2, <1>4
    <2> QED
      BY <2>1 DEF Run, Ordered
  <1>5. ASSUME NEW i \in 1..Len(t) PROVE Over(s[1], t[i], b)
    <2>1. i + 1 \in 1..Len(s) /\ 1 \in 1..Len(s) /\ 1 < i + 1 /\ t[i] = s[i + 1]
      BY <1>1, <1>2
    <2> QED
      BY <2>1 DEF Run, Ordered
  <1>6. Alone(s[1], st)
    <2>1. 1 \in 1..Len(s)
      BY <1>1
    <2> QED
      BY <2>1 DEF Run, Calm
  <1> QED
    BY <1>2, <1>3, <1>4, <1>5, <1>6 DEF Run, Ordered, t

(* Frames that differ in an iterator, or have lost the source of an event.    *)
LEMMA OrderedAlike ==
    ASSUME NEW s, NEW t, NEW b, Ordered(s, b), Alike(s, t)
    PROVE  Ordered(t, b)
  <1>1. ASSUME NEW i \in 1..Len(s), NEW j \in 1..Len(s), Over(s[i], s[j], b)
        PROVE  Over(t[i], t[j], b)
    BY <1>1 DEF Alike, Over, Evaluated
  <1>2. Len(t) = Len(s)
    BY DEF Alike
  <1> QED
    BY <1>1, <1>2 DEF Ordered

LEMMA CalmAlike ==
    ASSUME NEW s, NEW t, NEW st, Calm(s, st), Alike(s, t)
    PROVE  Calm(t, st)
  <1>1. ASSUME NEW i \in 1..Len(s), Alone(s[i], st)
        PROVE  Alone(t[i], st)
    BY <1>1 DEF Alike, Alone, Evaluated
  <1>2. Len(t) = Len(s)
    BY DEF Alike
  <1> QED
    BY <1>1, <1>2 DEF Calm

(* Bound modules are only taken away.                                       *)
LEMMA OrderedShrink ==
    ASSUME NEW s, NEW b, NEW c, \A y \in Mods : Range(c[y]) \subseteq Range(b[y]), Ordered(s, b)
    PROVE  Ordered(s, c)
  <1>1. \A m : Reach(c, m) \subseteq Reach(b, m)
    BY ReachShrink
  <1>2. ASSUME NEW i \in 1..Len(s), NEW j \in 1..Len(s), Over(s[i], s[j], b)
        PROVE  Over(s[i], s[j], c)
    BY <1>1, <1>2 DEF Over
  <1> QED
    BY <1>2 DEF Ordered

-----------------------------------------------------------------------------
(***************************************************************************)
(* Counting the running modules.                                             *)
(***************************************************************************)
LEMMA RunningFinite == IsFiniteSet(Running) /\ Cardinality(Running) \in Nat
  <1>1. Running \subseteq Mods
    BY DEF Running
  <1> QED
    BY <1>1, FS_Subset, FS_CardinalityType, LifecycleAssumption

LEMMA CountSame ==
    ASSUME RunningModules, Running' = Running, running' = running
    PROVE  RunningModules'
  BY DEF RunningModules

LEMMA CountUp ==
    ASSUME DataInv, RunningModules, NEW m \in Mods, state[m] # "RUNNING",
           state' = [state EXCEPT ![m] = "RUNNING"], running' = running + 1
    PROVE  RunningModules'
  <1>1. Running' = Running \cup {m} /\ m \notin Running
    BY DEF Running, DataInv
  <1>2. Cardinality(Running \cup {m}) = Cardinality(Running) + 1
    BY <1>1, RunningFinite, FS_AddElement
  <1>3. running' = Cardinality(Running \cup {m})
    BY <1>2 DEF RunningModules
  <1> QED
    BY <1>1, <1>3 DEF RunningModules

LEMMA CountDown ==
    ASSUME DataInv, RunningModules, NEW m \in Mods, NEW x, x # "RUNNING",
           state' = [state EXCEPT ![m] = x],
           running' = NotRunningAnymore(m) \/ (running' = running /\ state[m] # "RUNNING")
    PROVE  RunningModules'
  <1>1. Running' = Running \ {m}
    BY DEF Running, DataInv
  <1>2. CASE state[m] = "RUNNING"
    <2>1. m \in Running
      BY <1>2 DEF Running
    <2>2. Cardinality(Running \ {m}) = Cardinality(Running) - 1
      BY <2>1, RunningFinite, FS_RemoveElement
    <2>3. running' = Cardinality(Running \ {m})
      BY <1>2, <2>2 DEF RunningModules, NotRunningAnymore
    <2> QED
      BY <1>1, <2>3 DEF RunningModules
  <1>3. CASE state[m] # "RUNNING"
    <2>1. Running' = Running
      BY <1>1, <1>3 DEF Running
    <2>2. running' = running
      BY <1>3 DEF NotRunningAnymore
    <2> QED
      BY <2>1, <2>2, CountSame
  <1> QED
    BY <1>2, <1>3

-----------------------------------------------------------------------------
(***************************************************************************)
(* The operations.                                                          *)
(***************************************************************************)
LEMMA PushesNoEvent ==
    ASSUME NEW s \in Seq(FrameType), NEW f \in FrameType, ~EventFrame(f)
    PROVE  Calls(<<f>> \o s)
  <1>1. (<<f>> \o s)[1] = f
    BY PushIndex
  <1> QED
    BY <1>1 DEF Calls

(* A frame that no rule is about: a hook, start(), stop(), a registration.    *)
Plain(f) ==
    /\ f.fn \in {"user", "start", "stop", "register", "flush", "lstop"} /\ f.todo = <<>>

LEMMA PlainRun ==
    ASSUME NEW s, NEW st, NEW b, Run(s, st, b), NEW f \in FrameType, Plain(f)
    PROVE  Run(<<f>> \o s, st, b) /\ (<<f>> \o s)[1] = f
  <1>1. Alone(f, st)
    BY DEF Plain, Alone, Evaluated
  <1>2. \A i \in 1..Len(s) : Over(f, s[i], b)
    BY DEF Plain, Over
  <1> QED
    BY <1>1, <1>2, RunPush

(* Two of them, as start() and stop() push.                                  *)
LEMMA PlainTwo ==
    ASSUME NEW s, NEW st, NEW b, Run(s, st, b), NEW f \in FrameType, Plain(f),
           NEW g \in FrameType, Plain(g)
    PROVE  Run(<<f, g>> \o s, st, b) /\ (<<f, g>> \o s)[1] = f
  <1>1. Run(<<g>> \o s, st, b)
    BY PlainRun
  <1>2. Run(<<f>> \o (<<g>> \o s), st, b) /\ (<<f>> \o (<<g>> \o s))[1] = f
    BY <1>1, PlainRun
  <1>3. s \in Seq(FrameType)
    BY DEF Run
  <1>4. <<f, g>> \o s = <<f>> \o (<<g>> \o s)
    BY <1>3, PushTwo
  <1> QED
    BY <1>2, <1>4

(* A step that leaves the modules' states and lists alone.                   *)
LEMMA QuietRun ==
    ASSUME RunInv, UNCHANGED <<state, bound, running>>, NEW s, stack' = s,
           Run(s, state, bound), Calls(s)
    PROVE  RunGood
  <1>1. Running' = Running
    BY DEF Running
  <1>2. RunningModules'
    BY <1>1, CountSame DEF RunInv
  <1> QED
    BY <1>2 DEF RunGood, RunInv

LEMMA FailRun ==
    ASSUME RunInv, NEW below, Run(below, state, bound), Calls(below), Fail(below)
    PROVE  RunGood
  BY QuietRun DEF Fail, modVars, ctxVars

(* No frame of s is about to start or destroy m.                             *)
Free(s, m) == \A i \in 1..Len(s) : s[i].fn = "dereg" \/ Evaluated(s[i]) => s[i].mod # m

LEMMA StartRun ==
    ASSUME CoreInv, RunInv, NEW m \in Mods, NEW starting, NEW below, Run(below, state, bound),
           Calls(below), state[m] # "RUNNING", Free(below, m), start(m, starting, below)
    PROVE  RunGood
  <1>1. CASE Fail(below)
    BY <1>1, FailRun
  <1>2. CASE /\ state' = [state EXCEPT ![m] = "RUNNING"] /\ running' = running + 1
             /\ UNCHANGED bound
             /\ \/ stack' = below
                \/ stack' = <<Frame("user", m, "start"), Frame("start", m, "call")>> \o below
    <2>1. DataInv /\ RunningModules
      BY DEF CoreInv, RunInv
    <2>2. RunningModules'
      BY <1>2, <2>1, CountUp
    <2>3. \A q \in Mods : state'[q] = IF q = m THEN "RUNNING" ELSE state[q]
      BY <1>2, <2>1 DEF DataInv
    <2>4. ASSUME NEW i \in 1..Len(below) PROVE Alone(below[i], state')
      <3>1. Alone(below[i], state) /\ below[i] \in FrameType
        BY DEF Run, Calm
      <3>2. ASSUME NEW k \in 1..Len(below[i].todo), below[i].todo[k].src
            PROVE  state'[below[i].todo[k].mod] \in Active
        <4>1. below[i].todo[k] \in Event
          BY <3>1 DEF FrameType
        <4>2. below[i].todo[k].mod \in Mods
          BY <4>1 DEF Event
        <4>3. state[below[i].todo[k].mod] \in Active
          BY <3>1, <3>2 DEF Alone
        <4> QED
          BY <2>3, <4>2, <4>3 DEF Active
      <3>3. Evaluated(below[i]) \/ below[i].fn = "dereg"
                => state'[below[i].mod] = state[below[i].mod]
        BY <2>3, <3>1 DEF Alone, Free
      <3> QED
        BY <3>1, <3>2, <3>3 DEF Alone
    <2>5. Run(below, state', bound')
      BY <1>2, <2>4 DEF Run, Calm
    <2>6. CASE stack' = below
      BY <2>2, <2>5, <2>6 DEF RunGood, RunInv
    <2>7. CASE stack' = <<Frame("user", m, "start"), Frame("start", m, "call")>> \o below
      <3> DEFINE f == Frame("user", m, "start")
                 g == Frame("start", m, "call")
      <3>1. /\ "user" \in Fns /\ "start" \in Fns /\ "start" \in Ats /\ "call" \in Ats
            /\ m \in Mods \cup {NoMod}
        BY DEF Fns, Ats, Where
      <3>2. /\ f \in FrameType /\ f.fn = "user" /\ f.at = "start" /\ f.todo = <<>>
            /\ g \in FrameType /\ g.fn = "start" /\ g.todo = <<>>
        BY <3>1, NewFrame
      <3>3. stack' = <<f, g>> \o below
        BY <2>7
      <3> HIDE DEF f, g
      <3>4. Plain(f) /\ Plain(g) /\ ~EventFrame(f)
        BY <3>2 DEF Plain, EventFrame
      <3>5. Run(<<f, g>> \o below, state', bound') /\ (<<f, g>> \o below)[1] = f
        BY <2>5, <3>2, <3>4, PlainTwo
      <3>6. Calls(stack')
        BY <3>3, <3>4, <3>5 DEF Calls
      <3> QED
        BY <2>2, <3>3, <3>5, <3>6 DEF RunGood, RunInv
    <2> QED
      BY <1>2, <2>6, <2>7
  <1> QED
    BY <1>1, <1>2 DEF start

(* stop() frees the sources of m.  A deregistration of m that has just begun  *)
(* is the one frame that relies on the state m is about to get.              *)
Begun(f, m) == f.fn = "dereg" /\ f.mod = m /\ f.todo = <<>>

LEMMA StopRun ==
    ASSUME CoreInv, RunInv, NEW m \in Mods, NEW stopping \in BOOLEAN, NEW r, NEW below,
           below \in Seq(FrameType), Ordered(below, bound), Calls(below),
           \A i \in 1..Len(below) : Alone(below[i], state) \/ (stopping /\ Begun(below[i], m)),
           stopping \/ state[m] = "RUNNING",
           stop(m, stopping, r, below)
    PROVE  RunGood
  <1>1. DataInv /\ RunningModules
    BY DEF CoreInv, RunInv
  <1> SUFFICES ASSUME ~(~stopping /\ Fail(below)) PROVE RunGood
    <2>1. CASE ~stopping /\ Fail(below)
      <3>1. Run(below, state, bound)
        BY <2>1 DEF Run, Calm
      <3> QED
        BY <2>1, <3>1, FailRun
    <2> QED
      BY <2>1
  <1>2. PICK x \in {"STOPPED", "PAUSED"} :
           state' = [state EXCEPT ![m] = x] /\ (stopping <=> x = "STOPPED")
    BY DEF stop
  <1>3. running' = NotRunningAnymore(m)
    BY DEF stop
  <1>4. RunningModules'
    BY <1>1, <1>2, <1>3, CountDown
  <1>5. \A q \in Mods : state'[q] = IF q = m THEN x ELSE state[q]
    BY <1>1, <1>2 DEF DataInv
  <1>6. ASSUME NEW f \in FrameType, NEW k \in 1..Len(f.todo)
        PROVE  f.todo[k].mod \in Mods
    <2>1. f.todo[k] \in Event
      BY DEF FrameType
    <2> QED
      BY <2>1 DEF Event
  <1>7. CASE ~stopping
    <2>1. stack' = below /\ bound' = bound /\ x = "PAUSED"
      BY <1>2, <1>7 DEF stop
    <2>2. ASSUME NEW i \in 1..Len(below) PROVE Alone(below[i], state')
      <3>1. Alone(below[i], state) /\ below[i] \in FrameType
        BY <1>7
      <3>2. \A k \in 1..Len(below[i].todo) : below[i].todo[k].mod \in Mods
        BY <1>6, <3>1
      <3>3. below[i].fn = "dereg" \/ Evaluated(below[i]) =>
               below[i].mod # m /\ below[i].mod \in Mods
        BY <1>7, <3>1 DEF Alone
      <3>4. \A k \in 1..Len(below[i].todo) :
               below[i].todo[k].src => state'[below[i].todo[k].mod] \in Active
        BY <1>5, <2>1, <3>1, <3>2 DEF Alone, Active
      <3> QED
        BY <1>5, <3>1, <3>3, <3>4 DEF Alone
    <2>3. Run(below, state', bound')
      BY <2>1, <2>2 DEF Run, Calm
    <2> QED
      BY <1>4, <2>1, <2>3 DEF RunGood, RunInv
  <1>8. CASE stopping
    <2> DEFINE d == Dangling(below, m)
               f == Frame("user", m, "stop")
               g == Frame("stop", m, "call")
    <2>1. stack' = <<f, g>> \o d /\ bound' = [bound EXCEPT ![m] = <<>>] /\ x = "STOPPED"
      BY <1>2, <1>8 DEF stop
    <2>2. /\ Alike(below, d)
          /\ \A i \in 1..Len(below) : \A k \in 1..Len(d[i].todo) :
                d[i].todo[k].mod = m => ~d[i].todo[k].src
      BY DanglingAlike
    <2> HIDE DEF d
    <2>3. ASSUME NEW i \in 1..Len(below) PROVE Alone(d[i], state')
      <3>1. /\ d[i].fn = below[i].fn /\ d[i].mod = below[i].mod /\ d[i].at = below[i].at
            /\ Len(d[i].todo) = Len(below[i].todo)
            /\ \A k \in 1..Len(below[i].todo) :
                  /\ d[i].todo[k].mod = below[i].todo[k].mod
                  /\ d[i].todo[k].src => below[i].todo[k].src
            /\ below[i] \in FrameType
        BY <2>2 DEF Alike
      <3>2. CASE Begun(below[i], m)
        BY <1>5, <2>1, <3>1, <3>2 DEF Begun, Alone, Evaluated
      <3>3. CASE Alone(below[i], state)
        <4>1. \A k \in 1..Len(d[i].todo) : d[i].todo[k].src =>
                 /\ d[i].todo[k].mod \in Mods /\ d[i].todo[k].mod # m
                 /\ state[d[i].todo[k].mod] \in Active
          <5>1. \A k \in 1..Len(below[i].todo) : below[i].todo[k].src =>
                   state[below[i].todo[k].mod] \in Active
            BY <3>3 DEF Alone
          <5>2. \A k \in 1..Len(below[i].todo) : below[i].todo[k].mod \in Mods
            BY <1>6, <3>1
          <5> QED
            BY <2>2, <3>1, <5>1, <5>2
        <4>2. d[i].fn = "dereg" \/ Evaluated(d[i]) => d[i].mod \in Mods
          BY <3>1, <3>3 DEF Alone, Evaluated
        <4>3. Evaluated(d[i]) => state[d[i].mod] \in {"IDLE", "STOPPED", "ZOMBIE"}
          BY <3>1, <3>3 DEF Alone, Evaluated
        <4>4. d[i].fn = "dereg" => state[d[i].mod] \in {"STOPPED", "ZOMBIE"}
          BY <3>1, <3>3 DEF Alone
        <4>5. d[i].fn # "recv" => Len(d[i].todo) = 0
          BY <3>1, <3>3 DEF Alone
        <4> QED
          BY <1>5, <2>1, <4>1, <4>2, <4>3, <4>4, <4>5 DEF Alone
      <3> QED
        BY <3>2, <3>3
    <2>4. \A y \in Mods : Range(bound'[y]) \subseteq Range(bound[y])
      <3>1. bound \in [Mods -> Seq(Mods)]
        BY <1>1 DEF DataInv
      <3>2. \A y \in Mods : bound'[y] = IF y = m THEN <<>> ELSE bound[y]
        BY <2>1, <3>1
      <3>3. Range(<<>>) = {}
        BY DEF Range
      <3> QED
        BY <3>2, <3>3
    <2>5. Ordered(d, bound')
      <3>1. Ordered(d, bound)
        BY <2>2, OrderedAlike
      <3> QED
        BY <2>4, <3>1, OrderedShrink
    <2>6. d \in Seq(FrameType) /\ Len(d) = Len(below)
      BY <2>2 DEF Alike
    <2>7. Run(d, state', bound')
      BY <2>3, <2>5, <2>6 DEF Run, Calm
    <2>8. /\ "user" \in Fns /\ "stop" \in Fns /\ "stop" \in Ats /\ "call" \in Ats
          /\ m \in Mods \cup {NoMod}
      BY DEF Fns, Ats, Where
    <2>9. /\ f \in FrameType /\ f.fn = "user" /\ f.at = "stop" /\ f.todo = <<>>
          /\ g \in FrameType /\ g.fn = "stop" /\ g.todo = <<>>
      BY <2>8, NewFrame
    <2> HIDE DEF f, g
    <2>10. Plain(f) /\ Plain(g) /\ ~EventFrame(f)
      BY <2>9 DEF Plain, EventFrame
    <2>11. Run(<<f, g>> \o d, state', bound') /\ (<<f, g>> \o d)[1] = f
      BY <2>7, <2>9, <2>10, PlainTwo
    <2>12. Calls(stack')
      BY <2>1, <2>10, <2>11 DEF Calls
    <2> QED
      BY <1>4, <2>1, <2>11, <2>12 DEF RunGood, RunInv
  <1> QED
    BY <1>7, <1>8

(* A state change of m: the frames below are in the way neither of m nor of    *)
(* the modules its cascade reaches.                                          *)
LEMMA StateOpRun ==
    ASSUME CoreInv, RunInv, NEW op \in StateOp, NEW m \in Mods, NEW below,
           Run(below, state, bound), Calls(below),
           \A i \in 1..Len(below) : Over(Frame("bound", m, op), below[i], bound),
           m_mod_state_op(op, m, below)
    PROVE  RunGood
  <1> DEFINE w == Frame("bound", m, op)
             waiting == <<w>> \o below
  <1>1. CASE Fail(below)
    BY <1>1, FailRun
  <1>2. CASE ~Fail(below)
    <2>1. /\ state[m] \in StateAllowed(op)
          /\ \/ op \in {"start", "resume"} /\ start(m, op = "start", waiting)
             \/ op \in {"pause", "stop"} /\ stop(m, op = "stop", refs, waiting)
      BY <1>2 DEF m_mod_state_op
    <2>2. w \in FrameType /\ w.fn = "bound" /\ w.mod = m /\ w.at = op /\ w.todo = <<>>
      <3>1. "bound" \in Fns /\ op \in Ats /\ m \in Mods \cup {NoMod}
        BY DEF Fns, Ats
      <3> QED
        BY <3>1, NewFrame
    <2>3. \A i \in 1..Len(below) : Over(w, below[i], bound)
      OBVIOUS
    <2> HIDE DEF w
    <2>4. Alone(w, state) /\ ~EventFrame(w)
      BY <2>2 DEF Alone, Evaluated, EventFrame
    <2>5. Run(waiting, state, bound) /\ Calls(waiting) /\ below \in Seq(FrameType)
      <3>1. below \in Seq(FrameType)
        BY DEF Run
      <3>2. Run(waiting, state, bound)
        BY <2>2, <2>3, <2>4, RunPush
      <3>3. Calls(waiting)
        BY <2>2, <2>4, <3>1, PushesNoEvent
      <3> QED
        BY <3>1, <3>2, <3>3
    <2>6. m \in Reach(bound, m)
      BY ReachSelf
    <2>7. \A i \in 1..Len(waiting) : i = 1 \/ (i - 1 \in 1..Len(below) /\ waiting[i] = below[i - 1])
      BY <2>2, <2>5, PushIndex
    <2>8. waiting[1] = w
      BY <2>2, <2>5, PushIndex
    <2> HIDE DEF waiting
    <2>9. CASE op \in {"start", "resume"} /\ start(m, op = "start", waiting)
      <3>1. state[m] # "RUNNING"
        BY <2>1, <2>9 DEF StateAllowed
      <3>2. Free(waiting, m)
        <4>1. CASE op = "start"
          <5>1. ASSUME NEW i \in 1..Len(below), below[i].fn = "dereg" \/ Evaluated(below[i])
                PROVE  below[i].mod # m
            BY <2>2, <2>3, <2>6, <4>1, <5>1 DEF Over
          <5>2. ~(w.fn = "dereg" \/ Evaluated(w))
            BY <2>2 DEF Evaluated
          <5> QED
            BY <2>7, <2>8, <5>1, <5>2 DEF Free
        <4>2. CASE op = "resume"
          <5>1. state[m] = "PAUSED"
            BY <2>1, <4>2 DEF StateAllowed
          <5> QED
            BY <2>5, <5>1 DEF Free, Run, Calm, Alone
        <4> QED
          BY <2>9, <4>1, <4>2
      <3> QED
        BY <2>5, <2>9, <3>1, <3>2, StartRun
    <2>10. CASE op = "stop" /\ stop(m, TRUE, refs, waiting)
      <3>1. /\ waiting \in Seq(FrameType) /\ Ordered(waiting, bound)
            /\ \A i \in 1..Len(waiting) : Alone(waiting[i], state)
        BY <2>5 DEF Run, Calm
      <3> QED
        BY <2>5, <2>10, <3>1, StopRun
    <2>11. CASE op = "pause" /\ stop(m, FALSE, refs, waiting)
      <3>1. /\ waiting \in Seq(FrameType) /\ Ordered(waiting, bound)
            /\ \A i \in 1..Len(waiting) : Alone(waiting[i], state)
        BY <2>5 DEF Run, Calm
      <3>2. state[m] = "RUNNING"
        BY <2>1, <2>11 DEF StateAllowed
      <3> QED
        BY <2>5, <2>11, <3>1, <3>2, StopRun
    <2>12. op = "stop" => (op = "stop") = TRUE
      OBVIOUS
    <2>13. op = "pause" => (op = "stop") = FALSE
      OBVIOUS
    <2> QED
      BY <2>1, <2>9, <2>10, <2>11, <2>12, <2>13
  <1> QED
    BY <1>1, <1>2

LEMMA DeregRun ==
    ASSUME CoreInv, RunInv, NEW m \in Mods, NEW fromUser, NEW below, Run(below, state, bound),
           Calls(below), mod_deregister(m, fromUser, below)
    PROVE  RunGood
  <1>1. CASE Fail(below)
    BY <1>1, FailRun
  <1>2. CASE ~Fail(below)
    <2> DEFINE w == Frame("dereg", m, IF fromUser THEN "user" ELSE "lib")
               waiting == <<w>> \o below
    <2>1. PICK r : stop(m, TRUE, r, waiting)
      BY <1>2 DEF mod_deregister
    <2>2. w \in FrameType /\ w.fn = "dereg" /\ w.mod = m /\ w.todo = <<>>
      <3>1. /\ "dereg" \in Fns /\ (IF fromUser THEN "user" ELSE "lib") \in Ats
            /\ m \in Mods \cup {NoMod}
        BY DEF Fns, Ats
      <3> QED
        BY <3>1, NewFrame
    <2> HIDE DEF w
    <2>3. below \in Seq(FrameType) /\ Begun(w, m) /\ ~EventFrame(w)
      BY <2>2 DEF Run, Begun, EventFrame
    <2>4. /\ waiting \in Seq(FrameType) /\ Len(waiting) = Len(below) + 1 /\ waiting[1] = w
          /\ \A i \in 1..Len(waiting) :
                i = 1 \/ (i - 1 \in 1..Len(below) /\ waiting[i] = below[i - 1])
      BY <2>2, <2>3, PushIndex
    <2>5. Calls(waiting)
      BY <2>2, <2>3, PushesNoEvent
    <2> HIDE DEF waiting
    <2>6. \A i \in 1..Len(waiting) : Alone(waiting[i], state) \/ Begun(waiting[i], m)
      BY <2>3, <2>4 DEF Run, Calm
    <2>7. ASSUME NEW i \in 1..Len(waiting), NEW j \in 1..Len(waiting), i < j
          PROVE  Over(waiting[i], waiting[j], bound)
      <3>1. CASE i = 1
        BY <2>2, <2>4, <3>1 DEF Over
      <3>2. CASE i # 1
        <4>1. /\ i - 1 \in 1..Len(below) /\ j - 1 \in 1..Len(below) /\ i - 1 < j - 1
              /\ waiting[i] = below[i - 1] /\ waiting[j] = below[j - 1]
          BY <2>4, <2>7, <3>2
        <4> QED
          BY <4>1 DEF Run, Ordered
      <3> QED
        BY <3>1, <3>2
    <2>8. Ordered(waiting, bound)
      BY <2>7 DEF Ordered
    <2> QED
      BY <2>1, <2>4, <2>5, <2>6, <2>8, StopRun
  <1> QED
    BY <1>1, <1>2

(* A module that is neither running nor being deregistered changes to a state *)
(* in which it does not run.                                                *)
LEMMA SettleRun ==
    ASSUME CoreInv, RunInv, NEW m \in Mods, NEW x \in {"IDLE", "ZOMBIE"},
           state' = [state EXCEPT ![m] = x], state[m] \notin {"RUNNING", "PAUSED"},
           x = "IDLE" => state[m] = "NONE", UNCHANGED <<bound, running>>,
           NEW s, stack' = s, Run(s, state, bound), Calls(s)
    PROVE  RunGood
  <1>1. DataInv /\ RunningModules
    BY DEF CoreInv, RunInv
  <1>2. RunningModules'
    BY <1>1, CountDown
  <1>3. \A q \in Mods : state'[q] = IF q = m THEN x ELSE state[q]
    BY <1>1 DEF DataInv
  <1>4. ASSUME NEW i \in 1..Len(s) PROVE Alone(s[i], state')
    <2>1. Alone(s[i], state) /\ s[i] \in FrameType
      BY DEF Run, Calm
    <2>2. ASSUME NEW k \in 1..Len(s[i].todo), s[i].todo[k].src
          PROVE  state'[s[i].todo[k].mod] \in Active
      <3>1. s[i].todo[k] \in Event
        BY <2>1 DEF FrameType
      <3>2. s[i].todo[k].mod \in Mods
        BY <3>1 DEF Event
      <3>3. state[s[i].todo[k].mod] \in Active
        BY <2>1, <2>2 DEF Alone
      <3> QED
        BY <1>3, <3>2, <3>3 DEF Active
    <2> QED
      BY <1>3, <2>1, <2>2 DEF Alone
  <1>5. Run(s, state', bound')
    BY <1>4 DEF Run, Calm
  <1> QED
    BY <1>2, <1>5 DEF RunGood, RunInv

LEMMA StayRun ==
    ASSUME RunInv, UNCHANGED <<state, bound, running, stack>>
    PROVE  RunGood
  <1>1. Calls(stack)
    BY DEF Calls
  <1> QED
    BY <1>1, QuietRun DEF RunInv

LEMMA RegisterRun ==
    ASSUME CoreInv, RunInv, NEW m \in Mods, state[m] = "NONE", NEW below,
           Run(below, state, bound), Calls(below), register(m, below)
    PROVE  RunGood
  <1>1. CASE Fail(below)
    BY <1>1, FailRun
  <1>2. CASE UNCHANGED <<modVars, ctxVars, stack, ret>>
    BY <1>2, StayRun DEF modVars, ctxVars
  <1>3. CASE /\ state' = [state EXCEPT ![m] = "IDLE"] /\ stack' = below
             /\ UNCHANGED <<bound, running>>
    BY <1>3, SettleRun
  <1> QED
    BY <1>1, <1>2, <1>3 DEF register

LEMMA MRegisterRun ==
    ASSUME CoreInv, RunInv, NEW m \in Mods, state[m] = "NONE", NEW below,
           Run(below, state, bound), Calls(below), m_mod_register(m, below)
    PROVE  RunGood
  <1>1. CASE Fail(below)
    BY <1>1, FailRun
  <1>2. CASE register(m, below)
    BY <1>2, RegisterRun
  <1>3. CASE \E x \in Homonyms(m) :
                 mod_deregister(x, FALSE, <<Frame("register", m, "call")>> \o below)
    <2>1. PICK x \in Homonyms(m) :
                 mod_deregister(x, FALSE, <<Frame("register", m, "call")>> \o below)
      BY <1>3
    <2>2. x \in Mods
      BY DEF Homonyms, CoreInv, DataInv, Born
    <2> DEFINE w == Frame("register", m, "call")
               waiting == <<w>> \o below
    <2>3. w \in FrameType /\ w.fn = "register" /\ w.todo = <<>>
      <3>1. "register" \in Fns /\ "call" \in Ats /\ m \in Mods \cup {NoMod}
        BY DEF Fns, Ats
      <3> QED
        BY <3>1, NewFrame
    <2>4. mod_deregister(x, FALSE, waiting)
      BY <2>1
    <2> HIDE DEF w
    <2>5. Plain(w) /\ ~EventFrame(w) /\ below \in Seq(FrameType)
      BY <2>3 DEF Plain, EventFrame, Run
    <2>6. Run(waiting, state, bound)
      BY <2>3, <2>5, PlainRun
    <2>7. Calls(waiting)
      BY <2>3, <2>5, PushesNoEvent
    <2> HIDE DEF waiting
    <2> QED
      BY <2>2, <2>4, <2>6, <2>7, DeregRun
  <1> QED
    BY <1>1, <1>2, <1>3 DEF m_mod_register

-----------------------------------------------------------------------------
(***************************************************************************)
(* The steps of the library.                                                *)
(***************************************************************************)
LEMMA BelowRun ==
    ASSUME CoreInv, RunInv, ~Main(stack[1])
    PROVE  /\ Run(Below, state, bound) /\ Len(Below) = Len(stack) - 1 /\ Len(stack) \in Nat
           /\ \A i \in 1..Len(Below) : Over(Top, Below[i], bound)
           /\ Alone(Top, state) /\ Calls(Below) /\ Top \in FrameType /\ Top = stack[1]
  <1>1. stack \in Seq(FrameType) /\ Len(stack) > 1
    BY ShapePop DEF CoreInv, Shape
  <1>2. Top = stack[1] /\ Top \in FrameType
    BY <1>1, HeadFirst DEF Top
  <1>3. /\ Run(Below, state, bound) /\ Len(Below) = Len(stack) - 1
        /\ \A i \in 1..Len(Below) : Over(Top, Below[i], bound)
        /\ Alone(Top, state)
    BY <1>1, <1>2, RunPop DEF RunInv, Below
  <1>4. Calls(Below)
    BY <1>1, <1>3 DEF Calls
  <1> QED
    BY <1>1, <1>2, <1>3, <1>4

LEMMA NotUser ==
    ASSUME CoreInv, Top.fn # "user"
    PROVE  ~Main(stack[1])
  <1>1. Top = stack[1]
    BY HeadFirst DEF CoreInv, Shape, Top
  <1> QED
    BY <1>1 DEF Main

(* A function returns.                                                      *)
LEMMA ReturnRun ==
    ASSUME CoreInv, RunInv, ~Main(stack[1]), stack' = Below, UNCHANGED <<state, bound, running>>
    PROVE  RunGood
  BY BelowRun, QuietRun

(* It has moved on: the same frame, but for what it waits for.               *)
LEMMA ReplaceRun ==
    ASSUME CoreInv, RunInv, ~Main(stack[1]), NEW f \in FrameType, Alone(f, state),
           \A i \in 1..Len(Below) : Over(f, Below[i], bound)
    PROVE  Run(<<f>> \o Below, state, bound) /\ Calls(<<f>> \o Below)
  <1>1. Run(Below, state, bound) /\ Len(Below) = Len(stack) - 1 /\ Len(stack) \in Nat
    BY BelowRun
  <1>2. Run(<<f>> \o Below, state, bound)
    BY <1>1, RunPush
  <1>3. Len(<<f>> \o Below) = Len(stack)
    <2>1. Below \in Seq(FrameType)
      BY <1>1 DEF Run
    <2> QED
      BY <1>1, <2>1, PushIndex
  <1> QED
    BY <1>1, <1>2, <1>3 DEF Calls

LEMMA DtorRun ==
    ASSUME CoreInv, RunInv, NEW m \in Mods, module_dtor(m)
    PROVE  RunGood
  <1>1. bound' = [bound EXCEPT ![m] = <<>>] /\ UNCHANGED <<state, running, stack>>
    BY DEF module_dtor
  <1>2. \A y \in Mods : Range(bound'[y]) \subseteq Range(bound[y])
    <2>1. bound \in [Mods -> Seq(Mods)]
      BY DEF CoreInv, DataInv
    <2>2. \A y \in Mods : bound'[y] = IF y = m THEN <<>> ELSE bound[y]
      BY <1>1, <2>1
    <2>3. Range(<<>>) = {}
      BY DEF Range
    <2> QED
      BY <2>2, <2>3
  <1>3. Ordered(stack, bound')
    BY <1>2, OrderedShrink DEF RunInv, Run
  <1>4. Running' = Running
    BY <1>1 DEF Running
  <1>5. RunningModules'
    BY <1>1, <1>4, CountSame DEF RunInv
  <1> QED
    BY <1>1, <1>3, <1>5 DEF RunGood, RunInv, Run, Calls

LEMMA HookReturnsRun ==
    ASSUME CoreInv, RunInv, NEW result \in BOOLEAN, HookReturns(result)
    PROVE  RunGood
  <1>1. Top.mod # NoMod /\ stack' = Below /\ UNCHANGED <<state, bound, running>>
    BY DEF HookReturns
  <1>2. stack[1] = Top /\ 1 \in 1..Len(stack)
    BY HeadFirst DEF CoreInv, Shape, Top
  <1>3. ~Main(stack[1])
    BY <1>1, <1>2 DEF CoreInv, Shape
  <1> QED
    BY <1>1, <1>3, ReturnRun

LEMMA StartResumesRun ==
    ASSUME CoreInv, RunInv, StartResumes
    PROVE  RunGood
  <1> DEFINE w == Frame("start", Top.mod, "stopped")
  <1>1. Top.fn = "start"
    BY DEF StartResumes, At
  <1>2. ~Main(stack[1]) /\ FrameOK(Top, state)
    BY <1>1, NotUser, BelowReady
  <1>3. Top.mod \in Mods
    BY <1>1, <1>2 DEF FrameOK
  <1>4. CASE stop(Top.mod, TRUE, refs, <<w>> \o Below)
    <2>1. w \in FrameType /\ w.fn = "start" /\ w.todo = <<>>
      <3>1. "start" \in Fns /\ "stopped" \in Ats /\ Top.mod \in Mods \cup {NoMod}
        BY <1>3 DEF Fns, Ats
      <3> QED
        BY <3>1, NewFrame
    <2>2. stop(Top.mod, TRUE, refs, <<w>> \o Below)
      BY <1>4
    <2> HIDE DEF w
    <2>3. Alone(w, state) /\ \A i \in 1..Len(Below) : Over(w, Below[i], bound)
      BY <2>1 DEF Alone, Evaluated, Over
    <2>4. Run(<<w>> \o Below, state, bound) /\ Calls(<<w>> \o Below)
      BY <1>2, <2>1, <2>3, ReplaceRun
    <2> DEFINE waiting == <<w>> \o Below
    <2>5. /\ waiting \in Seq(FrameType) /\ Ordered(waiting, bound)
          /\ \A i \in 1..Len(waiting) : Alone(waiting[i], state)
      BY <2>4 DEF Run, Calm
    <2> HIDE DEF waiting
    <2>6. stop(Top.mod, TRUE, refs, waiting) /\ Calls(waiting)
      BY <2>2, <2>4 DEF waiting
    <2> QED
      BY <1>3, <2>5, <2>6, StopRun
  <1>5. CASE stack' = Below /\ UNCHANGED <<modVars, ctxVars>>
    BY <1>2, <1>5, ReturnRun DEF modVars, ctxVars
  <1> QED
    BY <1>4, <1>5 DEF StartResumes

LEMMA StopResumesRun ==
    ASSUME CoreInv, RunInv, StopResumes
    PROVE  RunGood
  BY NotUser, ReturnRun DEF StopResumes, At, modVars, ctxVars

(* The next bound module: the cascade from it stays inside the cascade.       *)
LEMMA BoundResumesRun ==
    ASSUME CoreInv, RunInv, BoundResumes
    PROVE  RunGood
  <1> DEFINE next == Top.n + 1
             w == [Top EXCEPT !.n = next]
             q == bound[Top.mod][next]
  <1>1. Top.fn = "bound"
    BY DEF BoundResumes, At
  <1>2. ~Main(stack[1]) /\ FrameOK(Top, state)
    BY <1>1, NotUser, BelowReady
  <1>3. /\ Top \in FrameType /\ Alone(Top, state)
        /\ \A i \in 1..Len(Below) : Over(Top, Below[i], bound)
    BY <1>2, BelowRun
  <1>4. CASE stack' = Below /\ UNCHANGED <<modVars, ctxVars>>
    BY <1>2, <1>4, ReturnRun DEF modVars, ctxVars
  <1>5. CASE UNCHANGED <<modVars, ctxVars, stack, ret>>
    BY <1>5, StayRun DEF modVars, ctxVars
  <1>6. CASE /\ Top.n # -1 /\ ~(next > Len(bound[Top.mod]))
             /\ m_mod_state_op(Top.at, q, <<w>> \o Below)
    <2>1. /\ w \in FrameType /\ w.fn = "bound" /\ w.mod = Top.mod /\ w.at = Top.at
          /\ w.todo = Top.todo
      BY <1>1, <1>3 DEF FrameType
    <2>2. Top.mod \in Mods /\ Top.at \in StateOp /\ next \in Nat /\ next >= 1
      BY <1>1, <1>2, <1>3, <1>6 DEF FrameOK, FrameType
    <2>3. bound[Top.mod] \in Seq(Mods)
      BY <2>2 DEF CoreInv, DataInv
    <2>4. q \in Mods /\ q \in Range(bound[Top.mod])
      BY <1>6, <2>2, <2>3 DEF Range
    <2>5. m_mod_state_op(Top.at, q, <<w>> \o Below)
      BY <1>6
    <2> HIDE DEF w, q
    <2>6. Alone(w, state) /\ \A i \in 1..Len(Below) : Over(w, Below[i], bound)
      <3>1. Alone(w, state)
        BY <1>1, <1>3, <2>1 DEF Alone, Evaluated
      <3>2. ASSUME NEW i \in 1..Len(Below) PROVE Over(w, Below[i], bound)
        <4>1. Over(Top, Below[i], bound)
          BY <1>3
        <4> QED
          BY <1>1, <2>1, <4>1 DEF Over
      <3> QED
        BY <3>1, <3>2
    <2> DEFINE waiting == <<w>> \o Below
    <2>7. Run(waiting, state, bound) /\ Calls(waiting)
      BY <1>2, <2>1, <2>6, ReplaceRun
    <2>8. Reach(bound, q) \subseteq Reach(bound, Top.mod)
      BY <2>2, <2>4, ReachNext
    <2> DEFINE c == Frame("bound", q, Top.at)
    <2>9. c.fn = "bound" /\ c.mod = q /\ c.at = Top.at
      BY DEF Frame
    <2>10. Below \in Seq(FrameType)
      BY <1>2, BelowRun DEF Run
    <2>11. /\ waiting[1] = w
           /\ \A i \in 1..Len(waiting) :
                 i = 1 \/ (i - 1 \in 1..Len(Below) /\ waiting[i] = Below[i - 1])
      BY <2>1, <2>10, PushIndex
    <2> HIDE DEF waiting, c
    <2>12. ASSUME NEW i \in 1..Len(waiting) PROVE Over(c, waiting[i], bound)
      <3>1. CASE i = 1
        <4>1. Len(w.todo) = 0
          BY <2>1, <2>6 DEF Alone
        <4> QED
          BY <2>1, <2>9, <2>11, <3>1, <4>1 DEF Over, Evaluated
      <3>2. CASE i - 1 \in 1..Len(Below) /\ waiting[i] = Below[i - 1]
        <4>1. Over(w, Below[i - 1], bound)
          BY <2>6, <3>2
        <4> QED
          BY <2>1, <2>8, <2>9, <3>2, <4>1 DEF Over
      <3> QED
        BY <2>11, <3>1, <3>2
    <2>13. \A i \in 1..Len(waiting) : Over(Frame("bound", q, Top.at), waiting[i], bound)
      BY <2>12 DEF c
    <2>14. m_mod_state_op(Top.at, q, waiting)
      BY <2>5 DEF waiting
    <2> QED
      BY <2>2, <2>4, <2>7, <2>13, <2>14, StateOpRun
  <1> QED
    BY <1>4, <1>5, <1>6 DEF BoundResumes

LEMMA DeregResumesRun ==
    ASSUME CoreInv, RunInv, DeregResumes
    PROVE  RunGood
  <1>1. Top.fn = "dereg"
    BY DEF DeregResumes, At
  <1>2. ~Main(stack[1])
    BY <1>1, NotUser
  <1>3. Run(Below, state, bound) /\ Calls(Below) /\ Alone(Top, state)
    BY <1>2, BelowRun
  <1>4. PICK m \in Mods : m = Top.mod
    BY <1>1, <1>3 DEF Alone
  <1>5. state[m] \in {"STOPPED", "ZOMBIE"}
    BY <1>1, <1>3, <1>4 DEF Alone
  <1>6. /\ state' = [state EXCEPT ![m] = "ZOMBIE"] /\ stack' = Below
        /\ UNCHANGED <<bound, running>>
    BY <1>4 DEF DeregResumes
  <1> QED
    BY <1>3, <1>5, <1>6, SettleRun

LEMMA RegisterResumesRun ==
    ASSUME CoreInv, RunInv, RegisterResumes
    PROVE  RunGood
  <1>1. Top.fn = "register"
    BY DEF RegisterResumes, At
  <1>2. ~Main(stack[1]) /\ FrameOK(Top, state)
    BY <1>1, NotUser, BelowReady
  <1>3. Top.mod \in Mods /\ state[Top.mod] = "NONE"
    BY <1>1, <1>2 DEF FrameOK
  <1>4. Run(Below, state, bound) /\ Calls(Below)
    BY <1>2, BelowRun
  <1>5. CASE register(Top.mod, Below)
    BY <1>3, <1>4, <1>5, RegisterRun
  <1>6. CASE stack' = Below /\ UNCHANGED <<modVars, ctxVars>>
    BY <1>2, <1>6, ReturnRun DEF modVars, ctxVars
  <1> QED
    BY <1>5, <1>6 DEF RegisterResumes

(* A frame of the loop above another one, or instead of it.                  *)
LEMMA LoopOver ==
    ASSUME NEW f, NEW g, NEW h, NEW b, Over(f, g, b), f.fn \in {"iter", "loop", "recv"},
           h.fn \in {"iter", "loop", "recv"}
    PROVE  Over(h, g, b)
  BY DEF Over

LEMMA EntryDoneRun ==
    ASSUME CoreInv, RunInv, Top.fn \in {"iter", "flush"}, EntryDone
    PROVE  RunGood
  <1> DEFINE w == [Top EXCEPT !.at = "next", !.mod = NoMod]
  <1>1. ~Main(stack[1])
    BY NotUser
  <1>2. /\ Top \in FrameType /\ Alone(Top, state)
        /\ \A i \in 1..Len(Below) : Over(Top, Below[i], bound)
    BY <1>1, BelowRun
  <1>3. w \in FrameType /\ w.fn = Top.fn /\ w.at = "next" /\ w.todo = Top.todo
    BY <1>2 DEF FrameType, Ats
  <1>4. CASE stack' = Below /\ UNCHANGED <<modVars, ctxVars>>
    BY <1>1, <1>4, ReturnRun DEF modVars, ctxVars
  <1>5. CASE stack' = <<w>> \o Below /\ UNCHANGED <<modVars, ctxVars>>
    <2>1. stack' = <<w>> \o Below
      BY <1>5
    <2> HIDE DEF w
    <2>2. Alone(w, state)
      BY <1>2, <1>3 DEF Alone, Evaluated
    <2>3. \A i \in 1..Len(Below) : Over(w, Below[i], bound)
      BY <1>2, <1>3 DEF Over
    <2>4. Run(<<w>> \o Below, state, bound) /\ Calls(<<w>> \o Below)
      BY <1>1, <1>3, <2>2, <2>3, ReplaceRun
    <2> QED
      BY <1>5, <2>1, <2>4, QuietRun DEF modVars, ctxVars
  <1> QED
    BY <1>4, <1>5 DEF EntryDone, IterEnds

(* A hook is called from the frame g, which has just been put on Below.       *)
LEMMA HookRun ==
    ASSUME CoreInv, RunInv, NEW m \in Mods, NEW at \in Where, NEW g,
           Run(<<g>> \o Below, state, bound), g \in FrameType, Below \in Seq(FrameType),
           at = "evt" => state[m] \in Active, at = "flush" => state[m] = "RUNNING",
           \/ stack' = <<Frame("user", m, at)>> \o (<<g>> \o Below)
           \/ stack' = <<Frame("user", m, at), g>> \o Below,
           UNCHANGED <<state, bound, running>>
    PROVE  RunGood
  <1> DEFINE f == Frame("user", m, at)
  <1>1. "user" \in Fns /\ at \in Ats /\ m \in Mods \cup {NoMod}
    BY DEF Fns, Ats
  <1>2. f \in FrameType /\ f.fn = "user" /\ f.at = at /\ f.mod = m /\ f.todo = <<>>
    BY <1>1, NewFrame
  <1>3. \/ stack' = <<f>> \o (<<g>> \o Below)
        \/ stack' = <<f, g>> \o Below
    OBVIOUS
  <1> HIDE DEF f
  <1>4. stack' = <<f>> \o (<<g>> \o Below)
    BY <1>2, <1>3, PushTwo
  <1>5. Plain(f)
    BY <1>2 DEF Plain
  <1>6. Run(<<f>> \o (<<g>> \o Below), state, bound) /\ (<<f>> \o (<<g>> \o Below))[1] = f
    BY <1>2, <1>5, PlainRun
  <1>7. Calls(<<f>> \o (<<g>> \o Below))
    BY <1>2, <1>6 DEF Calls, EventFrame
  <1> QED
    BY <1>4, <1>6, <1>7, QuietRun

LEMMA VisitRun ==
    ASSUME CoreInv, RunInv, Top.fn \in {"iter", "flush"}, NEW m \in modules,
           NEW at \in {"next", "evaluated", "called"},
           at = "evaluated" => Top.fn = "iter" /\ state[m] = "IDLE"
    PROVE  /\ Visit(Top, m, at) \in FrameType /\ Below \in Seq(FrameType) /\ m \in Mods
           /\ Run(<<Visit(Top, m, at)>> \o Below, state, bound)
           /\ Calls(<<Visit(Top, m, at)>> \o Below)
  <1> DEFINE g == Visit(Top, m, at)
  <1>1. ~Main(stack[1])
    BY NotUser
  <1>2. /\ Top \in FrameType /\ Alone(Top, state) /\ Run(Below, state, bound)
        /\ \A i \in 1..Len(Below) : Over(Top, Below[i], bound)
    BY <1>1, BelowRun
  <1>3. m \in Mods /\ DataInv
    BY ModulesCounted DEF CoreInv
  <1>4. g \in FrameType /\ g.fn = Top.fn /\ g.mod = m
    BY <1>2, <1>3, Visited
  <1>5. g.at = at /\ g.todo = Top.todo
    BY <1>2 DEF Visit, FrameType
  <1> HIDE DEF g
  <1>6. Alone(g, state)
    BY <1>2, <1>3, <1>4, <1>5 DEF Alone, Evaluated
  <1>7. \A i \in 1..Len(Below) : Over(g, Below[i], bound)
    BY <1>2, <1>4 DEF Over
  <1>8. Run(<<g>> \o Below, state, bound) /\ Calls(<<g>> \o Below)
    BY <1>1, <1>4, <1>6, <1>7, ReplaceRun
  <1> QED
    BY <1>2, <1>3, <1>4, <1>8 DEF g, Run

LEMMA EvalNextRun ==
    ASSUME CoreInv, RunInv, EvalNext
    PROVE  RunGood
  <1>1. Top.fn = "iter" /\ Top.at = "next"
    BY DEF EvalNext, At
  <1>2. ~Main(stack[1]) /\ Top \in FrameType
    BY <1>1, NotUser, BelowReady
  <1>3. CASE IterEnds("ok")
    BY <1>2, <1>3, ReturnRun DEF IterEnds, modVars, ctxVars
  <1>4. CASE ~IterEnds("ok")
    <2>1. PICK m \in modules :
            \/ /\ stack' = <<Frame("user", m, "eval"), Visit(Top, m, "evaluated")>> \o Below
               /\ UNCHANGED <<state, bound, running>> /\ state[m] = "IDLE"
            \/ /\ stack' = <<Visit(Top, m, "next")>> \o Below
               /\ UNCHANGED <<state, bound, running>>
      <3>1. PICK m \in modules :
              LET v == [Top EXCEPT !.mod = m, !.seen = @ \cup {m}, !.n = Cardinality(modules)]
              IN  \/ /\ stack' = <<Frame("user", m, "eval"), [v EXCEPT !.at = "evaluated"]>> \o Below
                     /\ UNCHANGED <<state, bound, running>> /\ state[m] = "IDLE"
                  \/ /\ stack' = <<v>> \o Below
                     /\ UNCHANGED <<state, bound, running>>
        BY <1>4 DEF EvalNext, MayIterate, modVars, ctxVars
      <3> DEFINE v == [Top EXCEPT !.mod = m, !.seen = @ \cup {m}, !.n = Cardinality(modules)]
      <3>2. [v EXCEPT !.at = "evaluated"] = Visit(Top, m, "evaluated")
        BY <1>2 DEF FrameType, Visit
      <3>3. v = Visit(Top, m, "next")
        BY <1>1, <1>2 DEF FrameType, Visit
      <3> HIDE DEF v
      <3> QED
        BY <3>1, <3>2, <3>3 DEF v
    <2>2. CASE /\ stack' = <<Visit(Top, m, "next")>> \o Below
               /\ UNCHANGED <<state, bound, running>>
      <3>1. /\ Run(<<Visit(Top, m, "next")>> \o Below, state, bound)
            /\ Calls(<<Visit(Top, m, "next")>> \o Below)
        BY <1>1, VisitRun
      <3> QED
        BY <2>2, <3>1, QuietRun
    <2>3. CASE /\ stack' = <<Frame("user", m, "eval"), Visit(Top, m, "evaluated")>> \o Below
               /\ UNCHANGED <<state, bound, running>> /\ state[m] = "IDLE"
      <3>1. /\ Visit(Top, m, "evaluated") \in FrameType /\ Below \in Seq(FrameType) /\ m \in Mods
            /\ Run(<<Visit(Top, m, "evaluated")>> \o Below, state, bound)
        BY <1>1, <2>3, VisitRun
      <3>2. "eval" \in Where
        BY DEF Where
      <3> QED
        BY <2>3, <3>1, <3>2, HookRun
    <2> QED
      BY <2>1, <2>2, <2>3
  <1> QED
    BY <1>3, <1>4

(* The evaluated module is started: it did not run, and nothing below is       *)
(* about it.                                                                *)
LEMMA EvalResumesRun ==
    ASSUME CoreInv, RunInv, EvalResumes
    PROVE  RunGood
  <1> DEFINE w == [Top EXCEPT !.at = "started"]
             waiting == <<w>> \o Below
  <1>1. Top.fn = "iter" /\ Top.at = "evaluated"
    BY DEF EvalResumes, At
  <1>2. ~Main(stack[1])
    BY <1>1, NotUser
  <1>3. /\ Top \in FrameType /\ Alone(Top, state) /\ Run(Below, state, bound)
        /\ \A i \in 1..Len(Below) : Over(Top, Below[i], bound)
    BY <1>2, BelowRun
  <1>4. CASE IterEnds(ret)
    BY <1>2, <1>4, ReturnRun DEF IterEnds, modVars, ctxVars
  <1>5. CASE start(Top.mod, TRUE, waiting)
    <2>1. Top.mod \in Mods /\ state[Top.mod] # "RUNNING"
      BY <1>1, <1>3 DEF Alone, Evaluated
    <2>2. w \in FrameType /\ w.fn = "iter" /\ w.at = "started" /\ w.todo = Top.todo
      BY <1>1, <1>3 DEF FrameType, Ats
    <2> HIDE DEF w
    <2>3. Alone(w, state)
      BY <1>1, <1>3, <2>2 DEF Alone, Evaluated
    <2>4. \A i \in 1..Len(Below) : Over(w, Below[i], bound)
      BY <1>1, <1>3, <2>2, LoopOver
    <2>5. Run(waiting, state, bound) /\ Calls(waiting)
      BY <1>2, <2>2, <2>3, <2>4, ReplaceRun
    <2>6. /\ waiting[1] = w
          /\ \A i \in 1..Len(waiting) :
                i = 1 \/ (i - 1 \in 1..Len(Below) /\ waiting[i] = Below[i - 1])
      BY <1>3, <2>2, PushIndex DEF Run
    <2> HIDE DEF waiting
    <2>7. Free(waiting, Top.mod)
      <3>1. ASSUME NEW i \in 1..Len(Below)
            PROVE  ~(Below[i].fn = "dereg" \/ Evaluated(Below[i]))
        BY <1>1, <1>3 DEF Over, Evaluated
      <3>2. ~(w.fn = "dereg" \/ Evaluated(w))
        BY <2>2 DEF Evaluated
      <3> QED
        BY <2>6, <3>1, <3>2 DEF Free
    <2> QED
      BY <1>5, <2>1, <2>5, <2>7, StartRun
  <1> QED
    BY <1>4, <1>5 DEF EvalResumes

(* The loop runs on top of neither an evaluation nor a deregistration.        *)
Outside(s) == \A i \in 1..Len(s) : s[i].fn \notin {"iter", "dereg"}

LEMMA LoopRun ==
    ASSUME NEW s, NEW st, NEW b, Run(s, st, b), Outside(s),
           NEW fn \in {"iter", "loop", "recv"}, NEW at \in {"next", "call"}
    PROVE  /\ Frame(fn, NoMod, at) \in FrameType
           /\ Run(<<Frame(fn, NoMod, at)>> \o s, st, b) /\ Calls(<<Frame(fn, NoMod, at)>> \o s)
           /\ fn # "iter" => Outside(<<Frame(fn, NoMod, at)>> \o s)
  <1> DEFINE w == Frame(fn, NoMod, at)
             t == <<w>> \o s
  <1>1. fn \in Fns /\ at \in Ats /\ NoMod \in Mods \cup {NoMod}
    BY DEF Fns, Ats
  <1>2. w \in FrameType /\ w.fn = fn /\ w.at = at /\ w.todo = <<>>
    BY <1>1, NewFrame
  <1> HIDE DEF w
  <1>3. Alone(w, st) /\ ~EventFrame(w)
    BY <1>2 DEF Alone, Evaluated, EventFrame
  <1>4. \A i \in 1..Len(s) : Over(w, s[i], b)
    BY <1>2 DEF Over, Outside
  <1>5. Run(t, st, b)
    BY <1>2, <1>3, <1>4, RunPush
  <1>6. s \in Seq(FrameType)
    BY DEF Run
  <1>7. Calls(t)
    BY <1>2, <1>3, <1>6, PushesNoEvent
  <1>8. fn # "iter" => Outside(t)
    <2>1. t[1] = w /\ \A i \in 1..Len(t) : i = 1 \/ (i - 1 \in 1..Len(s) /\ t[i] = s[i - 1])
      BY <1>2, <1>6, PushIndex
    <2> HIDE DEF t
    <2> QED
      BY <1>2, <2>1 DEF Outside
  <1> QED
    BY <1>2, <1>5, <1>7, <1>8 DEF w

LEMMA LoopStartRun ==
    ASSUME RunInv, NEW below, Run(below, state, bound), Outside(below), loop_start(below)
    PROVE  RunGood
  <1>1. /\ Run(<<Frame("iter", NoMod, "next")>> \o below, state, bound)
        /\ Calls(<<Frame("iter", NoMod, "next")>> \o below)
    BY LoopRun
  <1> QED
    BY <1>1, QuietRun DEF loop_start, modVars

LEMMA LoopStopRun ==
    ASSUME RunInv, NEW below, Run(below, state, bound), loop_stop(below)
    PROVE  RunGood
  <1> DEFINE f == Frame("flush", NoMod, "next")
             g == Frame("lstop", NoMod, "call")
  <1>1. /\ "flush" \in Fns /\ "lstop" \in Fns /\ "next" \in Ats /\ "call" \in Ats
        /\ NoMod \in Mods \cup {NoMod}
    BY DEF Fns, Ats
  <1>2. /\ f \in FrameType /\ f.fn = "flush" /\ f.todo = <<>>
        /\ g \in FrameType /\ g.fn = "lstop" /\ g.todo = <<>>
    BY <1>1, NewFrame
  <1>3. stack' = <<f, g>> \o below /\ UNCHANGED <<state, bound, running>>
    BY DEF loop_stop, modVars
  <1> HIDE DEF f, g
  <1>4. Plain(f) /\ Plain(g) /\ ~EventFrame(f)
    BY <1>2 DEF Plain, EventFrame
  <1>5. Run(<<f, g>> \o below, state, bound) /\ (<<f, g>> \o below)[1] = f
    BY <1>2, <1>4, PlainTwo
  <1>6. Calls(<<f, g>> \o below)
    BY <1>4, <1>5 DEF Calls
  <1> QED
    BY <1>3, <1>5, <1>6, QuietRun

(* poll_wait returns events of running modules.                             *)
LEMMA RecvRun ==
    ASSUME RunInv, NEW below, Run(below, state, bound), Outside(below), recv_events(below)
    PROVE  RunGood
  <1>1. PICK batch \in Batches :
            stack' = <<[Frame("recv", NoMod, "call") EXCEPT !.todo = batch]>> \o below
    BY DEF recv_events
  <1> DEFINE r == Frame("recv", NoMod, "call")
             w == [r EXCEPT !.todo = batch]
  <1>2. r \in FrameType /\ r.fn = "recv"
    <2>1. "recv" \in Fns /\ "call" \in Ats /\ NoMod \in Mods \cup {NoMod}
      BY DEF Fns, Ats
    <2> QED
      BY <2>1, NewFrame
  <1>3. batch \in Seq(Event) /\ \A k \in 1..Len(batch) : state[batch[k].mod] = "RUNNING"
    <2>1. PICK n \in 1..MaxBatch : batch \in [1..n -> [mod : Running, src : {TRUE}]]
      BY DEF Batches
    <2>2. [mod : Running, src : {TRUE}] \subseteq Event
      BY DEF Running, Event
    <2>3. batch \in [1..n -> Event]
      BY <2>1, <2>2
    <2>4. n \in Nat
      BY LifecycleAssumption
    <2>5. batch \in Seq(Event) /\ Len(batch) = n
      BY <2>3, <2>4
    <2>6. \A k \in 1..n : batch[k].mod \in Running
      BY <2>1
    <2> QED
      BY <2>5, <2>6 DEF Running
  <1> HIDE DEF r
  <1>4. w \in FrameType /\ w.fn = "recv" /\ w.todo = batch
    BY <1>2, <1>3 DEF FrameType
  <1>5. stack' = <<w>> \o below
    BY <1>1 DEF r
  <1> HIDE DEF w
  <1>6. Alone(w, state) /\ ~EventFrame(w)
    BY <1>3, <1>4 DEF Alone, Evaluated, EventFrame, Active
  <1>7. \A i \in 1..Len(below) : Over(w, below[i], bound)
    BY <1>4 DEF Over, Outside
  <1>8. Run(<<w>> \o below, state, bound)
    BY <1>4, <1>6, <1>7, RunPush
  <1>9. below \in Seq(FrameType)
    BY DEF Run
  <1>10. Calls(<<w>> \o below)
    BY <1>4, <1>6, <1>9, PushesNoEvent
  <1> QED
    BY <1>5, <1>8, <1>10, QuietRun DEF recv_events, modVars, ctxVars

LEMMA LoopResumesRun ==
    ASSUME CoreInv, RunInv, LoopResumes
    PROVE  RunGood
  <1>1. Top.fn = "loop"
    BY DEF LoopResumes, At
  <1>2. ~Main(stack[1])
    BY <1>1, NotUser
  <1>3. /\ Run(Below, state, bound) /\ Top = stack[1] /\ stack \in Seq(FrameType) /\ Len(stack) > 1
        /\ \A i \in 1..Len(Below) : Over(Top, Below[i], bound)
    BY <1>2, BelowRun, ShapePop DEF CoreInv, Shape
  <1>4. Outside(stack)
    <2>1. /\ Len(Below) = Len(stack) - 1 /\ Len(stack) \in Nat
          /\ \A i \in 1..Len(Below) : i + 1 \in 1..Len(stack) /\ Below[i] = stack[i + 1]
      BY <1>3, TailIndex DEF Below
    <2>2. ASSUME NEW i \in 1..Len(stack) PROVE stack[i].fn \notin {"iter", "dereg"}
      <3>1. CASE i = 1
        BY <1>1, <1>3, <3>1
      <3>2. CASE i # 1
        <4>1. i - 1 \in 1..Len(Below) /\ (i - 1) + 1 = i
          BY <2>1, <3>2
        <4>2. Below[i - 1] = stack[i]
          BY <2>1, <4>1
        <4>3. Over(Top, Below[i - 1], bound)
          BY <1>3, <4>1
        <4> QED
          BY <1>1, <4>2, <4>3 DEF Over
      <3> QED
        BY <3>1, <3>2
    <2> QED
      BY <2>2 DEF Outside
  <1>5. Run(stack, state, bound)
    BY DEF RunInv
  <1> QED
    BY <1>3, <1>4, <1>5, RecvRun, LoopStopRun DEF LoopResumes

LEMMA RecvEventRun ==
    ASSUME CoreInv, RunInv, RecvEvent
    PROVE  RunGood
  <1> DEFINE e == Head(Top.todo)
             g == [Top EXCEPT !.todo = Tail(@)]
  <1>1. Top.fn = "recv" /\ Top.todo # <<>>
    BY DEF RecvEvent, At
  <1>2. ~Main(stack[1])
    BY <1>1, NotUser
  <1>3. /\ Top \in FrameType /\ Alone(Top, state) /\ Run(Below, state, bound)
        /\ \A i \in 1..Len(Below) : Over(Top, Below[i], bound)
    BY <1>2, BelowRun
  <1>4. CASE UNCHANGED <<modVars, ctxVars, stack, ret>>
    BY <1>4, StayRun DEF modVars, ctxVars
  <1>5. CASE e.src /\ call_pubsub_cb(e.mod, "evt", <<g>> \o Below)
    <2>1. Top.todo \in Seq(Event)
      BY <1>3 DEF FrameType
    <2>2. /\ e = Top.todo[1] /\ e \in Event /\ Tail(Top.todo) \in Seq(Event)
          /\ 1 \in 1..Len(Top.todo)
          /\ \A k \in 1..Len(Tail(Top.todo)) :
                k + 1 \in 1..Len(Top.todo) /\ Tail(Top.todo)[k] = Top.todo[k + 1]
      BY <1>1, <2>1
    <2>3. e.mod \in Mods /\ state[e.mod] \in Active
      BY <1>3, <1>5, <2>2 DEF Event, Alone
    <2>4. g \in FrameType /\ g.fn = "recv" /\ g.todo = Tail(Top.todo)
      BY <1>1, <1>3, <2>2 DEF FrameType
    <2>5. call_pubsub_cb(e.mod, "evt", <<g>> \o Below)
      BY <1>5
    <2> HIDE DEF e, g
    <2>6. Alone(g, state)
      <3>1. \A k \in 1..Len(g.todo) : g.todo[k].src => state[g.todo[k].mod] \in Active
        BY <1>3, <2>2, <2>4 DEF Alone
      <3> QED
        BY <2>4, <3>1 DEF Alone, Evaluated
    <2>7. \A i \in 1..Len(Below) : Over(g, Below[i], bound)
      BY <1>1, <1>3, <2>4, LoopOver
    <2>8. Run(<<g>> \o Below, state, bound)
      BY <1>3, <2>4, <2>6, <2>7, RunPush
    <2>9. Below \in Seq(FrameType) /\ "evt" \in Where
      BY <1>3 DEF Run, Where
    <2>10. /\ stack' = <<Frame("user", e.mod, "evt")>> \o (<<g>> \o Below)
           /\ UNCHANGED <<state, bound, running>>
      BY <2>5 DEF call_pubsub_cb
    <2> QED
      BY <2>3, <2>4, <2>8, <2>9, <2>10, HookRun
  <1> QED
    BY <1>4, <1>5 DEF RecvEvent

LEMMA RecvEndsRun ==
    ASSUME CoreInv, RunInv, RecvDone \/ \E real \in BOOLEAN : RecvFails(real)
    PROVE  RunGood
  <1>1. Top.fn = "recv" /\ UNCHANGED <<state, bound, running>>
    BY DEF RecvDone, RecvFails, At, modVars, ctxVars
  <1>2. ~Main(stack[1])
    BY <1>1, NotUser
  <1>3. Run(Below, state, bound) /\ \A i \in 1..Len(Below) : Over(Top, Below[i], bound)
    BY <1>2, BelowRun
  <1>4. Outside(Below)
    BY <1>1, <1>3 DEF Outside, Over
  <1>5. /\ Run(<<Frame("iter", NoMod, "next")>> \o Below, state, bound)
        /\ Calls(<<Frame("iter", NoMod, "next")>> \o Below)
    BY <1>3, <1>4, LoopRun
  <1>6. stack' = Below \/ stack' = <<Frame("iter", NoMod, "next")>> \o Below
    BY DEF RecvDone, RecvFails
  <1> QED
    BY <1>1, <1>2, <1>5, <1>6, ReturnRun, QuietRun

LEMMA FlushNextRun ==
    ASSUME CoreInv, RunInv, FlushNext
    PROVE  RunGood
  <1>1. Top.fn = "flush" /\ Top.at = "next"
    BY DEF FlushNext, At
  <1>2. ~Main(stack[1]) /\ Top \in FrameType
    BY <1>1, NotUser, BelowReady
  <1>3. CASE IterEnds("ok")
    BY <1>2, <1>3, ReturnRun DEF IterEnds, modVars, ctxVars
  <1>4. CASE ~IterEnds("ok")
    <2>1. PICK m \in modules :
            \/ /\ state[m] = "RUNNING"
               /\ call_pubsub_cb(m, "flush", <<Visit(Top, m, "called")>> \o Below)
            \/ /\ stack' = <<Visit(Top, m, "next")>> \o Below
               /\ UNCHANGED <<state, bound, running>>
      <3>1. PICK m \in modules :
              LET v == [Top EXCEPT !.mod = m, !.seen = @ \cup {m}, !.n = Cardinality(modules)]
              IN  \/ /\ state[m] = "RUNNING"
                     /\ call_pubsub_cb(m, "flush", <<[v EXCEPT !.at = "called"]>> \o Below)
                  \/ /\ stack' = <<v>> \o Below
                     /\ UNCHANGED <<state, bound, running>>
        BY <1>4 DEF FlushNext, MayIterate, Flushed, modVars, ctxVars
      <3> DEFINE v == [Top EXCEPT !.mod = m, !.seen = @ \cup {m}, !.n = Cardinality(modules)]
      <3>2. [v EXCEPT !.at = "called"] = Visit(Top, m, "called")
        BY <1>2 DEF FrameType, Visit
      <3>3. v = Visit(Top, m, "next")
        BY <1>1, <1>2 DEF FrameType, Visit
      <3> HIDE DEF v
      <3> QED
        BY <3>1, <3>2, <3>3 DEF v
    <2>2. CASE /\ stack' = <<Visit(Top, m, "next")>> \o Below
               /\ UNCHANGED <<state, bound, running>>
      <3>1. /\ Run(<<Visit(Top, m, "next")>> \o Below, state, bound)
            /\ Calls(<<Visit(Top, m, "next")>> \o Below)
        BY <1>1, VisitRun
      <3> QED
        BY <2>2, <3>1, QuietRun
    <2>3. CASE /\ state[m] = "RUNNING"
               /\ call_pubsub_cb(m, "flush", <<Visit(Top, m, "called")>> \o Below)
      <3>1. /\ Visit(Top, m, "called") \in FrameType /\ Below \in Seq(FrameType) /\ m \in Mods
            /\ Run(<<Visit(Top, m, "called")>> \o Below, state, bound)
        BY <1>1, VisitRun
      <3>2. "flush" \in Where
        BY DEF Where
      <3>3. /\ stack' = <<Frame("user", m, "flush")>> \o (<<Visit(Top, m, "called")>> \o Below)
            /\ UNCHANGED <<state, bound, running>>
        BY <2>3 DEF call_pubsub_cb
      <3> QED
        BY <2>3, <3>1, <3>2, <3>3, HookRun
    <2> QED
      BY <2>1, <2>2, <2>3
  <1> QED
    BY <1>3, <1>4

LEMMA LoopStopResumesRun ==
    ASSUME CoreInv, RunInv, LoopStopResumes
    PROVE  RunGood
  <1>1. ~Main(stack[1]) /\ UNCHANGED <<state, bound, running>>
    BY NotUser DEF LoopStopResumes, At, modVars
  <1>2. stack' = stack \/ stack' = Below
    BY DEF LoopStopResumes
  <1> QED
    BY <1>1, <1>2, StayRun, ReturnRun

-----------------------------------------------------------------------------
(***************************************************************************)
(* The user's code, when it keeps to ClientRules.                            *)
(***************************************************************************)
LEMMA MainAlone ==
    ASSUME CoreInv, Top.fn = "user", Top.mod = NoMod
    PROVE  Outside(stack)
  <1>1. stack[1] = Top /\ 1 \in 1..Len(stack) /\ Len(stack) \in Nat
    BY HeadFirst DEF CoreInv, Shape, Top
  <1>2. FrameOK(Top, state)
    BY <1>1 DEF CoreInv, Shape
  <1>3. Main(stack[1])
    BY <1>1, <1>2, LifecycleAssumption DEF FrameOK, Main
  <1>4. Len(stack) = 1
    BY <1>1, <1>3 DEF CoreInv, Shape
  <1> QED
    BY <1>1, <1>4 DEF Outside

LEMMA RulesKept ==
    ASSUME Careful, NEW op, NEW m, UserMay(op, m)
    PROVE  ClientRules(op, m) /\ Top.fn = "user"
  BY DEF UserMay, At

LEMMA UserRun ==
    ASSUME CoreInv, RunInv, Careful, UserStep
    PROVE  RunGood
  <1>1. Run(stack, state, bound) /\ Calls(stack) /\ stack \in Seq(FrameType)
    BY DEF RunInv, Run, Calls
  <1>2. ASSUME NEW m \in Mods, UserDeregister(m) PROVE RunGood
    BY <1>1, <1>2, DeregRun DEF UserDeregister
  <1>3. ASSUME NEW m \in Mods, UserRegister(m) PROVE RunGood
    BY <1>1, <1>3, MRegisterRun DEF UserRegister
  <1>4. ASSUME NEW m \in Mods, NEW op \in StateOp, UserStateOp(op, m) PROVE RunGood
    <2>1. UserMay(op, m) /\ m_mod_state_op(op, m, stack)
      BY <1>4 DEF UserStateOp
    <2>2. ClientRules(op, m)
      BY <2>1, RulesKept
    <2>3. Affected(m) = Reach(bound, m) /\ Reach(bound, m) \subseteq Mods
      BY AffectedReach DEF Reach
    <2> DEFINE c == Frame("bound", m, op)
    <2>4. c.fn = "bound" /\ c.mod = m /\ c.at = op
      BY DEF Frame
    <2> HIDE DEF c
    <2>5. ASSUME NEW i \in 1..Len(stack) PROVE Over(c, stack[i], bound)
      <3>1. ASSUME op = "start", stack[i].fn = "dereg" \/ Evaluated(stack[i])
            PROVE  stack[i].mod \notin Reach(bound, m)
        <4>1. \A x \in Reach(bound, m) : ~OnStack("dereg", x) /\ ~BeingEvaluated(x)
          BY <2>2, <2>3, <3>1 DEF ClientRules
        <4> QED
          BY <3>1, <4>1 DEF OnStack, BeingEvaluated, Evaluated
      <3> QED
        BY <2>4, <3>1 DEF Over
    <2>6. \A i \in 1..Len(stack) : Over(Frame("bound", m, op), stack[i], bound)
      BY <2>5 DEF c
    <2> QED
      BY <1>1, <2>1, <2>6, StateOpRun
  <1>5. ASSUME NEW m \in Mods, NEW q \in Mods, UserBind(m, q) PROVE RunGood
    <2>1. CASE Fail(stack)
      BY <1>1, <2>1, FailRun
    <2>2. CASE stack' = Shifted(stack, q) /\ UNCHANGED <<state, running>>
      <3>1. \A i \in 1..Len(stack) : stack[i].fn # "bound"
        <4>1. \A x \in Mods : ~OnStack("bound", x)
          BY <1>5 DEF UserBind
        <4>2. \A i \in 1..Len(stack) : FrameOK(stack[i], state)
          BY DEF CoreInv, Shape
        <4> QED
          BY <4>1, <4>2 DEF OnStack, FrameOK
      <3>2. ASSUME NEW i \in 1..Len(stack), NEW j \in 1..Len(stack), Over(stack[i], stack[j], bound)
            PROVE  Over(stack[i], stack[j], bound')
        BY <3>1, <3>2 DEF Over
      <3>3. Ordered(stack, bound')
        BY <1>1, <3>2 DEF Run, Ordered
      <3>4. Alike(stack, Shifted(stack, q))
        BY <1>1, ShiftedAlike
      <3>5. Ordered(Shifted(stack, q), bound') /\ Calm(Shifted(stack, q), state)
        BY <1>1, <3>3, <3>4, OrderedAlike, CalmAlike DEF Run
      <3>6. Shifted(stack, q) \in Seq(FrameType) /\ Len(Shifted(stack, q)) = Len(stack)
        BY <3>4 DEF Alike
      <3>7. Running' = Running
        BY <2>2 DEF Running
      <3>8. RunningModules'
        BY <2>2, <3>7, CountSame DEF RunInv
      <3>9. Calls(stack')
        BY <1>1, <2>2, <3>6 DEF Calls
      <3> QED
        BY <2>2, <3>5, <3>6, <3>8, <3>9 DEF RunGood, RunInv, Run
    <2> QED
      BY <1>5, <2>1, <2>2 DEF UserBind, m_mod_bind, ctxVars
  <1>6. ASSUME UserLoop \/ UserDispatch PROVE Outside(stack)
    <2>1. PICK op \in {"loop", "dispatch"} : UserMay(op, NoMod)
      BY <1>6 DEF UserLoop, UserDispatch
    <2>2. ClientRules(op, NoMod) /\ Top.fn = "user"
      BY <2>1, RulesKept
    <2>3. Top.mod = NoMod
      BY <2>2 DEF ClientRules
    <2> QED
      BY <2>2, <2>3, MainAlone
  <1>7. CASE UserLoop
    <2>1. CASE Fail(stack)
      BY <1>1, <2>1, FailRun
    <2>2. CASE loop_start(<<Frame("loop", NoMod, "call")>> \o stack)
      <3>1. /\ Run(<<Frame("loop", NoMod, "call")>> \o stack, state, bound)
            /\ Outside(<<Frame("loop", NoMod, "call")>> \o stack)
        BY <1>1, <1>6, <1>7, LoopRun
      <3> QED
        BY <2>2, <3>1, LoopStartRun
    <2> QED
      BY <1>7, <2>1, <2>2 DEF UserLoop, m_ctx_loop
  <1>8. CASE UserDispatch
    BY <1>1, <1>6, <1>8, FailRun, LoopStartRun, LoopStopRun, RecvRun DEF UserDispatch, m_ctx_dispatch
  <1>9. CASE UserQuit \/ UserFinalize \/ UserCtxDeregister
    <2>1. UNCHANGED <<state, bound, running, stack>>
      BY <1>9 DEF UserQuit, UserFinalize, UserCtxDeregister, Fail, modVars, ctxVars
    <2> QED
      BY <2>1, StayRun
  <1> QED
    BY <1>2, <1>3, <1>4, <1>5, <1>7, <1>8, <1>9 DEF UserStep

LEMMA RunInit == Init => RunInv
  <1> SUFFICES ASSUME Init PROVE RunInv
    OBVIOUS
  <1>1. CoreInv
    BY CoreInit
  <1>2. RunningModules
    <2>1. Running = {}
      BY DEF Init, Running
    <2>2. running = 0
      BY DEF Init
    <2> QED
      BY <2>1, <2>2, FS_EmptySet DEF RunningModules
  <1>3. Run(stack, state, bound)
    <2> DEFINE f == Frame("user", NoMod, "main")
    <2>1. f.fn = "user" /\ f.todo = <<>>
      BY DEF Frame
    <2>2. stack = <<f>>
      BY DEF Init
    <2> HIDE DEF f
    <2>3. Len(stack) = 1 /\ stack[1] = f
      BY <2>2
    <2>4. Alone(f, state)
      BY <2>1 DEF Alone, Evaluated
    <2>5. \A i \in 1..Len(stack) : i = 1
      BY <2>3
    <2>6. Calm(stack, state) /\ Ordered(stack, bound)
      BY <2>3, <2>4, <2>5 DEF Calm, Ordered
    <2> QED
      BY <1>1, <2>6 DEF Run, CoreInv, Shape
  <1> QED
    BY <1>2, <1>3 DEF RunInv

LEMMA RunStep == Careful /\ CoreInv /\ RunInv /\ [Next]_vars => RunGood
  <1> SUFFICES ASSUME Careful, CoreInv, RunInv, [Next]_vars PROVE RunGood
    OBVIOUS
  <1>1. CASE UNCHANGED vars
    BY <1>1, StayRun DEF vars, modVars, ctxVars
  <1>2. ASSUME NEW m \in Mods, module_dtor(m) PROVE RunGood
    BY <1>2, DtorRun
  <1>3. CASE UserStep
    BY <1>3, UserRun
  <1>4. CASE LibraryStep
    <2>1. CASE EvalStarted
      BY <2>1, EntryDoneRun DEF EvalStarted, At
    <2>2. CASE FlushCalled
      BY <2>2, EntryDoneRun DEF FlushCalled, At
    <2> QED
      BY <1>4, <2>1, <2>2, HookReturnsRun, StartResumesRun, StopResumesRun, BoundResumesRun,
         DeregResumesRun, RegisterResumesRun, EvalNextRun, EvalResumesRun, LoopResumesRun,
         RecvEventRun, RecvEndsRun, FlushNextRun, LoopStopResumesRun DEF LibraryStep
  <1>5. CASE Finished
    BY <1>1, <1>5 DEF Finished
  <1> QED
    BY <1>1, <1>2, <1>3, <1>4, <1>5 DEF Next

LEMMA RunHolds == Careful => (Spec => []RunInv)
  <1> SUFFICES ASSUME Careful PROVE Spec => []RunInv
    OBVIOUS
  <1>1. CoreInv /\ RunInv /\ [Next]_vars => RunInv'
    BY RunStep DEF RunGood
  <1> QED
    BY <1>1, RunInit, CoreHolds, PTL DEF Spec

(***************************************************************************)
(* With clients that keep to the rules, running_modules is at every moment    *)
(* the number of running modules.  start() after on_eval and the end of       *)
(* mod_deregister() change a state without looking at it: the proof shows     *)
(* that no hook, and no cascade over bound modules, has made that module run. *)
(***************************************************************************)
THEOREM RunningIsExact == Careful => (Spec => []RunningModules)
  <1> SUFFICES ASSUME Careful PROVE Spec => []RunningModules
    OBVIOUS
  <1>1. RunInv => RunningModules
    BY DEF RunInv
  <1> QED
    BY <1>1, RunHolds, PTL

(***************************************************************************)
(* With clients that keep to the rules, on_evt is called from the loop only   *)
(* on a module that runs or was paused since its event was polled, although   *)
(* recv_events() does not look at the state of the module: the sources of a    *)
(* module that stopped are gone, and only stop() frees them.                  *)
(***************************************************************************)
THEOREM OnlyStartedGetEvents == Careful => (Spec => EventsOnlyWhenStarted)
  <1> SUFFICES ASSUME Careful PROVE Spec => EventsOnlyWhenStarted
    OBVIOUS
  <1>1. CoreInv /\ RunInv /\ [Next]_vars =>
          [Len(stack') > Len(stack) /\ stack'[1].fn = "user" =>
              /\ stack'[1].at = "evt" => state[stack'[1].mod] \in {"RUNNING", "PAUSED"}
              /\ stack'[1].at = "flush" => state[stack'[1].mod] = "RUNNING"]_vars
    BY RunStep DEF RunGood, Calls, EventFrame, Active
  <1> QED
    BY <1>1, CoreHolds, RunHolds, PTL DEF Spec, EventsOnlyWhenStarted

-----------------------------------------------------------------------------
(***************************************************************************)
(* The reference counts of modules, whatever the clients do: every reference  *)
(* that is taken has a holder, and every holder that goes away drops its      *)
(* own.  The context goes away with its last module.                          *)
(***************************************************************************)

-----------------------------------------------------------------------------
(***************************************************************************)
(* Counting the elements of a sequence that are in a set.                    *)
(***************************************************************************)
Places(s, A) == {i \in 1..Len(s) : s[i] \in A}
Count(s, A) == Cardinality(Places(s, A))

LEMMA BijectionCount ==
    ASSUME NEW V, NEW W, IsFiniteSet(W), NEW f \in [W -> V], \A i, j \in W : f[i] = f[j] => i = j,
           \A v \in V : \E i \in W : f[i] = v
    PROVE  IsFiniteSet(V) /\ Cardinality(V) = Cardinality(W)
  <1>1. f \in Bijection(W, V)
    BY DEF Bijection, Injection, IsInjective, Surjection
  <1>2. ExistsBijection(W, V)
    BY <1>1 DEF ExistsBijection
  <1> QED
    BY <1>2, FS_Bijection

LEMMA CountNat ==
    ASSUME NEW S, NEW s \in Seq(S), NEW A
    PROVE  IsFiniteSet(Places(s, A)) /\ Count(s, A) \in Nat
  <1>1. Len(s) \in Nat
    OBVIOUS
  <1>2. IsFiniteSet(1..Len(s))
    BY <1>1, FS_Interval
  <1>3. Places(s, A) \subseteq 1..Len(s)
    BY DEF Places
  <1> QED
    BY <1>2, <1>3, FS_Subset, FS_CardinalityType DEF Count

LEMMA CountPush ==
    ASSUME NEW S, NEW s \in Seq(S), NEW x \in S, NEW A
    PROVE  Count(<<x>> \o s, A) = Count(s, A) + (IF x \in A THEN 1 ELSE 0)
  <1> DEFINE t == <<x>> \o s
             W == Places(s, A)
             V == {i + 1 : i \in W}
             f == [i \in W |-> i + 1]
  <1>1. /\ Len(s) \in Nat /\ Len(t) = Len(s) + 1 /\ t[1] = x
        /\ \A i \in 1..Len(s) : i + 1 \in 1..Len(t) /\ t[i + 1] = s[i]
        /\ \A i \in 1..Len(t) : i = 1 \/ (i - 1 \in 1..Len(s) /\ t[i] = s[i - 1])
    BY PushIndex
  <1>2. IsFiniteSet(W) /\ Cardinality(W) \in Nat
    BY CountNat DEF Count
  <1>3. W \subseteq 1..Len(s)
    BY DEF Places
  <1>4. IsFiniteSet(V) /\ Cardinality(V) = Cardinality(W)
    <2> HIDE DEF W
    <2>1. f \in [W -> V] /\ \A i \in W : f[i] = i + 1 /\ i \in Int
      <3>1. \A i \in W : i \in Int
        BY <1>1, <1>3
      <3> QED
        BY <3>1
    <2>2. \A i, j \in W : f[i] = f[j] => i = j
      BY <2>1
    <2>3. \A v \in V : \E i \in W : f[i] = v
      BY <2>1
    <2> HIDE DEF f, V
    <2> QED
      BY <1>2, <2>1, <2>2, <2>3, BijectionCount
  <1>5. 1 \notin V
    BY <1>1, <1>3
  <1>6. Places(t, A) = IF x \in A THEN V \cup {1} ELSE V
    <2> HIDE DEF t
    <2>1. ASSUME NEW i \in Places(t, A) PROVE i \in V \/ (i = 1 /\ x \in A)
      <3>1. i \in 1..Len(t) /\ t[i] \in A
        BY DEF Places
      <3>2. CASE i = 1
        BY <1>1, <3>1, <3>2
      <3>3. CASE i # 1
        <4>1. i - 1 \in 1..Len(s) /\ t[i] = s[i - 1] /\ i = (i - 1) + 1
          BY <1>1, <3>1, <3>3
        <4>2. i - 1 \in W
          BY <3>1, <4>1 DEF Places
        <4> QED
          BY <4>1, <4>2
      <3> QED
        BY <3>2, <3>3
    <2>2. ASSUME NEW i \in W PROVE i + 1 \in Places(t, A)
      <3>1. i \in 1..Len(s) /\ s[i] \in A
        BY DEF Places
      <3> QED
        BY <1>1, <3>1 DEF Places
    <2>3. x \in A => 1 \in Places(t, A)
      BY <1>1 DEF Places
    <2>4. \A i \in V : i \in Places(t, A)
      BY <2>2
    <2> HIDE DEF V
    <2> QED
      BY <2>1, <2>3, <2>4
  <1> HIDE DEF V, W, t
  <1>7. Cardinality(V \cup {1}) = Cardinality(V) + 1
    BY <1>4, <1>5, FS_AddElement
  <1> QED
    BY <1>2, <1>4, <1>6, <1>7 DEF Count, W, t

LEMMA CountPop ==
    ASSUME NEW S, NEW s \in Seq(S), Len(s) >= 1, NEW A
    PROVE  Count(Tail(s), A) = Count(s, A) - (IF s[1] \in A THEN 1 ELSE 0)
  <1>1. Tail(s) \in Seq(S) /\ s[1] \in S
    OBVIOUS
  <1>2. s = <<s[1]>> \o Tail(s)
    OBVIOUS
  <1>3. Count(<<s[1]>> \o Tail(s), A) = Count(Tail(s), A) + (IF s[1] \in A THEN 1 ELSE 0)
    BY <1>1, CountPush, Zenon
  <1>4. Count(s, A) = Count(Tail(s), A) + (IF s[1] \in A THEN 1 ELSE 0)
    BY <1>2, <1>3
  <1>5. Count(Tail(s), A) \in Nat
    BY <1>1, CountNat
  <1> QED
    BY <1>4, <1>5

LEMMA CountNone ==
    ASSUME NEW S, NEW s \in Seq(S), NEW A, \A i \in 1..Len(s) : s[i] \notin A
    PROVE  Count(s, A) = 0
  <1>1. Places(s, A) = {}
    BY DEF Places
  <1> QED
    BY <1>1, FS_EmptySet DEF Count

-----------------------------------------------------------------------------
(***************************************************************************)
(* The references that bound_mods lists b hold on a module: one for each      *)
(* node.                                                                     *)
(***************************************************************************)
LEMMA OccurrencesCount ==
    ASSUME NEW s \in Seq(Mods), NEW m
    PROVE  Occurrences(s, m) = Count(s, {m}) /\ Occurrences(s, m) \in Nat
  <1>1. Places(s, {m}) = {i \in 1..Len(s) : s[i] = m}
    BY DEF Places
  <1>2. Occurrences(s, m) = Count(s, {m})
    BY <1>1 DEF Occurrences, Count
  <1> QED
    BY <1>2, CountNat

LEMMA OccurrencesPush ==
    ASSUME NEW s \in Seq(Mods), NEW x \in Mods, NEW m
    PROVE  Occurrences(<<x>> \o s, m) = Occurrences(s, m) + (IF x = m THEN 1 ELSE 0)
  <1>1. <<x>> \o s \in Seq(Mods)
    BY PushIndex
  <1>2. Count(<<x>> \o s, {m}) = Count(s, {m}) + (IF x \in {m} THEN 1 ELSE 0)
    BY CountPush
  <1>3. /\ Occurrences(<<x>> \o s, m) = Count(<<x>> \o s, {m})
        /\ Occurrences(s, m) = Count(s, {m})
    BY <1>1, OccurrencesCount
  <1> QED
    BY <1>2, <1>3

LEMMA OccurrencesNone ==
    ASSUME NEW m
    PROVE  Occurrences(<<>>, m) = 0
  <1>1. {i \in 1..Len(<<>>) : <<>>[i] = m} = {}
    OBVIOUS
  <1> QED
    BY <1>1, FS_EmptySet DEF Occurrences

Nodes(b, r, m) == {<<r, i>> : i \in Places(b[r], {m})}
Binds(b, m) == UNION {Nodes(b, r, m) : r \in Mods}

LEMMA NodesCount ==
    ASSUME NEW b \in [Mods -> Seq(Mods)], NEW r \in Mods, NEW m
    PROVE  IsFiniteSet(Nodes(b, r, m)) /\ Cardinality(Nodes(b, r, m)) = Occurrences(b[r], m)
  <1> DEFINE W == Places(b[r], {m})
             V == Nodes(b, r, m)
             f == [i \in W |-> <<r, i>>]
  <1>1. IsFiniteSet(W)
    <2>1. b[r] \in Seq(Mods)
      OBVIOUS
    <2> QED
      BY <2>1, CountNat
  <1>2. f \in [W -> V] /\ \A i \in W : f[i] = <<r, i>>
    BY DEF Nodes
  <1>3. \A i, j \in W : f[i] = f[j] => i = j
    BY <1>2
  <1>4. \A v \in V : \E i \in W : f[i] = v
    BY <1>2 DEF Nodes
  <1> HIDE DEF W, V, f
  <1>5. IsFiniteSet(V) /\ Cardinality(V) = Cardinality(W)
    BY <1>1, <1>2, <1>3, <1>4, BijectionCount
  <1> QED
    BY <1>5, OccurrencesCount DEF Count, W, V

LEMMA BindsFinite ==
    ASSUME NEW b \in [Mods -> Seq(Mods)], NEW m
    PROVE  IsFiniteSet(Binds(b, m)) /\ Cardinality(Binds(b, m)) \in Nat
  <1> DEFINE T == {Nodes(b, r, m) : r \in Mods}
             f == [r \in Mods |-> Nodes(b, r, m)]
  <1>1. f \in Surjection(Mods, T)
    BY DEF Surjection
  <1> HIDE DEF f
  <1>2. IsFiniteSet(T)
    <2> HIDE DEF T
    <2> QED
      BY <1>1, FS_Surjection, LifecycleAssumption
  <1>3. \A V \in T : IsFiniteSet(V)
    BY NodesCount
  <1> HIDE DEF T
  <1>4. IsFiniteSet(UNION T)
    BY <1>2, <1>3, FS_UNION
  <1> QED
    BY <1>4, FS_CardinalityType DEF Binds, T

(* The lists b and c differ at most in k's.                                  *)
SameBut(b, c, k) == \A r \in Mods \ {k} : c[r] = b[r]

LEMMA BindsChange ==
    ASSUME NEW b \in [Mods -> Seq(Mods)], NEW c \in [Mods -> Seq(Mods)], NEW k \in Mods,
           SameBut(b, c, k), NEW m
    PROVE  Cardinality(Binds(c, m))
             = Cardinality(Binds(b, m)) - Occurrences(b[k], m) + Occurrences(c[k], m)
  <1> DEFINE R == UNION {Nodes(b, r, m) : r \in Mods \ {k}}
  <1>1. \A r \in Mods \ {k} : Nodes(c, r, m) = Nodes(b, r, m)
    BY DEF Nodes, SameBut
  <1>2. Binds(b, m) = R \cup Nodes(b, k, m)
    BY DEF Binds
  <1>3. Binds(c, m) = R \cup Nodes(c, k, m)
    BY <1>1 DEF Binds
  <1>4. R \cap Nodes(b, k, m) = {} /\ R \cap Nodes(c, k, m) = {}
    BY DEF Nodes
  <1>5. IsFiniteSet(R)
    BY <1>2, BindsFinite, FS_Subset
  <1> HIDE DEF R
  <1>6. /\ IsFiniteSet(Nodes(b, k, m)) /\ Cardinality(Nodes(b, k, m)) = Occurrences(b[k], m)
        /\ IsFiniteSet(Nodes(c, k, m)) /\ Cardinality(Nodes(c, k, m)) = Occurrences(c[k], m)
    BY NodesCount
  <1>7. /\ Cardinality(Binds(b, m)) = Cardinality(R) + Occurrences(b[k], m) - Cardinality({})
        /\ Cardinality(Binds(c, m)) = Cardinality(R) + Occurrences(c[k], m) - Cardinality({})
    <2> DEFINE B == Nodes(b, k, m)
               C == Nodes(c, k, m)
    <2> HIDE DEF B, C
    <2>1. /\ IsFiniteSet(B) /\ IsFiniteSet(C) /\ R \cap B = {} /\ R \cap C = {}
          /\ Cardinality(B) = Occurrences(b[k], m) /\ Cardinality(C) = Occurrences(c[k], m)
      BY <1>4, <1>6 DEF B, C
    <2>2. Cardinality(R \cup B) = Cardinality(R) + Cardinality(B) - Cardinality(R \cap B)
      BY <1>5, <2>1, FS_Union
    <2>3. Cardinality(R \cup C) = Cardinality(R) + Cardinality(C) - Cardinality(R \cap C)
      BY <1>5, <2>1, FS_Union
    <2>4. Binds(b, m) = R \cup B /\ Binds(c, m) = R \cup C
      BY <1>2, <1>3 DEF B, C
    <2> QED
      BY <2>1, <2>2, <2>3, <2>4
  <1>8. Cardinality({}) = 0 /\ Cardinality(R) \in Nat
    BY <1>5, FS_EmptySet, FS_CardinalityType
  <1>9. Occurrences(b[k], m) \in Nat /\ Occurrences(c[k], m) \in Nat
    BY OccurrencesCount
  <1> QED
    BY <1>7, <1>8, <1>9

LEMMA NoBinds ==
    ASSUME NEW b \in [Mods -> Seq(Mods)], NEW m,
           \A r \in Mods : \A i \in 1..Len(b[r]) : b[r][i] # m
    PROVE  Cardinality(Binds(b, m)) = 0
  <1>1. Binds(b, m) = {}
    BY DEF Binds, Nodes, Places
  <1> QED
    BY <1>1, FS_EmptySet

-----------------------------------------------------------------------------
(***************************************************************************)
(* The tally of the references: with the stack s, the modules' states st, the *)
(* map M, the user's handles h and the lists b, the counts are r.             *)
(***************************************************************************)
Holders(m) == {f \in FrameType : f.fn \in {"user", "dereg"} /\ f.mod = m}

BornFrame(f, st) ==
    /\ f.fn \in {"user", "dereg"} /\ f.mod \in Mods => st[f.mod] # "NONE"
    /\ \A j \in 1..Len(f.todo) : st[f.todo[j].mod] # "NONE"

AllBorn(s, st, b) ==
    /\ \A i \in 1..Len(s) : BornFrame(s[i], st)
    /\ \A k \in Mods : \A i \in 1..Len(b[k]) : st[b[k][i]] # "NONE"

Owed(s, M, h, b, m) ==
    (IF m \in M THEN 1 ELSE 0) + (IF h[m] THEN 1 ELSE 0) + Count(s, Holders(m))
        + Cardinality(Binds(b, m))

Tally(s, st, r, M, h, b) ==
    /\ s \in Seq(FrameType) /\ r \in [Mods -> Int] /\ b \in [Mods -> Seq(Mods)]
    /\ AllBorn(s, st, b)
    /\ \A m \in Mods : r[m] = Owed(s, M, h, b, m)

TallyInv == Tally(stack, state, refs, modules, handle, bound)

LEMMA Counts ==
    ASSUME NEW s \in Seq(FrameType), NEW b \in [Mods -> Seq(Mods)]
    PROVE  \A m : Count(s, Holders(m)) \in Nat /\ Cardinality(Binds(b, m)) \in Nat
  BY CountNat, BindsFinite

(* What a frame holds.                                                      *)
Holds(f, m) == IF f \in Holders(m) THEN 1 ELSE 0

LEMMA TallyPush ==
    ASSUME NEW s, NEW st, NEW r, NEW M, NEW h, NEW b, Tally(s, st, r, M, h, b),
           NEW f \in FrameType, BornFrame(f, st), NEW q \in [Mods -> Int],
           \A m \in Mods : q[m] = r[m] + Holds(f, m)
    PROVE  Tally(<<f>> \o s, st, q, M, h, b)
  <1> DEFINE t == <<f>> \o s
  <1>1. s \in Seq(FrameType) /\ b \in [Mods -> Seq(Mods)]
    BY DEF Tally
  <1>2. /\ t \in Seq(FrameType) /\ t[1] = f
        /\ \A i \in 1..Len(t) : i = 1 \/ (i - 1 \in 1..Len(s) /\ t[i] = s[i - 1])
    BY <1>1, PushIndex
  <1>3. ASSUME NEW m \in Mods PROVE q[m] = Owed(t, M, h, b, m)
    <2>1. Count(t, Holders(m)) = Count(s, Holders(m)) + Holds(f, m)
      BY <1>1, CountPush DEF Holds
    <2> HIDE DEF t
    <2>2. Count(s, Holders(m)) \in Nat /\ Cardinality(Binds(b, m)) \in Nat /\ Holds(f, m) \in Nat
      BY <1>1, Counts DEF Holds
    <2>3. r[m] = Owed(s, M, h, b, m)
      BY DEF Tally
    <2> QED
      BY <2>1, <2>2, <2>3 DEF Owed
  <1> HIDE DEF t
  <1>4. AllBorn(t, st, b)
    BY <1>2 DEF Tally, AllBorn
  <1>5. Tally(t, st, q, M, h, b)
    BY <1>1, <1>2, <1>3, <1>4 DEF Tally
  <1> QED
    BY <1>5 DEF t

LEMMA TallyPop ==
    ASSUME NEW s, NEW st, NEW r, NEW M, NEW h, NEW b, Tally(s, st, r, M, h, b), Len(s) > 1,
           NEW q \in [Mods -> Int], \A m \in Mods : q[m] = r[m] - Holds(s[1], m)
    PROVE  Tally(Tail(s), st, q, M, h, b)
  <1> DEFINE t == Tail(s)
  <1>1. s \in Seq(FrameType) /\ b \in [Mods -> Seq(Mods)]
    BY DEF Tally
  <1>2. t \in Seq(FrameType) /\ \A i \in 1..Len(t) : i + 1 \in 1..Len(s) /\ t[i] = s[i + 1]
    BY <1>1, TailIndex
  <1>3. ASSUME NEW m \in Mods PROVE q[m] = Owed(t, M, h, b, m)
    <2>1. Len(s) >= 1
      BY <1>1
    <2>2. Count(t, Holders(m)) = Count(s, Holders(m)) - Holds(s[1], m)
      BY <1>1, <2>1, CountPop DEF Holds
    <2> HIDE DEF t
    <2>3. Count(s, Holders(m)) \in Nat /\ Cardinality(Binds(b, m)) \in Nat /\ Holds(s[1], m) \in Nat
      BY <1>1, Counts DEF Holds
    <2>4. r[m] = Owed(s, M, h, b, m)
      BY DEF Tally
    <2> QED
      BY <2>2, <2>3, <2>4 DEF Owed
  <1> HIDE DEF t
  <1>4. AllBorn(t, st, b)
    BY <1>2 DEF Tally, AllBorn
  <1>5. Tally(t, st, q, M, h, b)
    BY <1>1, <1>2, <1>3, <1>4 DEF Tally
  <1> QED
    BY <1>5 DEF t

LEMMA TallyAlike ==
    ASSUME NEW s, NEW t, NEW st, NEW r, NEW M, NEW h, NEW b, Tally(s, st, r, M, h, b), Alike(s, t)
    PROVE  Tally(t, st, r, M, h, b)
  <1>1. /\ s \in Seq(FrameType) /\ t \in Seq(FrameType) /\ Len(t) = Len(s)
        /\ \A i \in 1..Len(s) :
              /\ t[i].fn = s[i].fn /\ t[i].mod = s[i].mod
              /\ Len(t[i].todo) = Len(s[i].todo)
              /\ \A j \in 1..Len(s[i].todo) : t[i].todo[j].mod = s[i].todo[j].mod
    BY DEF Alike
  <1>2. AllBorn(t, st, b)
    <2>1. ASSUME NEW i \in 1..Len(t) PROVE BornFrame(t[i], st)
      <3>1. BornFrame(s[i], st)
        BY <1>1 DEF Tally, AllBorn
      <3> QED
        BY <1>1, <3>1 DEF BornFrame
    <2> QED
      BY <2>1 DEF Tally, AllBorn
  <1>3. \A m \in Mods : Places(t, Holders(m)) = Places(s, Holders(m))
    <2>1. \A i \in 1..Len(s) : s[i] \in FrameType /\ t[i] \in FrameType
      BY <1>1
    <2> QED
      BY <1>1, <2>1 DEF Places, Holders
  <1>4. \A m \in Mods : Owed(t, M, h, b, m) = Owed(s, M, h, b, m)
    BY <1>3 DEF Owed, Count
  <1> QED
    BY <1>1, <1>2, <1>4 DEF Tally

(* No module is unborn.                                                     *)
LEMMA TallyState ==
    ASSUME NEW s, NEW st, NEW su, NEW r, NEW M, NEW h, NEW b, Tally(s, st, r, M, h, b),
           \A m \in Mods : st[m] # "NONE" => su[m] # "NONE"
    PROVE  Tally(s, su, r, M, h, b)
  <1>1. \A i \in 1..Len(s) : s[i].todo \in Seq(Event)
    <2>1. \A i \in 1..Len(s) : s[i] \in FrameType
      BY DEF Tally
    <2> QED
      BY <2>1 DEF FrameType
  <1>2. \A i \in 1..Len(s) : \A j \in 1..Len(s[i].todo) : s[i].todo[j].mod \in Mods
    <2> SUFFICES ASSUME NEW i \in 1..Len(s), NEW j \in 1..Len(s[i].todo)
                 PROVE  s[i].todo[j].mod \in Mods
      OBVIOUS
    <2>1. s[i].todo[j] \in Event
      BY <1>1
    <2> QED
      BY <2>1 DEF Event
  <1>3. \A k \in Mods : \A i \in 1..Len(b[k]) : b[k][i] \in Mods
    BY DEF Tally
  <1>4. AllBorn(s, su, b)
    BY <1>2, <1>3 DEF Tally, AllBorn, BornFrame
  <1> QED
    BY <1>4 DEF Tally

(* A list of bound modules is cleared ...                                   *)
LEMMA TallyUnbind ==
    ASSUME NEW s, NEW st, NEW r, NEW M, NEW h, NEW b, Tally(s, st, r, M, h, b), NEW k \in Mods
    PROVE  Tally(s, st, [x \in Mods |-> r[x] - Occurrences(b[k], x)], M, h, [b EXCEPT ![k] = <<>>])
  <1> DEFINE q == [x \in Mods |-> r[x] - Occurrences(b[k], x)]
             c == [b EXCEPT ![k] = <<>>]
  <1>1. s \in Seq(FrameType) /\ b \in [Mods -> Seq(Mods)] /\ r \in [Mods -> Int] /\ b[k] \in Seq(Mods)
    BY DEF Tally
  <1>2. <<>> \in Seq(Mods) /\ Len(<<>>) = 0
    OBVIOUS
  <1>3. c \in [Mods -> Seq(Mods)] /\ c[k] = <<>> /\ \A x \in Mods \ {k} : c[x] = b[x]
    BY <1>1, <1>2
  <1>4. \A x \in Mods : Occurrences(b[k], x) \in Nat
    BY <1>1, OccurrencesCount
  <1>5. q \in [Mods -> Int] /\ \A x \in Mods : q[x] = r[x] - Occurrences(b[k], x)
    <2>1. \A x \in Mods : r[x] - Occurrences(b[k], x) \in Int
      BY <1>1, <1>4
    <2> QED
      BY <2>1
  <1>6. \A x \in Mods : Cardinality(Binds(c, x)) = Cardinality(Binds(b, x)) - Occurrences(b[k], x)
    <2> TAKE x \in Mods
    <2>1. Occurrences(<<>>, x) = 0
      BY OccurrencesNone
    <2>2. Cardinality(Binds(c, x))
            = Cardinality(Binds(b, x)) - Occurrences(b[k], x) + Occurrences(<<>>, x)
      <3> HIDE DEF c
      <3>1. SameBut(b, c, k)
        BY <1>3 DEF SameBut
      <3>2. b \in [Mods -> Seq(Mods)] /\ c \in [Mods -> Seq(Mods)]
        BY <1>1, <1>3
      <3>3. Cardinality(Binds(c, x)) = Cardinality(Binds(b, x)) - Occurrences(b[k], x) + Occurrences(c[k], x)
        BY <3>1, <3>2, BindsChange, ZenonT(60)
      <3>4. c[k] = <<>>
        BY <1>3
      <3>5. Occurrences(c[k], x) = Occurrences(<<>>, x)
        BY <3>4, Zenon
      <3> QED
        BY <3>3, <3>5
    <2>3. Cardinality(Binds(b, x)) \in Nat /\ Occurrences(b[k], x) \in Nat
      BY <1>1, <1>4, Counts
    <2> QED
      BY <2>1, <2>2, <2>3
  <1> HIDE DEF q, c
  <1>7. AllBorn(s, st, c)
    <2>1. ASSUME NEW x \in Mods, NEW i \in 1..Len(c[x]) PROVE st[c[x][i]] # "NONE"
      <3>1. x # k
        BY <1>2, <1>3
      <3>2. c[x] = b[x]
        BY <1>3, <3>1
      <3> QED
        BY <3>2 DEF Tally, AllBorn
    <2> QED
      BY <2>1 DEF Tally, AllBorn
  <1>8. ASSUME NEW x \in Mods PROVE q[x] = Owed(s, M, h, c, x)
    <2>1. r[x] = Owed(s, M, h, b, x)
      BY DEF Tally
    <2>2. Count(s, Holders(x)) \in Nat /\ Cardinality(Binds(b, x)) \in Nat /\ Occurrences(b[k], x) \in Nat
      BY <1>1, <1>4, Counts
    <2> QED
      BY <1>5, <1>6, <2>1, <2>2 DEF Owed
  <1>9. Tally(s, st, q, M, h, c)
    BY <1>1, <1>3, <1>5, <1>7, <1>8 DEF Tally
  <1> QED
    BY <1>9 DEF q, c

(* ... or grows at its head.                                                *)
LEMMA TallyBind ==
    ASSUME NEW s, NEW st, NEW r, NEW M, NEW h, NEW b, Tally(s, st, r, M, h, b),
           NEW k \in Mods, NEW m \in Mods, st[m] # "NONE"
    PROVE  Tally(s, st, [r EXCEPT ![m] = @ + 1], M, h, [b EXCEPT ![k] = <<m>> \o @])
  <1> DEFINE q == [r EXCEPT ![m] = @ + 1]
             l == <<m>> \o b[k]
             c == [b EXCEPT ![k] = l]
  <1>1. s \in Seq(FrameType) /\ b \in [Mods -> Seq(Mods)] /\ r \in [Mods -> Int] /\ b[k] \in Seq(Mods)
    BY DEF Tally
  <1>2. /\ l \in Seq(Mods) /\ l[1] = m
        /\ \A i \in 1..Len(l) : i = 1 \/ (i - 1 \in 1..Len(b[k]) /\ l[i] = b[k][i - 1])
    BY <1>1, PushIndex
  <1>3. \A x \in Mods : Occurrences(l, x) = Occurrences(b[k], x) + (IF m = x THEN 1 ELSE 0)
    BY <1>1, OccurrencesPush
  <1> HIDE DEF l
  <1>4. c \in [Mods -> Seq(Mods)] /\ c[k] = l /\ \A x \in Mods \ {k} : c[x] = b[x]
    BY <1>1, <1>2
  <1>5. q \in [Mods -> Int] /\ \A x \in Mods : q[x] = r[x] + (IF m = x THEN 1 ELSE 0)
    BY <1>1
  <1>6. \A x \in Mods :
           Cardinality(Binds(c, x)) = Cardinality(Binds(b, x)) + (IF m = x THEN 1 ELSE 0)
    <2> TAKE x \in Mods
    <2>1. Occurrences(l, x) = Occurrences(b[k], x) + (IF m = x THEN 1 ELSE 0)
      BY <1>3
    <2>2. Cardinality(Binds(c, x)) = Cardinality(Binds(b, x)) - Occurrences(b[k], x) + Occurrences(l, x)
      <3> HIDE DEF c
      <3>1. SameBut(b, c, k)
        BY <1>4 DEF SameBut
      <3>2. b \in [Mods -> Seq(Mods)] /\ c \in [Mods -> Seq(Mods)]
        BY <1>1, <1>4
      <3>3. Cardinality(Binds(c, x)) = Cardinality(Binds(b, x)) - Occurrences(b[k], x) + Occurrences(c[k], x)
        BY <3>1, <3>2, BindsChange, ZenonT(60)
      <3>4. c[k] = l
        BY <1>4
      <3>5. Occurrences(c[k], x) = Occurrences(l, x)
        BY <3>4, Zenon
      <3> QED
        BY <3>3, <3>5
    <2>3. Cardinality(Binds(b, x)) \in Nat /\ Occurrences(b[k], x) \in Nat
      BY <1>1, Counts, OccurrencesCount
    <2> QED
      BY <2>1, <2>2, <2>3
  <1>7. c = [b EXCEPT ![k] = <<m>> \o @]
    BY DEF l
  <1> HIDE DEF q, c
  <1>8. AllBorn(s, st, c)
    <2>1. ASSUME NEW x \in Mods, NEW i \in 1..Len(c[x]) PROVE st[c[x][i]] # "NONE"
      <3>1. CASE x # k
        <4>1. c[x] = b[x]
          BY <1>4, <3>1
        <4> QED
          BY <4>1 DEF Tally, AllBorn
      <3>2. CASE x = k /\ i = 1
        BY <1>2, <1>4, <3>2
      <3>3. CASE x = k /\ i # 1
        <4>1. i - 1 \in 1..Len(b[k]) /\ c[x][i] = b[k][i - 1]
          BY <1>2, <1>4, <3>3
        <4> QED
          BY <4>1 DEF Tally, AllBorn
      <3> QED
        BY <3>1, <3>2, <3>3
    <2> QED
      BY <2>1 DEF Tally, AllBorn
  <1>9. ASSUME NEW x \in Mods PROVE q[x] = Owed(s, M, h, c, x)
    <2>1. r[x] = Owed(s, M, h, b, x)
      BY DEF Tally
    <2>2. Count(s, Holders(x)) \in Nat /\ Cardinality(Binds(b, x)) \in Nat
      BY <1>1, Counts
    <2> QED
      BY <1>5, <1>6, <2>1, <2>2 DEF Owed
  <1>10. Tally(s, st, q, M, h, c)
    BY <1>1, <1>4, <1>5, <1>8, <1>9 DEF Tally
  <1> QED
    BY <1>7, <1>10 DEF q

(* The map or the user's handles change.                                    *)
LEMMA TallyOwners ==
    ASSUME NEW s, NEW st, NEW r, NEW M, NEW h, NEW b, Tally(s, st, r, M, h, b),
           NEW N, NEW g, NEW q \in [Mods -> Int],
           \A m \in Mods :
              q[m] = r[m] + ((IF m \in N THEN 1 ELSE 0) + (IF g[m] THEN 1 ELSE 0))
                          - ((IF m \in M THEN 1 ELSE 0) + (IF h[m] THEN 1 ELSE 0))
    PROVE  Tally(s, st, q, N, g, b)
  <1>1. ASSUME NEW m \in Mods PROVE q[m] = Owed(s, N, g, b, m)
    <2>1. r[m] = Owed(s, M, h, b, m)
      BY DEF Tally
    <2>2. Count(s, Holders(m)) \in Nat /\ Cardinality(Binds(b, m)) \in Nat
      BY Counts DEF Tally
    <2> QED
      BY <2>1, <2>2 DEF Owed
  <1> QED
    BY <1>1 DEF Tally

(* Nobody has a reference to a module before it is born.                    *)
LEMMA UnbornUnowed ==
    ASSUME NEW s, NEW st, NEW r, NEW M, NEW h, NEW b, Tally(s, st, r, M, h, b),
           NEW m \in Mods, st[m] = "NONE", m \notin M, ~h[m]
    PROVE  r[m] = 0
  <1>1. s \in Seq(FrameType) /\ b \in [Mods -> Seq(Mods)]
    BY DEF Tally
  <1>2. Count(s, Holders(m)) = 0
    <2>1. \A i \in 1..Len(s) : s[i] \notin Holders(m)
      BY DEF Tally, AllBorn, BornFrame, Holders
    <2> QED
      BY <1>1, <2>1, CountNone
  <1>3. Cardinality(Binds(b, m)) = 0
    <2>1. \A k \in Mods : \A i \in 1..Len(b[k]) : b[k][i] # m
      BY DEF Tally, AllBorn
    <2> QED
      BY <1>1, <2>1, NoBinds
  <1>4. r[m] = Owed(s, M, h, b, m)
    BY DEF Tally
  <1> QED
    BY <1>2, <1>3, <1>4 DEF Owed

-----------------------------------------------------------------------------
(***************************************************************************)
(* The operations: the stack they are given is tallied, the next one is.      *)
(***************************************************************************)
Tallied(s) == Tally(s, state, refs, modules, handle, bound)

(* A frame that holds no reference and has no events.                        *)
Light(f) == f \in FrameType /\ f.fn \notin {"user", "dereg"} /\ f.todo = <<>>

LEMMA LightFrame ==
    ASSUME NEW fn \in Fns \ {"user", "dereg"}, NEW m \in Mods \cup {NoMod}, NEW at \in Ats
    PROVE  Light(Frame(fn, m, at))
  BY NewFrame DEF Light

LEMMA BearsLight ==
    ASSUME NEW f \in FrameType, NEW st, f.fn \notin {"user", "dereg"},
           \A j \in 1..Len(f.todo) : st[f.todo[j].mod] # "NONE"
    PROVE  BornFrame(f, st) /\ \A m : Holds(f, m) = 0
  BY DEF BornFrame, Holds, Holders

LEMMA PushFree ==
    ASSUME NEW s, NEW st, NEW r, NEW M, NEW h, NEW b, Tally(s, st, r, M, h, b),
           NEW f \in FrameType, f.fn \notin {"user", "dereg"},
           \A j \in 1..Len(f.todo) : st[f.todo[j].mod] # "NONE"
    PROVE  Tally(<<f>> \o s, st, r, M, h, b)
  <1>1. BornFrame(f, st) /\ \A m : Holds(f, m) = 0
    BY BearsLight
  <1>2. r \in [Mods -> Int]
    BY DEF Tally
  <1>3. \A m \in Mods : r[m] = r[m] + Holds(f, m)
    BY <1>1, <1>2
  <1> QED
    BY <1>1, <1>2, <1>3, TallyPush

LEMMA PushLight ==
    ASSUME NEW s, NEW st, NEW r, NEW M, NEW h, NEW b, Tally(s, st, r, M, h, b), NEW f, Light(f)
    PROVE  Tally(<<f>> \o s, st, r, M, h, b)
  <1>1. f \in FrameType /\ f.fn \notin {"user", "dereg"} /\ Len(f.todo) = 0
    BY DEF Light
  <1>2. \A j \in 1..Len(f.todo) : st[f.todo[j].mod] # "NONE"
    BY <1>1
  <1> QED
    BY <1>1, <1>2, PushFree

(* A hook or a deregistration begins, with the module locked.                *)
LEMMA PushHolder ==
    ASSUME NEW s, NEW st, NEW r, NEW M, NEW h, NEW b, Tally(s, st, r, M, h, b),
           NEW fn \in {"user", "dereg"}, NEW m \in Mods, st[m] # "NONE", NEW at \in Ats
    PROVE  Tally(<<Frame(fn, m, at)>> \o s, st, Lock(r, m), M, h, b)
  <1> DEFINE f == Frame(fn, m, at)
             q == Lock(r, m)
  <1>1. f \in FrameType /\ f.fn = fn /\ f.mod = m /\ f.todo = <<>>
    <2>1. fn \in Fns /\ m \in Mods \cup {NoMod} /\ at \in Ats
      BY DEF Fns
    <2> QED
      BY <2>1, NewFrame
  <1>2. r \in [Mods -> Int]
    BY DEF Tally
  <1>3. q \in [Mods -> Int] /\ \A x \in Mods : q[x] = IF x = m THEN r[x] + 1 ELSE r[x]
    BY <1>2 DEF Lock
  <1> HIDE DEF f, q
  <1>4. \A x \in Mods : Holds(f, x) = IF x = m THEN 1 ELSE 0
    BY <1>1 DEF Holds, Holders
  <1>5. Len(f.todo) = 0
    BY <1>1
  <1>6. BornFrame(f, st)
    BY <1>1, <1>5 DEF BornFrame
  <1>7. \A x \in Mods : q[x] = r[x] + Holds(f, x)
    BY <1>2, <1>3, <1>4
  <1>8. Tally(<<f>> \o s, st, q, M, h, b)
    BY <1>1, <1>3, <1>6, <1>7, TallyPush
  <1> QED
    BY <1>8 DEF f, q

LEMMA FailTally ==
    ASSUME NEW below, Tallied(below), Fail(below)
    PROVE  TallyInv'
  BY DEF Fail, Tallied, TallyInv, modVars, ctxVars

LEMMA QuietTally ==
    ASSUME NEW s, Tallied(s), stack' = s, UNCHANGED <<state, refs, modules, handle, bound>>
    PROVE  TallyInv'
  BY DEF Tallied, TallyInv

LEMMA HookTally ==
    ASSUME NEW s, NEW m \in Born, NEW at \in Where, Tallied(s), stack' = <<Frame("user", m, at)>> \o s,
           refs' = Lock(refs, m), UNCHANGED <<state, modules, handle, bound>>
    PROVE  TallyInv'
  <1>1. m \in Mods /\ state[m] # "NONE" /\ at \in Ats
    BY DEF Born, Ats
  <1>2. Tally(<<Frame("user", m, at)>> \o s, state, Lock(refs, m), modules, handle, bound)
    BY <1>1, PushHolder DEF Tallied
  <1> QED
    BY <1>2 DEF TallyInv

(* A module that is born changes its state.                                  *)
LEMMA StillBorn ==
    ASSUME DataInv, NEW m \in Born, NEW x, x # "NONE", state' = [state EXCEPT ![m] = x]
    PROVE  \A q \in Mods : state[q] # "NONE" => state'[q] # "NONE"
  BY DEF DataInv, Born

LEMMA StartTally ==
    ASSUME CoreInv, NEW m \in Born, NEW starting, NEW below, Tallied(below),
           start(m, starting, below)
    PROVE  TallyInv'
  <1>1. CASE Fail(below)
    BY <1>1, FailTally
  <1>2. CASE state' = [state EXCEPT ![m] = "RUNNING"] /\ UNCHANGED <<modules, handle, bound>>
    <2>1. m \in Mods /\ state[m] # "NONE"
      BY DEF Born
    <2>2. \A q \in Mods : state[q] # "NONE" => state'[q] # "NONE"
      BY <1>2, StillBorn DEF CoreInv
    <2>3. CASE stack' = below /\ refs' = refs
      BY <1>2, <2>2, <2>3, TallyState DEF Tallied, TallyInv
    <2>4. CASE /\ stack' = <<Frame("user", m, "start"), Frame("start", m, "call")>> \o below
               /\ refs' = Lock(refs, m)
      <3> DEFINE u == Frame("user", m, "start")
                 g == Frame("start", m, "call")
      <3>1. /\ "start" \in Fns \ {"user", "dereg"} /\ "user" \in Fns /\ "call" \in Ats
            /\ "start" \in Ats /\ m \in Mods \cup {NoMod}
        BY <2>1 DEF Fns, Ats, Where
      <3>2. Light(g) /\ u \in FrameType /\ g \in FrameType
        BY <3>1, LightFrame, NewFrame
      <3> HIDE DEF g
      <3>3. Tallied(<<g>> \o below)
        BY <3>2, PushLight DEF Tallied
      <3>4. Tally(<<u>> \o (<<g>> \o below), state, Lock(refs, m), modules, handle, bound)
        BY <2>1, <3>1, <3>3, PushHolder DEF Tallied
      <3> HIDE DEF u
      <3>5. stack' = <<u>> \o (<<g>> \o below)
        <4>1. below \in Seq(FrameType)
          BY DEF Tallied, Tally
        <4> QED
          BY <2>4, <3>2, <4>1, PushTwo DEF u, g
      <3>6. Tally(<<u>> \o (<<g>> \o below), state', Lock(refs, m), modules, handle, bound)
        BY <2>2, <3>4, TallyState
      <3> QED
        BY <1>2, <2>4, <3>5, <3>6 DEF TallyInv
    <2> QED
      BY <2>3, <2>4 DEF start, Fail, modVars
  <1> QED
    BY <1>1, <1>2 DEF start

(* The caller of stop() has changed the counts to r, and maybe the map.      *)
LEMMA StopTally ==
    ASSUME CoreInv, NEW m \in Born, NEW stopping \in BOOLEAN, NEW r, NEW below,
           Tally(below, state, r, modules', handle, bound), stop(m, stopping, r, below),
           stopping \/ r = refs
    PROVE  TallyInv'
  <1> SUFFICES ASSUME ~(~stopping /\ Fail(below)) PROVE TallyInv'
    <2>1. CASE ~stopping /\ Fail(below)
      BY <2>1 DEF Fail, TallyInv, modVars
    <2> QED
      BY <2>1
  <1>1. m \in Mods /\ state[m] # "NONE" /\ handle' = handle
    BY DEF Born, stop
  <1>2. \A q \in Mods : state[q] # "NONE" => state'[q] # "NONE"
    <2>1. PICK x \in {"STOPPED", "PAUSED"} : state' = [state EXCEPT ![m] = x]
      BY DEF stop
    <2> QED
      BY <2>1, StillBorn DEF CoreInv
  <1>3. CASE ~stopping
    <2>1. stack' = below /\ refs' = r /\ bound' = bound
      BY <1>3 DEF stop
    <2> QED
      BY <1>1, <1>2, <2>1, TallyState DEF TallyInv
  <1>4. CASE stopping
    <2> DEFINE d == Dangling(below, m)
               g == Frame("stop", m, "call")
               u == Frame("user", m, "stop")
               l == Lock(r, m)
    <2>1. /\ stack' = <<u, g>> \o d
          /\ refs' = [x \in Mods |-> l[x] - Occurrences(bound[m], x)]
          /\ bound' = [bound EXCEPT ![m] = <<>>]
      BY <1>4 DEF stop
    <2>2. below \in Seq(FrameType)
      BY DEF Tally
    <2>3. Alike(below, d)
      BY <1>1, <2>2, DanglingAlike
    <2> HIDE DEF d
    <2>4. Tally(d, state, r, modules', handle, bound) /\ d \in Seq(FrameType)
      BY <2>3, TallyAlike DEF Alike
    <2>5. /\ "stop" \in Fns \ {"user", "dereg"} /\ "user" \in Fns /\ "call" \in Ats
          /\ "stop" \in Ats /\ m \in Mods \cup {NoMod}
      BY <1>1 DEF Fns, Ats, Where
    <2>6. Light(g) /\ u \in FrameType /\ g \in FrameType
      BY <2>5, LightFrame, NewFrame
    <2> HIDE DEF g
    <2>7. Tally(<<g>> \o d, state, r, modules', handle, bound)
      BY <2>4, <2>6, PushLight
    <2>8. Tally(<<u>> \o (<<g>> \o d), state, l, modules', handle, bound)
      BY <1>1, <2>5, <2>7, PushHolder
    <2> HIDE DEF u, l
    <2>9. stack' = <<u>> \o (<<g>> \o d)
      BY <2>1, <2>4, <2>6, PushTwo
    <2>10. Tally(stack', state, refs', modules', handle, bound')
      <3>1. Tally(<<u>> \o (<<g>> \o d), state, [x \in Mods |-> l[x] - Occurrences(bound[m], x)],
                  modules', handle, [bound EXCEPT ![m] = <<>>])
        BY <1>1, <2>8, TallyUnbind
      <3> QED
        BY <2>1, <2>9, <3>1
    <2>11. Tally(stack', state', refs', modules', handle, bound')
      BY <1>2, <2>10, TallyState
    <2> QED
      BY <1>1, <2>11 DEF TallyInv
  <1> QED
    BY <1>3, <1>4

LEMMA StateOpTally ==
    ASSUME CoreInv, NEW op \in StateOp, NEW m \in Mods, NEW below, Tallied(below),
           m_mod_state_op(op, m, below)
    PROVE  TallyInv'
  <1> DEFINE waiting == <<Frame("bound", m, op)>> \o below
  <1>1. CASE Fail(below)
    BY <1>1, FailTally
  <1>2. CASE ~Fail(below)
    <2>1. /\ state[m] \in StateAllowed(op)
          /\ \/ op \in {"start", "resume"} /\ start(m, op = "start", waiting)
             \/ op \in {"pause", "stop"} /\ stop(m, op = "stop", refs, waiting)
          /\ UNCHANGED modules
      BY <1>2 DEF m_mod_state_op, M_MOD_ASSERT
    <2>2. m \in Born
      BY <2>1 DEF StateAllowed, StateOp, Born
    <2>3. "bound" \in Fns \ {"user", "dereg"} /\ op \in Ats /\ m \in Mods \cup {NoMod}
      BY DEF Fns, Ats
    <2>4. Tallied(waiting)
      BY <2>3, LightFrame, PushLight DEF Tallied
    <2> HIDE DEF waiting
    <2>5. CASE start(m, op = "start", waiting)
      BY <2>2, <2>4, <2>5, StartTally
    <2>6. CASE stop(m, op = "stop", refs, waiting)
      <3>1. (op = "stop") \in BOOLEAN
        OBVIOUS
      <3>2. Tally(waiting, state, refs, modules', handle, bound)
        BY <2>1, <2>4 DEF Tallied
      <3> QED
        BY <2>2, <2>6, <3>1, <3>2, StopTally
    <2> QED
      BY <2>1, <2>5, <2>6
  <1> QED
    BY <1>1, <1>2

LEMMA DeregTally ==
    ASSUME CoreInv, NEW m \in Born, NEW fromUser, NEW below, Tallied(below),
           mod_deregister(m, fromUser, below)
    PROVE  TallyInv'
  <1>1. CASE Fail(below)
    BY <1>1, FailTally
  <1>2. CASE ~Fail(below)
    <2> DEFINE w == Frame("dereg", m, IF fromUser THEN "user" ELSE "lib")
               waiting == <<w>> \o below
               l == Lock(refs, m)
               q == [x \in Mods |-> l[x] - (IF x \in Homonyms(m) THEN 1 ELSE 0)]
    <2>1. modules' = modules \ Homonyms(m) /\ stop(m, TRUE, q, waiting)
      BY <1>2 DEF mod_deregister
    <2>2. m \in Mods /\ state[m] # "NONE" /\ (IF fromUser THEN "user" ELSE "lib") \in Ats
      BY DEF Born, Ats
    <2>3. Tally(waiting, state, l, modules, handle, bound)
      BY <2>2, PushHolder DEF Tallied
    <2> HIDE DEF waiting, l
    <2>4. l \in [Mods -> Int] /\ handle \in [Mods -> BOOLEAN]
      BY <2>3 DEF Tally, CoreInv, DataInv
    <2>5. /\ q \in [Mods -> Int]
          /\ \A x \in Mods : q[x] = l[x] - (IF x \in Homonyms(m) THEN 1 ELSE 0)
      BY <2>4
    <2> HIDE DEF q
    <2>6. \A x \in Mods :
             q[x] = l[x] + ((IF x \in modules' THEN 1 ELSE 0) + (IF handle[x] THEN 1 ELSE 0))
                         - ((IF x \in modules THEN 1 ELSE 0) + (IF handle[x] THEN 1 ELSE 0))
      BY <2>1, <2>4, <2>5 DEF Homonyms
    <2>7. Tally(waiting, state, q, modules', handle, bound)
      BY <2>3, <2>5, <2>6, TallyOwners
    <2> QED
      BY <2>1, <2>7, StopTally
  <1> QED
    BY <1>1, <1>2

LEMMA RegisterTally ==
    ASSUME CoreInv, TallyInv, NEW m \in Mods, state[m] = "NONE", NEW below, Tallied(below),
           register(m, below)
    PROVE  TallyInv'
  <1>1. CASE Fail(below)
    BY <1>1, FailTally
  <1>2. CASE UNCHANGED <<modVars, ctxVars, stack, ret>>
    BY <1>2 DEF TallyInv, modVars, ctxVars
  <1>3. CASE /\ state' = [state EXCEPT ![m] = "IDLE"]
             /\ refs' = [refs EXCEPT ![m] = 2]
             /\ handle' = [handle EXCEPT ![m] = TRUE]
             /\ modules' = modules \cup {m}
             /\ stack' = below /\ bound' = bound
    <2>1. /\ handle \in [Mods -> BOOLEAN] /\ state \in [Mods -> States]
          /\ m \notin modules /\ ~handle[m]
      BY DEF CoreInv, DataInv, Born
    <2>2. refs[m] = 0 /\ refs \in [Mods -> Int]
      <3>1. refs[m] = 0
        BY <2>1, UnbornUnowed DEF Tallied
      <3>2. refs \in [Mods -> Int]
        BY DEF Tallied, Tally
      <3> QED
        BY <3>1, <3>2
    <2>3. /\ refs' \in [Mods -> Int]
          /\ \A x \in Mods : refs'[x] = IF x = m THEN 2 ELSE refs[x]
      BY <1>3, <2>2
    <2>4. \A x \in Mods : handle'[x] = IF x = m THEN TRUE ELSE handle[x]
      BY <1>3, <2>1
    <2>5. \A x \in Mods :
             refs'[x] = refs[x] + ((IF x \in modules' THEN 1 ELSE 0) + (IF handle'[x] THEN 1 ELSE 0))
                                - ((IF x \in modules THEN 1 ELSE 0) + (IF handle[x] THEN 1 ELSE 0))
      BY <1>3, <2>1, <2>2, <2>3, <2>4
    <2>6. Tally(below, state, refs', modules', handle', bound)
      BY <2>3, <2>5, TallyOwners DEF Tallied
    <2>7. \A x \in Mods : state[x] # "NONE" => state'[x] # "NONE"
      BY <1>3, <2>1
    <2>8. Tally(below, state', refs', modules', handle', bound)
      BY <2>6, <2>7, TallyState
    <2> QED
      BY <1>3, <2>8 DEF TallyInv
  <1> QED
    BY <1>1, <1>2, <1>3 DEF register

LEMMA MRegisterTally ==
    ASSUME CoreInv, TallyInv, NEW m \in Mods, state[m] = "NONE", NEW below, Tallied(below),
           m_mod_register(m, below)
    PROVE  TallyInv'
  <1>1. CASE Fail(below)
    BY <1>1, FailTally
  <1>2. CASE register(m, below)
    BY <1>2, RegisterTally
  <1>3. CASE \E x \in Homonyms(m) :
                 mod_deregister(x, FALSE, <<Frame("register", m, "call")>> \o below)
    <2> DEFINE waiting == <<Frame("register", m, "call")>> \o below
    <2>1. PICK x \in Homonyms(m) : mod_deregister(x, FALSE, waiting)
      BY <1>3
    <2>2. x \in Born
      BY DEF Homonyms, CoreInv, DataInv
    <2>3. "register" \in Fns \ {"user", "dereg"} /\ "call" \in Ats /\ m \in Mods \cup {NoMod}
      BY DEF Fns, Ats
    <2>4. Tallied(waiting)
      BY <2>3, LightFrame, PushLight DEF Tallied
    <2> HIDE DEF waiting
    <2> QED
      BY <2>1, <2>2, <2>4, DeregTally
  <1> QED
    BY <1>1, <1>2, <1>3 DEF m_mod_register

-----------------------------------------------------------------------------
(***************************************************************************)
(* One lemma per step of the library.                                       *)
(***************************************************************************)
LEMMA TalliedStack ==
    ASSUME TallyInv
    PROVE  Tallied(stack)
  BY DEF TallyInv, Tallied

(* A function that holds no reference returns.                               *)
LEMMA BelowTallied ==
    ASSUME CoreInv, TallyInv, Top.fn \notin {"user", "dereg"}
    PROVE  Tallied(Below) /\ BornFrame(Top, state) /\ Top \in FrameType
  <1>1. Len(stack) > 1 /\ stack[1] = Top /\ Top \in FrameType
    BY BelowReady
  <1>2. BornFrame(Top, state) /\ refs \in [Mods -> Int]
    <2>1. 1 \in 1..Len(stack)
      BY <1>1 DEF TallyInv, Tally
    <2> QED
      BY <1>1, <2>1 DEF TallyInv, Tally, AllBorn
  <1>3. \A m \in Mods : Holds(stack[1], m) = 0
    BY <1>1 DEF Holds, Holders
  <1>4. \A m \in Mods : refs[m] = refs[m] - Holds(stack[1], m)
    BY <1>2, <1>3
  <1>5. Tally(Tail(stack), state, refs, modules, handle, bound)
    BY <1>1, <1>2, <1>4, TallyPop DEF TallyInv
  <1> QED
    BY <1>1, <1>2, <1>5 DEF Tallied, Below

(* A hook or a deregistration of a module ends.                              *)
LEMMA HolderReturns ==
    ASSUME CoreInv, TallyInv, Top.fn \in {"user", "dereg"}, Top.mod \in Mods
    PROVE  /\ Tally(Below, state, Unlock(refs, Top.mod), modules, handle, bound)
           /\ Unlock(refs, Top.mod) \in [Mods -> Int] /\ refs \in [Mods -> Int]
           /\ \A x \in Mods : Unlock(refs, Top.mod)[x] = IF x = Top.mod THEN refs[x] - 1 ELSE refs[x]
  <1> DEFINE q == Unlock(refs, Top.mod)
  <1>1. stack[1] = Top /\ Top \in FrameType
    BY HeadFirst DEF CoreInv, Shape, Top
  <1>2. ~Main(stack[1])
    <2>0. 1 \in 1..Len(stack)
      BY DEF CoreInv, Shape
    <2>1. Main(stack[1]) => 1 = Len(stack)
      BY <2>0 DEF CoreInv, Shape
    <2> QED
      BY <1>1, <2>1, LifecycleAssumption DEF CoreInv, Shape
  <1>3. Len(stack) > 1
    BY <1>2, ShapePop DEF CoreInv
  <1>4. refs \in [Mods -> Int]
    BY DEF TallyInv, Tally
  <1>5. q \in [Mods -> Int] /\ \A x \in Mods : q[x] = IF x = Top.mod THEN refs[x] - 1 ELSE refs[x]
    BY <1>4 DEF Unlock
  <1> HIDE DEF q
  <1>6. \A x \in Mods : Holds(stack[1], x) = IF x = Top.mod THEN 1 ELSE 0
    BY <1>1 DEF Holds, Holders
  <1>7. \A x \in Mods : q[x] = refs[x] - Holds(stack[1], x)
    BY <1>4, <1>5, <1>6
  <1>8. Tally(Tail(stack), state, q, modules, handle, bound)
    BY <1>3, <1>5, <1>7, TallyPop DEF TallyInv
  <1> QED
    BY <1>4, <1>5, <1>8 DEF q, Below

LEMMA DtorTally ==
    ASSUME CoreInv, TallyInv, NEW m \in Mods, module_dtor(m)
    PROVE  TallyInv'
  <1>1. Tally(stack, state, [x \in Mods |-> refs[x] - Occurrences(bound[m], x)], modules, handle,
              [bound EXCEPT ![m] = <<>>])
    BY TallyUnbind DEF TallyInv
  <1> QED
    BY <1>1 DEF TallyInv, module_dtor

LEMMA HookReturnsTally ==
    ASSUME CoreInv, TallyInv, NEW result \in BOOLEAN, HookReturns(result)
    PROVE  TallyInv'
  <1>1. /\ Top.fn = "user" /\ Top.mod # NoMod /\ stack' = Below /\ refs' = Unlock(refs, Top.mod)
        /\ UNCHANGED <<state, modules, handle, bound>>
    BY DEF HookReturns, At
  <1>2. Top.mod \in Mods
    <2>1. Top \in FrameType
      BY HeadFirst DEF CoreInv, Shape, Top
    <2> QED
      BY <1>1, <2>1 DEF FrameType
  <1> QED
    BY <1>1, <1>2, HolderReturns DEF TallyInv

LEMMA DeregResumesTally ==
    ASSUME CoreInv, TallyInv, DeregResumes
    PROVE  TallyInv'
  <1>1. Top.fn = "dereg"
    BY DEF DeregResumes, At
  <1>2. Top.mod \in Born /\ Top.mod \in Mods
    BY <1>1, BelowReady DEF FrameOK, Born
  <1> DEFINE user == Top.at = "user" /\ handle[Top.mod]
             l == Unlock(refs, Top.mod)
  <1>3. /\ state' = [state EXCEPT ![Top.mod] = "ZOMBIE"] /\ stack' = Below
        /\ refs' = [refs EXCEPT ![Top.mod] = @ - (IF user THEN 2 ELSE 1)]
        /\ handle' = [handle EXCEPT ![Top.mod] = @ /\ ~user]
        /\ UNCHANGED <<bound, modules>>
    BY DEF DeregResumes
  <1>4. /\ Tally(Below, state, l, modules, handle, bound) /\ refs \in [Mods -> Int]
        /\ \A x \in Mods : l[x] = IF x = Top.mod THEN refs[x] - 1 ELSE refs[x]
    BY <1>1, <1>2, HolderReturns
  <1> HIDE DEF l
  <1>5. user \in BOOLEAN /\ (user => handle[Top.mod])
    OBVIOUS
  <1> HIDE DEF user
  <1>6. /\ refs' \in [Mods -> Int]
        /\ \A x \in Mods : refs'[x] = IF x = Top.mod THEN refs[x] - (IF user THEN 2 ELSE 1) ELSE refs[x]
    BY <1>2, <1>3, <1>4
  <1>7. handle \in [Mods -> BOOLEAN]
    BY DEF CoreInv, DataInv
  <1>8. /\ \A x \in Mods \ {Top.mod} : handle'[x] = handle[x]
        /\ handle'[Top.mod] = (handle[Top.mod] /\ ~user)
    BY <1>2, <1>3, <1>7
  <1>9. ASSUME NEW x \in Mods
        PROVE  refs'[x] = l[x] + ((IF x \in modules THEN 1 ELSE 0) + (IF handle'[x] THEN 1 ELSE 0))
                               - ((IF x \in modules THEN 1 ELSE 0) + (IF handle[x] THEN 1 ELSE 0))
    <2>1. CASE x # Top.mod
      BY <1>4, <1>6, <1>8, <2>1
    <2>2. CASE x = Top.mod /\ user
      <3>1. handle[x] /\ ~handle'[x] /\ refs'[x] = refs[x] - 2 /\ l[x] = refs[x] - 1
        BY <1>4, <1>5, <1>6, <1>8, <2>2
      <3> QED
        BY <1>4, <3>1
    <2>3. CASE x = Top.mod /\ ~user
      <3>1. refs'[x] = refs[x] - 1 /\ l[x] = refs[x] - 1
        BY <1>4, <1>6, <2>3
      <3>2. handle'[x] <=> handle[x]
        BY <1>8, <2>3
      <3> QED
        BY <1>4, <3>1, <3>2
    <2> QED
      BY <2>1, <2>2, <2>3
  <1>10. Tally(Below, state, refs', modules, handle', bound)
    BY <1>4, <1>6, <1>9, TallyOwners
  <1>11. \A q \in Mods : state[q] # "NONE" => state'[q] # "NONE"
    BY <1>2, <1>3, StillBorn DEF CoreInv
  <1>12. Tally(Below, state', refs', modules, handle', bound)
    BY <1>10, <1>11, TallyState
  <1> QED
    BY <1>3, <1>12 DEF TallyInv

LEMMA StartResumesTally ==
    ASSUME CoreInv, TallyInv, StartResumes
    PROVE  TallyInv'
  <1> DEFINE waiting == <<Frame("start", Top.mod, "stopped")>> \o Below
  <1>1. Top.fn = "start"
    BY DEF StartResumes, At
  <1>2. Tallied(Below)
    BY <1>1, BelowTallied
  <1>3. Top.mod \in Born /\ Top.mod \in Mods
    BY <1>1, BelowReady DEF FrameOK, Born
  <1>4. CASE UNCHANGED modules /\ stop(Top.mod, TRUE, refs, waiting)
    <2>1. /\ "start" \in Fns \ {"user", "dereg"} /\ "stopped" \in Ats
          /\ Top.mod \in Mods \cup {NoMod}
      BY <1>3 DEF Fns, Ats
    <2>2. Tally(waiting, state, refs, modules', handle, bound)
      BY <1>2, <1>4, <2>1, LightFrame, PushLight DEF Tallied
    <2> HIDE DEF waiting
    <2> QED
      BY <1>3, <1>4, <2>2, StopTally
  <1>5. CASE stack' = Below /\ UNCHANGED <<modVars, ctxVars>>
    BY <1>2, <1>5, QuietTally DEF modVars, ctxVars
  <1> QED
    BY <1>4, <1>5 DEF StartResumes

LEMMA StopResumesTally ==
    ASSUME CoreInv, TallyInv, StopResumes
    PROVE  TallyInv'
  <1>1. Tallied(Below)
    BY BelowTallied DEF StopResumes, At
  <1> QED
    BY <1>1, QuietTally DEF StopResumes, modVars, ctxVars

LEMMA BoundResumesTally ==
    ASSUME CoreInv, TallyInv, BoundResumes
    PROVE  TallyInv'
  <1> DEFINE next == Top.n + 1
             w == [Top EXCEPT !.n = next]
  <1>1. Top.fn = "bound"
    BY DEF BoundResumes, At
  <1>2. Tallied(Below) /\ BornFrame(Top, state) /\ Top \in FrameType /\ FrameOK(Top, state)
    BY <1>1, BelowTallied, BelowReady
  <1>3. CASE stack' = Below /\ UNCHANGED <<modVars, ctxVars>>
    BY <1>2, <1>3, QuietTally DEF modVars, ctxVars
  <1>4. CASE UNCHANGED <<modVars, ctxVars, stack, ret>>
    BY <1>4 DEF TallyInv, modVars, ctxVars
  <1>5. CASE /\ ~(Top.n = 0 /\ ret # "ok") /\ Top.n # -1 /\ ~(next > Len(bound[Top.mod]))
             /\ m_mod_state_op(Top.at, bound[Top.mod][next], <<w>> \o Below)
    <2>1. w \in FrameType /\ w.fn = "bound" /\ w.todo = Top.todo
      BY <1>1, <1>2, <1>5 DEF FrameType
    <2> HIDE DEF w
    <2>2. Tallied(<<w>> \o Below)
      BY <1>2, <2>1, PushFree DEF Tallied, BornFrame
    <2>3. Top.mod \in Mods /\ Top.at \in StateOp /\ next \in Nat /\ next >= 1
      BY <1>1, <1>2, <1>5 DEF FrameOK, FrameType
    <2>4. bound[Top.mod] \in Seq(Mods)
      BY <2>3 DEF CoreInv, DataInv
    <2>5. bound[Top.mod][next] \in Mods
      BY <1>5, <2>3, <2>4
    <2> QED
      BY <1>5, <2>2, <2>3, <2>5, StateOpTally
  <1> QED
    BY <1>3, <1>4, <1>5 DEF BoundResumes

LEMMA RegisterResumesTally ==
    ASSUME CoreInv, TallyInv, RegisterResumes
    PROVE  TallyInv'
  <1>1. Top.fn = "register"
    BY DEF RegisterResumes, At
  <1>2. Tallied(Below) /\ FrameOK(Top, state)
    BY <1>1, BelowTallied, BelowReady
  <1>3. Top.mod \in Mods /\ state[Top.mod] = "NONE"
    BY <1>1, <1>2 DEF FrameOK
  <1>4. CASE register(Top.mod, Below)
    BY <1>2, <1>3, <1>4, RegisterTally
  <1>5. CASE stack' = Below /\ UNCHANGED <<modVars, ctxVars>>
    BY <1>2, <1>5, QuietTally DEF modVars, ctxVars
  <1> QED
    BY <1>4, <1>5 DEF RegisterResumes

LEMMA EntryDoneTally ==
    ASSUME CoreInv, TallyInv, Top.fn \in {"iter", "flush"}, EntryDone
    PROVE  TallyInv'
  <1> DEFINE w == [Top EXCEPT !.at = "next", !.mod = NoMod]
  <1>1. Tallied(Below) /\ BornFrame(Top, state) /\ Top \in FrameType
    BY BelowTallied
  <1>2. w \in FrameType /\ w.fn = Top.fn /\ w.todo = Top.todo
    BY <1>1 DEF FrameType, Ats
  <1>3. \/ stack' = Below /\ UNCHANGED <<modVars, ctxVars>>
        \/ stack' = <<w>> \o Below /\ UNCHANGED <<modVars, ctxVars>>
    BY DEF EntryDone, IterEnds
  <1> HIDE DEF w
  <1>4. Tallied(<<w>> \o Below)
    BY <1>1, <1>2, PushFree DEF Tallied, BornFrame
  <1> QED
    BY <1>1, <1>3, <1>4, QuietTally DEF modVars, ctxVars

(* An iteration of the map comes to entry m.                                 *)
LEMMA VisitTallied ==
    ASSUME CoreInv, TallyInv, Top.fn \in {"iter", "flush"}, NEW m \in modules,
           NEW at \in {"next", "evaluated", "called"}, at = "evaluated" => Top.fn = "iter"
    PROVE  Tallied(<<Visit(Top, m, at)>> \o Below) /\ Visit(Top, m, at) \in FrameType
  <1>1. Tallied(Below) /\ BornFrame(Top, state) /\ Top \in FrameType
    BY BelowTallied
  <1>2. Visit(Top, m, at) \in FrameType /\ Visit(Top, m, at).fn = Top.fn
    BY <1>1, Visited DEF CoreInv
  <1>3. Visit(Top, m, at).todo = Top.todo
    BY <1>1 DEF FrameType, Visit
  <1> QED
    BY <1>1, <1>2, <1>3, PushFree DEF Tallied, BornFrame

LEMMA EvalNextTally ==
    ASSUME CoreInv, TallyInv, EvalNext
    PROVE  TallyInv'
  <1>1. Top.fn = "iter" /\ Top.at = "next"
    BY DEF EvalNext, At
  <1>2. Tallied(Below) /\ Top \in FrameType
    BY <1>1, BelowTallied
  <1>3. CASE IterEnds("ok")
    BY <1>2, <1>3, QuietTally DEF IterEnds, modVars, ctxVars
  <1>4. CASE ~IterEnds("ok")
    <2>1. PICK m \in modules :
            \/ /\ stack' = <<Frame("user", m, "eval"), Visit(Top, m, "evaluated")>> \o Below
               /\ refs' = Lock(refs, m)
               /\ UNCHANGED <<state, modules, handle, bound>>
            \/ /\ stack' = <<Visit(Top, m, "next")>> \o Below
               /\ UNCHANGED <<state, refs, modules, handle, bound>>
      <3>1. PICK m \in modules :
              LET v == [Top EXCEPT !.mod = m, !.seen = @ \cup {m}, !.n = Cardinality(modules)]
              IN  \/ /\ stack' = <<Frame("user", m, "eval"), [v EXCEPT !.at = "evaluated"]>> \o Below
                     /\ refs' = Lock(refs, m)
                     /\ UNCHANGED <<state, modules, handle, bound>>
                  \/ /\ stack' = <<v>> \o Below
                     /\ UNCHANGED <<state, refs, modules, handle, bound>>
        BY <1>4 DEF EvalNext, MayIterate, modVars, ctxVars
      <3> DEFINE v == [Top EXCEPT !.mod = m, !.seen = @ \cup {m}, !.n = Cardinality(modules)]
      <3>2. [v EXCEPT !.at = "evaluated"] = Visit(Top, m, "evaluated")
        BY <1>2 DEF FrameType, Visit
      <3>3. v = Visit(Top, m, "next")
        BY <1>1, <1>2 DEF FrameType, Visit
      <3> HIDE DEF v
      <3> QED
        BY <3>1, <3>2, <3>3 DEF v
    <2>2. CASE /\ stack' = <<Visit(Top, m, "next")>> \o Below
               /\ UNCHANGED <<state, refs, modules, handle, bound>>
      <3>1. Tallied(<<Visit(Top, m, "next")>> \o Below)
        BY <1>1, VisitTallied
      <3> QED
        BY <2>2, <3>1, QuietTally
    <2>3. CASE /\ stack' = <<Frame("user", m, "eval"), Visit(Top, m, "evaluated")>> \o Below
               /\ refs' = Lock(refs, m)
               /\ UNCHANGED <<state, modules, handle, bound>>
      <3> DEFINE u == Frame("user", m, "eval")
                 g == Visit(Top, m, "evaluated")
      <3>1. Tallied(<<g>> \o Below) /\ g \in FrameType
        BY <1>1, VisitTallied
      <3>2. m \in Born /\ "eval" \in Where
        BY DEF CoreInv, DataInv, Where
      <3>3. u \in FrameType
        <4>1. "user" \in Fns /\ "eval" \in Ats /\ m \in Mods \cup {NoMod}
          BY <3>2 DEF Fns, Ats, Born
        <4> QED
          BY <4>1, NewFrame
      <3>4. Below \in Seq(FrameType)
        BY <1>2 DEF Tallied, Tally
      <3> HIDE DEF u, g
      <3>5. stack' = <<u>> \o (<<g>> \o Below)
        BY <2>3, <3>1, <3>3, <3>4, PushTwo DEF u, g
      <3> QED
        BY <2>3, <3>1, <3>2, <3>5, HookTally DEF u
    <2> QED
      BY <2>1, <2>2, <2>3
  <1> QED
    BY <1>3, <1>4

LEMMA EvalResumesTally ==
    ASSUME CoreInv, TallyInv, EvalResumes
    PROVE  TallyInv'
  <1> DEFINE w == [Top EXCEPT !.at = "started"]
  <1>1. Top.fn = "iter" /\ Top.at = "evaluated"
    BY DEF EvalResumes, At
  <1>2. Tallied(Below) /\ BornFrame(Top, state) /\ Top \in FrameType /\ FrameOK(Top, state)
    BY <1>1, BelowTallied, BelowReady
  <1>3. CASE IterEnds(ret)
    BY <1>2, <1>3, QuietTally DEF IterEnds, modVars, ctxVars
  <1>4. CASE start(Top.mod, TRUE, <<w>> \o Below)
    <2>1. Top.mod \in Born
      BY <1>1, <1>2 DEF FrameOK, Awaits, Born
    <2>2. w \in FrameType /\ w.fn = "iter" /\ w.todo = Top.todo
      BY <1>1, <1>2 DEF FrameType, Ats
    <2> HIDE DEF w
    <2>3. Tallied(<<w>> \o Below)
      BY <1>2, <2>2, PushFree DEF Tallied, BornFrame
    <2> QED
      BY <1>4, <2>1, <2>3, StartTally
  <1> QED
    BY <1>3, <1>4 DEF EvalResumes

LEMMA LoopTally ==
    ASSUME CoreInv, NEW below, Tallied(below), loop_start(below) \/ loop_stop(below)
    PROVE  TallyInv'
  <1> DEFINE i == Frame("iter", NoMod, "next")
             f == Frame("flush", NoMod, "next")
             l == Frame("lstop", NoMod, "call")
  <1>1. /\ stack' = <<i>> \o below \/ stack' = <<f, l>> \o below
        /\ UNCHANGED <<state, refs, modules, handle, bound>>
    BY DEF loop_start, loop_stop, modVars
  <1>2. /\ {"iter", "flush", "lstop"} \subseteq Fns \ {"user", "dereg"} /\ {"next", "call"} \subseteq Ats
        /\ NoMod \in Mods \cup {NoMod}
    BY DEF Fns, Ats
  <1>3. Light(i) /\ Light(f) /\ Light(l)
    BY <1>2, LightFrame
  <1> HIDE DEF f, l, i
  <1>4. Tallied(<<i>> \o below) /\ Tallied(<<l>> \o below)
    BY <1>3, PushLight DEF Tallied
  <1>5. Tallied(<<f>> \o (<<l>> \o below))
    BY <1>3, <1>4, PushLight DEF Tallied
  <1>6. <<f, l>> \o below = <<f>> \o (<<l>> \o below)
    <2>1. below \in Seq(FrameType) /\ f \in FrameType /\ l \in FrameType
      BY <1>3 DEF Tallied, Tally, Light
    <2> QED
      BY <2>1, PushTwo
  <1> QED
    BY <1>1, <1>4, <1>5, <1>6, QuietTally

(* Events are polled for modules that run.                                   *)
LEMMA RecvTally ==
    ASSUME CoreInv, NEW below, Tallied(below), recv_events(below)
    PROVE  TallyInv'
  <1>1. PICK batch \in Batches :
            stack' = <<[Frame("recv", NoMod, "call") EXCEPT !.todo = batch]>> \o below
    BY DEF recv_events
  <1> DEFINE r == Frame("recv", NoMod, "call")
             w == [r EXCEPT !.todo = batch]
  <1>2. r \in FrameType /\ r.fn = "recv"
    <2>1. "recv" \in Fns /\ "call" \in Ats /\ NoMod \in Mods \cup {NoMod}
      BY DEF Fns, Ats
    <2> QED
      BY <2>1, NewFrame
  <1>3. batch \in Seq(Event) /\ \A j \in 1..Len(batch) : state[batch[j].mod] # "NONE"
    <2>1. PICK n \in 1..MaxBatch : batch \in [1..n -> [mod : Running, src : {TRUE}]]
      BY DEF Batches
    <2>2. [mod : Running, src : {TRUE}] \subseteq Event
      BY DEF Running, Event
    <2>3. batch \in [1..n -> Event]
      BY <2>1, <2>2
    <2>4. n \in Nat
      BY LifecycleAssumption
    <2>5. batch \in Seq(Event) /\ Len(batch) = n
      BY <2>3, <2>4
    <2>6. \A j \in 1..n : batch[j].mod \in Running
      BY <2>1
    <2> QED
      BY <2>5, <2>6 DEF Running
  <1> HIDE DEF r
  <1>4. w \in FrameType /\ w.fn = "recv" /\ w.todo = batch
    BY <1>2, <1>3 DEF FrameType
  <1>5. stack' = <<w>> \o below
    BY <1>1 DEF r
  <1> HIDE DEF w
  <1>6. Tallied(<<w>> \o below)
    BY <1>3, <1>4, PushFree DEF Tallied
  <1> QED
    BY <1>5, <1>6, QuietTally DEF recv_events, modVars, ctxVars

LEMMA LoopResumesTally ==
    ASSUME CoreInv, TallyInv, LoopResumes
    PROVE  TallyInv'
  <1>1. Top.fn = "loop"
    BY DEF LoopResumes, At
  <1>2. Tallied(Below) /\ Tallied(stack)
    BY <1>1, BelowTallied, TalliedStack
  <1> QED
    BY <1>2, RecvTally, LoopTally DEF LoopResumes

LEMMA RecvEventTally ==
    ASSUME CoreInv, TallyInv, RecvEvent
    PROVE  TallyInv'
  <1> DEFINE e == Head(Top.todo)
             g == [Top EXCEPT !.todo = Tail(@)]
  <1>1. Top.fn = "recv" /\ Top.todo # <<>>
    BY DEF RecvEvent, At
  <1>2. Tallied(Below) /\ BornFrame(Top, state) /\ Top \in FrameType
    BY <1>1, BelowTallied
  <1>3. CASE UNCHANGED <<modVars, ctxVars, stack, ret>>
    BY <1>3 DEF TallyInv, modVars, ctxVars
  <1>4. CASE call_pubsub_cb(e.mod, "evt", <<g>> \o Below)
    <2>1. Top.todo \in Seq(Event) /\ Len(Top.todo) >= 1
      BY <1>1, <1>2 DEF FrameType
    <2>2. /\ e = Top.todo[1] /\ e \in Event /\ Tail(Top.todo) \in Seq(Event)
          /\ \A j \in 1..Len(Tail(Top.todo)) : j + 1 \in 1..Len(Top.todo) /\ Tail(Top.todo)[j] = Top.todo[j + 1]
      BY <2>1
    <2>3. e.mod \in Born
      <3>1. 1 \in 1..Len(Top.todo)
        BY <2>1
      <3> QED
        BY <1>2, <2>2, <3>1 DEF Event, BornFrame, Born
    <2>4. g \in FrameType /\ g.fn = "recv" /\ g.todo = Tail(Top.todo)
      BY <1>1, <1>2, <2>2 DEF FrameType
    <2> HIDE DEF e, g
    <2>5. \A j \in 1..Len(g.todo) : state[g.todo[j].mod] # "NONE"
      BY <1>2, <2>2, <2>4 DEF BornFrame
    <2>6. Tallied(<<g>> \o Below)
      BY <1>2, <2>4, <2>5, PushFree DEF Tallied
    <2>7. "evt" \in Where
      BY DEF Where
    <2> QED
      BY <1>4, <2>3, <2>6, <2>7, HookTally DEF call_pubsub_cb
  <1> QED
    BY <1>3, <1>4 DEF RecvEvent

LEMMA RecvEndsTally ==
    ASSUME CoreInv, TallyInv, RecvDone \/ \E real \in BOOLEAN : RecvFails(real)
    PROVE  TallyInv'
  <1>1. Top.fn = "recv"
    BY DEF RecvDone, RecvFails, At
  <1>2. Tallied(Below)
    BY <1>1, BelowTallied
  <1>3. "iter" \in Fns \ {"user", "dereg"} /\ "next" \in Ats /\ NoMod \in Mods \cup {NoMod}
    BY DEF Fns, Ats
  <1>4. Tallied(<<Frame("iter", NoMod, "next")>> \o Below)
    BY <1>2, <1>3, LightFrame, PushLight DEF Tallied
  <1> QED
    BY <1>2, <1>4, QuietTally DEF RecvDone, RecvFails, modVars, ctxVars

LEMMA FlushNextTally ==
    ASSUME CoreInv, TallyInv, FlushNext
    PROVE  TallyInv'
  <1>1. Top.fn = "flush" /\ Top.at = "next"
    BY DEF FlushNext, At
  <1>2. Tallied(Below) /\ Top \in FrameType
    BY <1>1, BelowTallied
  <1>3. CASE IterEnds("ok")
    BY <1>2, <1>3, QuietTally DEF IterEnds, modVars, ctxVars
  <1>4. CASE ~IterEnds("ok")
    <2>1. PICK m \in modules :
            \/ call_pubsub_cb(m, "flush", <<Visit(Top, m, "called")>> \o Below)
            \/ /\ stack' = <<Visit(Top, m, "next")>> \o Below
               /\ UNCHANGED <<state, refs, modules, handle, bound>>
      <3>1. PICK m \in modules :
              LET v == [Top EXCEPT !.mod = m, !.seen = @ \cup {m}, !.n = Cardinality(modules)]
              IN  \/ call_pubsub_cb(m, "flush", <<[v EXCEPT !.at = "called"]>> \o Below)
                  \/ /\ stack' = <<v>> \o Below
                     /\ UNCHANGED <<state, refs, modules, handle, bound>>
        BY <1>4 DEF FlushNext, MayIterate, modVars, ctxVars
      <3> DEFINE v == [Top EXCEPT !.mod = m, !.seen = @ \cup {m}, !.n = Cardinality(modules)]
      <3>2. [v EXCEPT !.at = "called"] = Visit(Top, m, "called")
        BY <1>2 DEF FrameType, Visit
      <3>3. v = Visit(Top, m, "next")
        BY <1>1, <1>2 DEF FrameType, Visit
      <3> HIDE DEF v
      <3> QED
        BY <3>1, <3>2, <3>3 DEF v
    <2>2. CASE /\ stack' = <<Visit(Top, m, "next")>> \o Below
               /\ UNCHANGED <<state, refs, modules, handle, bound>>
      <3>1. Tallied(<<Visit(Top, m, "next")>> \o Below)
        BY <1>1, VisitTallied
      <3> QED
        BY <2>2, <3>1, QuietTally
    <2>3. CASE call_pubsub_cb(m, "flush", <<Visit(Top, m, "called")>> \o Below)
      <3>1. Tallied(<<Visit(Top, m, "called")>> \o Below)
        BY <1>1, VisitTallied
      <3>2. m \in Born /\ "flush" \in Where
        BY DEF CoreInv, DataInv, Where
      <3> QED
        BY <2>3, <3>1, <3>2, HookTally DEF call_pubsub_cb
    <2> QED
      BY <2>1, <2>2, <2>3
  <1> QED
    BY <1>3, <1>4

LEMMA LoopStopResumesTally ==
    ASSUME CoreInv, TallyInv, LoopStopResumes
    PROVE  TallyInv'
  <1>1. Top.fn = "lstop"
    BY DEF LoopStopResumes, At
  <1>2. Tallied(Below) /\ Tallied(stack)
    BY <1>1, BelowTallied, TalliedStack
  <1>3. UNCHANGED <<state, refs, modules, handle, bound>> /\ stack' \in {Below, stack}
    BY DEF LoopStopResumes, modVars
  <1> QED
    BY <1>2, <1>3, QuietTally

LEMMA UserTally ==
    ASSUME CoreInv, TallyInv, UserStep
    PROVE  TallyInv'
  <1>1. Tallied(stack) /\ stack \in Seq(FrameType) /\ DataInv
    BY TalliedStack DEF CoreInv, TallyInv, Tally
  <1>2. ASSUME NEW m \in Mods, UserDeregister(m) PROVE TallyInv'
    <2>1. m \in Born /\ mod_deregister(m, TRUE, stack)
      BY <1>1, <1>2 DEF UserDeregister, DataInv
    <2> QED
      BY <1>1, <2>1, DeregTally
  <1>3. ASSUME NEW m \in Mods, UserRegister(m) PROVE TallyInv'
    BY <1>1, <1>3, MRegisterTally DEF UserRegister
  <1>4. ASSUME NEW m \in Mods, NEW op \in StateOp, UserStateOp(op, m) PROVE TallyInv'
    BY <1>1, <1>4, StateOpTally DEF UserStateOp
  <1>5. ASSUME NEW m \in Mods, NEW q \in Mods, UserBind(m, q) PROVE TallyInv'
    <2>1. CASE Fail(stack)
      BY <1>1, <2>1, FailTally
    <2>2. CASE /\ bound' = [bound EXCEPT ![q] = <<m>> \o @]
               /\ refs' = [refs EXCEPT ![m] = @ + 1]
               /\ stack' = Shifted(stack, q)
               /\ UNCHANGED <<state, handle, modules>>
      <3>1. state[m] # "NONE"
        BY <1>1, <1>5 DEF UserBind, DataInv, Born
      <3>2. Alike(stack, Shifted(stack, q))
        BY <1>1, ShiftedAlike
      <3>3. Tallied(Shifted(stack, q))
        BY <1>1, <3>2, TallyAlike DEF Tallied
      <3>4. Tally(Shifted(stack, q), state, [refs EXCEPT ![m] = @ + 1], modules, handle,
                  [bound EXCEPT ![q] = <<m>> \o @])
        BY <3>1, <3>3, TallyBind DEF Tallied
      <3> QED
        BY <2>2, <3>4 DEF TallyInv
    <2> QED
      BY <1>5, <2>1, <2>2 DEF UserBind, m_mod_bind, ctxVars
  <1>6. CASE UserLoop
    <2>1. CASE loop_start(<<Frame("loop", NoMod, "call")>> \o stack)
      <3>1. "loop" \in Fns \ {"user", "dereg"} /\ "call" \in Ats /\ NoMod \in Mods \cup {NoMod}
        BY DEF Fns, Ats
      <3>2. Tallied(<<Frame("loop", NoMod, "call")>> \o stack)
        BY <1>1, <3>1, LightFrame, PushLight DEF Tallied
      <3> QED
        BY <2>1, <3>2, LoopTally
    <2> QED
      BY <1>1, <1>6, <2>1, FailTally DEF UserLoop, m_ctx_loop
  <1>7. CASE UserDispatch
    BY <1>1, <1>7, FailTally, LoopTally, RecvTally DEF UserDispatch, m_ctx_dispatch
  <1>8. CASE UserQuit \/ UserFinalize \/ UserCtxDeregister
    <2>1. UNCHANGED <<state, refs, modules, handle, bound, stack>>
      BY <1>8 DEF UserQuit, UserFinalize, UserCtxDeregister, Fail, modVars, ctxVars
    <2> QED
      BY <1>1, <2>1, QuietTally
  <1> QED
    BY <1>2, <1>3, <1>4, <1>5, <1>6, <1>7, <1>8 DEF UserStep

LEMMA TallyInit == Init => TallyInv
  <1> SUFFICES ASSUME Init PROVE TallyInv
    OBVIOUS
  <1>1. /\ refs = [m \in Mods |-> IF m \in modules THEN 2 ELSE 0]
        /\ handle = [m \in Mods |-> m \in modules] /\ bound = [m \in Mods |-> <<>>]
        /\ stack = <<Frame("user", NoMod, "main")>>
    BY DEF Init
  <1> DEFINE f == Frame("user", NoMod, "main")
  <1>2. f \in FrameType /\ f.fn = "user" /\ f.mod = NoMod /\ f.todo = <<>>
    <2>1. "user" \in Fns /\ "main" \in Ats /\ NoMod \in Mods \cup {NoMod}
      BY DEF Fns, Ats, Where
    <2> QED
      BY <2>1, NewFrame
  <1>3. stack = <<f>>
    BY <1>1
  <1> HIDE DEF f
  <1>4. stack \in Seq(FrameType) /\ Len(stack) = 1 /\ stack[1] = f
    BY <1>2, <1>3
  <1>5. /\ bound \in [Mods -> Seq(Mods)]
        /\ \A k \in Mods : Len(bound[k]) = 0
    <2>1. <<>> \in Seq(Mods) /\ Len(<<>>) = 0
      OBVIOUS
    <2> QED
      BY <1>1, <2>1
  <1>6. refs \in [Mods -> Int]
    BY <1>1
  <1>7. AllBorn(stack, state, bound)
    <2>1. BornFrame(f, state)
      <3>1. Len(f.todo) = 0
        BY <1>2
      <3> QED
        BY <1>2, <3>1, LifecycleAssumption DEF BornFrame
    <2>2. \A i \in 1..Len(stack) : BornFrame(stack[i], state)
      BY <1>4, <2>1
    <2>3. \A k \in Mods : \A i \in 1..Len(bound[k]) : state[bound[k][i]] # "NONE"
      BY <1>5
    <2> QED
      BY <2>2, <2>3 DEF AllBorn
  <1>8. ASSUME NEW m \in Mods PROVE refs[m] = Owed(stack, modules, handle, bound, m)
    <2>1. Count(stack, Holders(m)) = 0
      <3>1. \A i \in 1..Len(stack) : stack[i] \notin Holders(m)
        BY <1>2, <1>4, LifecycleAssumption DEF Holders
      <3> QED
        BY <1>4, <3>1, CountNone
    <2>2. Cardinality(Binds(bound, m)) = 0
      <3>1. \A k \in Mods : \A i \in 1..Len(bound[k]) : bound[k][i] # m
        BY <1>5
      <3> QED
        BY <1>5, <3>1, NoBinds
    <2>3. handle[m] <=> m \in modules
      BY <1>1, Zenon
    <2>4. refs[m] = IF m \in modules THEN 2 ELSE 0
      BY <1>1
    <2> QED
      BY <2>1, <2>2, <2>3, <2>4 DEF Owed
  <1> QED
    BY <1>4, <1>5, <1>6, <1>7, <1>8 DEF TallyInv, Tally

LEMMA TallyStep == CoreInv /\ TallyInv /\ [Next]_vars => TallyInv'
  <1> SUFFICES ASSUME CoreInv, TallyInv, [Next]_vars PROVE TallyInv'
    OBVIOUS
  <1>1. CASE UNCHANGED vars
    BY <1>1 DEF TallyInv, vars, modVars, ctxVars
  <1>2. ASSUME NEW m \in Mods, module_dtor(m) PROVE TallyInv'
    BY <1>2, DtorTally
  <1>3. CASE UserStep
    BY <1>3, UserTally
  <1>4. CASE LibraryStep
    <2>1. CASE EvalStarted
      BY <2>1, EntryDoneTally DEF EvalStarted, At
    <2>2. CASE FlushCalled
      BY <2>2, EntryDoneTally DEF FlushCalled, At
    <2> QED
      BY <1>4, <2>1, <2>2, HookReturnsTally, StartResumesTally, StopResumesTally, BoundResumesTally,
         DeregResumesTally, RegisterResumesTally, EvalNextTally, EvalResumesTally, LoopResumesTally,
         RecvEventTally, RecvEndsTally, FlushNextTally, LoopStopResumesTally DEF LibraryStep
  <1>5. CASE Finished
    BY <1>1, <1>5 DEF Finished
  <1> QED
    BY <1>1, <1>2, <1>3, <1>4, <1>5 DEF Next

LEMMA TallyHolds == Spec => []TallyInv
  <1>1. CoreInv /\ TallyInv /\ [Next]_vars => TallyInv'
    BY TallyStep
  <1> QED
    BY <1>1, CoreHolds, TallyInit, PTL DEF Spec

(* The two kinds of frames that hold references.                             *)
LEMMA HoldersSplit ==
    ASSUME stack \in Seq(FrameType), NEW m \in Mods
    PROVE  Count(stack, Holders(m)) = Frames("user", m) + Frames("dereg", m)
  <1> DEFINE U == {i \in 1..Len(stack) : stack[i].fn = "user" /\ stack[i].mod = m}
             D == {i \in 1..Len(stack) : stack[i].fn = "dereg" /\ stack[i].mod = m}
  <1>1. Places(stack, Holders(m)) = U \cup D
    BY DEF Places, Holders
  <1>2. IsFiniteSet(Places(stack, Holders(m)))
    BY CountNat
  <1>3. U \cap D = {}
    OBVIOUS
  <1>4. Frames("user", m) = Cardinality(U) /\ Frames("dereg", m) = Cardinality(D)
    BY DEF Frames
  <1> HIDE DEF U, D
  <1>5. IsFiniteSet(U) /\ IsFiniteSet(D)
    BY <1>1, <1>2, FS_Subset
  <1>6. Cardinality(U \cup D) = Cardinality(U) + Cardinality(D) - Cardinality(U \cap D)
    BY <1>5, FS_Union
  <1>7. Cardinality({}) = 0 /\ Cardinality(U) \in Nat /\ Cardinality(D) \in Nat
    BY <1>5, FS_EmptySet, FS_CardinalityType
  <1>8. Cardinality(U \cup D) = Cardinality(U) + Cardinality(D)
    <2>1. Cardinality(U \cap D) = Cardinality({})
      BY <1>3, Zenon
    <2> QED
      BY <1>6, <1>7, <2>1
  <1>9. Count(stack, Holders(m)) = Cardinality(U \cup D)
    BY <1>1 DEF Count
  <1> QED
    BY <1>4, <1>8, <1>9

(***************************************************************************)
(* A module's reference count is exact at every moment: one reference while   *)
(* it is in the context's map, one while the user has its handle, one for     *)
(* each hook (M_MEM_LOCK in optional_hook and call_pubsub_cb) and each        *)
(* mod_deregister of it in progress and one for each node of a bound_mods     *)
(* list.  module_dtor, which runs when the count is 0, therefore never frees  *)
(* a module somebody still has a reference to, and none is ever leaked.       *)
(***************************************************************************)
THEOREM ModulesAreCounted == Spec => []ModRefs
  <1>1. TallyInv => ModRefs
    <2> SUFFICES ASSUME TallyInv, NEW m \in Mods
                 PROVE  refs[m] = (IF m \in modules THEN 1 ELSE 0) + (IF handle[m] THEN 1 ELSE 0)
                          + Frames("user", m) + Frames("dereg", m)
                          + Cardinality(UNION {{<<r, i>> : i \in {j \in 1..Len(bound[r]) : bound[r][j] = m}}
                                                  : r \in Mods})
      BY DEF ModRefs, Born
    <2> DEFINE B == UNION {{<<r, i>> : i \in {j \in 1..Len(bound[r]) : bound[r][j] = m}} : r \in Mods}
    <2>1. B = Binds(bound, m)
      <3>1. \A r \in Mods : {j \in 1..Len(bound[r]) : bound[r][j] = m} = Places(bound[r], {m})
        BY DEF Places
      <3>2. \A r \in Mods : {<<r, i>> : i \in {j \in 1..Len(bound[r]) : bound[r][j] = m}}
                               = Nodes(bound, r, m)
        BY <3>1, Zenon DEF Nodes
      <3>3. ASSUME NEW p PROVE p \in B <=> p \in Binds(bound, m)
        <4>1. p \in B <=> \E r \in Mods :
                            p \in {<<r, i>> : i \in {j \in 1..Len(bound[r]) : bound[r][j] = m}}
          BY Zenon
        <4>2. p \in Binds(bound, m) <=> \E r \in Mods : p \in Nodes(bound, r, m)
          BY Zenon DEF Binds
        <4> QED
          BY <3>2, <4>1, <4>2, Zenon
      <3> QED
        BY <3>3, Zenon
    <2> HIDE DEF B
    <2>2. refs[m] = Owed(stack, modules, handle, bound, m) /\ stack \in Seq(FrameType)
      BY DEF TallyInv, Tally
    <2>3. Count(stack, Holders(m)) = Frames("user", m) + Frames("dereg", m)
      BY <2>2, HoldersSplit
    <2>4. Frames("user", m) \in Nat /\ Frames("dereg", m) \in Nat
      <3>1. Len(stack) \in Nat
        BY <2>2
      <3>2. IsFiniteSet(1..Len(stack))
        BY <3>1, FS_Interval
      <3>3. \A fn : {i \in 1..Len(stack) : stack[i].fn = fn /\ stack[i].mod = m} \subseteq 1..Len(stack)
        OBVIOUS
      <3>4. \A fn : IsFiniteSet({i \in 1..Len(stack) : stack[i].fn = fn /\ stack[i].mod = m})
        BY <3>2, <3>3, FS_Subset
      <3> QED
        BY <3>4, FS_CardinalityType DEF Frames
    <2>5. Cardinality(B) \in Nat
      BY <2>1, Counts DEF TallyInv, Tally
    <2>6. refs[m] = (IF m \in modules THEN 1 ELSE 0) + (IF handle[m] THEN 1 ELSE 0)
                    + Frames("user", m) + Frames("dereg", m) + Cardinality(B)
      BY <2>1, <2>2, <2>3, <2>4, <2>5 DEF Owed
    <2> QED
      BY <2>6 DEF B
  <1> QED
    BY <1>1, TallyHolds, PTL

-----------------------------------------------------------------------------
(***************************************************************************)
(* Types.  With a client that starts a module twice running_modules may be    *)
(* too high, but it is never too low: the counter does not wrap.              *)
(***************************************************************************)
RunLow == running \in Int /\ running >= Cardinality(Running)

CtxTypes ==
    /\ persist \in BOOLEAN /\ ctxState \in {"IDLE", "LOOPING"} /\ quit \in BOOLEAN
    /\ finalized \in BOOLEAN /\ curr_mod \in Mods \cup {NoMod}
    /\ ret \in {"ok", "false", "noent", "err"} /\ undefined \in BOOLEAN

TypesInv == RunLow /\ CtxTypes

LEMMA RunLowSame ==
    ASSUME RunLow, state' = state, running' = running
    PROVE  RunLow'
  <1>1. Running' = Running
    BY DEF Running
  <1> QED
    BY <1>1 DEF RunLow

LEMMA RunLowUp ==
    ASSUME DataInv, RunLow, NEW m \in Mods, state' = [state EXCEPT ![m] = "RUNNING"],
           running' = running + 1
    PROVE  RunLow'
  <1>1. Running' = Running \cup {m}
    BY DEF Running, DataInv
  <1>2. Cardinality(Running \cup {m}) = IF m \in Running THEN Cardinality(Running)
                                                         ELSE Cardinality(Running) + 1
    BY RunningFinite, FS_AddElement
  <1>3. running + 1 >= Cardinality(Running \cup {m})
    BY <1>2, RunningFinite DEF RunLow
  <1> QED
    BY <1>1, <1>3 DEF RunLow

LEMMA RunLowDown ==
    ASSUME DataInv, RunLow, NEW m \in Mods, NEW x, x # "RUNNING", state' = [state EXCEPT ![m] = x],
           running' = NotRunningAnymore(m) \/ running' = running
    PROVE  RunLow'
  <1>1. Running' = Running \ {m} /\ (m \in Running <=> state[m] = "RUNNING")
    BY DEF Running, DataInv
  <1>2. Cardinality(Running \ {m}) = IF m \in Running THEN Cardinality(Running) - 1
                                                      ELSE Cardinality(Running)
    BY RunningFinite, FS_RemoveElement
  <1>3. running' \in Int /\ running' >= Cardinality(Running \ {m})
    BY <1>1, <1>2, RunningFinite DEF RunLow, NotRunningAnymore
  <1> QED
    BY <1>1, <1>3 DEF RunLow

LEMMA TypesStay ==
    ASSUME TypesInv, UNCHANGED <<state, running, persist>>,
           ctxState' \in {"IDLE", "LOOPING"}, quit' \in BOOLEAN, finalized' \in BOOLEAN,
           curr_mod' \in Mods \cup {NoMod}, ret' \in {"ok", "false", "noent", "err"},
           undefined' \in BOOLEAN
    PROVE  TypesInv'
  <1>1. RunLow'
    BY RunLowSame DEF TypesInv
  <1>2. CtxTypes'
    BY DEF TypesInv, CtxTypes
  <1> QED
    BY <1>1, <1>2 DEF TypesInv

LEMMA FailTypes ==
    ASSUME TypesInv, NEW below, Fail(below)
    PROVE  TypesInv'
  BY TypesStay DEF Fail, modVars, ctxVars, TypesInv, CtxTypes

LEMMA StartTypes ==
    ASSUME CoreInv, TypesInv, NEW m \in Mods, NEW starting, NEW below, start(m, starting, below)
    PROVE  TypesInv'
  <1>1. CASE Fail(below)
    BY <1>1, FailTypes
  <1>2. CASE /\ state' = [state EXCEPT ![m] = "RUNNING"] /\ running' = running + 1
             /\ ret' \in {ret, "ok"} /\ curr_mod' \in {curr_mod, m}
             /\ UNCHANGED <<persist, ctxState, quit, finalized, undefined>>
    <2>1. RunLow'
      BY <1>2, RunLowUp DEF CoreInv, TypesInv
    <2>2. CtxTypes'
      BY <1>2 DEF TypesInv, CtxTypes
    <2> QED
      BY <2>1, <2>2 DEF TypesInv
  <1> QED
    BY <1>1, <1>2 DEF start

LEMMA StopTypes ==
    ASSUME CoreInv, TypesInv, NEW m \in Mods, NEW stopping, NEW r, NEW below,
           stop(m, stopping, r, below)
    PROVE  TypesInv'
  <1> SUFFICES ASSUME ~Fail(below) PROVE TypesInv'
    BY FailTypes
  <1>1. /\ running' = NotRunningAnymore(m) /\ \E x \in {"STOPPED", "PAUSED"} : state' = [state EXCEPT ![m] = x]
        /\ ret' \in {ret, "ok"} /\ curr_mod' \in {curr_mod, m}
        /\ UNCHANGED <<persist, ctxState, quit, finalized, undefined>>
    BY DEF stop
  <1>2. PICK x \in {"STOPPED", "PAUSED"} : state' = [state EXCEPT ![m] = x]
    BY <1>1
  <1>3. RunLow'
    BY <1>1, <1>2, RunLowDown DEF CoreInv, TypesInv
  <1>4. CtxTypes'
    BY <1>1 DEF TypesInv, CtxTypes
  <1> QED
    BY <1>3, <1>4 DEF TypesInv

LEMMA StateOpTypes ==
    ASSUME CoreInv, TypesInv, NEW op, NEW m \in Mods, NEW below, m_mod_state_op(op, m, below)
    PROVE  TypesInv'
  <1> DEFINE waiting == <<Frame("bound", m, op)>> \o below
  <1>1. \/ Fail(below) \/ start(m, op = "start", waiting)
        \/ stop(m, op = "stop", refs, waiting)
    BY DEF m_mod_state_op
  <1> HIDE DEF waiting
  <1> QED
    BY <1>1, FailTypes, StartTypes, StopTypes

LEMMA DeregTypes ==
    ASSUME CoreInv, TypesInv, NEW m \in Mods, NEW fromUser, NEW below,
           mod_deregister(m, fromUser, below)
    PROVE  TypesInv'
  <1>1. CASE Fail(below)
    BY <1>1, FailTypes
  <1>2. CASE ~Fail(below)
    <2>1. PICK r, s : stop(m, TRUE, r, s)
      BY <1>2 DEF mod_deregister
    <2> QED
      BY <2>1, StopTypes
  <1> QED
    BY <1>1, <1>2

LEMMA RegisterTypes ==
    ASSUME CoreInv, TypesInv, NEW m \in Mods, NEW below, register(m, below)
    PROVE  TypesInv'
  <1>1. CASE Fail(below)
    BY <1>1, FailTypes
  <1>2. CASE undefined' = TRUE /\ UNCHANGED <<modVars, ctxVars, ret>>
    BY <1>2, TypesStay DEF modVars, ctxVars, TypesInv, CtxTypes
  <1>3. CASE /\ state' = [state EXCEPT ![m] = "IDLE"] /\ ret' = "ok"
             /\ UNCHANGED <<persist, ctxState, quit, running, finalized, curr_mod, undefined>>
    <2>1. RunLow'
      BY <1>3, RunLowDown DEF CoreInv, TypesInv
    <2>2. CtxTypes'
      BY <1>3 DEF TypesInv, CtxTypes
    <2> QED
      BY <2>1, <2>2 DEF TypesInv
  <1> QED
    BY <1>1, <1>2, <1>3 DEF register

LEMMA MRegisterTypes ==
    ASSUME CoreInv, TypesInv, NEW m \in Mods, NEW below, m_mod_register(m, below)
    PROVE  TypesInv'
  <1>1. CASE Fail(below)
    BY <1>1, FailTypes
  <1>2. CASE register(m, below)
    BY <1>2, RegisterTypes
  <1>3. CASE \E x \in Homonyms(m) : \E s : mod_deregister(x, FALSE, s)
    <2>1. PICK x \in Homonyms(m) : \E s : mod_deregister(x, FALSE, s)
      BY <1>3
    <2>2. x \in Mods
      BY DEF Homonyms, CoreInv, DataInv, Born
    <2> QED
      BY <2>1, <2>2, DeregTypes
  <1> QED
    BY <1>1, <1>2, <1>3 DEF m_mod_register

(* Steps that change no module and not the counter.                          *)
LEMMA LoopTypes ==
    ASSUME TypesInv, NEW below, loop_start(below) \/ loop_stop(below) \/ recv_events(below)
    PROVE  TypesInv'
  BY TypesStay DEF loop_start, loop_stop, recv_events, modVars, ctxVars, TypesInv, CtxTypes

LEMMA IterTypes ==
    ASSUME TypesInv, NEW x \in {"ok", "false", "noent", "err"}, IterEnds(x)
    PROVE  TypesInv'
  BY TypesStay DEF IterEnds, modVars, ctxVars, TypesInv, CtxTypes

LEMMA CallTypes ==
    ASSUME TypesInv, NEW m \in Mods, NEW at, NEW below, call_pubsub_cb(m, at, below)
    PROVE  TypesInv'
  BY TypesStay DEF call_pubsub_cb, TypesInv, CtxTypes

LEMMA EntryDoneTypes ==
    ASSUME TypesInv, EntryDone
    PROVE  TypesInv'
  BY TypesStay, IterTypes DEF EntryDone, modVars, ctxVars, TypesInv, CtxTypes

LEMMA LibraryTypes ==
    ASSUME CoreInv, TypesInv, LibraryStep
    PROVE  TypesInv' /\ calls' = calls
  <1> USE DEF TypesInv, CtxTypes
  <1>0. Top \in FrameType /\ (Top.fn # "user" => FrameOK(Top, state))
    BY BelowReady, HeadFirst DEF CoreInv, Shape, Top
  <1>1. ASSUME NEW result \in BOOLEAN, HookReturns(result) PROVE TypesInv' /\ calls' = calls
    <2>1. ret' \in {"noent", "ok", "false"}
      BY <1>1 DEF HookReturns
    <2> QED
      BY <1>1, <2>1, TypesStay DEF HookReturns
  <1>2. CASE StartResumes
    <2>1. Top.mod \in Mods
      BY <1>0, <1>2 DEF StartResumes, At, FrameOK
    <2>2. CASE \E s : stop(Top.mod, TRUE, refs, s)
      BY <1>2, <2>1, <2>2, StopTypes DEF StartResumes
    <2> QED
      BY <1>2, <2>2, TypesStay DEF StartResumes, modVars, ctxVars
  <1>3. CASE StopResumes
    BY <1>3, TypesStay DEF StopResumes, modVars, ctxVars
  <1>4. CASE BoundResumes
    <2>1. CASE \E m \in Mods : \E s : m_mod_state_op(Top.at, m, s)
      BY <1>4, <2>1, StateOpTypes DEF BoundResumes
    <2>2. CASE UNCHANGED <<modVars, ctxVars>> /\ ret' \in {ret, "ok"} /\ undefined' \in {undefined, TRUE}
      BY <1>4, <2>2, TypesStay DEF BoundResumes, modVars, ctxVars
    <2>3. CASE /\ Top.n # -1 /\ ~(Top.n + 1 > Len(bound[Top.mod]))
               /\ \E s : m_mod_state_op(Top.at, bound[Top.mod][Top.n + 1], s)
      <3>1. Top.mod \in Mods /\ Top.n + 1 \in Nat /\ Top.n + 1 >= 1
        BY <1>0, <1>4, <2>3 DEF BoundResumes, At, FrameOK, FrameType
      <3>2. bound[Top.mod] \in Seq(Mods)
        BY <3>1 DEF CoreInv, DataInv
      <3>3. bound[Top.mod][Top.n + 1] \in Mods
        BY <2>3, <3>1, <3>2
      <3> QED
        BY <2>1, <2>3, <3>3
    <2> QED
      BY <1>4, <2>2, <2>3 DEF BoundResumes
  <1>5. CASE DeregResumes
    <2>1. Top.mod \in Mods
      BY <1>0, <1>5 DEF DeregResumes, At, FrameOK
    <2>2. RunLow'
      BY <1>5, <2>1, RunLowDown DEF DeregResumes, CoreInv
    <2>3. CtxTypes' /\ calls' = calls
      BY <1>5 DEF DeregResumes, m_ctx_deregister
    <2> QED
      BY <2>2, <2>3
  <1>6. CASE RegisterResumes
    <2>1. Top.mod \in Mods
      BY <1>0, <1>6 DEF RegisterResumes, At, FrameOK
    <2> QED
      BY <1>6, <2>1, TypesStay, RegisterTypes DEF RegisterResumes, modVars, ctxVars
  <1>7. CASE EvalNext
    <2>1. CASE IterEnds("ok")
      BY <2>1, IterTypes DEF IterEnds
    <2>2. CASE ~IterEnds("ok")
      <3>1. modules \subseteq Mods
        BY ModulesCounted DEF CoreInv
      <3>2. /\ \E m \in modules : curr_mod' \in {m, curr_mod}
            /\ UNCHANGED <<state, persist, ctxState, quit, running, finalized, ret, calls, undefined>>
        BY <1>7, <2>2 DEF EvalNext, MayIterate, modVars, ctxVars
      <3> QED
        BY <3>1, <3>2, TypesStay
    <2> QED
      BY <2>1, <2>2
  <1>8. CASE EvalResumes
    <2>1. Top.mod \in Mods
      BY <1>0, <1>8 DEF EvalResumes, At, FrameOK, Awaits
    <2> QED
      BY <1>8, <2>1, StartTypes, IterTypes DEF EvalResumes, IterEnds
  <1>9. CASE EvalStarted \/ FlushCalled
    <2>1. EntryDone
      BY <1>9 DEF EvalStarted, FlushCalled
    <2> QED
      BY <2>1, EntryDoneTypes DEF EntryDone, IterEnds
  <1>10. CASE LoopResumes
    BY <1>10, LoopTypes DEF LoopResumes
  <1>11. CASE RecvEvent
    <2>1. CASE undefined' = TRUE /\ UNCHANGED <<modVars, ctxVars, stack, ret, calls>>
      BY <2>1, TypesStay DEF modVars, ctxVars
    <2>2. CASE \E s : call_pubsub_cb(Head(Top.todo).mod, "evt", s)
      <3>1. Head(Top.todo) \in Event
        <4>1. Top.todo \in Seq(Event) /\ Top.todo # <<>>
          BY <1>0, <1>11 DEF RecvEvent, FrameType
        <4> QED
          BY <4>1
      <3>2. Head(Top.todo).mod \in Mods
        BY <3>1 DEF Event
      <3>3. calls' = calls
        BY <2>2 DEF call_pubsub_cb
      <3> QED
        BY <2>2, <3>2, <3>3, CallTypes
    <2> QED
      BY <1>11, <2>1, <2>2 DEF RecvEvent
  <1>12. CASE RecvDone \/ \E real \in BOOLEAN : RecvFails(real)
    BY <1>12, TypesStay DEF RecvDone, RecvFails, modVars, ctxVars
  <1>13. CASE FlushNext
    <2>1. CASE IterEnds("ok")
      BY <2>1, IterTypes DEF IterEnds
    <2>2. CASE ~IterEnds("ok")
      <3>1. modules \subseteq Mods
        BY ModulesCounted DEF CoreInv
      <3>2. /\ \E m \in modules : curr_mod' \in {m, curr_mod}
            /\ UNCHANGED <<state, persist, ctxState, quit, running, finalized, ret, calls, undefined>>
        BY <1>13, <2>2 DEF FlushNext, MayIterate, call_pubsub_cb, modVars, ctxVars
      <3> QED
        BY <3>1, <3>2, TypesStay
    <2> QED
      BY <2>1, <2>2
  <1>14. CASE LoopStopResumes
    BY <1>14, TypesStay DEF LoopStopResumes, m_ctx_deregister, modVars
  <1> QED
    BY <1>1, <1>2, <1>3, <1>4, <1>5, <1>6, <1>7, <1>8, <1>9, <1>10, <1>11, <1>12, <1>13, <1>14
    DEF LibraryStep

LEMMA UserTypes ==
    ASSUME CoreInv, TypesInv, calls \in 0..MaxCalls, UserStep
    PROVE  TypesInv' /\ calls' \in 0..MaxCalls
  <1>1. calls < MaxCalls /\ calls' = calls + 1
    BY DEF UserStep, UserDeregister, UserRegister, UserStateOp, UserBind, UserLoop, UserDispatch,
           UserQuit, UserFinalize, UserCtxDeregister, UserMay
  <1>2. calls' \in 0..MaxCalls
    BY <1>1, LifecycleAssumption
  <1>3. ASSUME NEW m \in Mods, UserDeregister(m) \/ UserRegister(m) PROVE TypesInv'
    BY <1>3, DeregTypes, MRegisterTypes DEF UserDeregister, UserRegister
  <1>4. ASSUME NEW m \in Mods, NEW op \in StateOp, UserStateOp(op, m) PROVE TypesInv'
    BY <1>4, StateOpTypes DEF UserStateOp
  <1>5. ASSUME NEW m \in Mods, NEW q \in Mods, UserBind(m, q) PROVE TypesInv'
    BY <1>5, FailTypes, TypesStay DEF UserBind, m_mod_bind, ctxVars, TypesInv, CtxTypes
  <1>6. CASE UserLoop \/ UserDispatch
    <2>1. \E s : Fail(s) \/ loop_start(s) \/ loop_stop(s) \/ recv_events(s)
      BY <1>6 DEF UserLoop, UserDispatch, m_ctx_loop, m_ctx_dispatch
    <2> QED
      BY <1>2, <2>1, FailTypes, LoopTypes
  <1>7. CASE UserQuit \/ UserFinalize
    <2>1. \/ Fail(stack)
          \/ /\ UNCHANGED <<state, running, persist, ctxState, curr_mod, undefined>>
             /\ ret' = "ok" /\ quit' \in {quit, TRUE} /\ finalized' \in {finalized, TRUE}
      BY <1>7 DEF UserQuit, UserFinalize, modVars
    <2> QED
      BY <1>2, <2>1, FailTypes, TypesStay DEF TypesInv, CtxTypes
  <1>8. CASE UserCtxDeregister
    <2>1. /\ UNCHANGED <<state, running, persist, ctxState, curr_mod, undefined, quit, finalized>>
          /\ ret' \in {"ok", "err"}
      BY <1>8 DEF UserCtxDeregister, m_ctx_deregister, modVars
    <2> QED
      BY <1>2, <2>1, TypesStay DEF TypesInv, CtxTypes
  <1> QED
    BY <1>2, <1>3, <1>4, <1>5, <1>6, <1>7, <1>8 DEF UserStep

LEMMA TypesStep ==
    CoreInv /\ TypesInv /\ calls \in 0..MaxCalls /\ [Next]_vars
        => TypesInv' /\ calls' \in 0..MaxCalls
  <1> SUFFICES ASSUME CoreInv, TypesInv, calls \in 0..MaxCalls, [Next]_vars
               PROVE  TypesInv' /\ calls' \in 0..MaxCalls
    OBVIOUS
  <1>1. CASE UNCHANGED vars
    BY <1>1, TypesStay DEF vars, modVars, ctxVars, TypesInv, CtxTypes
  <1>2. ASSUME NEW m \in Mods, module_dtor(m) PROVE TypesInv' /\ calls' \in 0..MaxCalls
    BY <1>2, TypesStay DEF module_dtor, TypesInv, CtxTypes
  <1> QED
    BY <1>1, <1>2, UserTypes, LibraryTypes DEF Next, Finished

LEMMA TypesInit == Init => TypesInv /\ calls \in 0..MaxCalls
  <1> SUFFICES ASSUME Init PROVE TypesInv /\ calls \in 0..MaxCalls
    OBVIOUS
  <1>1. Running = {}
    BY DEF Init, Running
  <1>2. RunLow
    BY <1>1, FS_EmptySet DEF Init, RunLow
  <1>3. calls \in 0..MaxCalls
    BY LifecycleAssumption DEF Init
  <1>4. persist \in BOOLEAN /\ quit \in BOOLEAN /\ finalized \in BOOLEAN /\ undefined \in BOOLEAN
    BY Zenon DEF Init
  <1>5. /\ ctxState \in {"IDLE", "LOOPING"} /\ curr_mod \in Mods \cup {NoMod}
        /\ ret \in {"ok", "false", "noent", "err"}
    BY DEF Init
  <1> QED
    BY <1>2, <1>3, <1>4, <1>5 DEF TypesInv, CtxTypes

(***************************************************************************)
(* Types, for any client: the unsigned counters of the code (the reference    *)
(* counts of modules and context, running_modules) never go below 0.          *)
(***************************************************************************)
THEOREM CountersDoNotWrap == Spec => []TypeOK
  <1>1. CoreInv /\ TallyInv /\ TypesInv /\ calls \in 0..MaxCalls => TypeOK
    <2> SUFFICES ASSUME CoreInv, TallyInv, TypesInv, calls \in 0..MaxCalls PROVE TypeOK
      OBVIOUS
    <2>1. refs \in [Mods -> Nat]
      <3>1. refs \in [Mods -> Int]
        BY DEF TallyInv, Tally
      <3>2. ASSUME NEW m \in Mods PROVE refs[m] \in Nat
        <4>1. Count(stack, Holders(m)) \in Nat /\ Cardinality(Binds(bound, m)) \in Nat
          BY Counts DEF TallyInv, Tally
        <4>2. refs[m] = Owed(stack, modules, handle, bound, m)
          BY DEF TallyInv, Tally
        <4>3. Owed(stack, modules, handle, bound, m) \in Nat
          BY <4>1 DEF Owed
        <4> QED
          BY <4>2, <4>3
      <3> QED
        BY <3>1, <3>2
    <2>2. running \in Nat
      BY RunningFinite DEF TypesInv, RunLow
    <2>3. ctxRefs \in Nat
      <3>1. Born \ freed \subseteq Mods
        BY DEF Born
      <3>2. Cardinality(Born \ freed) \in Nat
        BY <3>1, FS_Subset, FS_CardinalityType, LifecycleAssumption
      <3> QED
        BY <3>2 DEF CoreInv, DataInv, CtxRefs
    <2>4. modules \subseteq Mods /\ freed \subseteq Mods
      BY DEF CoreInv, DataInv, Born
    <2> QED
      BY <2>1, <2>2, <2>3, <2>4 DEF TypeOK, CoreInv, DataInv, States, TypesInv, CtxTypes
  <1>2. CoreInv /\ (TypesInv /\ calls \in 0..MaxCalls) /\ [Next]_vars
            => (TypesInv /\ calls \in 0..MaxCalls)'
    BY TypesStep
  <1>3. Spec => [](TypesInv /\ calls \in 0..MaxCalls)
    BY <1>2, TypesInit, CoreHolds, PTL DEF Spec
  <1> QED
    BY <1>1, <1>3, CoreHolds, TallyHolds, PTL

-----------------------------------------------------------------------------
(***************************************************************************)
(* The context goes with its last module.  Between the moment its last module *)
(* is removed from the map, or its loop ends without one, and the moment it   *)
(* is deregistered, a deregistration or the end of a loop is on the stack;    *)
(* when that function runs again m_ctx() is not denied, since only the hooks  *)
(* of a DENY_CTX module are.                                                  *)
(***************************************************************************)
Leaving == ctxState = "IDLE" /\ ~persist /\ modules = {} /\ Born # {} /\ key

Closers == {"dereg", "lstop"}
Closing(s) == \E i \in 1..Len(s) : s[i].fn \in Closers

Steady(s) == (s[1].fn = "user" \/ ~Denied) /\ (Leaving => Closing(s))
SteadyInv == Steady(stack)

LEMMA ClosingPush ==
    ASSUME NEW S, NEW s \in Seq(S), NEW f
    PROVE  /\ <<f>> \o s \in Seq(S \cup {f}) /\ (<<f>> \o s)[1] = f
           /\ Closing(s) \/ f.fn \in Closers => Closing(<<f>> \o s)
  <1> DEFINE T == S \cup {f}
             t == <<f>> \o s
  <1>1. s \in Seq(T) /\ f \in T
    OBVIOUS
  <1>2. /\ t \in Seq(T) /\ Len(t) = Len(s) + 1 /\ Len(s) \in Nat /\ t[1] = f
        /\ \A i \in 1..Len(s) : i + 1 \in 1..Len(t) /\ t[i + 1] = s[i]
    <2> HIDE DEF T
    <2> QED
      BY <1>1, PushIndex
  <1> HIDE DEF t
  <1>3. Closing(s) => Closing(t)
    BY <1>2 DEF Closing
  <1>4. f.fn \in Closers => Closing(t)
    BY <1>2 DEF Closing
  <1> QED
    BY <1>2, <1>3, <1>4 DEF t

LEMMA ClosingTwo ==
    ASSUME NEW S, NEW s \in Seq(S), NEW f, NEW g
    PROVE  /\ (<<f, g>> \o s)[1] = f
           /\ Closing(s) \/ g.fn \in Closers => Closing(<<f, g>> \o s)
  <1> DEFINE T == S \cup {f, g}
             t == <<g>> \o s
             u == <<f>> \o t
  <1>1. s \in Seq(T) /\ f \in T /\ g \in T
    OBVIOUS
  <1>2. <<f, g>> \o s = u
    <2> HIDE DEF T
    <2> QED
      BY <1>1, PushTwo
  <1>3. t \in Seq(S \cup {g}) /\ (Closing(s) \/ g.fn \in Closers => Closing(t))
    BY ClosingPush
  <1> HIDE DEF t
  <1>4. u[1] = f /\ (Closing(t) => Closing(u))
    BY <1>3, ClosingPush
  <1> QED
    BY <1>2, <1>3, <1>4

LEMMA ClosingAlike ==
    ASSUME NEW s \in Seq(FrameType), NEW t, Alike(s, t), Closing(s)
    PROVE  Closing(t)
  BY DEF Alike, Closing

(* A function returns, other than one that closes the context.               *)
LEMMA ClosingPop ==
    ASSUME CoreInv, Top.fn \notin Closers, Closing(stack)
    PROVE  Closing(Below)
  <1>1. stack \in Seq(FrameType) /\ Len(stack) \in Nat /\ stack[1] = Top
    BY HeadFirst DEF CoreInv, Shape, Top
  <1>2. PICK i \in 1..Len(stack) : stack[i].fn \in Closers
    BY DEF Closing
  <1>3. i # 1 /\ Len(stack) > 1
    BY <1>1, <1>2
  <1>4. Len(Below) = Len(stack) - 1 /\ i - 1 \in 1..Len(Below) /\ Below[i - 1] = stack[i]
    BY <1>1, <1>3 DEF Below
  <1> QED
    BY <1>2, <1>4 DEF Closing

(* Steps by what they make of the stack.                                     *)
LEMMA SteadySame ==
    ASSUME NEW s, Steady(s), stack' = s, Born' = Born,
           UNCHANGED <<ctxState, persist, modules, key, curr_mod>>
    PROVE  SteadyInv'
  BY DEF Steady, SteadyInv, Leaving, Denied

LEMMA SteadyCall ==
    ASSUME stack'[1].fn = "user", Leaving' => Closing(stack')
    PROVE  SteadyInv'
  BY DEF Steady, SteadyInv

LEMMA SteadyAllowed ==
    ASSUME ~Denied, curr_mod' = curr_mod, Leaving' => Closing(stack')
    PROVE  SteadyInv'
  BY DEF Steady, SteadyInv, Denied

LEMMA FailSteady ==
    ASSUME NEW below, Steady(below), Fail(below)
    PROVE  SteadyInv'
  <1>1. Born' = Born
    BY DEF Fail, modVars, Born
  <1> QED
    BY <1>1, SteadySame DEF Fail, ctxVars

LEMMA StartSteady ==
    ASSUME CoreInv, NEW m \in Born, NEW starting, NEW below \in Seq(FrameType), Steady(below),
           start(m, starting, below)
    PROVE  SteadyInv'
  <1>1. CASE Fail(below)
    BY <1>1, FailSteady
  <1>2. CASE ~Fail(below)
    <2>1. /\ state' = [state EXCEPT ![m] = "RUNNING"]
          /\ UNCHANGED <<modules, persist, key, ctxState>>
          /\ \/ stack' = below /\ curr_mod' = curr_mod
             \/ stack' = <<Frame("user", m, "start"), Frame("start", m, "call")>> \o below
      BY <1>2 DEF start
    <2>2. "RUNNING" \in States \ {"NONE"}
      BY DEF States
    <2>3. Born' = Born
      BY <2>1, <2>2, BornSame DEF CoreInv
    <2>4. CASE stack' = below /\ curr_mod' = curr_mod
      BY <2>1, <2>3, <2>4, SteadySame
    <2>5. CASE stack' = <<Frame("user", m, "start"), Frame("start", m, "call")>> \o below
      <3> DEFINE u == Frame("user", m, "start")
                 w == Frame("start", m, "call")
      <3>1. u.fn = "user"
        BY DEF Frame
      <3> HIDE DEF u, w
      <3>2. (<<u, w>> \o below)[1] = u /\ (Closing(below) => Closing(<<u, w>> \o below))
        BY ClosingTwo
      <3>3. stack' = <<u, w>> \o below
        BY <2>5 DEF u, w
      <3>4. Leaving' => Leaving
        BY <2>1, <2>3 DEF Leaving
      <3> QED
        BY <3>1, <3>2, <3>3, <3>4, SteadyCall DEF Steady
    <2> QED
      BY <2>1, <2>4, <2>5
  <1> QED
    BY <1>1, <1>2

LEMMA StopSteady ==
    ASSUME CoreInv, NEW m \in Born, NEW stopping, NEW r, NEW below \in Seq(FrameType),
           below[1].fn = "user" \/ ~Denied, Leaving' => Closing(below), stop(m, stopping, r, below)
    PROVE  SteadyInv'
  <1>1. CASE stack' = below /\ curr_mod' = curr_mod
    BY <1>1 DEF SteadyInv, Steady, Denied
  <1>2. CASE stack' = <<Frame("user", m, "stop"), Frame("stop", m, "call")>> \o Dangling(below, m)
    <2> DEFINE u == Frame("user", m, "stop")
               w == Frame("stop", m, "call")
               d == Dangling(below, m)
    <2>1. u.fn = "user" /\ stack' = <<u, w>> \o d
      BY <1>2 DEF Frame
    <2>2. m \in Mods
      BY DEF Born
    <2>3. Alike(below, d)
      BY <2>2, DanglingAlike
    <2> HIDE DEF u, w, d
    <2>4. d \in Seq(FrameType) /\ (Closing(below) => Closing(d))
      BY <2>3, ClosingAlike DEF Alike
    <2>5. (<<u, w>> \o d)[1] = u /\ (Closing(d) => Closing(<<u, w>> \o d))
      BY <2>4, ClosingTwo
    <2> QED
      BY <2>1, <2>4, <2>5, SteadyCall
  <1> QED
    BY <1>1, <1>2 DEF stop, Fail, ctxVars

LEMMA StateOpSteady ==
    ASSUME CoreInv, NEW op \in StateOp, NEW m \in Mods, NEW below, Ready(below, state),
           Steady(below), m_mod_state_op(op, m, below)
    PROVE  SteadyInv'
  <1> DEFINE w == Frame("bound", m, op)
             waiting == <<w>> \o below
  <1>1. CASE Fail(below)
    BY <1>1, FailSteady
  <1>2. CASE ~Fail(below)
    <2>1. /\ ~Denied /\ state[m] \in StateAllowed(op) /\ modules' = modules
          /\ start(m, op = "start", waiting) \/ stop(m, op = "stop", refs, waiting)
      BY <1>2 DEF m_mod_state_op, M_MOD_ASSERT, m_ctx
    <2>2. m \in Born
      BY <2>1 DEF StateAllowed, StateOp, Born
    <2>3. w \in FrameType /\ w.fn = "bound"
      <3>1. "bound" \in Fns /\ op \in Ats /\ m \in Mods \cup {NoMod}
        BY DEF Fns, Ats
      <3> QED
        BY <3>1, NewFrame
    <2> HIDE DEF w
    <2>4. below \in Seq(FrameType)
      BY DEF Ready, Shape
    <2>5. waiting \in Seq(FrameType)
      BY <2>3, <2>4
    <2>6. Closing(below) => Closing(waiting)
      BY <2>4, ClosingPush
    <2> HIDE DEF waiting
    <2>7. Steady(waiting)
      BY <2>1, <2>6 DEF Steady
    <2>8. CASE start(m, op = "start", waiting)
      BY <2>2, <2>5, <2>7, <2>8, StartSteady
    <2>9. CASE stop(m, op = "stop", refs, waiting) /\ ~Fail(waiting)
      <3>1. \E x \in {"STOPPED", "PAUSED"} : state' = [state EXCEPT ![m] = x]
        BY <2>9 DEF stop
      <3>2. {"STOPPED", "PAUSED"} \subseteq States \ {"NONE"}
        BY DEF States
      <3>3. Born' = Born
        BY <2>2, <3>1, <3>2, BornSame DEF CoreInv
      <3>4. Leaving' => Leaving
        BY <2>1, <2>9, <3>3 DEF stop, Leaving
      <3> QED
        BY <2>1, <2>2, <2>5, <2>7, <2>9, <3>4, StopSteady DEF Steady
    <2>10. CASE Fail(waiting)
      BY <2>7, <2>10, FailSteady
    <2> QED
      BY <2>1, <2>8, <2>9, <2>10
  <1> QED
    BY <1>1, <1>2

LEMMA DeregSteady ==
    ASSUME CoreInv, NEW m \in Born, NEW fromUser, NEW below \in Seq(FrameType), Steady(below),
           mod_deregister(m, fromUser, below)
    PROVE  SteadyInv'
  <1> DEFINE w == Frame("dereg", m, IF fromUser THEN "user" ELSE "lib")
             waiting == <<w>> \o below
  <1>1. CASE Fail(below)
    BY <1>1, FailSteady
  <1>2. CASE ~Fail(below)
    <2>1. ~Denied /\ \E r : stop(m, TRUE, r, waiting)
      BY <1>2 DEF mod_deregister, M_MOD_ASSERT, m_ctx
    <2>2. w \in FrameType /\ w.fn = "dereg"
      <3>1. "dereg" \in Fns /\ (IF fromUser THEN "user" ELSE "lib") \in Ats /\ m \in Mods \cup {NoMod}
        BY DEF Fns, Ats, Born
      <3> QED
        BY <3>1, NewFrame
    <2> HIDE DEF w
    <2>3. waiting \in Seq(FrameType)
      BY <2>2
    <2>4. Closing(waiting) 
      BY <2>2, ClosingPush DEF Closers
    <2> HIDE DEF waiting
    <2> QED
      BY <2>1, <2>3, <2>4, StopSteady
  <1> QED
    BY <1>1, <1>2

LEMMA RegisterSteady ==
    ASSUME SteadyInv, NEW m \in Mods, NEW below, Steady(below), register(m, below)
    PROVE  SteadyInv'
  <1>1. CASE Fail(below)
    BY <1>1, FailSteady
  <1>2. CASE UNCHANGED <<modVars, ctxVars, stack, ret>>
    <2>1. Born' = Born
      BY <1>2 DEF modVars, Born
    <2> QED
      BY <1>2, <2>1, SteadySame DEF ctxVars, SteadyInv
  <1>3. CASE modules' = modules \cup {m} /\ stack' = below /\ curr_mod' = curr_mod
    <2>1. ~Leaving'
      BY <1>3 DEF Leaving
    <2> QED
      BY <1>3, <2>1 DEF SteadyInv, Steady, Denied
  <1> QED
    BY <1>1, <1>2, <1>3 DEF register

LEMMA MRegisterSteady ==
    ASSUME CoreInv, SteadyInv, NEW m \in Mods, NEW below, Ready(below, state), Steady(below),
           m_mod_register(m, below)
    PROVE  SteadyInv'
  <1> DEFINE w == Frame("register", m, "call")
             waiting == <<w>> \o below
  <1>1. CASE Fail(below)
    BY <1>1, FailSteady
  <1>2. CASE register(m, below)
    BY <1>2, RegisterSteady
  <1>3. CASE ~Denied /\ \E x \in Homonyms(m) : mod_deregister(x, FALSE, waiting)
    <2>1. PICK x \in Homonyms(m) : mod_deregister(x, FALSE, waiting)
      BY <1>3
    <2>2. x \in Born
      BY DEF Homonyms, CoreInv, DataInv
    <2>3. w \in FrameType
      <3>1. "register" \in Fns /\ "call" \in Ats /\ m \in Mods \cup {NoMod}
        BY DEF Fns, Ats
      <3> QED
        BY <3>1, NewFrame
    <2> HIDE DEF w
    <2>4. below \in Seq(FrameType)
      BY DEF Ready, Shape
    <2>5. waiting \in Seq(FrameType)
      BY <2>3, <2>4
    <2>6. Closing(below) => Closing(waiting)
      BY <2>4, ClosingPush
    <2> HIDE DEF waiting
    <2>7. Steady(waiting)
      BY <1>3, <2>6 DEF Steady
    <2> QED
      BY <2>1, <2>2, <2>5, <2>7, DeregSteady
  <1> QED
    BY <1>1, <1>2, <1>3 DEF m_mod_register, m_ctx

(* The loop's own functions run only when m_ctx() is not denied.             *)
LEMMA LoopSteady ==
    ASSUME NEW below \in Seq(FrameType), Steady(below), ~Denied,
           loop_start(below) \/ loop_stop(below) \/ recv_events(below)
    PROVE  SteadyInv'
  <1>1. curr_mod' = curr_mod /\ Born' = Born
    BY DEF loop_start, loop_stop, recv_events, modVars, ctxVars, Born
  <1>2. CASE loop_start(below)
    <2>1. ~Leaving'
      BY <1>2 DEF loop_start, Leaving
    <2> QED
      BY <1>1, <2>1, SteadyAllowed
  <1>3. CASE loop_stop(below)
    <2> DEFINE f == Frame("flush", NoMod, "next")
               l == Frame("lstop", NoMod, "call")
    <2>1. l.fn \in Closers
      BY DEF Frame, Closers
    <2>2. stack' = <<f, l>> \o below
      BY <1>3 DEF loop_stop
    <2> HIDE DEF f, l
    <2>3. Closing(<<f, l>> \o below)
      BY <2>1, ClosingTwo
    <2> QED
      BY <1>1, <2>2, <2>3, SteadyAllowed
  <1>4. CASE recv_events(below)
    <2>1. PICK f : stack' = <<f>> \o below
      BY <1>4 DEF recv_events
    <2>2. Closing(below) => Closing(<<f>> \o below)
      BY ClosingPush
    <2>3. Leaving' => Leaving
      BY <1>1, <1>4 DEF recv_events, ctxVars, Leaving
    <2> QED
      BY <1>1, <2>1, <2>2, <2>3, SteadyAllowed DEF Steady
  <1> QED
    BY <1>2, <1>3, <1>4

(* A function of the library that closes nothing gives way to its caller, to  *)
(* another function or to a hook.                                            *)
LEMMA LibrarySteady ==
    ASSUME CoreInv, SteadyInv, Top.fn # "user", Top.fn \notin Closers
    PROVE  Steady(Below) /\ ~Denied
  <1>1. ~Denied
    BY BelowReady DEF SteadyInv, Steady
  <1>2. Leaving => Closing(Below)
    BY ClosingPop DEF SteadyInv, Steady
  <1> QED
    BY <1>1, <1>2 DEF Steady

LEMMA ReplacedSteady ==
    ASSUME NEW below \in Seq(FrameType), Steady(below), ~Denied, NEW f, stack' = <<f>> \o below,
           Born' = Born, UNCHANGED <<ctxState, persist, modules, key, curr_mod>>
    PROVE  SteadyInv'
  <1>1. Closing(below) => Closing(<<f>> \o below)
    BY ClosingPush
  <1>2. Leaving' => Leaving
    BY DEF Leaving
  <1> QED
    BY <1>1, <1>2, SteadyAllowed DEF Steady

LEMMA CalledSteady ==
    ASSUME NEW below \in Seq(FrameType), Steady(below), NEW u, NEW g, u.fn = "user",
           stack' = <<u>> \o (<<g>> \o below) \/ stack' = <<u, g>> \o below,
           Born' = Born, UNCHANGED <<ctxState, persist, modules, key>>
    PROVE  SteadyInv'
  <1> DEFINE t == <<g>> \o below
  <1>1. Leaving' => Leaving
    BY DEF Leaving
  <1>2. t \in Seq(FrameType \cup {g}) /\ (Closing(below) => Closing(t))
    BY ClosingPush
  <1>3. CASE stack' = <<u>> \o (<<g>> \o below)
    <2>1. stack' = <<u>> \o t
      BY <1>3
    <2> HIDE DEF t
    <2>2. (<<u>> \o t)[1] = u /\ (Closing(t) => Closing(<<u>> \o t))
      BY <1>2, ClosingPush
    <2> QED
      BY <1>1, <1>2, <2>1, <2>2, SteadyCall DEF Steady
  <1>4. CASE stack' = <<u, g>> \o below
    <2>1. (<<u, g>> \o below)[1] = u /\ (Closing(below) => Closing(<<u, g>> \o below))
      BY ClosingTwo
    <2> QED
      BY <1>1, <1>4, <2>1, SteadyCall DEF Steady
  <1> QED
    BY <1>3, <1>4

LEMMA EntrySteady ==
    ASSUME Below \in Seq(FrameType), Steady(Below), ~Denied, EntryDone
    PROVE  SteadyInv'
  <1>1. /\ \E f : stack' = Below \/ stack' = <<f>> \o Below
        /\ UNCHANGED <<state, ctxState, persist, modules, key, curr_mod>>
    BY DEF EntryDone, IterEnds, modVars, ctxVars
  <1>2. Born' = Born
    BY <1>1 DEF Born
  <1> QED
    BY <1>1, <1>2, SteadySame, ReplacedSteady

(* The closing functions: the context is deregistered, or it is not the last  *)
(* moment for that.                                                          *)
LEMMA ClosedSteady ==
    ASSUME CoreInv, SteadyInv, Top.fn \in Closers, stack' = Below, Born' = Born,
           UNCHANGED <<ctxState, persist, modules, curr_mod>>,
           IF LastOne THEN m_ctx_deregister ELSE UNCHANGED key
    PROVE  SteadyInv'
  <1>1. ~Denied
    BY BelowReady DEF SteadyInv, Steady, Closers
  <1>2. ~Leaving'
    BY <1>1 DEF Leaving, LastOne, m_ctx_deregister, m_ctx
  <1> QED
    BY <1>1, <1>2, SteadyAllowed

LEMMA LibraryStepSteady ==
    ASSUME CoreInv, SteadyInv, LibraryStep
    PROVE  SteadyInv'
  <1>0. Top.fn # "user" /\ Top.fn \notin Closers =>
           /\ Steady(Below) /\ ~Denied /\ Below \in Seq(FrameType) /\ Ready(Below, state)
           /\ FrameOK(Top, state) /\ Top \in FrameType
    BY LibrarySteady, BelowReady
  <1>1. ASSUME NEW result \in BOOLEAN, HookReturns(result) PROVE SteadyInv'
    <2>1. Top.fn = "user" /\ curr_mod' = NoMod /\ stack' = Below /\ Born' = Born
      BY <1>1 DEF HookReturns, At, Born
    <2>2. Leaving' => Leaving
      BY <1>1, <2>1 DEF HookReturns, Leaving
    <2>3. Leaving => Closing(Below)
      BY <2>1, ClosingPop DEF SteadyInv, Steady, Closers
    <2> QED
      BY <2>1, <2>2, <2>3 DEF SteadyInv, Steady, Denied
  <1>2. CASE StartResumes
    <2>1. Top.fn = "start" /\ Top.fn \notin Closers
      BY <1>2 DEF StartResumes, At, Closers
    <2>2. Steady(Below) /\ ~Denied /\ Below \in Seq(FrameType) /\ Top.mod \in Born
      BY <1>0, <2>1 DEF FrameOK, Born
    <2>3. CASE stack' = Below /\ UNCHANGED <<modVars, ctxVars>>
      <3>1. Born' = Born
        BY <2>3 DEF modVars, Born
      <3> QED
        BY <2>2, <2>3, <3>1, SteadySame DEF ctxVars
    <2>4. CASE /\ stop(Top.mod, TRUE, refs, <<Frame("start", Top.mod, "stopped")>> \o Below)
               /\ UNCHANGED modules
      <3> DEFINE w == Frame("start", Top.mod, "stopped")
                 waiting == <<w>> \o Below
      <3>1. w \in FrameType
        <4>1. "start" \in Fns /\ "stopped" \in Ats /\ Top.mod \in Mods \cup {NoMod}
          BY <2>2 DEF Fns, Ats, Born
        <4> QED
          BY <4>1, NewFrame
      <3>2. stop(Top.mod, TRUE, refs, waiting)
        BY <2>4
      <3> HIDE DEF w
      <3>3. waiting \in Seq(FrameType)
        BY <2>2, <3>1
      <3>4. Closing(Below) => Closing(waiting)
        BY <2>2, ClosingPush
      <3> HIDE DEF waiting
      <3>5. Born' = Born
        <4>1. state' = [state EXCEPT ![Top.mod] = "STOPPED"] /\ "STOPPED" \in States \ {"NONE"}
          BY <3>2 DEF stop, States
        <4> QED
          BY <2>2, <4>1, BornSame DEF CoreInv
      <3>6. Leaving' => Leaving
        BY <2>4, <3>2, <3>5 DEF stop, Leaving
      <3> QED
        BY <2>2, <3>2, <3>3, <3>4, <3>6, StopSteady DEF Steady
    <2> QED
      BY <1>2, <2>3, <2>4 DEF StartResumes
  <1>3. CASE StopResumes
    <2>1. Top.fn = "stop" /\ stack' = Below /\ Born' = Born
      BY <1>3 DEF StopResumes, At, modVars, Born
    <2> QED
      BY <1>0, <1>3, <2>1, SteadySame DEF StopResumes, Closers, ctxVars
  <1>4. CASE BoundResumes
    <2>1. Top.fn = "bound" /\ Top.fn \notin Closers
      BY <1>4 DEF BoundResumes, At, Closers
    <2>2. CASE (stack' = Below \/ stack' = stack) /\ UNCHANGED <<modVars, ctxVars>>
      <3>1. Born' = Born
        BY <2>2 DEF modVars, Born
      <3> QED
        BY <1>0, <2>1, <2>2, <3>1, SteadySame DEF ctxVars, SteadyInv
    <2>3. CASE /\ Top.n # -1 /\ ~(Top.n + 1 > Len(bound[Top.mod]))
               /\ m_mod_state_op(Top.at, bound[Top.mod][Top.n + 1],
                                 <<[Top EXCEPT !.n = Top.n + 1]>> \o Below)
      <3> DEFINE w == [Top EXCEPT !.n = Top.n + 1]
                 m == bound[Top.mod][Top.n + 1]
                 waiting == <<w>> \o Below
      <3>1. Top.mod \in Mods /\ Top.n + 1 \in Nat /\ Top.n + 1 >= 1 /\ Top.at \in StateOp
        BY <1>0, <2>1, <2>3 DEF FrameOK, FrameType
      <3>2. bound[Top.mod] \in Seq(Mods)
        BY <3>1 DEF CoreInv, DataInv
      <3>3. m \in Mods
        BY <2>3, <3>1, <3>2
      <3>4. /\ w \in FrameType /\ w.fn = "bound" /\ w.mod = Top.mod /\ w.at = Top.at
        BY <1>0, <2>1, <3>1 DEF FrameType
      <3>5. m_mod_state_op(Top.at, m, waiting)
        BY <2>3
      <3> HIDE DEF w, m
      <3>6. FrameOK(w, state) /\ ~Main(w) /\ ~Awaits(w)
        BY <3>1, <3>4 DEF FrameOK, Main, Awaits
      <3>7. Ready(waiting, state)
        BY <1>0, <2>1, <3>4, <3>6, PlainPush
      <3>8. Closing(Below) => Closing(waiting)
        BY <1>0, <2>1, ClosingPush
      <3> HIDE DEF waiting
      <3>9. Steady(waiting)
        BY <1>0, <2>1, <3>8 DEF Steady
      <3> QED
        BY <3>1, <3>3, <3>5, <3>7, <3>9, StateOpSteady
    <2> QED
      BY <1>4, <2>2, <2>3 DEF BoundResumes
  <1>5. CASE DeregResumes
    <2>1. Top.fn = "dereg" /\ Top.mod \in Born
      BY <1>5, BelowReady DEF DeregResumes, At, FrameOK, Born
    <2>2. state' = [state EXCEPT ![Top.mod] = "ZOMBIE"] /\ "ZOMBIE" \in States \ {"NONE"}
      BY <1>5 DEF DeregResumes, States
    <2>3. Born' = Born
      BY <2>1, <2>2, BornSame DEF CoreInv
    <2>4. /\ stack' = Below /\ UNCHANGED <<ctxState, persist, modules, curr_mod>>
          /\ IF LastOne THEN m_ctx_deregister ELSE UNCHANGED key
      BY <1>5 DEF DeregResumes
    <2> QED
      BY <2>1, <2>3, <2>4, ClosedSteady DEF Closers
  <1>6. CASE RegisterResumes
    <2>1. Top.fn = "register" /\ Top.fn \notin Closers
      BY <1>6 DEF RegisterResumes, At, Closers
    <2>2. Top.mod \in Mods /\ Steady(Below)
      BY <1>0, <2>1 DEF FrameOK
    <2>3. CASE register(Top.mod, Below)
      BY <2>2, <2>3, RegisterSteady
    <2>4. CASE stack' = Below /\ UNCHANGED <<modVars, ctxVars>>
      <3>1. Born' = Born
        BY <2>4 DEF modVars, Born
      <3> QED
        BY <2>2, <2>4, <3>1, SteadySame DEF ctxVars
    <2> QED
      BY <1>6, <2>3, <2>4 DEF RegisterResumes
  <1>7. CASE EvalNext \/ FlushNext
    <2>1. Top.fn \in {"iter", "flush"} /\ Top.fn # "user" /\ Top.fn \notin Closers
      BY <1>7 DEF EvalNext, FlushNext, At, Closers
    <2>2. UNCHANGED <<state, ctxState, persist, modules, key>>
      BY <1>7 DEF EvalNext, FlushNext, IterEnds, call_pubsub_cb, modVars, ctxVars
    <2>3. Born' = Born
      BY <2>2 DEF Born
    <2>4. CASE curr_mod' = curr_mod /\ (stack' = Below \/ \E f : stack' = <<f>> \o Below)
      BY <1>0, <2>1, <2>2, <2>3, <2>4, SteadySame, ReplacedSteady
    <2>5. CASE \E u, g : /\ u.fn = "user"
                         /\ stack' = <<u>> \o (<<g>> \o Below) \/ stack' = <<u, g>> \o Below
      BY <1>0, <2>1, <2>2, <2>3, <2>5, CalledSteady
    <2>6. CASE EvalNext
      <3>1. CASE IterEnds("ok")
        BY <2>4, <3>1 DEF IterEnds, ctxVars
      <3>2. CASE ~IterEnds("ok")
        <4>1. PICK m \in MayIterate(Top) :
                 LET v == [Top EXCEPT !.mod = m, !.seen = @ \cup {m}, !.n = Cardinality(modules)]
                 IN  \/ stack' = <<Frame("user", m, "eval"), [v EXCEPT !.at = "evaluated"]>> \o Below
                     \/ stack' = <<v>> \o Below /\ curr_mod' = curr_mod
          BY <2>6, <3>2 DEF EvalNext, ctxVars
        <4>2. Frame("user", m, "eval").fn = "user"
          BY DEF Frame
        <4> QED
          BY <2>4, <2>5, <4>1, <4>2
      <3> QED
        BY <3>1, <3>2
    <2>7. CASE FlushNext
      <3>1. CASE IterEnds("ok")
        BY <2>4, <3>1 DEF IterEnds, ctxVars
      <3>2. CASE ~IterEnds("ok")
        <4>1. PICK m \in MayIterate(Top) :
                 LET v == [Top EXCEPT !.mod = m, !.seen = @ \cup {m}, !.n = Cardinality(modules)]
                 IN  \/ stack' = <<Frame("user", m, "flush")>> \o (<<[v EXCEPT !.at = "called"]>> \o Below)
                     \/ stack' = <<v>> \o Below /\ curr_mod' = curr_mod
          BY <2>7, <3>2 DEF FlushNext, call_pubsub_cb, ctxVars
        <4>2. Frame("user", m, "flush").fn = "user"
          BY DEF Frame
        <4> QED
          BY <2>4, <2>5, <4>1, <4>2
      <3> QED
        BY <3>1, <3>2
    <2> QED
      BY <1>7, <2>6, <2>7
  <1>8. CASE EvalResumes
    <2>1. Top.fn = "iter" /\ Top.at = "evaluated" /\ Top.fn \notin Closers
      BY <1>8 DEF EvalResumes, At, Closers
    <2>2. Top.mod \in Born /\ Below \in Seq(FrameType) /\ Steady(Below) /\ ~Denied
      BY <1>0, <2>1 DEF FrameOK, Awaits, Born
    <2>3. CASE \E x : IterEnds(x)
      <3>1. Born' = Born
        BY <2>3 DEF IterEnds, modVars, Born
      <3> QED
        BY <2>2, <2>3, <3>1, SteadySame DEF IterEnds, ctxVars
    <2>4. CASE start(Top.mod, TRUE, <<[Top EXCEPT !.at = "started"]>> \o Below)
      <3> DEFINE w == [Top EXCEPT !.at = "started"]
                 waiting == <<w>> \o Below
      <3>1. w \in FrameType
        BY <1>0, <2>1 DEF FrameType, Ats
      <3>2. start(Top.mod, TRUE, waiting)
        BY <2>4
      <3> HIDE DEF w
      <3>3. waiting \in Seq(FrameType)
        BY <2>2, <3>1
      <3>4. Closing(Below) => Closing(waiting)
        BY <2>2, ClosingPush
      <3> HIDE DEF waiting
      <3>5. Steady(waiting)
        BY <2>2, <3>4 DEF Steady
      <3> QED
        BY <2>2, <3>2, <3>3, <3>5, StartSteady
    <2> QED
      BY <1>8, <2>3, <2>4 DEF EvalResumes
  <1>9. CASE EvalStarted \/ FlushCalled
    <2>1. Top.fn \in {"iter", "flush"} /\ EntryDone
      BY <1>9 DEF EvalStarted, FlushCalled, At
    <2>2. Top.fn # "user" /\ Top.fn \notin Closers
      BY <2>1 DEF Closers
    <2> QED
      BY <1>0, <2>1, <2>2, EntrySteady
  <1>10. CASE LoopResumes
    <2>1. Top.fn = "loop" /\ Top.fn \notin Closers
      BY <1>10 DEF LoopResumes, At, Closers
    <2>2. stack \in Seq(FrameType) /\ Steady(stack)
      BY DEF CoreInv, Shape, SteadyInv
    <2>3. recv_events(stack) \/ loop_stop(Below)
      BY <1>10 DEF LoopResumes
    <2> QED
      BY <1>0, <2>1, <2>2, <2>3, LoopSteady
  <1>11. CASE RecvEvent
    <2>1. Top.fn = "recv" /\ Top.fn \notin Closers
      BY <1>11 DEF RecvEvent, At, Closers
    <2>2. UNCHANGED <<state, ctxState, persist, modules, key>>
      BY <1>11 DEF RecvEvent, call_pubsub_cb, modVars, ctxVars
    <2>3. Born' = Born
      BY <2>2 DEF Born
    <2>4. CASE stack' = stack /\ curr_mod' = curr_mod
      BY <2>2, <2>3, <2>4, SteadySame DEF SteadyInv
    <2>5. CASE \E m, g : stack' = <<Frame("user", m, "evt")>> \o (<<g>> \o Below)
      <3>1. PICK m, g : stack' = <<Frame("user", m, "evt")>> \o (<<g>> \o Below)
        BY <2>5
      <3>2. Frame("user", m, "evt").fn = "user"
        BY DEF Frame
      <3> QED
        BY <1>0, <2>1, <2>2, <2>3, <3>1, <3>2, CalledSteady
    <2>6. \/ stack' = stack /\ curr_mod' = curr_mod
          \/ stack' = <<Frame("user", Head(Top.todo).mod, "evt")>> \o (<<[Top EXCEPT !.todo = Tail(@)]>> \o Below)
      BY <1>11 DEF RecvEvent, call_pubsub_cb, ctxVars
    <2> QED
      BY <2>4, <2>5, <2>6
  <1>12. CASE RecvDone \/ \E real \in BOOLEAN : RecvFails(real)
    <2>1. Top.fn = "recv" /\ Top.fn \notin Closers
      BY <1>12 DEF RecvDone, RecvFails, At, Closers
    <2>2. UNCHANGED <<state, ctxState, persist, modules, key, curr_mod>>
      BY <1>12 DEF RecvDone, RecvFails, modVars, ctxVars
    <2>3. Born' = Born
      BY <2>2 DEF Born
    <2>4. stack' = Below \/ \E f : stack' = <<f>> \o Below
      BY <1>12 DEF RecvDone, RecvFails
    <2> QED
      BY <1>0, <2>1, <2>2, <2>3, <2>4, SteadySame, ReplacedSteady
  <1>13. CASE LoopStopResumes
    <2>1. Top.fn = "lstop" /\ Born' = Born /\ UNCHANGED <<ctxState, persist, modules, curr_mod>>
      BY <1>13 DEF LoopStopResumes, At, modVars, Born
    <2>2. CASE UNCHANGED <<key, stack>>
      BY <2>1, <2>2, SteadySame DEF SteadyInv
    <2>3. CASE stack' = Below /\ (IF LastOne THEN m_ctx_deregister ELSE UNCHANGED key)
      BY <2>1, <2>3, ClosedSteady DEF Closers
    <2> QED
      BY <1>13, <2>2, <2>3 DEF LoopStopResumes
  <1> QED
    BY <1>1, <1>2, <1>3, <1>4, <1>5, <1>6, <1>7, <1>8, <1>9, <1>10, <1>11, <1>12, <1>13
    DEF LibraryStep

LEMMA UserSteady ==
    ASSUME CoreInv, SteadyInv, UserStep
    PROVE  SteadyInv'
  <1>1. Top.fn = "user"
    BY DEF UserStep, UserDeregister, UserRegister, UserStateOp, UserBind, UserLoop, UserDispatch,
           UserQuit, UserFinalize, UserCtxDeregister, UserMay, At
  <1>2. Ready(stack, state) /\ stack \in Seq(FrameType) /\ DataInv /\ Steady(stack)
    BY <1>1, UserReady DEF Ready, Shape, CoreInv, SteadyInv
  <1>3. ASSUME NEW m \in Mods, UserDeregister(m) PROVE SteadyInv'
    <2>1. m \in Born /\ mod_deregister(m, TRUE, stack)
      BY <1>2, <1>3 DEF UserDeregister, DataInv
    <2> QED
      BY <1>2, <2>1, DeregSteady
  <1>4. ASSUME NEW m \in Mods, UserRegister(m) PROVE SteadyInv'
    BY <1>2, <1>4, MRegisterSteady DEF UserRegister
  <1>5. ASSUME NEW m \in Mods, NEW op \in StateOp, UserStateOp(op, m) PROVE SteadyInv'
    BY <1>2, <1>5, StateOpSteady DEF UserStateOp
  <1>6. ASSUME NEW m \in Mods, NEW q \in Mods, UserBind(m, q) PROVE SteadyInv'
    <2>1. CASE Fail(stack)
      BY <1>2, <2>1, FailSteady
    <2>2. CASE /\ stack' = Shifted(stack, q)
               /\ UNCHANGED <<state, modules, persist, key, ctxState, curr_mod>>
      <3> DEFINE s == Shifted(stack, q)
      <3>1. Born' = Born
        BY <2>2 DEF Born
      <3>2. Alike(stack, s) /\ stack' = s
        BY <1>2, <2>2, ShiftedAlike
      <3> HIDE DEF s
      <3>3. Closing(stack) => Closing(s)
        BY <1>2, <3>2, ClosingAlike
      <3>4. s[1].fn = stack[1].fn
        BY <1>2, <3>2 DEF Alike, Ready, Shape
      <3>5. Steady(s)
        BY <1>2, <3>3, <3>4 DEF Steady
      <3> QED
        BY <2>2, <3>1, <3>2, <3>5, SteadySame
    <2> QED
      BY <1>6, <2>1, <2>2 DEF UserBind, m_mod_bind, ctxVars
  <1>7. CASE UserLoop
    <2> DEFINE l == Frame("loop", NoMod, "call")
               waiting == <<l>> \o stack
    <2>1. CASE ~Denied /\ loop_start(waiting)
      <3>1. waiting \in Seq(FrameType)
        <4>1. Ready(waiting, state)
          BY <1>2, LoopFrame
        <4> QED
          BY <4>1 DEF Ready, Shape
      <3> HIDE DEF l
      <3>2. Closing(stack) => Closing(waiting)
        BY <1>2, ClosingPush
      <3> HIDE DEF waiting
      <3>3. Steady(waiting)
        BY <1>2, <2>1, <3>2 DEF Steady
      <3> QED
        BY <2>1, <3>1, <3>3, LoopSteady
    <2> QED
      BY <1>2, <1>7, <2>1, FailSteady DEF UserLoop, m_ctx_loop, m_ctx
  <1>8. CASE UserDispatch
    <2>1. \/ Fail(stack)
          \/ ~Denied /\ (loop_start(stack) \/ loop_stop(stack) \/ recv_events(stack))
      BY <1>8 DEF UserDispatch, m_ctx_dispatch, m_ctx
    <2> QED
      BY <1>2, <2>1, FailSteady, LoopSteady
  <1>9. CASE UserQuit \/ UserFinalize
    <2>1. CASE Fail(stack)
      BY <1>2, <2>1, FailSteady
    <2>2. CASE UNCHANGED <<modVars, modules, persist, key, ctxState, curr_mod, stack>>
      <3>1. Born' = Born
        BY <2>2 DEF modVars, Born
      <3> QED
        BY <1>2, <2>2, <3>1, SteadySame
    <2> QED
      BY <1>9, <2>1, <2>2 DEF UserQuit, UserFinalize
  <1>10. CASE UserCtxDeregister
    <2>1. /\ UNCHANGED <<modVars, modules, persist, ctxState, curr_mod, stack>>
          /\ key' = FALSE \/ key' = key
      BY <1>10 DEF UserCtxDeregister, m_ctx_deregister
    <2>2. Born' = Born
      BY <2>1 DEF modVars, Born
    <2>3. CASE key' = FALSE
      <3>1. ~Leaving'
        BY <2>3 DEF Leaving
      <3> QED
        BY <2>1, <3>1 DEF SteadyInv, Steady, Denied
    <2> QED
      BY <1>2, <2>1, <2>2, <2>3, SteadySame
  <1> QED
    BY <1>3, <1>4, <1>5, <1>6, <1>7, <1>8, <1>9, <1>10 DEF UserStep

LEMMA SteadyStep == CoreInv /\ SteadyInv /\ [Next]_vars => SteadyInv'
  <1> SUFFICES ASSUME CoreInv, SteadyInv, [Next]_vars PROVE SteadyInv'
    OBVIOUS
  <1>1. ASSUME UNCHANGED <<state, ctxState, persist, modules, key, curr_mod, stack>> PROVE SteadyInv'
    <2>1. Born' = Born
      BY <1>1 DEF Born
    <2> QED
      BY <1>1, <2>1, SteadySame DEF SteadyInv
  <1>2. CASE UNCHANGED vars
    BY <1>1, <1>2 DEF vars, modVars, ctxVars
  <1>3. ASSUME NEW m \in Mods, module_dtor(m) PROVE SteadyInv'
    BY <1>1, <1>3 DEF module_dtor
  <1> QED
    BY <1>2, <1>3, UserSteady, LibraryStepSteady DEF Next, Finished

LEMMA SteadyInit == Init => SteadyInv
  <1> SUFFICES ASSUME Init PROVE SteadyInv
    OBVIOUS
  <1>1. stack[1].fn = "user"
    BY DEF Init, Frame
  <1>2. Born = modules
    BY LifecycleAssumption DEF Init, Born
  <1> QED
    BY <1>1, <1>2 DEF SteadyInv, Steady, Leaving

(***************************************************************************)
(* A context that is not persistent is deregistered with its last module,     *)
(* whatever the hooks do in between and whether or not they may see it.       *)
(***************************************************************************)
THEOREM ContextGoesWithLast == Spec => []CtxGoesWithLastModule
  <1>1. CoreInv /\ SteadyInv => CtxGoesWithLastModule
    <2> SUFFICES ASSUME CoreInv, SteadyInv, Len(stack) = 1, ctxState = "IDLE", ~persist,
                        Born # {}, modules = {}
                 PROVE  ~key
      BY DEF CtxGoesWithLastModule
    <2>1. stack[1].fn = "user"
      BY DEF CoreInv, Shape, Main
    <2>2. ~Closing(stack)
      BY <2>1 DEF Closing, Closers
    <2> QED
      BY <2>2 DEF SteadyInv, Steady, Leaving
  <1>2. Spec => []SteadyInv
    BY SteadyInit, SteadyStep, CoreHolds, PTL DEF Spec
  <1> QED
    BY <1>1, <1>2, CoreHolds, PTL

-----------------------------------------------------------------------------
(***************************************************************************)
(* With clients that keep to ClientRules, nothing is used after it was freed: *)
(* no module, no source of an event, no node of a list of bound modules, and  *)
(* not the context.  The references alone do not give that: a cascade and a   *)
(* batch of events hold none.  The proof is about which frames may be above    *)
(* which others.                                                            *)
(***************************************************************************)

Looping == {"iter", "recv", "loop"}
Ending == {"flush", "lstop"}

(* A cascade over the modules bound to m, with states st and lists b: m is     *)
(* there, its iterator does not dangle and, unless there is nothing to        *)
(* iterate over, m runs or is paused.                                        *)
Cascade(f, st, b) ==
    /\ f.mod \in Mods /\ st[f.mod] \notin {"NONE", "ZOMBIE"} /\ f.n # -1
    /\ f.n > 0 => st[f.mod] \in Active
    /\ f.at = "stop" => b[f.mod] = <<>>
    /\ st[f.mod] \in Active \/ b[f.mod] = <<>>

(* What a frame relies on, given the map M, the context's state c and whether *)
(* the key k holds the context.                                             *)
Safe(f, st, b, M, c, k) ==
    /\ f.fn = "dereg" => f.mod \in Mods /\ f.mod \notin M /\ st[f.mod] # "NONE"
    /\ \A i \in 1..Len(f.todo) : f.todo[i].src
    /\ f.fn = "bound" => Cascade(f, st, b)
    /\ f.fn \in Looping => c = "LOOPING"
    /\ f.fn \in Ending => k /\ c = "IDLE"

(* Frame f may be above frame g.  The loop is called by the main program; a   *)
(* module whose state change is being passed on is not deregistered; when     *)
(* start() runs its module has no event left and no cascade under way.        *)
Apart(f, g) ==
    /\ f.fn \in {"iter", "recv"} => Main(g) \/ g.fn = "loop"
    /\ f.fn \in {"loop", "lstop"} => Main(g)
    /\ f.fn = "flush" => Main(g) \/ g.fn = "lstop"
    /\ f.fn = "bound" /\ g.fn = "dereg" => f.mod # g.mod
    /\ f.fn = "dereg" /\ g.fn = "bound" => f.mod # g.mod
    /\ f.fn = "start" => \A i \in 1..Len(g.todo) : g.todo[i].mod # f.mod
    /\ f.fn = "start" /\ g.fn = "bound" /\ g.mod = f.mod => g.n = 0

Sound(s, st, b, M, c, k) ==
    /\ s \in Seq(FrameType)
    /\ \A i \in 1..Len(s) : Safe(s[i], st, b, M, c, k)
    /\ \A i, j \in 1..Len(s) : i < j => Apart(s[i], s[j])
    /\ \A i, j \in 1..Len(s) : j = i + 1 /\ s[j].fn = "lstop" => s[i].fn = "flush"

Now(s) == Sound(s, state, bound, modules, ctxState, key)

(* A cascade the first step of which failed returns at once.                  *)
Aborted == stack[1].fn = "bound" /\ stack[1].n = 0 /\ ret # "ok"

SoundInv == Now(stack) \/ (Aborted /\ Now(Below))

LEMMA SoundPush ==
    ASSUME NEW s, NEW st, NEW b, NEW M, NEW c, NEW k, Sound(s, st, b, M, c, k),
           NEW f \in FrameType, Safe(f, st, b, M, c, k), \A i \in 1..Len(s) : Apart(f, s[i]),
           Len(s) > 0 /\ s[1].fn = "lstop" => f.fn = "flush"
    PROVE  /\ Sound(<<f>> \o s, st, b, M, c, k) /\ (<<f>> \o s)[1] = f
           /\ Len(<<f>> \o s) = Len(s) + 1 /\ Len(s) \in Nat
           /\ \A i \in 1..Len(<<f>> \o s) :
                i = 1 \/ (i - 1 \in 1..Len(s) /\ (<<f>> \o s)[i] = s[i - 1])
  <1> DEFINE t == <<f>> \o s
  <1>1. s \in Seq(FrameType) /\ Len(s) \in Nat
    BY DEF Sound
  <1>2. /\ t \in Seq(FrameType) /\ Len(t) = Len(s) + 1 /\ t[1] = f
        /\ \A i \in 1..Len(t) : i = 1 \/ (i - 1 \in 1..Len(s) /\ t[i] = s[i - 1])
    BY <1>1, PushIndex
  <1> HIDE DEF t
  <1>3. ASSUME NEW i \in 1..Len(t) PROVE Safe(t[i], st, b, M, c, k)
    BY <1>2 DEF Sound
  <1>4. ASSUME NEW i \in 1..Len(t), NEW j \in 1..Len(t), i < j PROVE Apart(t[i], t[j])
    <2>1. j - 1 \in 1..Len(s) /\ t[j] = s[j - 1]
      BY <1>2, <1>4
    <2>2. CASE i = 1
      BY <1>2, <2>1, <2>2
    <2>3. CASE i # 1
      <3>1. i - 1 \in 1..Len(s) /\ t[i] = s[i - 1] /\ i - 1 < j - 1
        BY <1>2, <1>4, <2>3
      <3> QED
        BY <2>1, <3>1 DEF Sound
    <2> QED
      BY <2>2, <2>3
  <1>5. ASSUME NEW i \in 1..Len(t), NEW j \in 1..Len(t), j = i + 1, t[j].fn = "lstop"
        PROVE  t[i].fn = "flush"
    <2>1. CASE i = 1
      <3>1. t[j] = s[1] /\ Len(s) > 0
        BY <1>1, <1>2, <1>5, <2>1
      <3> QED
        BY <1>2, <1>5, <2>1, <3>1
    <2>2. CASE i # 1
      <3>1. i - 1 \in 1..Len(s) /\ j - 1 \in 1..Len(s) /\ t[i] = s[i - 1] /\ t[j] = s[j - 1]
        BY <1>2, <1>5, <2>2
      <3>2. j - 1 = (i - 1) + 1
        BY <1>5
      <3> QED
        BY <1>5, <3>1, <3>2 DEF Sound
    <2> QED
      BY <2>1, <2>2
  <1>6. Sound(t, st, b, M, c, k)
    BY <1>2, <1>3, <1>4, <1>5 DEF Sound
  <1> QED
    BY <1>1, <1>2, <1>6 DEF t

LEMMA SoundPop ==
    ASSUME NEW s, NEW st, NEW b, NEW M, NEW c, NEW k, Sound(s, st, b, M, c, k), Len(s) > 1
    PROVE  /\ Sound(Tail(s), st, b, M, c, k) /\ Len(Tail(s)) = Len(s) - 1 /\ Len(s) \in Nat
           /\ \A i \in 1..Len(Tail(s)) : i + 1 \in 1..Len(s) /\ Tail(s)[i] = s[i + 1]
           /\ \A i \in 1..Len(Tail(s)) : Apart(s[1], Tail(s)[i])
           /\ Safe(s[1], st, b, M, c, k)
           /\ Tail(s)[1].fn = "lstop" => s[1].fn = "flush"
  <1> DEFINE t == Tail(s)
  <1>1. s \in Seq(FrameType) /\ Len(s) \in Nat
    BY DEF Sound
  <1>2. /\ t \in Seq(FrameType) /\ Len(t) = Len(s) - 1
        /\ \A i \in 1..Len(t) : i + 1 \in 1..Len(s) /\ t[i] = s[i + 1]
    BY <1>1, TailIndex
  <1> HIDE DEF t
  <1>3. \A i \in 1..Len(t) : Safe(t[i], st, b, M, c, k)
    BY <1>2 DEF Sound
  <1>4. ASSUME NEW i \in 1..Len(t), NEW j \in 1..Len(t), i < j PROVE Apart(t[i], t[j])
    <2>1. /\ i + 1 \in 1..Len(s) /\ j + 1 \in 1..Len(s) /\ i + 1 < j + 1
          /\ t[i] = s[i + 1] /\ t[j] = s[j + 1]
      BY <1>2, <1>4
    <2> QED
      BY <2>1 DEF Sound
  <1>5. ASSUME NEW i \in 1..Len(t), NEW j \in 1..Len(t), j = i + 1, t[j].fn = "lstop"
        PROVE  t[i].fn = "flush"
    <2>1. /\ i + 1 \in 1..Len(s) /\ j + 1 \in 1..Len(s) /\ j + 1 = (i + 1) + 1
          /\ t[i] = s[i + 1] /\ t[j] = s[j + 1]
      BY <1>2, <1>5
    <2> QED
      BY <1>5, <2>1 DEF Sound
  <1>6. ASSUME NEW i \in 1..Len(t) PROVE Apart(s[1], t[i])
    <2>1. i + 1 \in 1..Len(s) /\ 1 \in 1..Len(s) /\ 1 < i + 1 /\ t[i] = s[i + 1]
      BY <1>1, <1>2
    <2> QED
      BY <2>1 DEF Sound
  <1>7. Safe(s[1], st, b, M, c, k) /\ (t[1].fn = "lstop" => s[1].fn = "flush")
    <2>1. 1 \in 1..Len(s) /\ 2 \in 1..Len(s) /\ 2 = 1 + 1 /\ t[1] = s[2]
      BY <1>1, <1>2
    <2> QED
      BY <2>1 DEF Sound
  <1>8. Sound(t, st, b, M, c, k)
    BY <1>2, <1>3, <1>4, <1>5 DEF Sound
  <1> QED
    BY <1>1, <1>2, <1>6, <1>7, <1>8 DEF t

(* Nothing but the frames' own needs depends on the rest of the state.        *)
LEMMA SoundChange ==
    ASSUME NEW s, NEW st, NEW b, NEW M, NEW c, NEW k, Sound(s, st, b, M, c, k),
           NEW su, NEW d, NEW N, NEW e, NEW l,
           \A i \in 1..Len(s) : Safe(s[i], st, b, M, c, k) => Safe(s[i], su, d, N, e, l)
    PROVE  Sound(s, su, d, N, e, l)
  BY DEF Sound

-----------------------------------------------------------------------------
(***************************************************************************)
(* Frames that the registered modules rely on: deregistrations, registrations *)
(* that replace a module, and the flush.                                    *)
(***************************************************************************)
Has(s, fn) == \E i \in 1..Len(s) : s[i].fn = fn
Leaves(s, x, at) == \E i \in 1..Len(s) : s[i].fn = "dereg" /\ s[i].mod = x /\ s[i].at = at
Marked == {"dereg", "register", "flush"}

Keeps(s, t) ==
    /\ \A x, at : Leaves(s, x, at) <=> Leaves(t, x, at)
    /\ \A fn \in Marked : Has(t, fn) => Has(s, fn)

LEMMA KeepsSelf == \A s : Keeps(s, s)
  BY DEF Keeps

LEMMA KeepsTrans ==
    ASSUME NEW s, NEW t, NEW u, Keeps(s, t), Keeps(t, u)
    PROVE  Keeps(s, u)
  BY DEF Keeps

LEMMA MarksPush ==
    ASSUME NEW s \in Seq(FrameType), NEW f \in FrameType
    PROVE  /\ \A fn : Has(<<f>> \o s, fn) <=> Has(s, fn) \/ f.fn = fn
           /\ \A x, at : Leaves(<<f>> \o s, x, at) <=>
                 Leaves(s, x, at) \/ (f.fn = "dereg" /\ f.mod = x /\ f.at = at)
  <1> DEFINE t == <<f>> \o s
  <1>1. /\ t \in Seq(FrameType) /\ Len(t) = Len(s) + 1 /\ t[1] = f /\ Len(s) \in Nat
        /\ \A i \in 1..Len(s) : i + 1 \in 1..Len(t) /\ t[i + 1] = s[i]
        /\ \A i \in 1..Len(t) : i = 1 \/ (i - 1 \in 1..Len(s) /\ t[i] = s[i - 1])
    BY PushIndex
  <1>2. 1 \in 1..Len(t)
    BY <1>1
  <1> HIDE DEF t
  <1>3. \A fn : Has(t, fn) <=> Has(s, fn) \/ f.fn = fn
    BY <1>1, <1>2 DEF Has
  <1>4. ASSUME NEW x, NEW at
        PROVE  Leaves(t, x, at) <=> Leaves(s, x, at) \/ (f.fn = "dereg" /\ f.mod = x /\ f.at = at)
    BY <1>1, <1>2 DEF Leaves
  <1> QED
    BY <1>3, <1>4 DEF t

LEMMA KeepsPush ==
    ASSUME NEW s \in Seq(FrameType), NEW f \in FrameType, f.fn \notin Marked
    PROVE  Keeps(s, <<f>> \o s)
  BY MarksPush DEF Keeps, Marked

(* The top frame taken off and put back changed, or not put back.            *)
LEMMA MarksPop ==
    ASSUME CoreInv, ~Main(stack[1])
    PROVE  /\ \A fn : Has(stack, fn) <=> Has(Below, fn) \/ Top.fn = fn
           /\ \A x, at : Leaves(stack, x, at) <=>
                 Leaves(Below, x, at) \/ (Top.fn = "dereg" /\ Top.mod = x /\ Top.at = at)
           /\ Below \in Seq(FrameType) /\ Top \in FrameType
  <1>1. stack \in Seq(FrameType) /\ Len(stack) > 1
    BY ShapePop DEF CoreInv, Shape
  <1>2. Top = stack[1] /\ Top \in FrameType /\ Below \in Seq(FrameType)
    BY <1>1, HeadFirst, TailIndex DEF Top, Below
  <1>3. stack = <<Top>> \o Below
    BY <1>1 DEF Top, Below
  <1> QED
    BY <1>2, <1>3, MarksPush

LEMMA KeepsBelow ==
    ASSUME CoreInv, ~Main(stack[1]), Top.fn # "dereg"
    PROVE  Keeps(stack, Below)
  BY MarksPop DEF Keeps

LEMMA KeepsReplace ==
    ASSUME CoreInv, ~Main(stack[1]), Top.fn # "dereg", NEW f \in FrameType,
           f.fn \in Marked => f.fn = Top.fn
    PROVE  Keeps(stack, <<f>> \o Below)
  <1>1. Below \in Seq(FrameType)
    BY MarksPop
  <1>2. /\ \A fn : Has(<<f>> \o Below, fn) <=> Has(Below, fn) \/ f.fn = fn
        /\ \A x, at : Leaves(<<f>> \o Below, x, at) <=>
                 Leaves(Below, x, at) \/ (f.fn = "dereg" /\ f.mod = x /\ f.at = at)
    BY <1>1, MarksPush
  <1>3. f.fn # "dereg"
    BY DEF Marked
  <1> QED
    BY <1>2, <1>3, MarksPop DEF Keeps

-----------------------------------------------------------------------------
(***************************************************************************)
(* The modules: names in the map are unique, a module in the map is held by   *)
(* the user, one that is neither in the map nor dead is being deregistered;    *)
(* a registration that waits replaces a module that is held and stays held,    *)
(* unless it was refused and returns at once; while the loop ends, the last    *)
(* module of a context stays.                                               *)
(***************************************************************************)
Unique == \A x, y \in modules : Name[x] = Name[y] => x = y
Kept(s) ==
    \A m \in Mods : state[m] \notin {"NONE", "ZOMBIE"} => m \in modules \/ \E at \in Ats : Leaves(s, m, at)
Replacing(s) ==
    Has(s, "register") => \E x \in Mods : handle[x] /\ x \notin modules /\ ~Leaves(s, x, "user")
Remaining(s) == ~persist /\ Has(s, "flush") /\ Has(s, "dereg") => modules # {}

Owned ==
    /\ Unique /\ \A m \in modules : handle[m]
    /\ Kept(stack) /\ Remaining(stack)
    /\ ctxState = "LOOPING" => key

OwnInv == Owned /\ Replacing(stack)

Refused == stack[1].fn = "register" /\ ret # "ok"
RefusedInv == Owned /\ Refused /\ Replacing(Below)

(* A freed module is dead, and nothing refers to it.                         *)
FreedOK == \A m \in freed : state[m] = "ZOMBIE" /\ refs[m] = 0

FreeInv == SoundInv /\ (OwnInv \/ RefusedInv) /\ FreedOK /\ ~undefined

(* What every step is shown to keep, but for FreedOK.                        *)
Sure == SoundInv' /\ (OwnInv \/ RefusedInv)' /\ ~undefined'

LEMMA FreeNow ==
    ASSUME CoreInv, FreeInv, Top.fn # "register"
    PROVE  SoundInv /\ OwnInv /\ FreedOK /\ ~undefined
  <1>1. Top = stack[1]
    BY HeadFirst DEF CoreInv, Shape, Top
  <1> QED
    BY <1>1 DEF FreeInv, RefusedInv, Refused

LEMMA OwnedKept ==
    ASSUME Owned, Keeps(stack, stack'), UNCHANGED <<modules, handle, persist>>,
           \A m \in Mods : state'[m] \notin {"NONE", "ZOMBIE"} => state[m] \notin {"NONE", "ZOMBIE"},
           ctxState' = "LOOPING" => key'
    PROVE  Owned'
  <1>1. Unique' /\ \A m \in modules' : handle'[m]
    BY DEF Owned, Unique
  <1>2. Kept(stack)'
    BY DEF Owned, Kept, Keeps
  <1>3. Remaining(stack)'
    <2>1. /\ Has(stack', "flush") => Has(stack, "flush")
          /\ Has(stack', "dereg") => Has(stack, "dereg")
      BY DEF Keeps, Marked
    <2> QED
      BY <2>1 DEF Owned, Remaining
  <1> QED
    BY <1>1, <1>2, <1>3 DEF Owned

LEMMA OwnKept ==
    ASSUME OwnInv, Keeps(stack, stack'), UNCHANGED <<modules, handle, persist>>,
           \A m \in Mods : state'[m] \notin {"NONE", "ZOMBIE"} => state[m] \notin {"NONE", "ZOMBIE"},
           ctxState' = "LOOPING" => key'
    PROVE  OwnInv'
  <1>1. Owned'
    BY OwnedKept DEF OwnInv
  <1>2. Replacing(stack)'
    <2>1. Has(stack', "register") => Has(stack, "register")
      BY DEF Keeps, Marked
    <2> QED
      BY <2>1 DEF OwnInv, Replacing, Keeps
  <1> QED
    BY <1>1, <1>2 DEF OwnInv

LEMMA StatesKept ==
    ASSUME CoreInv, NEW m \in Mods, state[m] \notin {"NONE", "ZOMBIE"}, NEW x,
           state' = [state EXCEPT ![m] = x]
    PROVE  \A q \in Mods : /\ state'[q] = IF q = m THEN x ELSE state[q]
                           /\ state'[q] \notin {"NONE", "ZOMBIE"} => state[q] \notin {"NONE", "ZOMBIE"}
  BY DEF CoreInv, DataInv

(* A step that leaves the modules as they are.                               *)
LEMMA QuietSure ==
    ASSUME OwnInv, ~undefined, NEW s, stack' = s, Now(s), Keeps(stack, s),
           UNCHANGED <<state, bound, handle, modules, persist, ctxState, key, undefined>>
    PROVE  Sure
  <1>1. OwnInv'
    BY OwnKept DEF OwnInv, Owned
  <1>2. SoundInv'
    BY DEF SoundInv, Now
  <1> QED
    BY <1>1, <1>2 DEF Sure

LEMMA FailSure ==
    ASSUME OwnInv, ~undefined, NEW below, Now(below), Keeps(stack, below), Fail(below)
    PROVE  Sure
  BY QuietSure DEF Fail, modVars, ctxVars

(* A frame that no rule is about: a hook, or stop().                         *)
Neutral(f) == f.fn \in {"user", "stop"} /\ f.todo = <<>>

LEMMA PlainSound ==
    ASSUME NEW s, NEW st, NEW b, NEW M, NEW c, NEW k, Sound(s, st, b, M, c, k),
           NEW f \in FrameType, Neutral(f), s[1].fn # "lstop"
    PROVE  /\ Sound(<<f>> \o s, st, b, M, c, k) /\ (<<f>> \o s)[1] = f
           /\ Keeps(s, <<f>> \o s)
  <1>1. Safe(f, st, b, M, c, k)
    BY DEF Neutral, Safe, Looping, Ending
  <1>2. \A i \in 1..Len(s) : Apart(f, s[i])
    BY DEF Neutral, Apart
  <1>3. f.fn \notin Marked /\ s \in Seq(FrameType)
    BY DEF Neutral, Marked, Sound
  <1> QED
    BY <1>1, <1>2, <1>3, SoundPush, KeepsPush

LEMMA HookFrame ==
    ASSUME NEW m \in Mods, NEW at \in Where
    PROVE  Frame("user", m, at) \in FrameType /\ Neutral(Frame("user", m, at))
  <1>1. "user" \in Fns /\ at \in Ats /\ m \in Mods \cup {NoMod}
    BY DEF Fns, Ats
  <1> QED
    BY <1>1, NewFrame DEF Neutral

(* No event of m waits in s, and no cascade over m's list has begun.          *)
Quiet(s, m) ==
    \A i \in 1..Len(s) :
        /\ s[i].fn = "bound" /\ s[i].mod = m => s[i].n = 0
        /\ \A k \in 1..Len(s[i].todo) : s[i].todo[k].mod # m

LEMMA QuietPush ==
    ASSUME NEW s \in Seq(FrameType), NEW m, Quiet(s, m), NEW f \in FrameType, f.fn # "bound",
           f.todo = <<>>
    PROVE  Quiet(<<f>> \o s, m)
  <1> DEFINE t == <<f>> \o s
  <1>1. /\ t[1] = f
        /\ \A i \in 1..Len(t) : i = 1 \/ (i - 1 \in 1..Len(s) /\ t[i] = s[i - 1])
    BY PushIndex
  <1>2. \A k \in 1..Len(f.todo) : f.todo[k].mod # m
    OBVIOUS
  <1> HIDE DEF t
  <1>3. ASSUME NEW i \in 1..Len(t)
        PROVE  /\ t[i].fn = "bound" /\ t[i].mod = m => t[i].n = 0
               /\ \A k \in 1..Len(t[i].todo) : t[i].todo[k].mod # m
    <2>1. CASE t[i] = f
      BY <1>2, <2>1
    <2>2. CASE i - 1 \in 1..Len(s) /\ t[i] = s[i - 1]
      BY <2>2 DEF Quiet
    <2> QED
      BY <1>1, <2>1, <2>2
  <1>4. Quiet(t, m)
    BY <1>3 DEF Quiet
  <1> QED
    BY <1>4 DEF t

LEMMA DanglingSame ==
    ASSUME NEW s \in Seq(FrameType), NEW m \in Mods, Quiet(s, m)
    PROVE  Dangling(s, m) = s
  <1> DEFINE Todo(f) == [j \in 1..Len(f.todo) |->
                            IF f.todo[j].mod = m THEN [f.todo[j] EXCEPT !.src = FALSE]
                                                 ELSE f.todo[j]]
             N(f) == IF f.fn = "bound" /\ f.mod = m /\ f.n > 1 THEN -1 ELSE f.n
             D(f) == [f EXCEPT !.todo = Todo(f), !.n = N(f)]
             d == Dangling(s, m)
  <1>1. d = [i \in 1..Len(s) |-> D(s[i])]
    BY DEF Dangling
  <1>2. ASSUME NEW i \in 1..Len(s) PROVE D(s[i]) = s[i]
    <2>1. s[i] \in FrameType
      OBVIOUS
    <2>2. s[i].todo \in Seq(Event)
      BY <2>1 DEF FrameType
    <2>3. Todo(s[i]) = s[i].todo
      <3>1. \A j \in 1..Len(s[i].todo) : Todo(s[i])[j] = s[i].todo[j]
        BY DEF Quiet
      <3>2. s[i].todo = [j \in 1..Len(s[i].todo) |-> s[i].todo[j]]
        BY <2>2
      <3> QED
        BY <3>1, <3>2
    <2>4. N(s[i]) = s[i].n
      BY DEF Quiet
    <2> HIDE DEF Todo, N
    <2> QED
      BY <2>1, <2>3, <2>4 DEF FrameType
  <1> HIDE DEF D
  <1>3. s = [i \in 1..Len(s) |-> s[i]]
    OBVIOUS
  <1> QED
    BY <1>1, <1>2, <1>3

LEMMA ShiftedSame ==
    ASSUME NEW s \in Seq(FrameType), NEW m, \A i \in 1..Len(s) : s[i].fn # "bound"
    PROVE  Shifted(s, m) = s
  <1> DEFINE N(f) == IF f.fn = "bound" /\ f.mod = m /\ f.n > 1 THEN f.n + 1 ELSE f.n
             D(f) == [f EXCEPT !.n = N(f)]
             d == Shifted(s, m)
  <1>1. d = [i \in 1..Len(s) |-> D(s[i])]
    BY DEF Shifted
  <1>2. ASSUME NEW i \in 1..Len(s) PROVE D(s[i]) = s[i]
    <2>1. s[i] \in FrameType
      OBVIOUS
    <2>2. N(s[i]) = s[i].n
      OBVIOUS
    <2> HIDE DEF N
    <2> QED
      BY <2>1, <2>2 DEF FrameType
  <1> HIDE DEF D
  <1>3. s = [i \in 1..Len(s) |-> s[i]]
    OBVIOUS
  <1> QED
    BY <1>1, <1>2, <1>3

-----------------------------------------------------------------------------
(***************************************************************************)
(* start() and stop().                                                      *)
(***************************************************************************)
Alive(m) == state[m] \notin {"NONE", "ZOMBIE"}

LEMMA StartFrame ==
    ASSUME NEW s, NEW st, NEW b, NEW M, NEW c, NEW k, Sound(s, st, b, M, c, k), NEW m \in Mods,
           NEW at \in {"call", "stopped"}, Quiet(s, m), s[1].fn # "lstop"
    PROVE  LET f == Frame("start", m, at)
           IN  /\ f \in FrameType /\ f.fn = "start" /\ (<<f>> \o s)[1] = f
               /\ Sound(<<f>> \o s, st, b, M, c, k) /\ Keeps(s, <<f>> \o s)
  <1> DEFINE f == Frame("start", m, at)
  <1>1. "start" \in Fns /\ at \in Ats /\ m \in Mods \cup {NoMod}
    BY DEF Fns, Ats
  <1>2. f \in FrameType /\ f.fn = "start" /\ f.mod = m /\ f.todo = <<>>
    BY <1>1, NewFrame
  <1> HIDE DEF f
  <1>3. Safe(f, st, b, M, c, k)
    BY <1>2 DEF Safe, Looping, Ending
  <1>4. \A i \in 1..Len(s) : Apart(f, s[i])
    BY <1>2 DEF Quiet, Apart
  <1>5. f.fn \notin Marked /\ s \in Seq(FrameType)
    BY <1>2 DEF Marked, Sound
  <1>6. /\ Sound(<<f>> \o s, st, b, M, c, k) /\ (<<f>> \o s)[1] = f
        /\ Keeps(s, <<f>> \o s)
    BY <1>2, <1>3, <1>4, <1>5, SoundPush, KeepsPush
  <1> QED
    BY <1>2, <1>6 DEF f

(* A hook called from frame g, which is on the stack s.                      *)
LEMMA CallSound ==
    ASSUME NEW s, NEW st, NEW b, NEW M, NEW c, NEW k, NEW g \in FrameType, s \in Seq(FrameType),
           Sound(<<g>> \o s, st, b, M, c, k), g.fn # "lstop", NEW m \in Mods, NEW at \in Where
    PROVE  LET u == Frame("user", m, at)
           IN  /\ <<u, g>> \o s = <<u>> \o (<<g>> \o s)
               /\ Sound(<<u, g>> \o s, st, b, M, c, k) /\ Keeps(<<g>> \o s, <<u, g>> \o s)
  <1> DEFINE u == Frame("user", m, at)
             t == <<g>> \o s
  <1>1. u \in FrameType /\ Neutral(u)
    BY HookFrame
  <1> HIDE DEF u
  <1>2. <<u, g>> \o s = <<u>> \o t
    BY <1>1, PushTwo
  <1>3. t[1] = g
    BY PushIndex
  <1> HIDE DEF t
  <1>4. Sound(t, st, b, M, c, k)
    BY DEF t
  <1>5. Sound(<<u>> \o t, st, b, M, c, k) /\ Keeps(t, <<u>> \o t)
    BY <1>1, <1>3, <1>4, PlainSound
  <1> QED
    BY <1>2, <1>5 DEF t, u

(* A step after which the modules are the same, but for the state of one.     *)
LEMMA MovedSure ==
    ASSUME CoreInv, OwnInv, ~undefined, NEW m \in Mods, Alive(m), NEW x,
           state' = [state EXCEPT ![m] = x], Now(stack)', Keeps(stack, stack'),
           UNCHANGED <<handle, modules, persist, ctxState, key, undefined>>
    PROVE  Sure
  <1>1. \A q \in Mods : state'[q] \notin {"NONE", "ZOMBIE"} => state[q] \notin {"NONE", "ZOMBIE"}
    BY StatesKept DEF Alive
  <1>2. OwnInv'
    BY <1>1, OwnKept DEF OwnInv, Owned
  <1> QED
    BY <1>2 DEF Sure, SoundInv

LEMMA StartSure ==
    ASSUME CoreInv, OwnInv, ~undefined, NEW m \in Mods, Alive(m), NEW starting \in BOOLEAN,
           NEW below, Sound(below, [state EXCEPT ![m] = "RUNNING"], bound, modules, ctxState, key),
           Keeps(stack, below), below[1].fn # "lstop", starting => Quiet(below, m),
           start(m, starting, below), ~Fail(below)
    PROVE  Sure
  <1> DEFINE st == [state EXCEPT ![m] = "RUNNING"]
             g == Frame("start", m, "call")
             u == Frame("user", m, "start")
  <1>1. state' = st /\ UNCHANGED <<handle, bound, modules, persist, ctxState, key, undefined>>
    BY DEF start
  <1>2. CASE ~starting
    <2>1. stack' = below
      BY <1>2 DEF start
    <2>2. Now(stack)'
      BY <1>1, <2>1 DEF Now
    <2> QED
      BY <1>1, <2>1, <2>2, MovedSure
  <1>3. CASE starting
    <2>1. stack' = <<u, g>> \o below
      BY <1>3 DEF start
    <2> HIDE DEF u, st
    <2>2. Sound(below, st, bound, modules, ctxState, key) /\ below \in Seq(FrameType)
      BY DEF st, Sound
    <2>3. /\ g \in FrameType /\ g.fn = "start"
          /\ Sound(<<g>> \o below, st, bound, modules, ctxState, key)
          /\ Keeps(below, <<g>> \o below)
      BY <1>3, <2>2, StartFrame
    <2> HIDE DEF g
    <2>4. "start" \in Where
      BY DEF Where
    <2>5. /\ Sound(<<u, g>> \o below, st, bound, modules, ctxState, key)
          /\ Keeps(<<g>> \o below, <<u, g>> \o below)
      BY <2>2, <2>3, <2>4, CallSound DEF u
    <2>6. Keeps(stack, stack')
      BY <2>1, <2>3, <2>5, KeepsTrans
    <2>7. Now(stack)'
      BY <1>1, <2>1, <2>5 DEF Now
    <2>8. state' = [state EXCEPT ![m] = "RUNNING"]
      BY <1>1 DEF st
    <2> QED
      BY <1>1, <2>6, <2>7, <2>8, MovedSure
  <1> QED
    BY <1>2, <1>3

(* stop() clears nothing that a frame below still needs.                     *)
LEMMA StopSound ==
    ASSUME NEW m \in Mods, NEW r, NEW below, stop(m, TRUE, r, below),
           Sound(below, [state EXCEPT ![m] = "STOPPED"], [bound EXCEPT ![m] = <<>>], modules',
                 ctxState, key),
           Quiet(below, m), below[1].fn # "lstop"
    PROVE  Now(stack)' /\ Keeps(below, stack') /\ undefined' = undefined
  <1> DEFINE st == [state EXCEPT ![m] = "STOPPED"]
             b == [bound EXCEPT ![m] = <<>>]
             g == Frame("stop", m, "call")
             u == Frame("user", m, "stop")
  <1>1. below \in Seq(FrameType)
    BY DEF Sound
  <1>2. Dangling(below, m) = below
    BY <1>1, DanglingSame
  <1>3. /\ state' = st /\ bound' = b /\ UNCHANGED <<ctxState, key, undefined>>
        /\ stack' = <<u, g>> \o below
    BY <1>2 DEF stop
  <1>4. Sound(below, st, b, modules', ctxState, key)
    OBVIOUS
  <1>5. "stop" \in Fns /\ "call" \in Ats /\ m \in Mods \cup {NoMod} /\ "stop" \in Where
    BY DEF Fns, Ats, Where
  <1>6. g \in FrameType /\ Neutral(g) /\ g.fn = "stop"
    BY <1>5, NewFrame DEF Neutral
  <1> HIDE DEF st, b, u, g
  <1>7. /\ Sound(<<g>> \o below, st, b, modules', ctxState, key)
        /\ Keeps(below, <<g>> \o below)
    BY <1>4, <1>6, PlainSound
  <1>8. /\ Sound(<<u, g>> \o below, st, b, modules', ctxState, key)
        /\ Keeps(<<g>> \o below, <<u, g>> \o below)
    BY <1>1, <1>5, <1>6, <1>7, CallSound DEF u
  <1>9. Now(stack)'
    BY <1>3, <1>8 DEF Now
  <1> QED
    BY <1>3, <1>7, <1>8, <1>9, KeepsTrans

LEMMA SoundMoved ==
    ASSUME CoreInv, NEW s, Now(s), NEW m \in Mods, NEW x \in Active
    PROVE  Sound(s, [state EXCEPT ![m] = x], bound, modules, ctxState, key)
  <1> DEFINE st == [state EXCEPT ![m] = x]
  <1>1. /\ \A q \in Mods : st[q] = IF q = m THEN x ELSE state[q]
        /\ x \notin {"NONE", "ZOMBIE"}
    BY DEF CoreInv, DataInv, Active
  <1> HIDE DEF st
  <1>2. ASSUME NEW f, Safe(f, state, bound, modules, ctxState, key)
        PROVE  Safe(f, st, bound, modules, ctxState, key)
    <2>1. f.fn = "bound" => Cascade(f, st, bound)
      BY <1>1, <1>2 DEF Safe, Cascade
    <2>2. f.fn = "dereg" => f.mod \in Mods /\ f.mod \notin modules /\ st[f.mod] # "NONE"
      BY <1>1, <1>2 DEF Safe
    <2> QED
      BY <1>2, <2>1, <2>2 DEF Safe
  <1>3. Sound(s, state, bound, modules, ctxState, key)
    BY DEF Now
  <1>4. Sound(s, st, bound, modules, ctxState, key)
    BY <1>2, <1>3, SoundChange
  <1> QED
    BY <1>4 DEF st

LEMMA SoundStopped ==
    ASSUME CoreInv, NEW s, Now(s), NEW m \in Mods, Quiet(s, m), NEW N \in SUBSET modules
    PROVE  Sound(s, [state EXCEPT ![m] = "STOPPED"], [bound EXCEPT ![m] = <<>>], N, ctxState, key)
  <1> DEFINE st == [state EXCEPT ![m] = "STOPPED"]
             b == [bound EXCEPT ![m] = <<>>]
  <1>1. /\ \A q \in Mods : st[q] = IF q = m THEN "STOPPED" ELSE state[q]
        /\ \A q \in Mods : b[q] = IF q = m THEN <<>> ELSE bound[q]
    BY DEF CoreInv, DataInv
  <1> HIDE DEF st, b
  <1>2. ASSUME NEW i \in 1..Len(s), Safe(s[i], state, bound, modules, ctxState, key)
        PROVE  Safe(s[i], st, b, N, ctxState, key)
    <2>1. s[i].fn = "bound" => Cascade(s[i], st, b)
      BY <1>1, <1>2 DEF Safe, Cascade, Quiet
    <2>2. s[i].fn = "dereg" => s[i].mod \in Mods /\ s[i].mod \notin N /\ st[s[i].mod] # "NONE"
      BY <1>1, <1>2 DEF Safe
    <2> QED
      BY <1>2, <2>1, <2>2 DEF Safe
  <1>3. Sound(s, state, bound, modules, ctxState, key)
    BY DEF Now
  <1>4. Sound(s, st, b, N, ctxState, key)
    BY <1>2, <1>3, SoundChange
  <1> QED
    BY <1>4 DEF st, b

(* A module that does not run has no events and no cascade under way.         *)
LEMMA SettledQuiet ==
    ASSUME CoreInv, NEW s, Now(s), Run(s, state, bound), NEW m \in Mods, state[m] \notin Active
    PROVE  Quiet(s, m)
  <1> SUFFICES ASSUME NEW i \in 1..Len(s)
               PROVE  /\ s[i].fn = "bound" /\ s[i].mod = m => s[i].n = 0
                      /\ \A k \in 1..Len(s[i].todo) : s[i].todo[k].mod # m
    BY DEF Quiet
  <1>1. s[i] \in FrameType /\ Safe(s[i], state, bound, modules, ctxState, key)
    BY DEF Now, Sound
  <1>2. Alone(s[i], state)
    BY DEF Run, Calm
  <1>3. s[i].fn = "bound" /\ s[i].mod = m => s[i].n = 0
    <2>1. s[i].n \in Nat \cup {-1}
      BY <1>1 DEF FrameType
    <2> QED
      BY <1>1, <2>1 DEF Safe, Cascade
  <1>4. ASSUME NEW k \in 1..Len(s[i].todo) PROVE s[i].todo[k].mod # m
    BY <1>1, <1>2 DEF Safe, Alone, Active
  <1> QED
    BY <1>3, <1>4

(* The cascade of an operation on m is put on the stack s.                   *)
LEMMA CascadePush ==
    ASSUME NEW s, NEW st, NEW b, NEW M, NEW c, NEW k, Sound(s, st, b, M, c, k),
           NEW m \in Mods, NEW op \in StateOp, st[m] \notin {"NONE", "ZOMBIE"},
           op = "stop" => b[m] = <<>>, st[m] \in Active \/ b[m] = <<>>,
           s[1].fn # "lstop", \A i \in 1..Len(s) : s[i].fn = "dereg" => s[i].mod # m
    PROVE  LET f == Frame("bound", m, op)
           IN  /\ f \in FrameType /\ f.fn = "bound" /\ f.n = 0 /\ (<<f>> \o s)[1] = f
               /\ Sound(<<f>> \o s, st, b, M, c, k) /\ Keeps(s, <<f>> \o s)
               /\ Quiet(s, m) => Quiet(<<f>> \o s, m)
               /\ Tail(<<f>> \o s) = s
  <1> DEFINE f == Frame("bound", m, op)
             t == <<f>> \o s
  <1>1. "bound" \in Fns /\ op \in Ats /\ m \in Mods \cup {NoMod}
    BY DEF Fns, Ats
  <1>2. f \in FrameType /\ f.fn = "bound" /\ f.mod = m /\ f.at = op /\ f.todo = <<>>
    BY <1>1, NewFrame
  <1>3. f.n = 0
    BY DEF Frame
  <1> HIDE DEF f
  <1>4. Safe(f, st, b, M, c, k)
    BY <1>2, <1>3 DEF Safe, Cascade, Looping, Ending
  <1>5. \A i \in 1..Len(s) : Apart(f, s[i])
    BY <1>2 DEF Apart
  <1>6. f.fn \notin Marked /\ s \in Seq(FrameType)
    BY <1>2 DEF Marked, Sound
  <1>7. /\ Sound(t, st, b, M, c, k) /\ t[1] = f /\ Keeps(s, t)
        /\ \A i \in 1..Len(t) : i = 1 \/ (i - 1 \in 1..Len(s) /\ t[i] = s[i - 1])
    BY <1>2, <1>4, <1>5, <1>6, SoundPush, KeepsPush
  <1>8. Tail(t) = s
    BY <1>2, <1>6
  <1> HIDE DEF t
  <1>9. Quiet(s, m) => Quiet(t, m)
    BY <1>2, <1>3, <1>7 DEF Quiet
  <1> QED
    BY <1>2, <1>3, <1>7, <1>8, <1>9 DEF f, t

(* Its first step fails: the cascade is put on the stack and returns at once. *)
LEMMA AbortSure ==
    ASSUME OwnInv, ~undefined, NEW f \in FrameType, f.fn = "bound", f.n = 0, NEW s, Now(s),
           Keeps(stack, s), Fail(<<f>> \o s)
    PROVE  Sure
  <1>1. s \in Seq(FrameType)
    BY DEF Now, Sound
  <1>2. (<<f>> \o s)[1] = f /\ Tail(<<f>> \o s) = s
    BY <1>1, PushIndex
  <1>3. /\ stack' = <<f>> \o s /\ ret' = "err"
        /\ UNCHANGED <<state, bound, handle, modules, persist, ctxState, key, undefined>>
    BY DEF Fail, modVars, ctxVars
  <1>4. Aborted'
    BY <1>2, <1>3 DEF Aborted
  <1>5. Now(Below)'
    BY <1>2, <1>3 DEF Now, Below
  <1>6. Keeps(stack, stack')
    <2>1. f.fn \notin Marked
      BY DEF Marked
    <2> QED
      BY <1>1, <1>3, <2>1, KeepsPush, KeepsTrans
  <1>7. OwnInv'
    BY <1>3, <1>6, OwnKept DEF OwnInv, Owned
  <1> QED
    BY <1>3, <1>4, <1>5, <1>7 DEF Sure, SoundInv

LEMMA StateOpSure ==
    ASSUME CoreInv, OwnInv, ~undefined, NEW op \in StateOp, NEW m \in Mods, NEW below,
           Now(below), Run(below, state, bound), Keeps(stack, below), below[1].fn # "lstop",
           op = "stop" => Quiet(below, m),
           op = "start" => \A i \in 1..Len(below) : below[i].fn = "dereg" => below[i].mod # m,
           m_mod_state_op(op, m, below)
    PROVE  Sure
  <1> DEFINE f == Frame("bound", m, op)
             t == <<f>> \o below
  <1>1. CASE ~(M_MOD_ASSERT(m) /\ state[m] \in StateAllowed(op))
    BY <1>1, FailSure DEF m_mod_state_op
  <1>2. CASE M_MOD_ASSERT(m) /\ state[m] \in StateAllowed(op)
    <2>1. /\ op \in {"start", "pause", "resume", "stop"} /\ UNCHANGED modules
          /\ \/ op \in {"start", "resume"} /\ start(m, op = "start", t)
             \/ op \in {"pause", "stop"} /\ stop(m, op = "stop", refs, t)
      BY <1>2 DEF m_mod_state_op, StateOp
    <2>2. Alive(m)
      BY <1>2, <2>1 DEF StateAllowed, Alive
    <2>3. ASSUME NEW i \in 1..Len(below), below[i].fn = "dereg" PROVE below[i].mod # m
      <3>1. op # "start" => state[m] \in Active
        BY <1>2, <2>1 DEF StateAllowed, Active
      <3>2. Alone(below[i], state)
        BY DEF Run, Calm
      <3> QED
        BY <2>3, <3>1, <3>2 DEF Alone, Active
    <2>4. CASE op \in {"start", "resume"} /\ start(m, op = "start", t)
      <3> DEFINE st == [state EXCEPT ![m] = "RUNNING"]
                 sg == op = "start"
      <3>1. "RUNNING" \in Active /\ sg \in BOOLEAN /\ (sg => state[m] \notin Active)
        BY <1>2 DEF Active, StateAllowed
      <3>2. st[m] = "RUNNING"
        BY DEF CoreInv, DataInv
      <3>3. Sound(below, st, bound, modules, ctxState, key)
        BY <3>1, SoundMoved
      <3> HIDE DEF st
      <3>4. /\ f \in FrameType /\ f.fn = "bound" /\ f.n = 0 /\ t[1] = f
            /\ Sound(t, st, bound, modules, ctxState, key) /\ Keeps(below, t)
            /\ Quiet(below, m) => Quiet(t, m)
        BY <2>3, <2>4, <3>1, <3>2, <3>3, CascadePush
      <3>5. CASE Fail(t)
        <4> HIDE DEF f
        <4> QED
          BY <3>4, <3>5, AbortSure
      <3>6. CASE ~Fail(t)
        <4>1. sg => Quiet(t, m)
          BY <3>1, <3>4, SettledQuiet
        <4>2. Keeps(stack, t) /\ t[1].fn # "lstop"
          BY <3>4, KeepsTrans
        <4>3. start(m, sg, t)
          BY <2>4
        <4> HIDE DEF t, sg, f
        <4> QED
          BY <2>2, <3>1, <3>4, <3>6, <4>1, <4>2, <4>3, StartSure DEF st
      <3> QED
        BY <3>5, <3>6
    <2>5. CASE op = "pause" /\ stop(m, op = "stop", refs, t)
      <3> DEFINE st == [state EXCEPT ![m] = "PAUSED"]
      <3>1. "PAUSED" \in Active /\ st[m] = "PAUSED"
        BY DEF Active, CoreInv, DataInv
      <3>3. Sound(below, st, bound, modules, ctxState, key)
        BY <3>1, SoundMoved
      <3> HIDE DEF st
      <3>4. /\ Sound(t, st, bound, modules, ctxState, key) /\ Keeps(below, t)
            /\ f \in FrameType /\ f.fn = "bound" /\ f.n = 0
        BY <2>3, <2>5, <3>1, <3>3, CascadePush
      <3>7. CASE Fail(t)
        <4> HIDE DEF f
        <4> QED
          BY <3>4, <3>7, AbortSure
      <3>8. CASE ~Fail(t)
        <4>1. /\ state' = st /\ stack' = t
              /\ UNCHANGED <<handle, bound, modules, persist, ctxState, key, undefined>>
          BY <2>1, <2>5, <3>8 DEF stop, st
        <4> HIDE DEF t, f
        <4>2. Now(stack)' /\ Keeps(stack, stack')
          BY <3>4, <4>1, KeepsTrans DEF Now
        <4>3. state' = [state EXCEPT ![m] = "PAUSED"]
          BY <4>1 DEF st
        <4> QED
          BY <2>2, <4>1, <4>2, <4>3, MovedSure
      <3> QED
        BY <3>7, <3>8
    <2>6. CASE op = "stop" /\ stop(m, op = "stop", refs, t)
      <3> DEFINE st == [state EXCEPT ![m] = "STOPPED"]
                 b == [bound EXCEPT ![m] = <<>>]
      <3>1. st[m] = "STOPPED" /\ b[m] = <<>>
        BY DEF CoreInv, DataInv
      <3>2. /\ state' = st /\ stop(m, TRUE, refs, t)
            /\ UNCHANGED <<handle, modules, persist, ctxState, key, undefined>>
        BY <2>1, <2>6 DEF stop
      <3>3. Sound(below, st, b, modules, ctxState, key)
        BY <2>6, SoundStopped
      <3> HIDE DEF st, b
      <3>4. /\ f.fn = "bound" /\ t[1] = f
            /\ Sound(t, st, b, modules, ctxState, key) /\ Keeps(below, t)
            /\ Quiet(t, m)
        BY <2>3, <2>6, <3>1, <3>3, CascadePush
      <3> HIDE DEF t, f
      <3>5. Sound(t, st, b, modules', ctxState, key) /\ t[1].fn # "lstop"
        BY <3>2, <3>4
      <3>6. Now(stack)' /\ Keeps(t, stack')
        BY <3>2, <3>4, <3>5, StopSound DEF st, b
      <3>7. Keeps(stack, stack')
        BY <3>4, <3>6, KeepsTrans
      <3>8. state' = [state EXCEPT ![m] = "STOPPED"]
        BY <3>2 DEF st
      <3> QED
        BY <2>2, <3>2, <3>6, <3>7, <3>8, MovedSure
    <2> QED
      BY <2>1, <2>4, <2>5, <2>6
  <1> QED
    BY <1>1, <1>2

-----------------------------------------------------------------------------
(***************************************************************************)
(* Functions that return, and cascades.                                      *)
(***************************************************************************)
LEMMA BelowSound ==
    ASSUME CoreInv, SoundInv, ~Main(stack[1])
    PROVE  /\ Now(Below) /\ Below \in Seq(FrameType) /\ Top = stack[1] /\ Top \in FrameType
           /\ Len(Below) > 0
           /\ Top.fn # "bound" => ~Aborted
           /\ ~Aborted => /\ Now(stack) /\ Safe(Top, state, bound, modules, ctxState, key)
                          /\ \A i \in 1..Len(Below) : Apart(Top, Below[i])
                          /\ Below[1].fn = "lstop" => Top.fn = "flush"
  <1>1. stack \in Seq(FrameType) /\ Len(stack) > 1 /\ Len(stack) \in Nat
    BY ShapePop DEF CoreInv, Shape
  <1>2. Top = stack[1] /\ Top \in FrameType /\ Below \in Seq(FrameType) /\ Len(Below) > 0
    BY <1>1, HeadFirst, TailIndex DEF Top, Below
  <1>3. Top.fn # "bound" => ~Aborted
    BY <1>2 DEF Aborted
  <1>4. CASE Now(stack)
    <2>1. /\ Now(Below) /\ Safe(Top, state, bound, modules, ctxState, key)
          /\ \A i \in 1..Len(Below) : Apart(Top, Below[i])
          /\ Below[1].fn = "lstop" => Top.fn = "flush"
      BY <1>1, <1>2, <1>4, SoundPop DEF Now, Below
    <2> QED
      BY <1>2, <1>3, <1>4, <2>1
  <1>5. CASE Aborted /\ Now(Below)
    BY <1>2, <1>3, <1>5
  <1> QED
    BY <1>4, <1>5 DEF SoundInv

LEMMA ReturnSure ==
    ASSUME CoreInv, SoundInv, OwnInv, ~undefined, ~Main(stack[1]), Top.fn # "dereg", stack' = Below,
           UNCHANGED <<state, bound, handle, modules, persist, ctxState, key, undefined>>
    PROVE  Sure
  <1>1. Now(Below)
    BY BelowSound
  <1>2. Keeps(stack, Below)
    BY KeepsBelow
  <1> QED
    BY <1>1, <1>2, QuietSure

(* A frame in place of the one that ran, with the same needs.                *)
LEMMA ReplaceSound ==
    ASSUME CoreInv, SoundInv, ~Main(stack[1]), ~Aborted, NEW f \in FrameType,
           Safe(f, state, bound, modules, ctxState, key), Top.fn # "dereg", f.fn # "dereg",
           f.fn \in Marked => f.fn = Top.fn, Top.fn = "flush" => f.fn = "flush",
           \A i \in 1..Len(Below) : Apart(Top, Below[i]) => Apart(f, Below[i])
    PROVE  /\ Now(<<f>> \o Below) /\ (<<f>> \o Below)[1] = f /\ Keeps(stack, <<f>> \o Below)
           /\ \A i \in 1..Len(<<f>> \o Below) :
                i = 1 \/ (i - 1 \in 1..Len(Below) /\ (<<f>> \o Below)[i] = Below[i - 1])
  <1>1. /\ Now(Below) /\ \A i \in 1..Len(Below) : Apart(Top, Below[i])
        /\ Below[1].fn = "lstop" => Top.fn = "flush"
    BY BelowSound
  <1>2. /\ Sound(<<f>> \o Below, state, bound, modules, ctxState, key) /\ (<<f>> \o Below)[1] = f
        /\ \A i \in 1..Len(<<f>> \o Below) :
             i = 1 \/ (i - 1 \in 1..Len(Below) /\ (<<f>> \o Below)[i] = Below[i - 1])
    BY <1>1, SoundPush DEF Now
  <1>3. Keeps(stack, <<f>> \o Below)
    BY KeepsReplace
  <1> QED
    BY <1>2, <1>3 DEF Now

(* The cascade goes on only while its module runs or is paused; a module in    *)
(* such a state is not freed.                                                *)
LEMMA BoundResumesSure ==
    ASSUME CoreInv, RunInv, FreeInv, BoundResumes
    PROVE  Sure
  <1> DEFINE next == Top.n + 1
             w == [Top EXCEPT !.n = next]
             q == bound[Top.mod][next]
  <1>1. Top.fn = "bound" /\ SoundInv /\ OwnInv /\ FreedOK /\ ~undefined
    BY FreeNow DEF BoundResumes, At
  <1>2. ~Main(stack[1]) /\ FrameOK(Top, state)
    BY <1>1, NotUser, BelowReady
  <1>3. CASE stack' = Below /\ UNCHANGED <<modVars, ctxVars, undefined>>
    BY <1>1, <1>2, <1>3, ReturnSure DEF modVars, ctxVars
  <1>4. CASE ~(Top.n = 0 /\ ret # "ok")
    <2>1. ~Aborted
      BY <1>1, <1>2, <1>4, BelowSound DEF Aborted
    <2>2. /\ Top \in FrameType /\ Safe(Top, state, bound, modules, ctxState, key)
          /\ Below \in Seq(FrameType)
      BY <1>1, <1>2, <2>1, BelowSound
    <2>3. Cascade(Top, state, bound)
      BY <1>1, <2>2 DEF Safe
    <2>4. Top.mod \notin freed /\ Top.n # -1 /\ Top.mod \in Mods
      BY <1>1, <2>3 DEF Cascade, FreedOK
    <2>5. CASE ~(next > Len(bound[Top.mod])) /\ m_mod_state_op(Top.at, q, <<w>> \o Below)
      <3>1. /\ w \in FrameType /\ w.fn = "bound" /\ w.mod = Top.mod /\ w.at = Top.at
            /\ w.todo = Top.todo /\ w.n = next
        <4>1. next \in Nat
          BY <2>2, <2>4 DEF FrameType
        <4> HIDE DEF next
        <4> QED
          BY <1>1, <2>2, <4>1 DEF FrameType
      <3>2. Top.at \in StateOp /\ next \in Nat /\ next >= 1
        BY <1>1, <1>2, <2>2, <2>4 DEF FrameOK, FrameType
      <3>3. bound[Top.mod] \in Seq(Mods)
        BY <2>4 DEF CoreInv, DataInv
      <3>4. q \in Mods /\ q \in Range(bound[Top.mod]) /\ bound[Top.mod] # <<>>
        BY <2>5, <3>2, <3>3 DEF Range
      <3>5. Top.at # "stop" /\ state[Top.mod] \in Active
        BY <2>3, <3>4 DEF Cascade
      <3>6. m_mod_state_op(Top.at, q, <<w>> \o Below)
        BY <2>5
      <3>7. Safe(w, state, bound, modules, ctxState, key)
        <4>1. Cascade(w, state, bound)
          BY <2>3, <3>1, <3>2, <3>5 DEF Cascade
        <4> QED
          BY <2>2, <3>1, <4>1 DEF Safe, Looping, Ending
      <3>8. /\ Alone(Top, state) /\ \A i \in 1..Len(Below) : Over(Top, Below[i], bound)
        BY <1>2, BelowRun
      <3> DEFINE t == <<w>> \o Below
      <3> HIDE DEF w, q, next
      <3>9. \A i \in 1..Len(Below) : Apart(Top, Below[i]) => Apart(w, Below[i])
        BY <1>1, <3>1 DEF Apart
      <3>10. /\ Now(t) /\ t[1] = w /\ Keeps(stack, t)
             /\ \A i \in 1..Len(t) : i = 1 \/ (i - 1 \in 1..Len(Below) /\ t[i] = Below[i - 1])
        <4>1. w.fn \notin Marked /\ Top.fn # "flush"
          BY <1>1, <3>1 DEF Marked
        <4> QED
          BY <1>1, <1>2, <2>1, <3>1, <3>7, <3>9, <4>1, ReplaceSound
      <3>11. Run(t, state, bound)
        <4>1. Alone(w, state)
          BY <1>1, <3>1, <3>8 DEF Alone, Evaluated
        <4>2. ASSUME NEW i \in 1..Len(Below) PROVE Over(w, Below[i], bound)
          <5>1. Over(Top, Below[i], bound)
            BY <3>8
          <5> QED
            BY <1>1, <3>1, <5>1 DEF Over
        <4> QED
          BY <1>2, <3>1, <4>1, <4>2, ReplaceRun
      <3> HIDE DEF t
      <3>12. ASSUME Top.at = "start", NEW i \in 1..Len(t), t[i].fn = "dereg"
             PROVE  t[i].mod # q
        <4>1. i - 1 \in 1..Len(Below) /\ t[i] = Below[i - 1]
          BY <3>1, <3>10, <3>12
        <4>2. Over(Top, Below[i - 1], bound)
          BY <3>8, <4>1
        <4>3. q \in Reach(bound, Top.mod)
          BY <2>4, <3>4, ReachNext, ReachSelf
        <4> QED
          BY <1>1, <3>12, <4>1, <4>2, <4>3 DEF Over
      <3>13. m_mod_state_op(Top.at, q, t) /\ t[1].fn # "lstop"
        BY <3>1, <3>6, <3>10 DEF t
      <3> QED
        BY <1>1, <3>2, <3>4, <3>5, <3>10, <3>11, <3>12, <3>13, StateOpSure
    <2>6. \/ stack' = Below /\ UNCHANGED <<modVars, ctxVars, undefined>>
          \/ ~(next > Len(bound[Top.mod])) /\ m_mod_state_op(Top.at, q, <<w>> \o Below)
      BY <1>4, <2>4 DEF BoundResumes
    <2> QED
      BY <1>3, <2>5, <2>6
  <1>5. Top.n = 0 /\ ret # "ok" => stack' = Below /\ UNCHANGED <<modVars, ctxVars, undefined>>
    BY DEF BoundResumes
  <1> QED
    BY <1>3, <1>4, <1>5

-----------------------------------------------------------------------------
(***************************************************************************)
(* Deregistration and registration.                                         *)
(***************************************************************************)
NoCascade(s, m) == \A i \in 1..Len(s) : s[i].fn = "bound" => s[i].mod # m

LEMMA OneHomonym ==
    ASSUME Unique, NEW m \in modules
    PROVE  Homonyms(m) = {m}
  BY DEF Unique, Homonyms

(* mod_deregister's frame is put on the stack s, with m out of the map.       *)
LEMMA DeregPush ==
    ASSUME CoreInv, NEW s, Now(s), NEW m \in modules, NEW at \in Ats, Quiet(s, m),
           NoCascade(s, m), s[1].fn # "lstop", NEW t, t = <<Frame("dereg", m, at)>> \o s,
           NEW st, st = [state EXCEPT ![m] = "STOPPED"], NEW b, b = [bound EXCEPT ![m] = <<>>]
    PROVE  t[1].fn = "dereg" /\ Quiet(t, m) /\ Sound(t, st, b, modules \ {m}, ctxState, key)
  <1> DEFINE f == Frame("dereg", m, at)
             N == modules \ {m}
  <1>1. "dereg" \in Fns /\ at \in Ats /\ m \in Mods \cup {NoMod} /\ m \in Mods
    BY DEF Fns, Ats, CoreInv, DataInv, Born
  <1>2. f \in FrameType /\ f.fn = "dereg" /\ f.mod = m /\ f.at = at /\ f.todo = <<>>
    BY <1>1, NewFrame
  <1>3. st[m] = "STOPPED"
    BY <1>1 DEF CoreInv, DataInv
  <1>4. Sound(s, st, b, N, ctxState, key)
    BY <1>1, SoundStopped
  <1>0. t = <<f>> \o s
    OBVIOUS
  <1> HIDE DEF f
  <1>5. Safe(f, st, b, N, ctxState, key)
    BY <1>1, <1>2, <1>3 DEF Safe, Looping, Ending
  <1> HIDE DEF N
  <1>6. \A i \in 1..Len(s) : Apart(f, s[i])
    BY <1>2 DEF Apart, NoCascade
  <1>7. s \in Seq(FrameType)
    BY DEF Now, Sound
  <1>8. /\ Sound(t, st, b, N, ctxState, key) /\ t[1] = f
        /\ \A i \in 1..Len(t) : i = 1 \/ (i - 1 \in 1..Len(s) /\ t[i] = s[i - 1])
    BY <1>0, <1>2, <1>4, <1>5, <1>6, SoundPush
  <1>9. Quiet(t, m)
    BY <1>2, <1>8 DEF Quiet
  <1> QED
    BY <1>2, <1>8, <1>9 DEF N

(* The stack below is the user's, or the user's and a registration of a       *)
(* module that is to replace m.                                              *)
LEMMA DeregSure ==
    ASSUME CoreInv, OwnInv, ~undefined, Now(stack), NEW m \in modules, NEW fromUser \in BOOLEAN,
           NEW below, Now(below), Quiet(below, m), NoCascade(below, m), below[1].fn # "lstop",
           \A x, how : Leaves(below, x, how) <=> Leaves(stack, x, how),
           Has(below, "flush") => Has(stack, "flush"),
           Has(below, "register") => Has(stack, "register") \/ ~fromUser,
           ~persist /\ Has(stack, "flush") => modules # {m},
           mod_deregister(m, fromUser, below), ~Fail(below)
    PROVE  Sure
  <1> DEFINE kind == IF fromUser THEN "user" ELSE "lib"
             t == <<Frame("dereg", m, kind)>> \o below
             st == [state EXCEPT ![m] = "STOPPED"]
             b == [bound EXCEPT ![m] = <<>>]
  <1>1. m \in Mods /\ Homonyms(m) = {m} /\ kind \in {"user", "lib"} /\ kind \in Ats
    BY OneHomonym DEF OwnInv, Owned, CoreInv, DataInv, Born, Ats
  <1>2. PICK r : modules' = modules \ {m} /\ stop(m, TRUE, r, t)
    BY <1>1 DEF mod_deregister
  <1>3. /\ state' = st /\ UNCHANGED <<handle, persist, ctxState, key>>
    BY <1>2 DEF stop
  <1> HIDE DEF kind
  <1>t. t = <<Frame("dereg", m, kind)>> \o below
    OBVIOUS
  <1>s. st = [state EXCEPT ![m] = "STOPPED"] /\ b = [bound EXCEPT ![m] = <<>>]
    OBVIOUS
  <1> HIDE DEF t, st, b
  <1>4. /\ t[1].fn = "dereg" /\ Quiet(t, m)
        /\ Sound(t, st, b, modules \ {m}, ctxState, key)
    BY <1>1, <1>t, <1>s, DeregPush
  <1>m. /\ Has(t, "flush") => Has(below, "flush")
        /\ Has(t, "register") => Has(below, "register")
        /\ \A x, how : Leaves(t, x, how) <=> Leaves(below, x, how) \/ (x = m /\ how = kind)
    <2> DEFINE f == Frame("dereg", m, kind)
    <2>1. below \in Seq(FrameType) /\ "dereg" \in Fns /\ m \in Mods \cup {NoMod}
      BY <1>1 DEF Now, Sound, Fns
    <2>2. f \in FrameType /\ f.fn = "dereg" /\ f.mod = m /\ f.at = kind
      BY <1>1, <2>1, NewFrame
    <2>3. t = <<f>> \o below
      BY <1>t
    <2> HIDE DEF f
    <2>4. /\ \A fn : Has(t, fn) <=> Has(below, fn) \/ f.fn = fn
          /\ \A x, how : Leaves(t, x, how) <=>
                 Leaves(below, x, how) \/ (f.fn = "dereg" /\ f.mod = x /\ f.at = how)
      BY <2>1, <2>2, <2>3, MarksPush
    <2> QED
      BY <2>2, <2>4
  <1>5. Now(stack)' /\ Keeps(t, stack') /\ undefined' = undefined
    BY <1>1, <1>2, <1>4, StopSound DEF st, b
  <1>6. \A q \in Mods : state'[q] = IF q = m THEN "STOPPED" ELSE state[q]
    BY <1>1, <1>3 DEF CoreInv, DataInv, st
  <1>7. \A x, how : Leaves(stack', x, how) <=> Leaves(stack, x, how) \/ (x = m /\ how = kind)
    BY <1>m, <1>5 DEF Keeps
  <1>8. /\ Has(stack', "flush") => Has(stack, "flush")
        /\ Has(stack', "register") => Has(stack, "register") \/ ~fromUser
    BY <1>m, <1>5 DEF Keeps, Marked
  <1>9. Unique' /\ \A x \in modules' : handle'[x]
    BY <1>2, <1>3 DEF OwnInv, Owned, Unique
  <1>10. Kept(stack)'
    <2> SUFFICES ASSUME NEW q \in Mods, state'[q] \notin {"NONE", "ZOMBIE"}
                 PROVE  q \in modules' \/ \E how \in Ats : Leaves(stack', q, how)
      BY DEF Kept
    <2>1. CASE q = m
      BY <1>1, <1>7, <2>1
    <2>2. CASE q # m
      <3>1. q \in modules \/ \E how \in Ats : Leaves(stack, q, how)
        BY <1>6, <2>2 DEF OwnInv, Owned, Kept
      <3> QED
        BY <1>2, <1>7, <2>2, <3>1
    <2> QED
      BY <2>1, <2>2
  <1>11. Replacing(stack)'
    <2> SUFFICES ASSUME Has(stack', "register")
                 PROVE  \E x \in Mods : handle'[x] /\ x \notin modules' /\ ~Leaves(stack', x, "user")
      BY DEF Replacing
    <2>1. CASE Has(stack, "register")
      <3>1. PICK x \in Mods : handle[x] /\ x \notin modules /\ ~Leaves(stack, x, "user")
        BY <2>1 DEF OwnInv, Replacing
      <3> QED
        BY <1>2, <1>3, <1>7, <3>1
    <2>2. CASE ~fromUser
      <3>1. handle[m] /\ kind # "user"
        BY <2>2 DEF OwnInv, Owned, kind
      <3>2. ~Leaves(stack, m, "user")
        BY DEF Leaves, Now, Sound, Safe
      <3> QED
        BY <1>1, <1>2, <1>3, <1>7, <3>1, <3>2
    <2> QED
      BY <1>8, <2>1, <2>2
  <1>12. Remaining(stack)'
    BY <1>2, <1>3, <1>8 DEF Remaining
  <1>13. OwnInv'
    BY <1>3, <1>9, <1>10, <1>11, <1>12 DEF OwnInv, Owned
  <1> QED
    BY <1>5, <1>13 DEF Sure, SoundInv

(* The context is there as long as the key holds it or the user has a module. *)
LEMMA CtxAlive ==
    ASSUME CoreInv, TallyInv, FreedOK, key \/ \E x \in Mods : handle[x]
    PROVE  ctxRefs > 0
  <1>1. IsFiniteSet(Born \ freed) /\ Cardinality(Born \ freed) \in Nat
    <2>1. IsFiniteSet(Mods) /\ Born \ freed \subseteq Mods
      BY LifecycleAssumption DEF Born
    <2> QED
      BY <2>1, FS_Subset, FS_CardinalityType
  <1>2. ctxRefs = (IF key THEN 1 ELSE 0) + Cardinality(Born \ freed) /\ key \in BOOLEAN
    BY DEF CoreInv, DataInv, CtxRefs
  <1>3. CASE key
    BY <1>1, <1>2, <1>3
  <1>4. CASE \E x \in Mods : handle[x]
    <2>1. PICK x \in Mods : handle[x]
      BY <1>4
    <2>2. x \in Born
      BY <2>1 DEF CoreInv, DataInv
    <2>3. refs[x] > 0
      <3>1. /\ refs[x] = Owed(stack, modules, handle, bound, x)
            /\ Count(stack, Holders(x)) \in Nat /\ Cardinality(Binds(bound, x)) \in Nat
        BY Counts DEF TallyInv, Tally
      <3> QED
        BY <2>1, <3>1 DEF Owed
    <2>4. x \in Born \ freed
      BY <2>2, <2>3 DEF FreedOK
    <2>5. Cardinality(Born \ freed) # 0
      BY <1>1, <2>4, FS_EmptySet
    <2> QED
      BY <1>1, <1>2, <2>5
  <1> QED
    BY <1>3, <1>4

LEMMA RegisterSure ==
    ASSUME CoreInv, TallyInv, OwnInv, FreedOK, ~undefined, NEW m \in Mods, state[m] = "NONE",
           NEW below, Now(below), Keeps(stack, below), key \/ \E x \in Mods : handle[x],
           register(m, below)
    PROVE  Sure
  <1>1. CASE Fail(below)
    BY <1>1, FailSure
  <1>2. CASE ~Fail(below)
    <2>1. /\ Homonyms(m) = {} /\ state' = [state EXCEPT ![m] = "IDLE"]
          /\ handle' = [handle EXCEPT ![m] = TRUE] /\ modules' = modules \cup {m}
          /\ stack' = below /\ UNCHANGED <<bound, persist, key, ctxState, undefined>>
      BY <1>2, CtxAlive DEF register
    <2>2. /\ \A q \in Mods : state'[q] = IF q = m THEN "IDLE" ELSE state[q]
          /\ \A q \in Mods : handle'[q] = IF q = m THEN TRUE ELSE handle[q]
          /\ modules \subseteq Mods /\ ~handle[m]
      BY <2>1 DEF CoreInv, DataInv, Born
    <2>3. ASSUME NEW f, Safe(f, state, bound, modules, ctxState, key)
          PROVE  Safe(f, state', bound', modules', ctxState', key')
      <3>1. f.fn = "bound" => Cascade(f, state', bound')
        BY <2>1, <2>2, <2>3 DEF Safe, Cascade
      <3>2. f.fn = "dereg" => f.mod \in Mods /\ f.mod \notin modules' /\ state'[f.mod] # "NONE"
        BY <2>1, <2>2, <2>3 DEF Safe
      <3> QED
        BY <2>1, <2>3, <3>1, <3>2 DEF Safe
    <2>4. Now(stack)'
      <3>1. Sound(below, state, bound, modules, ctxState, key)
        BY DEF Now
      <3>2. Sound(below, state', bound', modules', ctxState', key')
        BY <2>3, <3>1, SoundChange
      <3> QED
        BY <2>1, <3>2 DEF Now
    <2>5. Unique' /\ \A x \in modules' : handle'[x]
      <3>1. Unique'
        BY <2>1 DEF OwnInv, Owned, Unique, Homonyms
      <3>2. \A x \in modules' : handle'[x]
        BY <2>1, <2>2 DEF OwnInv, Owned
      <3> QED
        BY <3>1, <3>2
    <2>6. Kept(stack)'
      BY <2>1, <2>2 DEF OwnInv, Owned, Kept, Keeps
    <2>7. Replacing(stack)'
      <3> SUFFICES ASSUME Has(below, "register")
                   PROVE  \E x \in Mods : handle'[x] /\ x \notin modules' /\ ~Leaves(below, x, "user")
        BY <2>1 DEF Replacing
      <3>1. Has(stack, "register")
        BY DEF Keeps, Marked
      <3>2. PICK x \in Mods : handle[x] /\ x \notin modules /\ ~Leaves(stack, x, "user")
        BY <3>1 DEF OwnInv, Replacing
      <3> QED
        BY <2>1, <2>2, <3>2 DEF Keeps
    <2>8. Remaining(stack)' /\ (ctxState' = "LOOPING" => key')
      BY <2>1 DEF OwnInv, Owned, Remaining
    <2>9. OwnInv'
      BY <2>5, <2>6, <2>7, <2>8 DEF OwnInv, Owned
    <2> QED
      BY <2>1, <2>4, <2>9 DEF Sure, SoundInv
  <1> QED
    BY <1>1, <1>2

(* A registration that waits for the one it replaces to be deregistered.      *)
LEMMA WaitingPush ==
    ASSUME NEW s, Now(s), NEW m \in Mods, s[1].fn # "lstop"
    PROVE  LET f == Frame("register", m, "call")
           IN  /\ f \in FrameType /\ f.fn = "register" /\ (<<f>> \o s)[1] = f
               /\ f.todo = <<>> /\ Now(<<f>> \o s) /\ s \in Seq(FrameType)
  <1> DEFINE f == Frame("register", m, "call")
  <1>1. "register" \in Fns /\ "call" \in Ats /\ m \in Mods \cup {NoMod}
    BY DEF Fns, Ats
  <1>2. f \in FrameType /\ f.fn = "register" /\ f.todo = <<>>
    BY <1>1, NewFrame
  <1> HIDE DEF f
  <1>3. Safe(f, state, bound, modules, ctxState, key)
    BY <1>2 DEF Safe, Looping, Ending
  <1>4. \A i \in 1..Len(s) : Apart(f, s[i])
    BY <1>2 DEF Apart
  <1>5. Now(<<f>> \o s) /\ (<<f>> \o s)[1] = f /\ s \in Seq(FrameType)
    BY <1>2, <1>3, <1>4, SoundPush DEF Now, Sound
  <1> QED
    BY <1>2, <1>5 DEF f

LEMMA RefusedSure ==
    ASSUME OwnInv, ~undefined, NEW f \in FrameType, f.fn = "register", Now(<<f>> \o stack),
           stack \in Seq(FrameType), Fail(<<f>> \o stack)
    PROVE  Sure
  <1>1. (<<f>> \o stack)[1] = f /\ Tail(<<f>> \o stack) = stack
    BY PushIndex
  <1>2. /\ stack' = <<f>> \o stack /\ ret' = "err"
        /\ UNCHANGED <<state, bound, handle, modules, persist, ctxState, key, undefined>>
    BY DEF Fail, modVars, ctxVars
  <1>3. SoundInv' /\ Refused' /\ Below' = stack
    BY <1>1, <1>2 DEF SoundInv, Now, Refused, Below
  <1>4. Replacing(Below)'
    BY <1>2, <1>3 DEF OwnInv, Replacing
  <1>5. /\ \A fn : Has(stack', fn) <=> Has(stack, fn) \/ f.fn = fn
        /\ \A x, at : Leaves(stack', x, at) <=>
                 Leaves(stack, x, at) \/ (f.fn = "dereg" /\ f.mod = x /\ f.at = at)
    BY <1>2, MarksPush
  <1>6. Kept(stack)'
    BY <1>2, <1>5 DEF OwnInv, Owned, Kept
  <1>7. Remaining(stack)'
    <2>1. /\ Has(stack', "flush") => Has(stack, "flush")
          /\ Has(stack', "dereg") => Has(stack, "dereg")
      BY <1>5
    <2> QED
      BY <1>2, <2>1 DEF OwnInv, Owned, Remaining
  <1>8. Owned'
    BY <1>2, <1>6, <1>7 DEF OwnInv, Owned, Unique
  <1> QED
    BY <1>2, <1>3, <1>4, <1>8 DEF Sure, RefusedInv

LEMMA UserSound ==
    ASSUME CoreInv, SoundInv, Top.fn = "user"
    PROVE  Now(stack) /\ stack[1] = Top /\ stack[1].fn # "lstop" /\ stack \in Seq(FrameType)
  <1>1. stack[1] = Top
    BY UserReady
  <1> QED
    BY <1>1 DEF SoundInv, Aborted, Now, Sound

(* The frames of s have nothing to do with m.                                *)
LEMMA RuledQuiet ==
    ASSUME NEW m, ~InBatch(m), ~OnStack("bound", m)
    PROVE  Quiet(stack, m) /\ NoCascade(stack, m)
  BY DEF InBatch, OnStack, Quiet, NoCascade

LEMMA MRegisterSure ==
    ASSUME CoreInv, TallyInv, SoundInv, OwnInv, FreedOK, ~undefined, Top.fn = "user",
           NEW m \in Mods, state[m] = "NONE", ClientRules("register", m), m_mod_register(m, stack)
    PROVE  Sure
  <1>1. Now(stack) /\ stack[1].fn # "lstop" /\ stack \in Seq(FrameType) /\ Keeps(stack, stack)
    BY UserSound, KeepsSelf
  <1>2. CASE Fail(stack)
    BY <1>1, <1>2, FailSure
  <1>3. CASE m_ctx /\ register(m, stack)
    BY <1>1, <1>3, RegisterSure DEF m_ctx
  <1>4. CASE \E x \in Homonyms(m) :
                 mod_deregister(x, FALSE, <<Frame("register", m, "call")>> \o stack)
    <2> DEFINE f == Frame("register", m, "call")
               t == <<f>> \o stack
    <2>1. PICK x \in Homonyms(m) : mod_deregister(x, FALSE, t)
      BY <1>4
    <2>2. /\ f \in FrameType /\ f.fn = "register" /\ t[1] = f /\ f.todo = <<>> /\ Now(t)
      BY <1>1, WaitingPush
    <2> HIDE DEF f
    <2>3. CASE Fail(t)
      BY <1>1, <2>2, <2>3, RefusedSure
    <2>4. CASE ~Fail(t)
      <3>1. /\ Quiet(stack, x) /\ NoCascade(stack, x)
            /\ persist \/ ctxState = "LOOPING" \/ modules # {x}
        BY RuledQuiet DEF ClientRules
      <3>2. /\ \A fn : Has(t, fn) <=> Has(stack, fn) \/ f.fn = fn
            /\ \A y, at : Leaves(t, y, at) <=>
                     Leaves(stack, y, at) \/ (f.fn = "dereg" /\ f.mod = y /\ f.at = at)
        BY <1>1, <2>2, MarksPush
      <3>3. \A i \in 1..Len(t) : i = 1 \/ (i - 1 \in 1..Len(stack) /\ t[i] = stack[i - 1])
        BY <1>1, <2>2, PushIndex
      <3>4. Quiet(t, x)
        BY <1>1, <2>2, <3>1, QuietPush
      <3> HIDE DEF t
      <3>5. NoCascade(t, x)
        BY <2>2, <3>1, <3>3 DEF NoCascade
      <3>6. /\ \A y, how : Leaves(t, y, how) <=> Leaves(stack, y, how)
            /\ Has(t, "flush") => Has(stack, "flush")
        BY <2>2, <3>2
      <3>7. ~persist /\ Has(stack, "flush") => modules # {x}
        <4>1. Has(stack, "flush") => ctxState = "IDLE"
          BY <1>1 DEF Has, Now, Sound, Safe, Ending
        <4> QED
          BY <3>1, <4>1
      <3>8. x \in modules /\ FALSE \in BOOLEAN /\ t[1].fn # "lstop"
        BY <2>2 DEF Homonyms
      <3> QED
        BY <1>1, <2>1, <2>2, <2>4, <3>4, <3>5, <3>6, <3>7, <3>8, DeregSure
    <2> QED
      BY <2>3, <2>4
  <1> QED
    BY <1>2, <1>3, <1>4 DEF m_mod_register

(* The module that was replaced is still held, and with it the context.       *)
LEMMA RegisterResumesSure ==
    ASSUME CoreInv, TallyInv, FreeInv, RegisterResumes
    PROVE  Sure
  <1>1. Top.fn = "register" /\ SoundInv /\ FreedOK /\ ~undefined
    BY DEF RegisterResumes, At, FreeInv
  <1>2. ~Main(stack[1]) /\ FrameOK(Top, state) /\ Top = stack[1]
    BY <1>1, NotUser, BelowReady
  <1>3. Now(Below) /\ Keeps(stack, Below)
    BY <1>1, <1>2, BelowSound, KeepsBelow
  <1>4. CASE ret = "ok"
    <2>1. OwnInv
      BY <1>4 DEF FreeInv, RefusedInv, Refused
    <2>2. Has(stack, "register")
      BY <1>1, <1>2, MarksPop
    <2>3. \E x \in Mods : handle[x]
      BY <2>1, <2>2 DEF OwnInv, Replacing
    <2>4. Top.mod \in Mods /\ state[Top.mod] = "NONE" /\ register(Top.mod, Below)
      BY <1>1, <1>2, <1>4 DEF FrameOK, RegisterResumes
    <2> QED
      BY <1>1, <1>3, <2>1, <2>3, <2>4, RegisterSure
  <1>5. CASE ret # "ok"
    <2>1. /\ stack' = Below
          /\ UNCHANGED <<state, bound, handle, modules, persist, ctxState, key, undefined>>
      BY <1>5 DEF RegisterResumes, modVars, ctxVars
    <2>2. CASE OwnInv
      BY <1>1, <1>2, <2>1, <2>2, ReturnSure
    <2>3. CASE RefusedInv
      <3>1. Owned'
        BY <1>3, <2>1, <2>3, OwnedKept DEF RefusedInv, Owned
      <3>2. Replacing(stack)'
        BY <2>1, <2>3 DEF RefusedInv, Replacing
      <3>3. SoundInv'
        BY <1>3, <2>1 DEF SoundInv, Now
      <3> QED
        BY <1>1, <2>1, <3>1, <3>2, <3>3 DEF Sure, OwnInv
    <2> QED
      BY <2>2, <2>3 DEF FreeInv
  <1> QED
    BY <1>4, <1>5

(* The loop's end waits for the flush.                                       *)
LEMMA EndingFlush ==
    ASSUME NEW s, Now(s), NEW i \in 1..Len(s), s[i].fn \in Ending, s[1].fn # "lstop"
    PROVE  Has(s, "flush") /\ key /\ ctxState = "IDLE"
  <1>1. key /\ ctxState = "IDLE" /\ s \in Seq(FrameType)
    BY DEF Now, Sound, Safe
  <1>2. CASE s[i].fn = "flush"
    BY <1>1, <1>2 DEF Has
  <1>3. CASE s[i].fn = "lstop"
    <2>1. i # 1 /\ i \in Nat /\ Len(s) \in Nat
      BY <1>1, <1>3
    <2>2. i - 1 \in 1..Len(s) /\ i = (i - 1) + 1
      BY <2>1
    <2>3. s[i - 1].fn = "flush"
      BY <1>3, <2>2 DEF Now, Sound
    <2> QED
      BY <1>1, <2>2, <2>3 DEF Has
  <1> QED
    BY <1>2, <1>3 DEF Ending

(* mod_deregister ends: no cascade below is about the module, and the context  *)
(* goes only if no loop of it is about to end below.                         *)
LEMMA DeregResumesSure ==
    ASSUME CoreInv, FreeInv, DeregResumes
    PROVE  Sure
  <1> DEFINE m == Top.mod
  <1>1. Top.fn = "dereg" /\ SoundInv /\ OwnInv /\ ~undefined
    BY FreeNow DEF DeregResumes, At
  <1>2. ~Main(stack[1]) /\ Top = stack[1]
    BY <1>1, NotUser, BelowReady
  <1>3. /\ Now(Below) /\ Now(stack) /\ Safe(Top, state, bound, modules, ctxState, key)
        /\ \A i \in 1..Len(Below) : Apart(Top, Below[i])
    BY <1>1, <1>2, BelowSound
  <1>4. m \in Mods /\ m \notin modules
    BY <1>1, <1>3 DEF Safe
  <1>5. /\ state' = [state EXCEPT ![m] = "ZOMBIE"] /\ stack' = Below
        /\ handle' = [handle EXCEPT ![m] = @ /\ ~(Top.at = "user" /\ handle[m])]
        /\ UNCHANGED <<bound, modules, persist, ctxState, undefined>>
        /\ key' = key \/ (LastOne /\ m_ctx_deregister)
    BY DEF DeregResumes
  <1>6. /\ \A q \in Mods : state'[q] = IF q = m THEN "ZOMBIE" ELSE state[q]
        /\ \A q \in Mods : q # m \/ Top.at # "user" => handle'[q] = handle[q]
    BY <1>4, <1>5 DEF CoreInv, DataInv
  <1>7. /\ \A fn : Has(stack, fn) <=> Has(Below, fn) \/ Top.fn = fn
        /\ \A x, at : Leaves(stack, x, at) <=>
                 Leaves(Below, x, at) \/ (Top.fn = "dereg" /\ Top.mod = x /\ Top.at = at)
    BY <1>2, MarksPop
  <1>8. key' # key => ctxState = "IDLE" /\ modules = {} /\ ~persist
    BY <1>5 DEF LastOne
  <1>9. ASSUME NEW i \in 1..Len(Below), Safe(Below[i], state, bound, modules, ctxState, key)
        PROVE  Safe(Below[i], state', bound', modules', ctxState', key')
    <2> DEFINE f == Below[i]
    <2>1. f.fn = "bound" => f.mod # m
      BY <1>1, <1>3 DEF Apart
    <2>2. f.fn \in Ending => key' /\ ctxState' = "IDLE"
      <3> SUFFICES ASSUME f.fn \in Ending PROVE key' /\ ctxState' = "IDLE"
        OBVIOUS
      <3>1. i + 1 \in 1..Len(stack) /\ stack[i + 1] = f /\ stack[1].fn # "lstop"
        <4>1. stack \in Seq(FrameType) /\ Len(stack) > 1
          BY <1>2, ShapePop DEF CoreInv, Shape
        <4> QED
          BY <1>1, <1>2, <4>1, TailIndex DEF Below
      <3>2. Has(stack, "flush") /\ key /\ ctxState = "IDLE"
        BY <1>3, <3>1, EndingFlush
      <3>3. Has(stack, "dereg")
        BY <1>1, <1>7
      <3>4. ~persist => modules # {}
        BY <1>1, <3>2, <3>3 DEF OwnInv, Owned, Remaining
      <3> QED
        BY <1>5, <1>8, <3>2, <3>4
    <2> HIDE DEF f, m
    <2>3. f.fn = "bound" => Cascade(f, state', bound')
      BY <1>5, <1>6, <1>9, <2>1 DEF Safe, Cascade, f
    <2>4. f.fn = "dereg" => f.mod \in Mods /\ f.mod \notin modules' /\ state'[f.mod] # "NONE"
      BY <1>5, <1>6, <1>9 DEF Safe, f
    <2> QED
      BY <1>5, <1>9, <2>2, <2>3, <2>4 DEF Safe, f
  <1>10. Now(stack)'
    <2>1. Sound(Below, state, bound, modules, ctxState, key)
      BY <1>3 DEF Now
    <2>2. Sound(Below, state', bound', modules', ctxState', key')
      BY <1>9, <2>1, SoundChange
    <2> QED
      BY <1>5, <2>2 DEF Now
  <1> HIDE DEF m
  <1>11. Unique' /\ \A x \in modules' : handle'[x]
    <2>1. modules \subseteq Mods
      BY DEF CoreInv, DataInv, Born
    <2> QED
      BY <1>1, <1>4, <1>5, <1>6, <2>1 DEF OwnInv, Owned, Unique
  <1>12. Kept(stack)'
    <2> SUFFICES ASSUME NEW q \in Mods, state'[q] \notin {"NONE", "ZOMBIE"}
                 PROVE  q \in modules' \/ \E how \in Ats : Leaves(stack', q, how)
      BY DEF Kept
    <2>1. q # m /\ state[q] \notin {"NONE", "ZOMBIE"}
      BY <1>6
    <2>2. q \in modules \/ \E how \in Ats : Leaves(stack, q, how)
      BY <1>1, <2>1 DEF OwnInv, Owned, Kept
    <2> QED
      BY <1>5, <1>7, <2>1, <2>2 DEF m
  <1>13. Replacing(stack)'
    <2> SUFFICES ASSUME Has(Below, "register")
                 PROVE  \E x \in Mods : handle'[x] /\ x \notin modules' /\ ~Leaves(Below, x, "user")
      BY <1>5 DEF Replacing
    <2>1. PICK x \in Mods : handle[x] /\ x \notin modules /\ ~Leaves(stack, x, "user")
      BY <1>1, <1>7 DEF OwnInv, Replacing
    <2>2. x # m \/ Top.at # "user"
      BY <1>1, <1>7, <2>1 DEF m
    <2> QED
      BY <1>5, <1>6, <1>7, <2>1, <2>2
  <1>14. Remaining(stack)'
    <2>1. /\ Has(Below, "flush") => Has(stack, "flush")
          /\ Has(Below, "dereg") => Has(stack, "dereg")
      BY <1>7
    <2> QED
      BY <1>1, <1>5, <2>1 DEF OwnInv, Owned, Remaining
  <1>15. ctxState' = "LOOPING" => key'
    BY <1>1, <1>5, <1>8 DEF OwnInv, Owned
  <1> QED
    BY <1>1, <1>5, <1>10, <1>11, <1>12, <1>13, <1>14, <1>15 DEF Sure, SoundInv, OwnInv, Owned

-----------------------------------------------------------------------------
(***************************************************************************)
(* The other steps of the library.                                          *)
(***************************************************************************)
LEMMA HookReturnsSure ==
    ASSUME CoreInv, FreeInv, NEW result \in BOOLEAN, HookReturns(result)
    PROVE  Sure
  <1>1. /\ Top.fn = "user" /\ Top.mod # NoMod /\ stack' = Below
        /\ UNCHANGED <<state, bound, handle, modules, persist, ctxState, key, undefined>>
    BY DEF HookReturns, At
  <1>2. stack[1] = Top /\ 1 \in 1..Len(stack)
    BY HeadFirst DEF CoreInv, Shape, Top
  <1>3. ~Main(stack[1]) /\ SoundInv /\ OwnInv /\ ~undefined
    BY <1>1, <1>2, FreeNow DEF CoreInv, Shape
  <1> QED
    BY <1>1, <1>3, ReturnSure

(* When on_start refuses, start() stops the module: it has no events left and  *)
(* no cascade over its list has begun, since it was just started.             *)
LEMMA StartResumesSure ==
    ASSUME CoreInv, FreeInv, StartResumes
    PROVE  Sure
  <1> DEFINE m == Top.mod
             g == Frame("start", m, "stopped")
             t == <<g>> \o Below
             st == [state EXCEPT ![m] = "STOPPED"]
             b == [bound EXCEPT ![m] = <<>>]
  <1>1. Top.fn = "start" /\ SoundInv /\ OwnInv /\ ~undefined
    BY FreeNow DEF StartResumes, At
  <1>2. ~Main(stack[1]) /\ FrameOK(Top, state) /\ stack[1] = Top
    BY <1>1, NotUser, BelowReady
  <1>3. m \in Mods /\ state[m] # "NONE"
    BY <1>1, <1>2 DEF FrameOK
  <1>4. CASE stack' = Below /\ UNCHANGED <<modVars, ctxVars, undefined>>
    BY <1>1, <1>2, <1>4, ReturnSure DEF modVars, ctxVars
  <1>5. CASE Top.at = "call" /\ ret = "false" /\ stop(m, TRUE, refs, t) /\ UNCHANGED modules
    <2>1. state[m] # "ZOMBIE"
      BY <1>1, <1>2, <1>5 DEF CoreInv, RetOK, Awaits
    <2>2. /\ Now(Below) /\ \A i \in 1..Len(Below) : Apart(Top, Below[i])
          /\ Below[1].fn # "lstop"
      BY <1>1, <1>2, BelowSound
    <2>3. Quiet(Below, m)
      BY <1>1, <2>2 DEF Apart, Quiet
    <2>4. Sound(Below, st, b, modules, ctxState, key) /\ Below \in Seq(FrameType)
      BY <1>3, <2>2, <2>3, SoundStopped DEF Now, Sound
    <2>5. state' = st /\ UNCHANGED <<handle, modules, persist, ctxState, key, undefined>>
      BY <1>5 DEF stop
    <2>6. stop(m, TRUE, refs, t)
      BY <1>5
    <2> HIDE DEF st, b, m
    <2>7. /\ g \in FrameType /\ g.fn = "start" /\ t[1] = g
          /\ Sound(t, st, b, modules, ctxState, key) /\ Keeps(Below, t)
      BY <1>3, <2>2, <2>3, <2>4, StartFrame
    <2>8. g.todo = <<>>
      BY DEF Frame
    <2> HIDE DEF g
    <2>10. Quiet(t, m)
      BY <2>3, <2>4, <2>7, <2>8, QuietPush
    <2> HIDE DEF t
    <2>11. Sound(t, st, b, modules', ctxState, key) /\ t[1].fn # "lstop"
      BY <2>5, <2>7
    <2>12. Now(stack)' /\ Keeps(t, stack')
      BY <1>3, <2>6, <2>10, <2>11, StopSound DEF st, b
    <2>13. Keeps(stack, stack')
      BY <1>1, <1>2, <2>7, <2>12, KeepsBelow, KeepsTrans
    <2>14. state' = [state EXCEPT ![m] = "STOPPED"] /\ Alive(m)
      BY <1>3, <2>1, <2>5 DEF st, Alive
    <2> QED
      BY <1>1, <1>3, <2>5, <2>12, <2>13, <2>14, MovedSure
  <1> QED
    BY <1>4, <1>5 DEF StartResumes

LEMMA StopResumesSure ==
    ASSUME CoreInv, FreeInv, StopResumes
    PROVE  Sure
  <1>1. Top.fn = "stop" /\ SoundInv /\ OwnInv /\ ~undefined
    BY FreeNow DEF StopResumes, At
  <1>2. ~Main(stack[1])
    BY <1>1, NotUser
  <1> QED
    BY <1>1, <1>2, ReturnSure DEF StopResumes, modVars, ctxVars

(* An iteration, or a batch of events, has moved on.                         *)
Moving == {"iter", "flush", "recv"}

LEMMA LikeSound ==
    ASSUME CoreInv, SoundInv, Top.fn \in Moving, NEW g \in FrameType, g.fn = Top.fn,
           \A k \in 1..Len(g.todo) : g.todo[k].src
    PROVE  /\ Now(<<g>> \o Below) /\ Keeps(stack, <<g>> \o Below) /\ (<<g>> \o Below)[1] = g
           /\ Below \in Seq(FrameType) /\ g.fn # "lstop"
           /\ \A i \in 1..Len(<<g>> \o Below) :
                i = 1 \/ (i - 1 \in 1..Len(Below) /\ (<<g>> \o Below)[i] = Below[i - 1])
  <1>1. /\ ~Main(stack[1]) /\ Top.fn # "dereg" /\ Top.fn # "bound" /\ Top.fn # "start"
        /\ Top.fn # "lstop"
    BY NotUser DEF Moving
  <1>2. ~Aborted /\ Safe(Top, state, bound, modules, ctxState, key) /\ Below \in Seq(FrameType)
    BY <1>1, BelowSound
  <1>3. Safe(g, state, bound, modules, ctxState, key)
    BY <1>1, <1>2 DEF Safe
  <1>4. \A i \in 1..Len(Below) : Apart(Top, Below[i]) => Apart(g, Below[i])
    BY <1>1 DEF Apart
  <1> QED
    BY <1>1, <1>2, <1>3, <1>4, ReplaceSound

(* A hook is called from such a frame.                                       *)
LEMMA CallSure ==
    ASSUME CoreInv, OwnInv, ~undefined, NEW m \in Mods, NEW at \in Where, NEW g \in FrameType,
           Now(<<g>> \o Below), Keeps(stack, <<g>> \o Below), Below \in Seq(FrameType),
           g.fn # "lstop",
           \/ stack' = <<Frame("user", m, at)>> \o (<<g>> \o Below)
           \/ stack' = <<Frame("user", m, at), g>> \o Below,
           UNCHANGED <<state, bound, handle, modules, persist, ctxState, key, undefined>>
    PROVE  Sure
  <1> DEFINE u == Frame("user", m, at)
             t == <<u, g>> \o Below
  <1>1. Sound(<<g>> \o Below, state, bound, modules, ctxState, key)
    BY DEF Now
  <1>2. /\ t = <<u>> \o (<<g>> \o Below)
        /\ Sound(t, state, bound, modules, ctxState, key) /\ Keeps(<<g>> \o Below, t)
    BY <1>1, CallSound
  <1>3. stack' = t /\ Now(t)
    BY <1>2 DEF Now
  <1> HIDE DEF t
  <1>4. Keeps(stack, t)
    BY <1>2, KeepsTrans
  <1> QED
    BY <1>3, <1>4, QuietSure

LEMMA MovedOn ==
    ASSUME CoreInv, SoundInv, OwnInv, ~undefined, Top.fn \in Moving, NEW g \in FrameType,
           g.fn = Top.fn, \A k \in 1..Len(g.todo) : g.todo[k].src, stack' = <<g>> \o Below,
           UNCHANGED <<state, bound, handle, modules, persist, ctxState, key, undefined>>
    PROVE  Sure
  <1>1. Now(<<g>> \o Below) /\ Keeps(stack, <<g>> \o Below)
    BY LikeSound
  <1> QED
    BY <1>1, QuietSure

(* The events that are left to dispatch have their sources.                  *)
LEMMA TopEvents ==
    ASSUME CoreInv, SoundInv, Top.fn \in Moving
    PROVE  /\ ~Main(stack[1]) /\ Top.fn # "dereg" /\ Top \in FrameType
           /\ Safe(Top, state, bound, modules, ctxState, key)
           /\ \A k \in 1..Len(Top.todo) : Top.todo[k].src
  <1>1. ~Main(stack[1]) /\ Top.fn # "dereg" /\ Top.fn # "bound"
    BY NotUser DEF Moving
  <1>2. Safe(Top, state, bound, modules, ctxState, key) /\ Top \in FrameType
    BY <1>1, BelowSound
  <1> QED
    BY <1>1, <1>2 DEF Safe

LEMMA EntryDoneSure ==
    ASSUME CoreInv, SoundInv, OwnInv, ~undefined, Top.fn \in {"iter", "flush"}, EntryDone
    PROVE  Sure
  <1> DEFINE g == [Top EXCEPT !.at = "next", !.mod = NoMod]
  <1>1. Top.fn \in Moving
    BY DEF Moving
  <1>2. /\ ~Main(stack[1]) /\ Top.fn # "dereg" /\ Top \in FrameType
        /\ \A k \in 1..Len(Top.todo) : Top.todo[k].src
    BY <1>1, TopEvents
  <1>3. UNCHANGED <<state, bound, handle, modules, persist, ctxState, key, undefined>>
    BY DEF EntryDone, IterEnds, modVars, ctxVars
  <1>4. CASE stack' = Below
    BY <1>2, <1>3, <1>4, ReturnSure
  <1>5. CASE stack' = <<g>> \o Below
    <2>1. g \in FrameType /\ g.fn = Top.fn /\ g.todo = Top.todo
      BY <1>2 DEF FrameType, Ats
    <2> HIDE DEF g
    <2> QED
      BY <1>1, <1>2, <1>3, <1>5, <2>1, MovedOn
  <1> QED
    BY <1>4, <1>5 DEF EntryDone, IterEnds

LEMMA VisitFrame ==
    ASSUME CoreInv, SoundInv, Top.fn \in {"iter", "flush"}, NEW m \in modules,
           NEW at \in {"next", "evaluated", "called"}, at = "evaluated" => Top.fn = "iter"
    PROVE  LET g == Visit(Top, m, at)
           IN  /\ g \in FrameType /\ g.fn = Top.fn /\ \A k \in 1..Len(g.todo) : g.todo[k].src
               /\ m \in Mods /\ Top.fn \in Moving /\ ~Main(stack[1]) /\ Top.fn # "dereg"
  <1> DEFINE g == Visit(Top, m, at)
  <1>1. Top.fn \in Moving
    BY DEF Moving
  <1>2. /\ ~Main(stack[1]) /\ Top.fn # "dereg" /\ Top \in FrameType
        /\ \A k \in 1..Len(Top.todo) : Top.todo[k].src
    BY <1>1, TopEvents
  <1>3. m \in Mods /\ DataInv
    BY ModulesCounted DEF CoreInv
  <1>4. g \in FrameType /\ g.fn = Top.fn
    BY <1>2, <1>3, Visited
  <1>5. g.todo = Top.todo
    BY <1>2 DEF Visit, FrameType
  <1> HIDE DEF g
  <1>6. \A k \in 1..Len(g.todo) : g.todo[k].src
    BY <1>2, <1>5
  <1> QED
    BY <1>1, <1>2, <1>3, <1>4, <1>6 DEF g

LEMMA EvalNextSure ==
    ASSUME CoreInv, FreeInv, EvalNext
    PROVE  Sure
  <1>1. Top.fn = "iter" /\ Top.at = "next" /\ SoundInv /\ OwnInv /\ ~undefined
    BY FreeNow DEF EvalNext, At
  <1>2. ~Main(stack[1]) /\ Top \in FrameType
    BY <1>1, NotUser, BelowReady
  <1>3. UNCHANGED <<state, bound, handle, modules, persist, ctxState, key, undefined>>
    BY DEF EvalNext, IterEnds, modVars, ctxVars
  <1>4. CASE IterEnds("ok")
    BY <1>1, <1>2, <1>3, <1>4, ReturnSure DEF IterEnds
  <1>5. CASE ~IterEnds("ok")
    <2>1. PICK m \in modules :
            \/ stack' = <<Frame("user", m, "eval"), Visit(Top, m, "evaluated")>> \o Below
            \/ stack' = <<Visit(Top, m, "next")>> \o Below
      <3>1. PICK m \in modules :
              LET v == [Top EXCEPT !.mod = m, !.seen = @ \cup {m}, !.n = Cardinality(modules)]
              IN  \/ stack' = <<Frame("user", m, "eval"), [v EXCEPT !.at = "evaluated"]>> \o Below
                  \/ stack' = <<v>> \o Below
        BY <1>5 DEF EvalNext, MayIterate
      <3> DEFINE v == [Top EXCEPT !.mod = m, !.seen = @ \cup {m}, !.n = Cardinality(modules)]
      <3>2. [v EXCEPT !.at = "evaluated"] = Visit(Top, m, "evaluated")
        BY <1>2 DEF FrameType, Visit
      <3>3. v = Visit(Top, m, "next")
        BY <1>1, <1>2 DEF FrameType, Visit
      <3> HIDE DEF v
      <3> QED
        BY <3>1, <3>2, <3>3 DEF v
    <2>2. CASE stack' = <<Visit(Top, m, "next")>> \o Below
      <3> DEFINE g == Visit(Top, m, "next")
      <3>1. /\ g \in FrameType /\ g.fn = Top.fn /\ Top.fn \in Moving
            /\ \A k \in 1..Len(g.todo) : g.todo[k].src
        BY <1>1, VisitFrame
      <3> HIDE DEF g
      <3>2. stack' = <<g>> \o Below
        BY <2>2 DEF g
      <3> QED
        BY <1>1, <1>3, <3>1, <3>2, MovedOn
    <2>3. CASE stack' = <<Frame("user", m, "eval"), Visit(Top, m, "evaluated")>> \o Below
      <3> DEFINE g == Visit(Top, m, "evaluated")
      <3>1. /\ g \in FrameType /\ g.fn = Top.fn /\ Top.fn \in Moving /\ m \in Mods
            /\ \A k \in 1..Len(g.todo) : g.todo[k].src
        BY <1>1, VisitFrame
      <3> HIDE DEF g
      <3>2. /\ Now(<<g>> \o Below) /\ Keeps(stack, <<g>> \o Below) /\ Below \in Seq(FrameType)
            /\ g.fn # "lstop" /\ "eval" \in Where
        BY <1>1, <3>1, LikeSound DEF Where
      <3>3. stack' = <<Frame("user", m, "eval"), g>> \o Below
        BY <2>3 DEF g
      <3> QED
        BY <1>1, <1>3, <3>1, <3>2, <3>3, CallSure
    <2> QED
      BY <2>1, <2>2, <2>3
  <1> QED
    BY <1>4, <1>5

(* The evaluated module is started: it did not run.                          *)
LEMMA EvalResumesSure ==
    ASSUME CoreInv, RunInv, FreeInv, EvalResumes
    PROVE  Sure
  <1> DEFINE m == Top.mod
             w == [Top EXCEPT !.at = "started"]
             t == <<w>> \o Below
  <1>1. Top.fn = "iter" /\ Top.at = "evaluated" /\ SoundInv /\ OwnInv /\ ~undefined
    BY FreeNow DEF EvalResumes, At
  <1>2. Top.fn \in Moving
    BY <1>1 DEF Moving
  <1>3. /\ ~Main(stack[1]) /\ Top.fn # "dereg" /\ Top \in FrameType
        /\ \A k \in 1..Len(Top.todo) : Top.todo[k].src
    BY <1>1, <1>2, TopEvents
  <1>4. Alone(Top, state) /\ Run(Below, state, bound) /\ stack[1] = Top
    BY <1>3, BelowRun
  <1>5. CASE IterEnds(ret)
    BY <1>1, <1>3, <1>5, ReturnSure DEF IterEnds, modVars, ctxVars
  <1>6. CASE ret = "ok" /\ start(m, TRUE, t)
    <2>1. m \in Mods /\ state[m] \in {"IDLE", "STOPPED", "ZOMBIE"} /\ Len(Top.todo) = 0
      BY <1>1, <1>4 DEF Alone, Evaluated
    <2>2. Awaits(stack[1])
      BY <1>1, <1>4 DEF Awaits
    <2>3. Alive(m) /\ state[m] \notin Active
      BY <1>4, <1>6, <2>1, <2>2 DEF Alive, Active, CoreInv, RetOK
    <2>4. w \in FrameType /\ w.fn = "iter" /\ w.todo = Top.todo
      BY <1>1, <1>3 DEF FrameType, Ats
    <2>5. start(m, TRUE, t)
      BY <1>6
    <2> HIDE DEF m, w
    <2>6. /\ Now(t) /\ Keeps(stack, t) /\ t[1] = w
          /\ \A i \in 1..Len(t) : i = 1 \/ (i - 1 \in 1..Len(Below) /\ t[i] = Below[i - 1])
      BY <1>1, <1>2, <1>3, <2>4, LikeSound
    <2>7. Quiet(Below, m)
      BY <1>1, <1>3, <1>4, <2>1, <2>3, BelowSound, SettledQuiet
    <2> HIDE DEF t
    <2>8. Quiet(t, m)
      BY <2>1, <2>4, <2>6, <2>7 DEF Quiet
    <2>9. CASE Fail(t)
      BY <1>1, <2>6, <2>9, FailSure
    <2>10. CASE ~Fail(t)
      <3>1. "RUNNING" \in Active
        BY DEF Active
      <3>2. Sound(t, [state EXCEPT ![m] = "RUNNING"], bound, modules, ctxState, key)
        BY <2>1, <2>6, <3>1, SoundMoved
      <3>3. t[1].fn # "lstop" /\ TRUE \in BOOLEAN
        BY <2>4, <2>6
      <3> QED
        BY <1>1, <2>1, <2>3, <2>5, <2>6, <2>8, <2>10, <3>2, <3>3, StartSure
    <2> QED
      BY <2>9, <2>10
  <1> QED
    BY <1>5, <1>6 DEF EvalResumes

(* The loop and its parts are called by the main program only.               *)
FromMain(s) == \A i \in 1..Len(s) : Main(s[i])
FromLoop(s) == \A i \in 1..Len(s) : Main(s[i]) \/ s[i].fn = "loop"

(* What a stack of the main program alone relies on is nothing.               *)
LEMMA MainSound ==
    ASSUME NEW s, NEW st, NEW b, NEW M, NEW c, NEW k, Sound(s, st, b, M, c, k), FromMain(s),
           NEW d, NEW l
    PROVE  /\ Sound(s, st, b, M, d, l)
           /\ Len(s) > 0 => s[1].fn # "lstop"
           /\ \A fn \in Marked : ~Has(s, fn)
           /\ \A x, at : ~Leaves(s, x, at)
  <1>1. \A i \in 1..Len(s) : s[i].fn = "user"
    BY DEF FromMain, Main
  <1>2. \A i \in 1..Len(s) : Safe(s[i], st, b, M, c, k) => Safe(s[i], st, b, M, d, l)
    BY <1>1 DEF Safe, Looping, Ending
  <1>3. Sound(s, st, b, M, d, l)
    BY <1>2, SoundChange
  <1>4. s \in Seq(FrameType)
    BY DEF Sound
  <1>5. Len(s) > 0 => s[1].fn # "lstop"
    BY <1>1, <1>4
  <1>6. \A fn \in Marked : ~Has(s, fn)
    BY <1>1 DEF Has, Marked
  <1>7. \A x, at : ~Leaves(s, x, at)
    BY <1>1 DEF Leaves
  <1> QED
    BY <1>3, <1>5, <1>6, <1>7

(* A frame of the loop is put on a stack the loop may run on.                 *)
LEMMA LoopPush ==
    ASSUME NEW s, NEW st, NEW b, NEW M, NEW k, Sound(s, st, b, M, "LOOPING", k),
           NEW f \in FrameType, f.fn \in Looping, \A i \in 1..Len(f.todo) : f.todo[i].src,
           FromLoop(s), f.fn = "loop" => FromMain(s)
    PROVE  /\ Sound(<<f>> \o s, st, b, M, "LOOPING", k) /\ Keeps(s, <<f>> \o s)
           /\ f.fn = "loop" => FromLoop(<<f>> \o s)
  <1>1. Safe(f, st, b, M, "LOOPING", k)
    BY DEF Safe, Looping, Ending
  <1>2. \A i \in 1..Len(s) : Apart(f, s[i])
    BY DEF Apart, Looping, FromLoop, FromMain
  <1>3. s \in Seq(FrameType) /\ f.fn \notin Marked
    BY DEF Sound, Looping, Marked
  <1>4. Len(s) > 0 => s[1].fn # "lstop"
    BY <1>3 DEF FromLoop, Main
  <1>5. /\ Sound(<<f>> \o s, st, b, M, "LOOPING", k) /\ (<<f>> \o s)[1] = f
        /\ \A i \in 1..Len(<<f>> \o s) : i = 1 \/ (i - 1 \in 1..Len(s) /\ (<<f>> \o s)[i] = s[i - 1])
    BY <1>1, <1>2, <1>4, SoundPush
  <1>6. Keeps(s, <<f>> \o s)
    BY <1>3, KeepsPush
  <1>7. f.fn = "loop" => FromLoop(<<f>> \o s)
    BY <1>5 DEF FromLoop
  <1> QED
    BY <1>5, <1>6, <1>7

LEMMA LoopFrameType ==
    ASSUME NEW fn \in {"iter", "loop", "recv", "flush", "lstop"}, NEW at \in {"next", "call"}
    PROVE  LET f == Frame(fn, NoMod, at)
           IN  f \in FrameType /\ f.fn = fn /\ f.todo = <<>>
  <1> DEFINE f == Frame(fn, NoMod, at)
  <1>1. fn \in Fns /\ at \in Ats /\ NoMod \in Mods \cup {NoMod}
    BY DEF Fns, Ats
  <1>2. f \in FrameType
    BY <1>1, NewFrame
  <1>3. f.fn = fn /\ f.todo = <<>>
    BY DEF Frame
  <1> HIDE DEF f
  <1> QED
    BY <1>2, <1>3 DEF f

LEMMA LoopStartSure ==
    ASSUME OwnInv, ~undefined, key, NEW below, FromLoop(below), Keeps(stack, below),
           Sound(below, state, bound, modules, "LOOPING", key), loop_start(below)
    PROVE  Sure
  <1> DEFINE f == Frame("iter", NoMod, "next")
             t == <<f>> \o below
  <1>1. f \in FrameType /\ f.fn = "iter" /\ f.todo = <<>>
    BY LoopFrameType
  <1>2. /\ stack' = t /\ ctxState' = "LOOPING"
        /\ UNCHANGED <<state, bound, handle, modules, persist, key, undefined>>
    BY DEF loop_start, modVars
  <1> HIDE DEF f
  <1>3. Sound(t, state, bound, modules, "LOOPING", key) /\ Keeps(below, t)
    <2>1. f.fn \in Looping /\ f.fn # "loop" /\ \A i \in 1..Len(f.todo) : f.todo[i].src
      BY <1>1 DEF Looping
    <2> QED
      BY <1>1, <2>1, LoopPush
  <1> HIDE DEF t
  <1>4. Now(stack)' /\ Keeps(stack, stack')
    BY <1>2, <1>3, KeepsTrans DEF Now
  <1>5. OwnInv'
    BY <1>2, <1>4, OwnKept
  <1> QED
    BY <1>2, <1>4, <1>5 DEF Sure, SoundInv

LEMMA BatchEvents ==
    ASSUME NEW batch \in Batches
    PROVE  batch \in Seq(Event) /\ \A k \in 1..Len(batch) : batch[k].src
  <1>1. PICK n \in 1..MaxBatch : batch \in [1..n -> [mod : Running, src : {TRUE}]]
    BY DEF Batches
  <1>2. [mod : Running, src : {TRUE}] \subseteq Event
    BY DEF Running, Event
  <1>3. batch \in [1..n -> Event]
    BY <1>1, <1>2
  <1>4. n \in Nat
    BY LifecycleAssumption
  <1>5. batch \in Seq(Event) /\ Len(batch) = n
    BY <1>3, <1>4
  <1>6. \A k \in 1..n : batch[k].src
    BY <1>1
  <1> QED
    BY <1>5, <1>6

LEMMA RecvSure ==
    ASSUME OwnInv, ~undefined, ctxState = "LOOPING", Now(stack), FromLoop(stack),
           recv_events(stack)
    PROVE  Sure
  <1>1. PICK batch \in Batches :
            stack' = <<[Frame("recv", NoMod, "call") EXCEPT !.todo = batch]>> \o stack
    BY DEF recv_events
  <1> DEFINE r == Frame("recv", NoMod, "call")
             w == [r EXCEPT !.todo = batch]
  <1>2. r \in FrameType /\ r.fn = "recv"
    BY LoopFrameType
  <1>3. batch \in Seq(Event) /\ \A k \in 1..Len(batch) : batch[k].src
    BY BatchEvents
  <1> HIDE DEF r
  <1>4. w \in FrameType /\ w.fn = "recv" /\ w.todo = batch
    BY <1>2, <1>3 DEF FrameType
  <1>5. stack' = <<w>> \o stack
    BY <1>1 DEF r
  <1> HIDE DEF w
  <1>6. Sound(stack, state, bound, modules, "LOOPING", key)
    BY DEF Now
  <1>7. Sound(<<w>> \o stack, state, bound, modules, "LOOPING", key) /\ Keeps(stack, <<w>> \o stack)
    BY <1>3, <1>4, <1>6, LoopPush DEF Looping
  <1>8. Now(<<w>> \o stack)
    BY <1>7 DEF Now
  <1>9. UNCHANGED <<state, bound, handle, modules, persist, ctxState, key, undefined>>
    BY DEF recv_events, modVars, ctxVars
  <1> QED
    BY <1>5, <1>7, <1>8, <1>9, QuietSure

(* The loop ends: no deregistration is below, and the key holds the context.  *)
LEMMA LoopStopSure ==
    ASSUME OwnInv, ~undefined, key, NEW below, FromMain(below), Now(below), Keeps(stack, below),
           loop_stop(below)
    PROVE  Sure
  <1> DEFINE f == Frame("flush", NoMod, "next")
             g == Frame("lstop", NoMod, "call")
             t == <<g>> \o below
  <1>1. /\ f \in FrameType /\ f.fn = "flush" /\ f.todo = <<>>
        /\ g \in FrameType /\ g.fn = "lstop" /\ g.todo = <<>>
    BY LoopFrameType
  <1>2. below \in Seq(FrameType)
    BY DEF Now, Sound
  <1>3. <<f, g>> \o below = <<f>> \o t
    BY <1>1, <1>2, PushTwo
  <1>4. /\ stack' = <<f>> \o t /\ ctxState' = "IDLE"
        /\ UNCHANGED <<state, bound, handle, modules, persist, key, undefined>>
    BY <1>3 DEF loop_stop, modVars
  <1> HIDE DEF f, g
  <1>5. /\ Sound(below, state, bound, modules, "IDLE", key)
        /\ Len(below) > 0 => below[1].fn # "lstop"
        /\ \A fn \in Marked : ~Has(below, fn)
        /\ \A x, at : ~Leaves(below, x, at)
    BY MainSound DEF Now
  <1>6. /\ Safe(f, state, bound, modules, "IDLE", key) /\ Safe(g, state, bound, modules, "IDLE", key)
    BY <1>1 DEF Safe, Looping, Ending
  <1>7. \A i \in 1..Len(below) : Apart(g, below[i])
    BY <1>1 DEF Apart, FromMain, Main
  <1>8. /\ Sound(t, state, bound, modules, "IDLE", key) /\ t[1] = g
        /\ \A i \in 1..Len(t) : i = 1 \/ (i - 1 \in 1..Len(below) /\ t[i] = below[i - 1])
    BY <1>1, <1>5, <1>6, <1>7, SoundPush, Zenon
  <1>9. /\ \A fn : Has(t, fn) <=> Has(below, fn) \/ g.fn = fn
        /\ \A x, at : Leaves(t, x, at) <=>
                 Leaves(below, x, at) \/ (g.fn = "dereg" /\ g.mod = x /\ g.at = at)
    BY <1>1, <1>2, MarksPush
  <1> HIDE DEF t
  <1>10. \A i \in 1..Len(t) : Apart(f, t[i])
    BY <1>1, <1>8 DEF Apart, FromMain
  <1>11. Sound(<<f>> \o t, state, bound, modules, "IDLE", key) /\ t \in Seq(FrameType)
    BY <1>1, <1>6, <1>8, <1>10, SoundPush, Zenon DEF Sound
  <1>12. /\ \A fn : Has(stack', fn) <=> Has(t, fn) \/ f.fn = fn
         /\ \A x, at : Leaves(stack', x, at) <=>
                  Leaves(t, x, at) \/ (f.fn = "dereg" /\ f.mod = x /\ f.at = at)
    BY <1>1, <1>4, <1>11, MarksPush
  <1>13. ~Has(stack', "dereg") /\ ~Has(stack', "register")
    BY <1>1, <1>5, <1>9, <1>12 DEF Marked
  <1>14. Kept(stack)'
    <2>1. \A x, at : ~Leaves(stack, x, at)
      BY <1>5 DEF Keeps
    <2> QED
      BY <1>4, <2>1 DEF OwnInv, Owned, Kept
  <1>15. Replacing(stack)' /\ Remaining(stack)'
    BY <1>13 DEF Replacing, Remaining
  <1>16. OwnInv'
    BY <1>4, <1>14, <1>15 DEF OwnInv, Owned, Unique
  <1>17. Now(stack)'
    BY <1>4, <1>11 DEF Now
  <1> QED
    BY <1>4, <1>16, <1>17 DEF Sure, SoundInv

LEMMA LoopResumesSure ==
    ASSUME CoreInv, FreeInv, LoopResumes
    PROVE  Sure
  <1>1. Top.fn = "loop" /\ SoundInv /\ OwnInv /\ ~undefined
    BY FreeNow DEF LoopResumes, At
  <1>2. ~Main(stack[1])
    BY <1>1, NotUser
  <1>3. /\ Now(Below) /\ Now(stack) /\ Safe(Top, state, bound, modules, ctxState, key)
        /\ \A i \in 1..Len(Below) : Apart(Top, Below[i])
        /\ Top = stack[1]
    BY <1>1, <1>2, BelowSound
  <1>4. ctxState = "LOOPING" /\ key /\ FromMain(Below)
    BY <1>1, <1>3 DEF Safe, Looping, OwnInv, Owned, Apart, FromMain
  <1>5. Keeps(stack, Below)
    BY <1>1, <1>2, KeepsBelow
  <1>6. FromLoop(stack)
    <2>1. stack \in Seq(FrameType) /\ Len(stack) > 1
      BY <1>2, ShapePop DEF CoreInv, Shape
    <2>2. /\ Len(Below) = Len(stack) - 1 /\ Len(stack) \in Nat
          /\ \A i \in 1..Len(Below) : i + 1 \in 1..Len(stack) /\ Below[i] = stack[i + 1]
      BY <2>1, TailIndex DEF Below
    <2>3. ASSUME NEW i \in 1..Len(stack) PROVE Main(stack[i]) \/ stack[i].fn = "loop"
      <3>1. CASE i = 1
        BY <1>1, <1>3, <3>1
      <3>2. CASE i # 1
        <4>1. i - 1 \in 1..Len(Below) /\ (i - 1) + 1 = i
          BY <2>2, <3>2
        <4> QED
          BY <1>4, <2>2, <4>1 DEF FromMain
      <3> QED
        BY <3>1, <3>2
    <2> QED
      BY <2>3 DEF FromLoop
  <1>7. recv_events(stack) \/ loop_stop(Below)
    BY DEF LoopResumes
  <1> QED
    BY <1>1, <1>3, <1>4, <1>5, <1>6, <1>7, RecvSure, LoopStopSure

(* An event of the batch goes to its module: the source is there.             *)
LEMMA RecvEventSure ==
    ASSUME CoreInv, FreeInv, RecvEvent
    PROVE  Sure
  <1> DEFINE e == Head(Top.todo)
             g == [Top EXCEPT !.todo = Tail(@)]
  <1>1. Top.fn = "recv" /\ Top.todo # <<>> /\ SoundInv /\ OwnInv /\ ~undefined
    BY FreeNow DEF RecvEvent, At
  <1>2. Top.fn \in Moving
    BY <1>1 DEF Moving
  <1>3. Top \in FrameType /\ \A k \in 1..Len(Top.todo) : Top.todo[k].src
    BY <1>1, <1>2, TopEvents
  <1>4. Top.todo \in Seq(Event)
    BY <1>3 DEF FrameType
  <1>5. /\ e = Top.todo[1] /\ e \in Event /\ Tail(Top.todo) \in Seq(Event)
        /\ 1 \in 1..Len(Top.todo)
        /\ \A k \in 1..Len(Tail(Top.todo)) :
              k + 1 \in 1..Len(Top.todo) /\ Tail(Top.todo)[k] = Top.todo[k + 1]
    BY <1>1, <1>4
  <1>6. e.src /\ e.mod \in Mods
    BY <1>3, <1>5 DEF Event
  <1>7. call_pubsub_cb(e.mod, "evt", <<g>> \o Below)
    BY <1>6 DEF RecvEvent
  <1>8. g \in FrameType /\ g.fn = Top.fn /\ g.todo = Tail(Top.todo)
    BY <1>3, <1>5 DEF FrameType
  <1> HIDE DEF e, g
  <1>9. \A k \in 1..Len(g.todo) : g.todo[k].src
    BY <1>3, <1>5, <1>8
  <1>10. /\ Now(<<g>> \o Below) /\ Keeps(stack, <<g>> \o Below) /\ Below \in Seq(FrameType)
         /\ g.fn # "lstop" /\ "evt" \in Where
    BY <1>1, <1>2, <1>8, <1>9, LikeSound DEF Where
  <1>11. /\ stack' = <<Frame("user", e.mod, "evt")>> \o (<<g>> \o Below)
         /\ UNCHANGED <<state, bound, handle, modules, persist, ctxState, key, undefined>>
    BY <1>7 DEF call_pubsub_cb
  <1> QED
    BY <1>1, <1>6, <1>8, <1>10, <1>11, CallSure

LEMMA RecvEndsSure ==
    ASSUME CoreInv, FreeInv, RecvDone \/ \E real \in BOOLEAN : RecvFails(real)
    PROVE  Sure
  <1> DEFINE f == Frame("iter", NoMod, "next")
  <1>1. Top.fn = "recv" /\ SoundInv /\ OwnInv /\ ~undefined
    BY FreeNow DEF RecvDone, RecvFails, At
  <1>2. Top.fn \in Moving
    BY <1>1 DEF Moving
  <1>3. /\ ~Main(stack[1]) /\ Top.fn # "dereg" /\ Top.fn # "bound"
        /\ Safe(Top, state, bound, modules, ctxState, key)
    BY <1>1, <1>2, TopEvents
  <1>4. UNCHANGED <<state, bound, handle, modules, persist, ctxState, key, undefined>>
    BY DEF RecvDone, RecvFails, modVars, ctxVars
  <1>5. CASE stack' = Below
    BY <1>1, <1>3, <1>4, <1>5, ReturnSure
  <1>6. CASE stack' = <<f>> \o Below
    <2>1. f \in FrameType /\ f.fn = "iter" /\ f.todo = <<>>
      BY LoopFrameType
    <2>2. stack' = <<f>> \o Below
      BY <1>6
    <2> HIDE DEF f
    <2>3. ctxState = "LOOPING"
      BY <1>1, <1>3 DEF Safe, Looping
    <2>4. \A i \in 1..Len(f.todo) : f.todo[i].src
      BY <2>1
    <2>5. Safe(f, state, bound, modules, ctxState, key)
      BY <2>1, <2>3, <2>4 DEF Safe, Looping, Ending
    <2>6. \A i \in 1..Len(Below) : Apart(Top, Below[i]) => Apart(f, Below[i])
      BY <1>1, <2>1 DEF Apart
    <2>7. ~Aborted /\ f.fn # "dereg" /\ f.fn \notin Marked
      BY <1>1, <1>3, <2>1, BelowSound DEF Marked
    <2>8. Now(<<f>> \o Below) /\ Keeps(stack, <<f>> \o Below)
      BY <1>1, <1>3, <2>1, <2>5, <2>6, <2>7, ReplaceSound
    <2> QED
      BY <1>1, <1>4, <2>2, <2>8, QuietSure
  <1> QED
    BY <1>5, <1>6 DEF RecvDone, RecvFails

LEMMA FlushNextSure ==
    ASSUME CoreInv, FreeInv, FlushNext
    PROVE  Sure
  <1>1. Top.fn = "flush" /\ Top.at = "next" /\ SoundInv /\ OwnInv /\ ~undefined
    BY FreeNow DEF FlushNext, At
  <1>2. ~Main(stack[1]) /\ Top \in FrameType
    BY <1>1, NotUser, BelowReady
  <1>3. UNCHANGED <<state, bound, handle, modules, persist, ctxState, key, undefined>>
    BY DEF FlushNext, IterEnds, call_pubsub_cb, modVars, ctxVars
  <1>4. CASE IterEnds("ok")
    BY <1>1, <1>2, <1>3, <1>4, ReturnSure DEF IterEnds
  <1>5. CASE ~IterEnds("ok")
    <2>1. PICK m \in modules :
            \/ stack' = <<Frame("user", m, "flush")>> \o (<<Visit(Top, m, "called")>> \o Below)
            \/ stack' = <<Visit(Top, m, "next")>> \o Below
      <3>1. PICK m \in modules :
              LET v == [Top EXCEPT !.mod = m, !.seen = @ \cup {m}, !.n = Cardinality(modules)]
              IN  \/ stack' = <<Frame("user", m, "flush")>> \o (<<[v EXCEPT !.at = "called"]>> \o Below)
                  \/ stack' = <<v>> \o Below
        BY <1>5 DEF FlushNext, MayIterate, call_pubsub_cb
      <3> DEFINE v == [Top EXCEPT !.mod = m, !.seen = @ \cup {m}, !.n = Cardinality(modules)]
      <3>2. [v EXCEPT !.at = "called"] = Visit(Top, m, "called")
        BY <1>2 DEF FrameType, Visit
      <3>3. v = Visit(Top, m, "next")
        BY <1>1, <1>2 DEF FrameType, Visit
      <3> HIDE DEF v
      <3> QED
        BY <3>1, <3>2, <3>3 DEF v
    <2>2. CASE stack' = <<Visit(Top, m, "next")>> \o Below
      <3> DEFINE g == Visit(Top, m, "next")
      <3>1. /\ g \in FrameType /\ g.fn = Top.fn /\ Top.fn \in Moving
            /\ \A k \in 1..Len(g.todo) : g.todo[k].src
        BY <1>1, VisitFrame
      <3> HIDE DEF g
      <3>2. stack' = <<g>> \o Below
        BY <2>2 DEF g
      <3> QED
        BY <1>1, <1>3, <3>1, <3>2, MovedOn
    <2>3. CASE stack' = <<Frame("user", m, "flush")>> \o (<<Visit(Top, m, "called")>> \o Below)
      <3> DEFINE g == Visit(Top, m, "called")
      <3>1. /\ g \in FrameType /\ g.fn = Top.fn /\ Top.fn \in Moving /\ m \in Mods
            /\ \A k \in 1..Len(g.todo) : g.todo[k].src
        BY <1>1, VisitFrame
      <3> HIDE DEF g
      <3>2. /\ Now(<<g>> \o Below) /\ Keeps(stack, <<g>> \o Below) /\ Below \in Seq(FrameType)
            /\ g.fn # "lstop" /\ "flush" \in Where
        BY <1>1, <3>1, LikeSound DEF Where
      <3>3. stack' = <<Frame("user", m, "flush")>> \o (<<g>> \o Below)
        BY <2>3 DEF g
      <3> QED
        BY <1>1, <1>3, <3>1, <3>2, <3>3, CallSure
    <2> QED
      BY <2>1, <2>2, <2>3
  <1> QED
    BY <1>4, <1>5

(* The loop's end finds its context: the key held it through the flush.       *)
LEMMA LoopStopResumesSure ==
    ASSUME CoreInv, TallyInv, FreeInv, LoopStopResumes
    PROVE  Sure
  <1>1. Top.fn = "lstop" /\ SoundInv /\ OwnInv /\ FreedOK /\ ~undefined
    BY FreeNow DEF LoopStopResumes, At
  <1>2. ~Main(stack[1]) /\ Top.fn # "bound" /\ Top.fn # "dereg"
    BY <1>1, NotUser
  <1>3. /\ Now(Below) /\ Safe(Top, state, bound, modules, ctxState, key)
        /\ \A i \in 1..Len(Below) : Apart(Top, Below[i])
    BY <1>1, <1>2, BelowSound
  <1>4. key /\ ctxState = "IDLE" /\ FromMain(Below)
    BY <1>1, <1>3 DEF Safe, Ending, Apart, FromMain
  <1>5. ctxRefs > 0
    BY <1>1, <1>4, CtxAlive
  <1>6. /\ stack' = Below /\ undefined' = undefined
        /\ UNCHANGED <<state, bound, handle, modules, persist, ctxState>>
    BY <1>5 DEF LoopStopResumes, modVars
  <1>7. Sound(Below, state, bound, modules, ctxState, key')
    BY <1>3, <1>4, MainSound DEF Now
  <1>8. Now(stack)'
    BY <1>6, <1>7 DEF Now
  <1>9. Keeps(stack, stack')
    BY <1>2, <1>6, KeepsBelow
  <1>10. OwnInv'
    BY <1>1, <1>4, <1>6, <1>9, OwnKept
  <1> QED
    BY <1>1, <1>6, <1>8, <1>10 DEF Sure, SoundInv

LEMMA LibrarySure ==
    ASSUME CoreInv, RunInv, TallyInv, FreeInv, LibraryStep
    PROVE  Sure
  <1>1. CASE EvalStarted
    BY <1>1, FreeNow, EntryDoneSure DEF EvalStarted, At
  <1>2. CASE FlushCalled
    BY <1>2, FreeNow, EntryDoneSure DEF FlushCalled, At
  <1> QED
    BY <1>1, <1>2, HookReturnsSure, StartResumesSure, StopResumesSure, BoundResumesSure,
       DeregResumesSure, RegisterResumesSure, EvalNextSure, EvalResumesSure, LoopResumesSure,
       RecvEventSure, RecvEndsSure, FlushNextSure, LoopStopResumesSure DEF LibraryStep

-----------------------------------------------------------------------------
(***************************************************************************)
(* The user's code, when it keeps to ClientRules.                            *)
(***************************************************************************)
LEMMA MainOnly ==
    ASSUME CoreInv, Top.fn = "user", Top.mod = NoMod
    PROVE  FromMain(stack) /\ FromLoop(stack)
  <1>1. stack[1] = Top /\ 1 \in 1..Len(stack) /\ Len(stack) \in Nat
    BY HeadFirst DEF CoreInv, Shape, Top
  <1>2. FrameOK(Top, state)
    BY <1>1 DEF CoreInv, Shape
  <1>3. Main(stack[1])
    BY <1>1, <1>2, LifecycleAssumption DEF FrameOK, Main
  <1>4. Len(stack) = 1
    BY <1>1, <1>3 DEF CoreInv, Shape
  <1> QED
    BY <1>1, <1>3, <1>4 DEF FromMain, FromLoop

LEMMA UserStateOpSure ==
    ASSUME Careful, CoreInv, RunInv, FreeInv, NEW m \in Mods, NEW op \in StateOp,
           UserStateOp(op, m)
    PROVE  Sure
  <1>1. UserMay(op, m) /\ m_mod_state_op(op, m, stack)
    BY DEF UserStateOp
  <1>2. ClientRules(op, m) /\ Top.fn = "user"
    BY <1>1, RulesKept
  <1>3. SoundInv /\ OwnInv /\ ~undefined
    BY <1>2, FreeNow
  <1>4. Now(stack) /\ stack[1].fn # "lstop" /\ Keeps(stack, stack) /\ Run(stack, state, bound)
    BY <1>2, <1>3, UserSound, KeepsSelf DEF RunInv
  <1>5. op = "stop" => Quiet(stack, m)
    BY <1>2, RuledQuiet DEF ClientRules
  <1>6. ASSUME op = "start", NEW i \in 1..Len(stack), stack[i].fn = "dereg"
        PROVE  stack[i].mod # m
    <2>1. m \in Affected(m)
      BY AffectedReach, ReachSelf
    <2>2. ~OnStack("dereg", m)
      BY <1>2, <1>6, <2>1 DEF ClientRules
    <2> QED
      BY <1>6, <2>2 DEF OnStack
  <1> QED
    BY <1>1, <1>3, <1>4, <1>5, <1>6, StateOpSure

(* The module the user deregisters is in the map: it is not dead, and nobody  *)
(* is deregistering it.                                                     *)
LEMMA UserDeregisterSure ==
    ASSUME Careful, CoreInv, FreeInv, NEW m \in Mods, UserDeregister(m)
    PROVE  Sure
  <1>1. UserMay("deregister", m) /\ handle[m] /\ mod_deregister(m, TRUE, stack)
    BY DEF UserDeregister
  <1>2. ClientRules("deregister", m) /\ Top.fn = "user"
    BY <1>1, RulesKept
  <1>3. SoundInv /\ OwnInv /\ ~undefined
    BY <1>2, FreeNow
  <1>4. Now(stack) /\ stack[1].fn # "lstop" /\ Keeps(stack, stack)
    BY <1>2, <1>3, UserSound, KeepsSelf
  <1>5. CASE Fail(stack)
    BY <1>3, <1>4, <1>5, FailSure
  <1>6. CASE ~Fail(stack)
    <2>1. state[m] # "ZOMBIE" /\ state[m] # "NONE"
      BY <1>1, <1>6 DEF mod_deregister, M_MOD_ASSERT, CoreInv, DataInv, Born
    <2>2. /\ ~OnStack("dereg", m) /\ ~InBatch(m) /\ ~OnStack("bound", m)
          /\ persist \/ ~Flushing
      BY <1>2 DEF ClientRules
    <2>3. \A at : ~Leaves(stack, m, at)
      BY <2>2 DEF OnStack, Leaves
    <2>4. m \in modules
      BY <1>3, <2>1, <2>3 DEF OwnInv, Owned, Kept
    <2>5. Quiet(stack, m) /\ NoCascade(stack, m)
      BY <2>2, RuledQuiet
    <2>6. ~persist /\ Has(stack, "flush") => modules # {m}
      BY <2>2 DEF Flushing, Has
    <2>7. TRUE \in BOOLEAN
      OBVIOUS
    <2> QED
      BY <1>1, <1>3, <1>4, <1>6, <2>4, <2>5, <2>6, <2>7, DeregSure
  <1> QED
    BY <1>5, <1>6

LEMMA UserRegisterSure ==
    ASSUME Careful, CoreInv, TallyInv, FreeInv, NEW m \in Mods, UserRegister(m)
    PROVE  Sure
  <1>1. UserMay("register", m) /\ state[m] = "NONE" /\ m_mod_register(m, stack)
    BY DEF UserRegister
  <1>2. ClientRules("register", m) /\ Top.fn = "user"
    BY <1>1, RulesKept
  <1>3. SoundInv /\ OwnInv /\ FreedOK /\ ~undefined
    BY <1>2, FreeNow
  <1> QED
    BY <1>1, <1>2, <1>3, MRegisterSure

(* No list is being iterated over when a node is put at the head of one.      *)
LEMMA UserBindSure ==
    ASSUME Careful, CoreInv, FreeInv, NEW m \in Mods, NEW r \in Mods, UserBind(m, r)
    PROVE  Sure
  <1>1. Top.fn = "user"
    BY DEF UserBind, UserMay, At
  <1>2. SoundInv /\ OwnInv /\ ~undefined
    BY <1>1, FreeNow
  <1>3. Now(stack) /\ stack \in Seq(FrameType) /\ Keeps(stack, stack)
    BY <1>1, <1>2, UserSound, KeepsSelf
  <1>4. CASE Fail(stack)
    BY <1>2, <1>3, <1>4, FailSure
  <1>5. CASE /\ stack' = Shifted(stack, r)
             /\ UNCHANGED <<state, handle, modules, persist, ctxState, key, undefined>>
    <2>1. \A i \in 1..Len(stack) : stack[i].fn # "bound"
      <3>1. \A x \in Mods : ~OnStack("bound", x)
        BY DEF UserBind
      <3>2. \A i \in 1..Len(stack) : FrameOK(stack[i], state)
        BY DEF CoreInv, Shape
      <3> QED
        BY <3>1, <3>2 DEF OnStack, FrameOK
    <2>2. stack' = stack
      BY <1>3, <1>5, <2>1, ShiftedSame
    <2>3. \A i \in 1..Len(stack) : Safe(stack[i], state, bound, modules, ctxState, key) =>
                                      Safe(stack[i], state, bound', modules, ctxState, key)
      BY <2>1 DEF Safe
    <2>4. Sound(stack, state, bound', modules, ctxState, key)
      BY <1>3, <2>3, SoundChange DEF Now
    <2>5. Now(stack)'
      BY <1>5, <2>2, <2>4 DEF Now
    <2>6. OwnInv'
      BY <1>2, <1>3, <1>5, <2>2, OwnKept DEF OwnInv, Owned
    <2> QED
      BY <1>2, <1>5, <2>5, <2>6 DEF Sure, SoundInv
  <1> QED
    BY <1>4, <1>5 DEF UserBind, m_mod_bind, ctxVars

(* The main program runs the loop, or one step of it.                        *)
LEMMA UserLoopSure ==
    ASSUME Careful, CoreInv, CtxTypes, FreeInv, UserLoop \/ UserDispatch
    PROVE  Sure
  <1>1. PICK op \in {"loop", "dispatch"} : UserMay(op, NoMod)
    BY DEF UserLoop, UserDispatch
  <1>2. ClientRules(op, NoMod) /\ Top.fn = "user"
    BY <1>1, RulesKept
  <1>3. Top.mod = NoMod
    BY <1>2 DEF ClientRules
  <1>4. SoundInv /\ OwnInv /\ ~undefined
    BY <1>2, FreeNow
  <1>5. /\ Now(stack) /\ stack \in Seq(FrameType) /\ Keeps(stack, stack)
        /\ FromMain(stack) /\ FromLoop(stack)
    BY <1>2, <1>3, <1>4, UserSound, KeepsSelf, MainOnly
  <1>6. Sound(stack, state, bound, modules, "LOOPING", key)
    BY <1>5, MainSound DEF Now
  <1>7. CASE Fail(stack)
    BY <1>4, <1>5, <1>7, FailSure
  <1>8. CASE m_ctx /\ loop_start(<<Frame("loop", NoMod, "call")>> \o stack)
    <2> DEFINE f == Frame("loop", NoMod, "call")
               t == <<f>> \o stack
    <2>1. f \in FrameType /\ f.fn = "loop" /\ f.todo = <<>>
      BY LoopFrameType
    <2>2. loop_start(t) /\ key
      BY <1>8 DEF m_ctx
    <2> HIDE DEF f
    <2>3. f.fn \in Looping /\ \A i \in 1..Len(f.todo) : f.todo[i].src
      BY <2>1 DEF Looping
    <2>4. Sound(t, state, bound, modules, "LOOPING", key) /\ Keeps(stack, t) /\ FromLoop(t)
      BY <1>5, <1>6, <2>1, <2>3, LoopPush
    <2> HIDE DEF t
    <2> QED
      BY <1>4, <2>2, <2>4, LoopStartSure
  <1>9. CASE m_ctx /\ loop_start(stack)
    BY <1>4, <1>5, <1>6, <1>9, LoopStartSure DEF m_ctx
  <1>10. CASE m_ctx /\ loop_stop(stack)
    BY <1>4, <1>5, <1>10, LoopStopSure DEF m_ctx
  <1>11. CASE ctxState = "LOOPING" /\ recv_events(stack)
    BY <1>4, <1>5, <1>11, RecvSure
  <1>12. CASE UserLoop
    BY <1>7, <1>8, <1>12 DEF UserLoop, m_ctx_loop
  <1>13. CASE UserDispatch
    BY <1>7, <1>9, <1>10, <1>11, <1>13 DEF UserDispatch, m_ctx_dispatch, CtxTypes
  <1> QED
    BY <1>12, <1>13

(* No loop is ending when the user deregisters the context.                  *)
LEMMA UserCtxDeregisterSure ==
    ASSUME Careful, CoreInv, FreeInv, UserCtxDeregister
    PROVE  Sure
  <1>1. UserMay("ctx_deregister", NoMod) /\ m_ctx_deregister
    BY DEF UserCtxDeregister
  <1>2. ClientRules("ctx_deregister", NoMod) /\ Top.fn = "user"
    BY <1>1, RulesKept
  <1>3. SoundInv /\ OwnInv /\ ~undefined
    BY <1>2, FreeNow
  <1>4. Now(stack) /\ stack[1].fn # "lstop" /\ stack \in Seq(FrameType) /\ Keeps(stack, stack)
    BY <1>2, <1>3, UserSound, KeepsSelf
  <1>5. UNCHANGED <<state, bound, handle, modules, persist, ctxState, stack, undefined>>
    BY DEF UserCtxDeregister, modVars
  <1>6. ~Has(stack, "flush")
    BY <1>2 DEF ClientRules, Flushing, Has
  <1>7. \A i \in 1..Len(stack) : stack[i].fn \notin Ending
    BY <1>4, <1>6, EndingFlush
  <1>8. \A i \in 1..Len(stack) : Safe(stack[i], state, bound, modules, ctxState, key) =>
                                    Safe(stack[i], state, bound, modules, ctxState, key')
    BY <1>7 DEF Safe
  <1>9. Sound(stack, state, bound, modules, ctxState, key')
    BY <1>4, <1>8, SoundChange DEF Now
  <1>10. Now(stack)'
    BY <1>5, <1>9 DEF Now
  <1>11. ctxState' = "LOOPING" => key'
    BY <1>1, <1>3, <1>5 DEF m_ctx_deregister, OwnInv, Owned
  <1>12. OwnInv'
    BY <1>3, <1>4, <1>5, <1>11, OwnKept
  <1> QED
    BY <1>3, <1>5, <1>10, <1>12 DEF Sure, SoundInv

LEMMA UserSure ==
    ASSUME Careful, CoreInv, RunInv, TallyInv, CtxTypes, FreeInv, UserStep
    PROVE  Sure
  <1>1. ASSUME UserQuit \/ UserFinalize PROVE Sure
    <2>1. Top.fn = "user"
      BY <1>1 DEF UserQuit, UserFinalize, UserMay, At
    <2>2. SoundInv /\ OwnInv /\ ~undefined
      BY <2>1, FreeNow
    <2>3. Now(stack) /\ Keeps(stack, stack)
      BY <2>1, <2>2, UserSound, KeepsSelf
    <2>4. UNCHANGED <<state, bound, handle, modules, persist, ctxState, key, undefined, stack>>
      BY <1>1 DEF UserQuit, UserFinalize, Fail, modVars, ctxVars
    <2> QED
      BY <2>2, <2>3, <2>4, QuietSure
  <1> QED
    BY <1>1, UserStateOpSure, UserDeregisterSure, UserRegisterSure, UserBindSure, UserLoopSure,
       UserCtxDeregisterSure DEF UserStep

-----------------------------------------------------------------------------
(***************************************************************************)
(* A dead module gets no new reference: every function that takes one has      *)
(* looked at the state, or works on a module that was just registered or       *)
(* runs.                                                                    *)
(***************************************************************************)
Spared == freed' = freed /\ \A m \in Mods : state[m] = "ZOMBIE" => refs'[m] <= refs[m]

LEMMA RefsTyped ==
    ASSUME TallyInv
    PROVE  /\ refs \in [Mods -> Int] /\ bound \in [Mods -> Seq(Mods)]
           /\ \A m \in Mods : refs[m] >= 0
  <1>1. refs \in [Mods -> Int] /\ bound \in [Mods -> Seq(Mods)] /\ stack \in Seq(FrameType)
    BY DEF TallyInv, Tally
  <1>2. ASSUME NEW m \in Mods PROVE refs[m] >= 0
    <2>1. Count(stack, Holders(m)) \in Nat /\ Cardinality(Binds(bound, m)) \in Nat
      BY <1>1, Counts
    <2>2. refs[m] = Owed(stack, modules, handle, bound, m)
      BY DEF TallyInv, Tally
    <2> QED
      BY <2>1, <2>2 DEF Owed
  <1> QED
    BY <1>1, <1>2

LEMMA SameSpared ==
    ASSUME TallyInv, UNCHANGED <<refs, freed>>
    PROVE  Spared
  BY RefsTyped DEF Spared

LEMMA FailSpared ==
    ASSUME TallyInv, NEW below, Fail(below)
    PROVE  Spared
  BY SameSpared DEF Fail, modVars

LEMMA LockSpared ==
    ASSUME TallyInv, NEW m \in Mods, state[m] # "ZOMBIE", refs' = Lock(refs, m), freed' = freed
    PROVE  Spared
  BY RefsTyped DEF Spared, Lock

LEMMA StartSpared ==
    ASSUME TallyInv, NEW m \in Mods, state[m] # "ZOMBIE", NEW starting \in BOOLEAN, NEW below,
           start(m, starting, below)
    PROVE  Spared
  <1>1. CASE Fail(below)
    BY <1>1, FailSpared
  <1>2. CASE UNCHANGED <<refs, freed>>
    BY <1>2, SameSpared
  <1>3. CASE refs' = Lock(refs, m) /\ freed' = freed
    BY <1>3, LockSpared
  <1> QED
    BY <1>1, <1>2, <1>3 DEF start

LEMMA StopSpared ==
    ASSUME TallyInv, NEW m \in Mods, state[m] # "ZOMBIE", NEW stopping \in BOOLEAN, NEW below,
           NEW r \in [Mods -> Int], \A x \in Mods : x # m => r[x] <= refs[x],
           stop(m, stopping, r, below)
    PROVE  Spared
  <1> SUFFICES ASSUME ~Fail(below) PROVE Spared
    BY FailSpared
  <1>1. freed' = freed
    BY DEF stop
  <1>2. /\ refs \in [Mods -> Int]
        /\ \A x \in Mods : Occurrences(bound[m], x) \in Nat
    BY RefsTyped, OccurrencesCount
  <1>3. ASSUME NEW x \in Mods, state[x] = "ZOMBIE" PROVE refs'[x] <= refs[x]
    <2>1. x # m
      BY <1>3
    <2>2. CASE stopping
      <3>1. refs' = [y \in Mods |-> Lock(r, m)[y] - Occurrences(bound[m], y)]
        BY <2>2 DEF stop
      <3>2. refs'[x] = Lock(r, m)[x] - Occurrences(bound[m], x)
        BY <3>1
      <3>3. Lock(r, m)[x] = r[x]
        BY <2>1 DEF Lock
      <3> QED
        BY <1>2, <2>1, <3>2, <3>3
    <2>3. CASE ~stopping
      BY <2>1, <2>3 DEF stop
    <2> QED
      BY <2>2, <2>3
  <1> QED
    BY <1>1, <1>3 DEF Spared

LEMMA StateOpSpared ==
    ASSUME TallyInv, NEW op \in StateOp, NEW m \in Mods, NEW below, m_mod_state_op(op, m, below)
    PROVE  Spared
  <1> DEFINE waiting == <<Frame("bound", m, op)>> \o below
  <1>1. CASE Fail(below)
    BY <1>1, FailSpared
  <1>2. CASE ~Fail(below)
    <2>1. state[m] # "ZOMBIE"
      BY <1>2 DEF m_mod_state_op, M_MOD_ASSERT
    <2>2. /\ refs \in [Mods -> Int] /\ \A x \in Mods : x # m => refs[x] <= refs[x]
          /\ (op = "start") \in BOOLEAN /\ (op = "stop") \in BOOLEAN
      BY RefsTyped
    <2>3. start(m, op = "start", waiting) \/ stop(m, op = "stop", refs, waiting)
      BY <1>2 DEF m_mod_state_op
    <2> HIDE DEF waiting
    <2> QED
      BY <2>1, <2>2, <2>3, StartSpared, StopSpared
  <1> QED
    BY <1>1, <1>2

LEMMA DeregSpared ==
    ASSUME TallyInv, NEW m \in Mods, NEW fromUser \in BOOLEAN, NEW below,
           mod_deregister(m, fromUser, below)
    PROVE  Spared
  <1> DEFINE removed == [x \in Mods |-> Lock(refs, m)[x] - (IF x \in Homonyms(m) THEN 1 ELSE 0)]
             t == <<Frame("dereg", m, IF fromUser THEN "user" ELSE "lib")>> \o below
  <1>1. CASE Fail(below)
    BY <1>1, FailSpared
  <1>2. CASE ~Fail(below)
    <2>1. state[m] # "ZOMBIE" /\ stop(m, TRUE, removed, t)
      BY <1>2 DEF mod_deregister, M_MOD_ASSERT
    <2>2. removed \in [Mods -> Int] /\ \A x \in Mods : x # m => removed[x] <= refs[x]
      BY RefsTyped DEF Lock
    <2> HIDE DEF removed, t
    <2> QED
      BY <2>1, <2>2, StopSpared
  <1> QED
    BY <1>1, <1>2

LEMMA RegisterSpared ==
    ASSUME TallyInv, NEW m \in Mods, state[m] = "NONE", NEW below, register(m, below)
    PROVE  Spared
  <1>1. CASE UNCHANGED <<refs, freed>>
    BY <1>1, SameSpared
  <1>2. CASE refs' = [refs EXCEPT ![m] = 2] /\ freed' = freed
    BY <1>2, RefsTyped DEF Spared
  <1> QED
    BY <1>1, <1>2 DEF register, Fail, modVars

LEMMA MRegisterSpared ==
    ASSUME CoreInv, TallyInv, NEW m \in Mods, state[m] = "NONE", NEW below, m_mod_register(m, below)
    PROVE  Spared
  <1>1. CASE Fail(below)
    BY <1>1, FailSpared
  <1>2. CASE register(m, below)
    BY <1>2, RegisterSpared
  <1>3. CASE \E x \in Homonyms(m) :
                 mod_deregister(x, FALSE, <<Frame("register", m, "call")>> \o below)
    <2>1. PICK x \in Homonyms(m) : mod_deregister(x, FALSE, <<Frame("register", m, "call")>> \o below)
      BY <1>3
    <2>2. x \in Mods /\ FALSE \in BOOLEAN
      BY DEF Homonyms, CoreInv, DataInv, Born
    <2> QED
      BY <2>1, <2>2, DeregSpared
  <1> QED
    BY <1>1, <1>2, <1>3 DEF m_mod_register

LEMMA EntryDoneSpared ==
    ASSUME TallyInv, EntryDone
    PROVE  Spared
  BY SameSpared DEF EntryDone, IterEnds, modVars

LEMMA LibrarySpared ==
    ASSUME CoreInv, RunInv, TallyInv, LibraryStep
    PROVE  Spared
  <1>1. ASSUME NEW result \in BOOLEAN, HookReturns(result) PROVE Spared
    <2>1. refs' = Unlock(refs, Top.mod) /\ freed' = freed
      BY <1>1 DEF HookReturns
    <2> QED
      BY <2>1, RefsTyped DEF Unlock, Spared
  <1>2. CASE StartResumes
    <2>1. CASE UNCHANGED <<refs, freed>>
      BY <2>1, SameSpared
    <2>2. CASE /\ Top.at = "call" /\ ret = "false"
               /\ stop(Top.mod, TRUE, refs, <<Frame("start", Top.mod, "stopped")>> \o Below)
      <3>1. Top.fn = "start" /\ stack[1] = Top /\ FrameOK(Top, state)
        BY <1>2, BelowReady DEF StartResumes, At
      <3>2. Top.mod \in Mods /\ state[Top.mod] # "ZOMBIE" /\ TRUE \in BOOLEAN
        BY <2>2, <3>1 DEF FrameOK, CoreInv, RetOK, Awaits
      <3>3. refs \in [Mods -> Int] /\ \A x \in Mods : x # Top.mod => refs[x] <= refs[x]
        BY RefsTyped
      <3> QED
        BY <2>2, <3>2, <3>3, StopSpared
    <2> QED
      BY <1>2, <2>1, <2>2 DEF StartResumes, modVars
  <1>3. CASE StopResumes
    BY <1>3, SameSpared DEF StopResumes, modVars
  <1>4. CASE BoundResumes
    <2> DEFINE next == Top.n + 1
               t == <<[Top EXCEPT !.n = next]>> \o Below
    <2>1. CASE UNCHANGED <<refs, freed>>
      BY <2>1, SameSpared
    <2>2. CASE /\ Top.n # -1 /\ ~(next > Len(bound[Top.mod]))
               /\ m_mod_state_op(Top.at, bound[Top.mod][next], t)
      <3>1. Top.fn = "bound" /\ FrameOK(Top, state) /\ Top \in FrameType
        BY <1>4, BelowReady DEF BoundResumes, At
      <3>2. Top.mod \in Mods /\ Top.at \in StateOp /\ Top.n \in Nat
        BY <2>2, <3>1 DEF FrameOK, FrameType
      <3>3. bound[Top.mod] \in Seq(Mods)
        BY <3>2 DEF CoreInv, DataInv
      <3>4. bound[Top.mod][next] \in Mods
        BY <2>2, <3>2, <3>3
      <3> HIDE DEF t, next
      <3> QED
        BY <2>2, <3>2, <3>4, StateOpSpared
    <2> QED
      BY <1>4, <2>1, <2>2 DEF BoundResumes, modVars
  <1>5. CASE DeregResumes
    <2>1. freed' = freed /\ \E k \in {1, 2} : refs' = [refs EXCEPT ![Top.mod] = @ - k]
      BY <1>5 DEF DeregResumes
    <2> QED
      BY <2>1, RefsTyped DEF Spared
  <1>6. CASE RegisterResumes
    <2>1. Top.fn = "register" /\ FrameOK(Top, state)
      BY <1>6, BelowReady DEF RegisterResumes, At
    <2>2. Top.mod \in Mods /\ state[Top.mod] = "NONE"
      BY <2>1 DEF FrameOK
    <2>3. CASE register(Top.mod, Below)
      BY <2>2, <2>3, RegisterSpared
    <2>4. CASE UNCHANGED <<refs, freed>>
      BY <2>4, SameSpared
    <2> QED
      BY <1>6, <2>3, <2>4 DEF RegisterResumes, modVars
  <1>7. CASE EvalNext
    <2>1. CASE UNCHANGED <<refs, freed>>
      BY <2>1, SameSpared
    <2>2. CASE \E m \in modules : state[m] = "IDLE" /\ refs' = Lock(refs, m) /\ freed' = freed
      <3>1. modules \subseteq Mods
        BY DEF CoreInv, DataInv, Born
      <3> QED
        BY <2>2, <3>1, LockSpared
    <2> QED
      BY <1>7, <2>1, <2>2 DEF EvalNext, MayIterate, IterEnds, modVars
  <1>8. CASE EvalResumes
    <2> DEFINE t == <<[Top EXCEPT !.at = "started"]>> \o Below
    <2>1. CASE UNCHANGED <<refs, freed>>
      BY <2>1, SameSpared
    <2>2. CASE ret = "ok" /\ start(Top.mod, TRUE, t)
      <3>1. /\ Top.fn = "iter" /\ Top.at = "evaluated" /\ stack[1] = Top /\ FrameOK(Top, state)
        BY <1>8, BelowReady DEF EvalResumes, At
      <3>2. Top.mod \in Mods /\ state[Top.mod] # "ZOMBIE" /\ TRUE \in BOOLEAN
        BY <2>2, <3>1 DEF FrameOK, CoreInv, RetOK, Awaits
      <3> HIDE DEF t
      <3> QED
        BY <2>2, <3>2, StartSpared
    <2> QED
      BY <1>8, <2>1, <2>2 DEF EvalResumes, IterEnds, modVars
  <1>9. CASE EvalStarted \/ FlushCalled
    BY <1>9, EntryDoneSpared DEF EvalStarted, FlushCalled
  <1>10. CASE LoopResumes
    BY <1>10, SameSpared DEF LoopResumes, recv_events, loop_stop, modVars
  <1>11. CASE RecvEvent
    <2> DEFINE e == Head(Top.todo)
    <2>1. CASE UNCHANGED <<refs, freed>>
      BY <2>1, SameSpared
    <2>2. CASE e.src /\ refs' = Lock(refs, e.mod) /\ freed' = freed
      <3>1. Top.fn = "recv" /\ Top.todo # <<>>
        BY <1>11 DEF RecvEvent, At
      <3>2. ~Main(stack[1])
        BY <3>1, NotUser
      <3>3. Top \in FrameType /\ Alone(Top, state)
        BY <3>2, BelowRun
      <3>4. Top.todo \in Seq(Event)
        BY <3>3 DEF FrameType
      <3>5. e = Top.todo[1] /\ e \in Event /\ 1 \in 1..Len(Top.todo)
        BY <3>1, <3>4
      <3>6. e.mod \in Mods /\ state[e.mod] \in Active
        BY <2>2, <3>3, <3>5 DEF Event, Alone
      <3> HIDE DEF e
      <3> QED
        BY <2>2, <3>6, LockSpared DEF Active
    <2> QED
      BY <1>11, <2>1, <2>2 DEF RecvEvent, call_pubsub_cb, modVars
  <1>12. CASE RecvDone \/ \E real \in BOOLEAN : RecvFails(real)
    BY <1>12, SameSpared DEF RecvDone, RecvFails, modVars
  <1>13. CASE FlushNext
    <2>1. CASE UNCHANGED <<refs, freed>>
      BY <2>1, SameSpared
    <2>2. CASE \E m \in modules : state[m] = "RUNNING" /\ refs' = Lock(refs, m) /\ freed' = freed
      <3>1. modules \subseteq Mods
        BY DEF CoreInv, DataInv, Born
      <3> QED
        BY <2>2, <3>1, LockSpared
    <2> QED
      BY <1>13, <2>1, <2>2 DEF FlushNext, MayIterate, IterEnds, Flushed, call_pubsub_cb, modVars
  <1>14. CASE LoopStopResumes
    BY <1>14, SameSpared DEF LoopStopResumes, modVars
  <1> QED
    BY <1>1, <1>2, <1>3, <1>4, <1>5, <1>6, <1>7, <1>8, <1>9, <1>10, <1>11, <1>12, <1>13, <1>14
       DEF LibraryStep

LEMMA UserSpared ==
    ASSUME CoreInv, TallyInv, UserStep
    PROVE  Spared
  <1>1. ASSUME NEW m \in Mods, UserDeregister(m) PROVE Spared
    BY <1>1, DeregSpared DEF UserDeregister
  <1>2. ASSUME NEW m \in Mods, UserRegister(m) PROVE Spared
    BY <1>2, MRegisterSpared DEF UserRegister
  <1>3. ASSUME NEW m \in Mods, NEW op \in StateOp, UserStateOp(op, m) PROVE Spared
    BY <1>3, StateOpSpared DEF UserStateOp
  <1>4. ASSUME NEW m \in Mods, NEW r \in Mods, UserBind(m, r) PROVE Spared
    <2>1. CASE Fail(stack)
      BY <2>1, FailSpared
    <2>2. CASE state[m] # "ZOMBIE" /\ refs' = [refs EXCEPT ![m] = @ + 1] /\ freed' = freed
      BY <2>2, LockSpared DEF Lock
    <2> QED
      BY <1>4, <2>1, <2>2 DEF UserBind, m_mod_bind, M_MOD_ASSERT
  <1>5. CASE UserLoop
    BY <1>5, SameSpared DEF UserLoop, m_ctx_loop, loop_start, Fail, modVars
  <1>6. CASE UserDispatch
    BY <1>6, SameSpared
       DEF UserDispatch, m_ctx_dispatch, loop_start, loop_stop, recv_events, Fail, modVars
  <1>7. CASE UserQuit \/ UserFinalize \/ UserCtxDeregister
    BY <1>7, SameSpared DEF UserQuit, UserFinalize, UserCtxDeregister, Fail, modVars
  <1> QED
    BY <1>1, <1>2, <1>3, <1>4, <1>5, <1>6, <1>7 DEF UserStep

-----------------------------------------------------------------------------
(***************************************************************************)
(* module_dtor, and the invariant.                                          *)
(***************************************************************************)
(* A hook of m, or a deregistration of it, has a reference to it.             *)
LEMMA HolderCounted ==
    ASSUME TallyInv, NEW m \in Mods, NEW i \in 1..Len(stack), stack[i].fn \in {"user", "dereg"},
           stack[i].mod = m
    PROVE  refs[m] > 0
  <1>1. /\ refs[m] = Owed(stack, modules, handle, bound, m) /\ stack \in Seq(FrameType)
        /\ bound \in [Mods -> Seq(Mods)]
    BY DEF TallyInv, Tally
  <1>2. Count(stack, Holders(m)) \in Nat /\ Cardinality(Binds(bound, m)) \in Nat
    BY <1>1, Counts
  <1>3. i \in Places(stack, Holders(m))
    BY <1>1 DEF Places, Holders
  <1>4. IsFiniteSet(Places(stack, Holders(m)))
    BY <1>1, CountNat
  <1>5. Count(stack, Holders(m)) # 0
    BY <1>3, <1>4, FS_EmptySet DEF Count
  <1> QED
    BY <1>1, <1>2, <1>5 DEF Owed

(* A module without references is dead: a registered one is in the map, or is *)
(* being deregistered.                                                      *)
LEMMA UnreferencedDead ==
    ASSUME TallyInv, Owned, NEW m \in Unreferenced
    PROVE  m \in Mods /\ state[m] = "ZOMBIE"
  <1>1. m \in Mods /\ state[m] # "NONE" /\ refs[m] = 0
    BY DEF Unreferenced
  <1>2. m \notin modules
    <2>1. /\ refs[m] = Owed(stack, modules, handle, bound, m) /\ stack \in Seq(FrameType)
          /\ bound \in [Mods -> Seq(Mods)]
      BY <1>1 DEF TallyInv, Tally
    <2>2. Count(stack, Holders(m)) \in Nat /\ Cardinality(Binds(bound, m)) \in Nat
      BY <2>1, Counts
    <2> QED
      BY <1>1, <2>1, <2>2 DEF Owed
  <1>3. \A at : ~Leaves(stack, m, at)
    BY <1>1, HolderCounted DEF Leaves
  <1> QED
    BY <1>1, <1>2, <1>3 DEF Owned, Kept

LEMMA DtorSure ==
    ASSUME CoreInv, FreeInv, NEW m \in Mods, module_dtor(m)
    PROVE  Sure
  <1>1. /\ bound' = [bound EXCEPT ![m] = <<>>]
        /\ UNCHANGED <<state, handle, modules, persist, key, ctxState, stack, ret, undefined>>
    BY DEF module_dtor
  <1>2. \A q \in Mods : bound'[q] = bound[q] \/ bound'[q] = <<>>
    BY <1>1 DEF CoreInv, DataInv
  <1>3. ASSUME NEW f, Safe(f, state, bound, modules, ctxState, key)
        PROVE  Safe(f, state, bound', modules, ctxState, key)
    BY <1>2, <1>3 DEF Safe, Cascade
  <1>4. ASSUME NEW s, Now(s) PROVE Sound(s, state, bound', modules, ctxState, key)
    BY <1>3, <1>4, SoundChange DEF Now
  <1>5. SoundInv'
    BY <1>1, <1>4 DEF FreeInv, SoundInv, Now, Aborted, Below
  <1>6. (OwnInv \/ RefusedInv)'
    BY <1>1 DEF FreeInv, OwnInv, RefusedInv, Owned, Refused, Unique, Kept, Remaining, Replacing, Below
  <1> QED
    BY <1>1, <1>5, <1>6 DEF Sure, FreeInv

LEMMA DtorFreed ==
    ASSUME CoreInv, TallyInv, FreeInv, NEW m \in Mods, module_dtor(m)
    PROVE  \A x \in freed' : x \in Mods /\ state[x] = "ZOMBIE" /\ refs'[x] <= 0
  <1>1. /\ m \in Unreferenced /\ freed' = freed \cup {m}
        /\ refs' = [x \in Mods |-> refs[x] - Occurrences(bound[m], x)]
    BY DEF module_dtor
  <1>2. m \in Mods /\ state[m] = "ZOMBIE" /\ refs[m] = 0
    BY <1>1, UnreferencedDead DEF FreeInv, OwnInv, RefusedInv, Unreferenced
  <1>3. \A x \in Mods : Occurrences(bound[m], x) \in Nat
    BY OccurrencesCount, RefsTyped
  <1>4. \A x \in freed' : x \in Mods /\ state[x] = "ZOMBIE" /\ refs[x] = 0
    BY <1>1, <1>2 DEF FreeInv, FreedOK, CoreInv, DataInv, Born
  <1>5. \A x \in Mods : refs'[x] = refs[x] - Occurrences(bound[m], x)
    BY <1>1
  <1> QED
    BY <1>3, <1>4, <1>5

LEMMA FreeInit == Init => FreeInv
  <1> SUFFICES ASSUME Init PROVE FreeInv
    OBVIOUS
  <1> DEFINE f == Frame("user", NoMod, "main")
  <1>1. /\ modules \in Startups /\ freed = {} /\ key = TRUE /\ ctxState = "IDLE"
        /\ state = [m \in Mods |-> IF m \in modules THEN "IDLE" ELSE "NONE"]
        /\ handle = [m \in Mods |-> m \in modules] /\ undefined = FALSE
        /\ stack = <<f>>
    BY DEF Init
  <1>2. modules \subseteq Mods /\ Unique
    BY <1>1, LifecycleAssumption DEF Unique
  <1>3. CoreInv
    BY CoreInit
  <1>4. f.fn = "user" /\ f.todo = <<>>
    BY DEF Frame
  <1> HIDE DEF f
  <1>5. Len(stack) = 1 /\ stack[1] = f
    BY <1>1
  <1>6. \A i \in 1..Len(stack) : i = 1
    BY <1>5
  <1>7. Now(stack)
    <2>1. \A i \in 1..Len(f.todo) : f.todo[i].src
      BY <1>4
    <2>2. Safe(f, state, bound, modules, ctxState, key)
      BY <1>4, <2>1 DEF Safe, Looping, Ending
    <2>3. stack \in Seq(FrameType)
      BY <1>3 DEF CoreInv, Shape
    <2>4. \A i \in 1..Len(stack) : Safe(stack[i], state, bound, modules, ctxState, key)
      BY <1>5, <1>6, <2>2
    <2>5. \A i, j \in 1..Len(stack) : ~(i < j) /\ j # i + 1
      BY <1>6
    <2> QED
      BY <2>3, <2>4, <2>5 DEF Now, Sound
  <1>8. \A fn : Has(stack, fn) => fn = "user"
    BY <1>4, <1>5, <1>6 DEF Has
  <1>9. Kept(stack)
    BY <1>1, <1>2 DEF Kept
  <1>10. \A m \in modules : handle[m]
    BY <1>1, <1>2
  <1>11. Replacing(stack) /\ Remaining(stack)
    BY <1>8 DEF Replacing, Remaining
  <1>12. OwnInv
    BY <1>1, <1>2, <1>9, <1>10, <1>11 DEF OwnInv, Owned
  <1> QED
    BY <1>1, <1>7, <1>12 DEF FreeInv, SoundInv, FreedOK

LEMMA FreeStep ==
    Careful /\ CoreInv /\ RunInv /\ TallyInv /\ CtxTypes /\ FreeInv /\ [Next]_vars => FreeInv'
  <1> SUFFICES ASSUME Careful, CoreInv, RunInv, TallyInv, CtxTypes, FreeInv, [Next]_vars
               PROVE  FreeInv'
    OBVIOUS
  <1>1. CASE UNCHANGED vars
    <2>1. SoundInv' = SoundInv
      BY <1>1 DEF vars, modVars, ctxVars, SoundInv, Now, Aborted, Below
    <2>2. OwnInv' = OwnInv /\ RefusedInv' = RefusedInv
      BY <1>1 DEF vars, modVars, ctxVars, OwnInv, RefusedInv, Owned, Refused, Unique, Kept,
                  Remaining, Replacing, Below
    <2>3. FreedOK' = FreedOK /\ undefined' = undefined
      BY <1>1 DEF vars, modVars, FreedOK
    <2> QED
      BY <2>1, <2>2, <2>3 DEF FreeInv
  <1>2. CASE Next /\ ~UNCHANGED vars
    <2>1. LegalStep /\ CoreInv' /\ TallyInv'
      BY CoreStep, TallyStep DEF Good
    <2>2. /\ refs \in [Mods -> Int] /\ refs' \in [Mods -> Int]
          /\ \A m \in Mods : refs'[m] >= 0
      <3>1. refs' \in [Mods -> Int] /\ stack' \in Seq(FrameType) /\ bound' \in [Mods -> Seq(Mods)]
        BY <2>1 DEF TallyInv, Tally
      <3>2. ASSUME NEW m \in Mods PROVE refs'[m] >= 0
        <4>1. Count(stack', Holders(m)) \in Nat /\ Cardinality(Binds(bound', m)) \in Nat
          BY <3>1, Counts
        <4>2. refs'[m] = Owed(stack', modules', handle', bound', m)
          BY <2>1 DEF TallyInv, Tally
        <4> QED
          BY <4>1, <4>2 DEF Owed
      <3> QED
        BY <3>1, <3>2, RefsTyped
    <2>3. freed \subseteq Mods
      BY DEF CoreInv, DataInv, Born
    <2>4. Sure /\ \A x \in freed' : x \in Mods /\ state[x] = "ZOMBIE" /\ refs'[x] <= 0
      <3>1. ASSUME NEW m \in Mods, module_dtor(m)
            PROVE  Sure /\ \A x \in freed' : x \in Mods /\ state[x] = "ZOMBIE" /\ refs'[x] <= 0
        BY <3>1, DtorSure, DtorFreed
      <3>2. CASE LibraryStep \/ UserStep
        <4>1. Sure /\ Spared
          BY <3>2, LibrarySure, UserSure, LibrarySpared, UserSpared
        <4> QED
          BY <2>2, <2>3, <4>1 DEF Spared, FreeInv, FreedOK
      <3> QED
        BY <1>2, <3>1, <3>2 DEF Next, Finished
    <2>5. FreedOK'
      <3> SUFFICES ASSUME NEW x \in freed' PROVE state'[x] = "ZOMBIE" /\ refs'[x] = 0
        BY DEF FreedOK
      <3>1. x \in Mods /\ state[x] = "ZOMBIE" /\ refs'[x] <= 0
        BY <2>4
      <3> QED
        BY <2>1, <2>2, <3>1 DEF LegalStep
    <2> QED
      BY <2>4, <2>5 DEF FreeInv, Sure
  <1> QED
    BY <1>1, <1>2

LEMMA FreeHolds == Careful => (Spec => []FreeInv)
  <1> SUFFICES ASSUME Careful PROVE Spec => []FreeInv
    OBVIOUS
  <1>1. TypeOK => CtxTypes
    BY DEF TypeOK, CtxTypes
  <1>2. CoreInv /\ RunInv /\ TallyInv /\ CtxTypes /\ FreeInv /\ [Next]_vars => FreeInv'
    BY FreeStep
  <1>3. Spec => []RunInv
    BY RunHolds
  <1> QED
    BY <1>1, <1>2, <1>3, FreeInit, CoreHolds, TallyHolds, CountersDoNotWrap, PTL DEF Spec

(***************************************************************************)
(* With clients that keep to ClientRules, whatever else their hooks do, no    *)
(* function of mod.c and ctx.c that waited for a hook uses a freed module, a  *)
(* freed source of an event, a freed node of a list of bound modules or a     *)
(* freed context when it goes on.                                            *)
(***************************************************************************)
THEOREM NothingUsedAfterFree == Careful => (Spec => []NoUseAfterFree)
  <1> SUFFICES ASSUME Careful PROVE Spec => []NoUseAfterFree
    OBVIOUS
  <1>1. CoreInv /\ TallyInv /\ FreeInv => NoUseAfterFree
    <2> SUFFICES ASSUME CoreInv, TallyInv, FreeInv, NEW i \in 1..Len(stack)
                 PROVE  /\ stack[i].fn \in {"user", "dereg"} => stack[i].mod \notin freed
                        /\ stack[i].fn \in {"loop", "recv", "iter", "flush", "lstop"} => ctxRefs > 0
      BY DEF NoUseAfterFree, FreeInv
    <2>1. stack[i].fn \in {"user", "dereg"} => stack[i].mod \notin freed
      <3> SUFFICES ASSUME stack[i].fn \in {"user", "dereg"}, stack[i].mod \in freed PROVE FALSE
        OBVIOUS
      <3>1. stack[i].mod \in Mods /\ refs[stack[i].mod] = 0
        BY DEF FreeInv, FreedOK, CoreInv, DataInv, Born
      <3> QED
        BY <3>1, HolderCounted
    <2>2. stack[i].fn \in {"loop", "recv", "iter", "flush", "lstop"} => ctxRefs > 0
      <3> SUFFICES ASSUME stack[i].fn \in {"loop", "recv", "iter", "flush", "lstop"}
                   PROVE  ctxRefs > 0
        OBVIOUS
      <3>1. Safe(stack[i], state, bound, modules, ctxState, key)
        <4>1. CASE Now(stack)
          BY <4>1 DEF Now, Sound
        <4>2. CASE Aborted /\ Now(Below)
          <5>1. stack \in Seq(FrameType) /\ i # 1 /\ Len(stack) \in Nat
            BY <4>2 DEF Aborted, CoreInv, Shape
          <5>2. Len(stack) > 1
            BY <5>1
          <5>3. i - 1 \in 1..Len(Below) /\ Below[i - 1] = stack[i]
            BY <5>1, <5>2, TailIndex DEF Below
          <5> QED
            BY <4>2, <5>3 DEF Now, Sound
        <4> QED
          BY <4>1, <4>2 DEF FreeInv, SoundInv
      <3>2. key
        BY <3>1 DEF Safe, Looping, Ending, FreeInv, OwnInv, RefusedInv, Owned
      <3> QED
        BY <3>2, CtxAlive DEF FreeInv
    <2> QED
      BY <2>1, <2>2
  <1>2. Spec => []FreeInv
    BY FreeHolds
  <1> QED
    BY <1>1, <1>2, CoreHolds, TallyHolds, PTL

=============================================================================
