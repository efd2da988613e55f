------------------------- MODULE CorPrograms_proofs -------------------------
(***************************************************************************)
(* What is proved of the coroutine programs and the channel, for any        *)
(* setups, wheel, pool of timers and capacity of the queue, up to the first *)
(* use of a dead frame:                                                     *)
(*                                                                         *)
(*   TypeInv   types                                                        *)
(*   DueInv    a coroutine in a timed wait has a task of that wait, or its  *)
(*             timer is not canceled and fires when the wait's time is over *)
(*   MissInv   a channel's reader that sleeps, or a thread that waits, has  *)
(*             been resumed or notified, or a writer that will find it is   *)
(*             on its way, unless the queue is empty                        *)
(*                                                                         *)
(* WaitEffect says what any step does to the waits, with what the programs  *)
(* are left out: DueInv is kept by it.  For MissInv a step is of the        *)
(* reader, of a writer (Moves), or of others, which leave the coroutines of *)
(* the channel where they are (Calm).                                       *)
(***************************************************************************)
EXTENDS CorPrograms, TLAPS

NetPlaces == {"ended", "picked", "pick", "connect", "write", "read", "respond", "accept",
              "send", "receive", "sleep", "sleep again"}
ChanPlaces == {"ended", "pop", "missed", "poll", "found", "expired", "lock", "asleep", "parked",
               "push", "mode", "notify", "wlock", "call"}
Places == {"none", "new"} \cup NetPlaces \cup ChanPlaces
Hows == {"run", "timed", "untimed"}

Task == [co : Co, n : Nat, why : {"new", "done", "timeout"}]
Timer == [co : Co, n : Nat, slot : 0 .. Called, canceled : BOOLEAN, age : Nat]

WaitType ==
    /\ prog \in Setups
    /\ pc \in [Co -> Places]
    /\ suspended \subseteq Co
    /\ wait \in [Co -> Nat]
    /\ result \in [Co -> Int]
    /\ tasks \subseteq Task
    /\ dropped \subseteq Task
    /\ timers \subseteq Timer
    /\ slot \in 0 .. Slots - 1
    /\ undefined \in BOOLEAN

IndexType == next \in Nat /\ index \in [Co -> Nat]
NetType ==
    /\ ops \subseteq [co : Co, n : Nat, at : Places]
    /\ IndexType

ChanType ==
    /\ queue \in Seq(Co)
    /\ mode \in BOOLEAN /\ notified \in BOOLEAN
    /\ holder \subseteq Co /\ starting \subseteq Co
    /\ resumeF \in [co : Co, n : Nat] \cup {NoFrame}

TypeInv == WaitType /\ NetType /\ ChanType

-----------------------------------------------------------------------------
(* Arithmetic of the wheel *)

LEMMA Constants == /\ Slots \in Nat \ {0} /\ PoolSize \in Nat \ {0} /\ Contexts \in Nat \ {0}
                   /\ Interval \in 0 .. Slots - 1 /\ Interval \in Nat
BY WaitAssumption, NetAssumption

LEMMA ModRange == ASSUME NEW a \in Int, NEW b \in Nat \ {0}
                  PROVE  a % b \in 0 .. b - 1
OBVIOUS

LEMMA ModSmall == ASSUME NEW b \in Nat \ {0}, NEW a \in 0 .. b - 1
                  PROVE  a % b = a
OBVIOUS

LEMMA ModAbove == ASSUME NEW b \in Nat \ {0}, NEW a \in b .. 2 * b - 1
                  PROVE  a % b = a - b
OBVIOUS

LEMMA ModBelow == ASSUME NEW b \in Nat \ {0}, NEW a \in Int, a < 0, -b <= a
                  PROVE  a % b = a + b
OBVIOUS

\* The ticks from slot s to slot a.
Ahead(a, s) == (a - s) % Slots

LEMMA AheadValue ==
    ASSUME NEW a \in 0 .. Slots - 1, NEW s \in 0 .. Slots - 1
    PROVE  /\ a >= s => Ahead(a, s) = a - s
           /\ a < s => Ahead(a, s) = a - s + Slots
<1>1. CASE a >= s
  <2>1. a - s \in 0 .. Slots - 1
    BY <1>1, Constants
  <2> QED
    BY <1>1, <2>1, Constants, ModSmall DEF Ahead
<1>2. CASE a < s
  <2>1. a - s \in Int /\ a - s < 0 /\ -Slots <= a - s
    BY <1>2, Constants
  <2>2. (a - s) % Slots = (a - s) + Slots
    BY <2>1, Constants, ModBelow
  <2> QED
    BY <1>2, <2>2, Constants DEF Ahead
<1> QED
  BY <1>1, <1>2, Constants

\* The value of SlotFor, and of the next slot.
LEMMA StepValue ==
    ASSUME NEW s \in 0 .. Slots - 1, NEW k \in 0 .. Slots
    PROVE  /\ s + k < Slots => (s + k) % Slots = s + k
           /\ s + k >= Slots => (s + k) % Slots = s + k - Slots
<1>1. CASE s + k < Slots
  <2>1. s + k \in 0 .. Slots - 1
    BY <1>1, Constants
  <2> QED
    BY <1>1, <2>1, Constants, ModSmall
<1>2. CASE s + k >= Slots
  <2>1. s + k \in Slots .. 2 * Slots - 1
    BY <1>2, Constants
  <2> QED
    BY <1>2, <2>1, Constants, ModAbove
<1> QED
  BY <1>1, <1>2, Constants

LEMMA SlotForAhead ==
    ASSUME slot \in 0 .. Slots - 1
    PROVE  SlotFor(Interval) \in 0 .. Slots - 1 /\ Ahead(SlotFor(Interval), slot) = Interval
<1>1. Interval \in 0 .. Slots - 1 /\ Interval \in 0 .. Slots /\ Slots \in Nat
  BY Constants
<1>2. PICK a \in Int : a = SlotFor(Interval) /\ a = (slot + Interval) % Slots
  BY <1>1, Constants, ModRange DEF SlotFor
<1>5. /\ slot + Interval < Slots => a = slot + Interval
      /\ slot + Interval >= Slots => a = slot + Interval - Slots
  BY <1>1, <1>2, StepValue
<1>3. CASE slot + Interval < Slots
  <2>1. a = slot + Interval /\ a \in 0 .. Slots - 1 /\ a >= slot
    BY <1>1, <1>3, <1>5
  <2>2. Ahead(a, slot) = Interval
    BY <1>1, <2>1, AheadValue
  <2> QED
    BY <1>2, <2>1, <2>2
<1>4. CASE slot + Interval >= Slots
  <2>1. a = slot + Interval - Slots /\ a \in 0 .. Slots - 1 /\ a < slot
    BY <1>1, <1>4, <1>5
  <2>2. Ahead(a, slot) = Interval
    BY <1>1, <2>1, AheadValue
  <2> QED
    BY <1>2, <2>1, <2>2
<1> QED
  BY <1>1, <1>3, <1>4

\* A tick brings every other slot one nearer.
LEMMA TickAhead ==
    ASSUME NEW s \in 0 .. Slots - 1, NEW a \in 0 .. Slots - 1, a # s
    PROVE  (s + 1) % Slots \in 0 .. Slots - 1 /\ Ahead(a, (s + 1) % Slots) = Ahead(a, s) - 1
<1>1. Slots \in Nat /\ 1 \in 0 .. Slots
  BY Constants
<1>2. PICK b \in Int : b = (s + 1) % Slots
  BY <1>1, Constants, ModRange
<1>3. CASE s + 1 < Slots
  <2>1. b = s + 1 /\ b \in 0 .. Slots - 1
    BY <1>1, <1>2, <1>3, StepValue
  <2>2. CASE a > s
    <3>1. Ahead(a, b) = a - b /\ Ahead(a, s) = a - s
      BY <1>1, <2>1, <2>2, AheadValue
    <3> QED
      BY <1>2, <2>1, <3>1
  <2>3. CASE a < s
    <3>1. Ahead(a, b) = a - b + Slots /\ Ahead(a, s) = a - s + Slots
      BY <1>1, <2>1, <2>3, AheadValue
    <3> QED
      BY <1>1, <1>2, <2>1, <3>1
  <2> QED
    BY <2>2, <2>3
<1>4. CASE s + 1 >= Slots
  <2>1. b = 0 /\ s = Slots - 1 /\ b \in 0 .. Slots - 1
    BY <1>1, <1>2, <1>4, StepValue
  <2>2. Ahead(a, b) = a - b /\ Ahead(a, s) = a - s + Slots
    BY <1>1, <2>1, AheadValue
  <2> QED
    BY <1>1, <1>2, <2>1, <2>2
<1> QED
  BY <1>1, <1>3, <1>4

-----------------------------------------------------------------------------
(* Types *)

LEMMA NewTaskType == ASSUME NEW c \in Co PROVE NewTask(c) \in Task
BY DEF NewTask, Task

LEMMA NewTimerType == ASSUME WaitType, NEW c \in Co
                      PROVE  /\ NewTimer(c) \in Timer /\ NewTimer(c).co = c /\ NewTimer(c).n = wait[c] + 1
                             /\ NewTimer(c).slot = Unarmed /\ NewTimer(c).canceled = FALSE
                             /\ NewTimer(c).age = 0
<1>1. wait[c] + 1 \in Nat /\ Slots \in 0 .. Called
  BY Constants DEF WaitType, Called
<1> QED
  BY <1>1 DEF NewTimer, Timer, Unarmed

LEMMA CanceledType ==
    ASSUME WaitType, NEW t \in Task
    PROVE  /\ Canceled(t) \subseteq Timer
           /\ \A x : x.co # t.co => (x \in Canceled(t) <=> x \in timers)
           /\ \A y \in Canceled(t) : \E x \in timers :
                 /\ x.co = y.co /\ x.n = y.n /\ x.slot = y.slot /\ x.age = y.age
                 /\ y # x => y.co = t.co
<1> DEFINE f(x) == IF t.why = "done" /\ Of(x, t.co, t.n) THEN [x EXCEPT !.canceled = TRUE] ELSE x
<1>1. ASSUME NEW x \in timers
      PROVE  /\ f(x) \in Timer /\ f(x).co = x.co /\ f(x).n = x.n /\ f(x).slot = x.slot /\ f(x).age = x.age
             /\ f(x) # x => x.co = t.co
  BY DEF WaitType, Timer, Of
<1>2. Canceled(t) = {f(x) : x \in timers}
  BY DEF Canceled
<1> HIDE DEF f
<1>3. Canceled(t) \subseteq Timer
  BY <1>1, <1>2
<1>4. ASSUME NEW y, y.co # t.co
      PROVE  y \in Canceled(t) <=> y \in timers
  BY <1>1, <1>2, <1>4
<1>5. ASSUME NEW y \in Canceled(t)
      PROVE  \E x \in timers : /\ x.co = y.co /\ x.n = y.n /\ x.slot = y.slot /\ x.age = y.age
                               /\ y # x => y.co = t.co
  BY <1>1, <1>2
<1> QED
  BY <1>3, <1>4, <1>5

LEMMA ExecuteType ==
    ASSUME WaitType, NEW t \in tasks, NEW at \in Places, NEW how \in Hows, NEW news \in SUBSET Co,
           Execute(t, at, how, news)
    PROVE  WaitType'
<1>1. t \in Task /\ t.co \in Co
  BY DEF WaitType, Task
<1>2. tasks' \subseteq Task
  BY <1>1, NewTaskType DEF Execute, WaitType
<1>3. timers' \subseteq Timer
  <2>1. Canceled(t) \subseteq Timer /\ NewTimer(t.co) \in Timer
    BY <1>1, CanceledType, NewTimerType
  <2>2. timers' = Canceled(t) \cup (IF how = "timed" THEN {NewTimer(t.co)} ELSE {})
    BY DEF Execute
  <2> QED
    BY <2>1, <2>2
<1>4. pc' \in [Co -> Places]
  BY DEF Execute, WaitType, Places
<1>5. suspended' \subseteq Co
  BY <1>1 DEF Execute, WaitType
<1>6. wait' \in [Co -> Nat] /\ result' \in [Co -> Int]
  BY <1>1 DEF Execute, WaitType
<1> QED
  BY <1>2, <1>3, <1>4, <1>5, <1>6 DEF Execute, WaitType

LEMMA SuspendType ==
    ASSUME WaitType, NEW c \in Co, NEW at \in Places, NEW how, Suspend(c, at, how)
    PROVE  WaitType'
<1>1. timers' \subseteq Timer
  BY NewTimerType DEF Suspend, WaitType
<1>2. pc' \in [Co -> Places] /\ suspended' \subseteq Co /\ wait' \in [Co -> Nat]
  BY DEF Suspend, WaitType
<1> QED
  BY <1>1, <1>2 DEF Suspend, WaitType

LEMMA GoToType ==
    ASSUME WaitType, NEW c \in Co, NEW at \in Places, GoTo(c, at)
    PROVE  WaitType'
BY DEF GoTo, WaitType

LEMMA UseDeadFrameType ==
    ASSUME WaitType, UseDeadFrame, pc' \in [Co -> Places]
    PROVE  WaitType'
BY DEF UseDeadFrame, WaitType

LEMMA QueueTaskType ==
    ASSUME WaitType, NEW t \in Task, Queue(t)
    PROVE  tasks' \subseteq Task /\ dropped' \subseteq Task
BY DEF Queue, WaitType

LEMMA ResumeType ==
    ASSUME WaitType, NEW c, NEW n, NEW r \in Int, Resume(c, n, r), pc' \in [Co -> Places]
    PROVE  WaitType'
<1>1. CASE Frame(c, n)
  <2>1. c \in Co /\ n \in Nat
    BY <1>1 DEF Frame, WaitType
  <2>2. [co |-> c, n |-> n, why |-> "done"] \in Task
    BY <2>1 DEF Task
  <2>3. tasks' \subseteq Task /\ dropped' \subseteq Task
    BY <1>1, <2>2, QueueTaskType DEF Resume
  <2> QED
    BY <1>1, <2>1, <2>3 DEF Resume, WaitType
<1>2. CASE ~Frame(c, n)
  BY <1>2, UseDeadFrameType DEF Resume
<1> QED
  BY <1>1, <1>2

LEMMA LeftoverType ==
    ASSUME WaitType, NEW t, Leftover(t)
    PROVE  WaitType'
BY UseDeadFrameType DEF Leftover, WaitType

LEMMA ArmType ==
    ASSUME WaitType, NEW x, Arm(x)
    PROVE  WaitType'
<1>1. CASE Frame(x.co, x.n)
  <2>1. SlotFor(Interval) \in 0 .. Called
    BY SlotForAhead, Constants DEF WaitType, Called
  <2>2. x \in Timer /\ [x EXCEPT !.slot = SlotFor(Interval)] \in Timer
    BY <2>1 DEF Arm, WaitType, Timer
  <2> QED
    BY <1>1, <2>2 DEF Arm, WaitType
<1>2. CASE ~Frame(x.co, x.n)
  BY <1>2, UseDeadFrameType DEF Arm, WaitType
<1> QED
  BY <1>1, <1>2

LEMMA TickType ==
    ASSUME WaitType, Tick
    PROVE  WaitType'
<1>1. slot + 1 \in Int
  BY DEF WaitType
<1>2. slot' \in 0 .. Slots - 1
  BY <1>1, Constants, ModRange DEF Tick
<1>3. ASSUME NEW x \in timers
      PROVE  Turned(x) \in Timer
  <2>1. Taken \in 0 .. Called
    BY Constants DEF Taken, Called
  <2> QED
    BY <2>1 DEF Turned, WaitType, Timer
<1>4. timers' \subseteq Timer
  BY <1>3 DEF Tick
<1> QED
  BY <1>2, <1>4 DEF Tick, WaitType

LEMMA FireType ==
    ASSUME WaitType, NEW x, Fire(x)
    PROVE  WaitType'
<1>1. x \in Timer
  BY DEF Fire, WaitType
<1>2. Called \in 0 .. Called
  BY Constants DEF Called
<1>3. timers' \subseteq Timer
  BY <1>1, <1>2 DEF Fire, WaitType, Timer
<1>4. TimeoutTask(x.co, x.n) \in Task
  BY <1>1 DEF TimeoutTask, Timer, Task
<1>5. tasks' \subseteq Task /\ dropped' \subseteq Task
  BY <1>4, QueueTaskType DEF Fire, WaitType
<1> QED
  BY <1>3, <1>5 DEF Fire, WaitType

LEMMA ReleaseType ==
    ASSUME WaitType, NEW x, Release(x)
    PROVE  WaitType'
<1>1. CASE Frame(x.co, x.n)
  BY <1>1 DEF Release, WaitType
<1>2. CASE ~Frame(x.co, x.n)
  BY <1>2, UseDeadFrameType DEF Release, WaitType
<1> QED
  BY <1>1, <1>2

-----------------------------------------------------------------------------
(* Where a network coroutine goes *)

LEMMA FirstPlace == ASSUME NEW c PROVE First(c) \in NetPlaces
BY DEF First, NetPlaces

LEMMA AfterPlace == ASSUME NEW c, NEW at, NEW r PROVE After(c, at, r) \in NetPlaces
<1>1. ConnectionAfter(at, r) \in NetPlaces
  BY DEF ConnectionAfter, NetPlaces
<1>2. AcceptorAfter(r) \in NetPlaces
  BY DEF AcceptorAfter, NetPlaces
<1>3. UdpClientAfter(at) \in NetPlaces
  BY DEF UdpClientAfter, NetPlaces
<1>4. UdpServerAfter(at, r) \in NetPlaces
  BY DEF UdpServerAfter, NetPlaces
<1>5. SleeperAfter(at) \in NetPlaces
  BY DEF SleeperAfter, NetPlaces
<1>6. ClientAfter(at, r) \in NetPlaces
  BY DEF ClientAfter, NetPlaces
<1> QED
  BY <1>1, <1>2, <1>3, <1>4, <1>5, <1>6 DEF After

LEMMA ReachedPlace == ASSUME NEW c, NEW at \in NetPlaces PROVE Reached(c, at) \in NetPlaces
<1>1. \A b \in NetPlaces : Passed(c, b) \in NetPlaces
  BY AfterPlace DEF Passed
<1> QED
  BY <1>1 DEF Reached

\* How a coroutine stops at a place: with a timer where the wait has a timeout.
LEMMA HowAt == ASSUME NEW at \in NetPlaces
               PROVE  /\ How(at) \in Hows /\ (TimedNet(at) <=> How(at) = "timed")
                      /\ How(at) = "run" <=> at \in {"ended", "picked", "pick"}
                      /\ at \in Places
BY DEF How, Hows, TimedNet, NetPlaces, Places

-----------------------------------------------------------------------------
(* What a step of the network does to the waits *)

Conns == {c \in Co : Kind(c) = "conn"}
\* The operation that a coroutine started when it came to a place.
NewOp(c, at, o) == o = [co |-> c, n |-> wait[c] + 1, at |-> at]
OpsGrow(c, at) == \A o \in ops' : o \in ops \/ NewOp(c, at, o)

NetRuns == \E t \in tasks, at \in NetPlaces, news \in SUBSET Conns :
              Kind(t.co) \in NetKinds /\ Execute(t, at, How(at), news) /\ OpsGrow(t.co, at)
NetDies == \E t \in tasks : Kind(t.co) \in NetKinds /\ UseDeadFrame /\ pc' = pc /\ ops' = ops
NetGoes == \E c \in Co, at \in NetPlaces :
              /\ pc[c] \in {"picked", "pick"} /\ OpsGrow(c, at)
              /\ IF How(at) = "run" THEN GoTo(c, at) ELSE Suspend(c, at, How(at))
NetEnds == \E o \in ops, r \in {-1, 0, Size} :
              Resume(o.co, o.n, r) /\ pc' = pc /\ ops' \subseteq ops
NetIdles == waitVars' = waitVars /\ ops' = ops

NetEffect == NetRuns \/ NetDies \/ NetGoes \/ NetEnds \/ NetIdles

LEMMA EndsEffect ==
    ASSUME NEW o \in ops, NEW r \in {-1, 0, Size}, Ends(o, r)
    PROVE  NetEnds /\ next' = next /\ index' = index
BY DEF Ends, NetEnds

LEMMA ContinueEffect ==
    ASSUME TypeInv, NEW t \in tasks, Continue(t)
    PROVE  NetRuns /\ next' = next /\ index' = index
<1> DEFINE from == pc[t.co]
           a0 == IF from = "new" THEN First(t.co) ELSE After(t.co, from, Returned(t))
           at == Reached(t.co, a0)
           accepts == from = "accept" /\ Returned(t) = 0
           choices == IF accepts THEN {Served(Head(backlog)), {}} ELSE {{}}
<1>1. a0 \in NetPlaces
  BY FirstPlace, AfterPlace
<1>2. at \in NetPlaces
  <2> HIDE DEF a0
  <2> QED
    BY <1>1, ReachedPlace
<1>3. choices \subseteq SUBSET Conns
  BY DEF Served, Conns
<1>4. /\ Kind(t.co) \in NetKinds /\ \E news \in choices : Execute(t, at, How(at), news)
      /\ ops' = ops \cup Started(t.co, at, wait[t.co] + 1)
      /\ next' = next /\ index' = index
  BY DEF Continue
<1> HIDE DEF at, choices
<1>5. OpsGrow(t.co, at)
  BY <1>4 DEF OpsGrow, NewOp, Started
<1>6. PICK b \in NetPlaces, m \in SUBSET Conns : b = at /\ Execute(t, at, How(at), m)
  BY <1>2, <1>3, <1>4
<1> QED
  BY <1>4, <1>5, <1>6 DEF NetRuns

LEMMA PickContextEffect ==
    ASSUME TypeInv, NEW t \in tasks, PickContext(t)
    PROVE  (NetRuns \/ NetDies) /\ IndexType'
<1>1. Kind(t.co) \in NetKinds
  BY DEF PickContext, NetKinds
<1>2. CASE next < Contexts
  <2>1. /\ Execute(t, "picked", "run", {}) /\ ops' = ops
        /\ next' = next /\ index' = [index EXCEPT ![t.co] = next]
    BY <1>2 DEF PickContext
  <2>2. "picked" \in NetPlaces /\ How("picked") = "run" /\ {} \in SUBSET Conns
    BY DEF NetPlaces, How
  <2>3. OpsGrow(t.co, "picked")
    BY <2>1 DEF OpsGrow
  <2>4. IndexType'
    BY <2>1 DEF TypeInv, NetType, IndexType
  <2>5. NetRuns
    BY <1>1, <2>1, <2>2, <2>3 DEF NetRuns
  <2> QED
    BY <2>4, <2>5
<1>3. CASE ~(next < Contexts)
  <2>1. UseDeadFrame /\ pc' = pc /\ next' = next /\ index' = index /\ ops' = ops
    BY <1>3 DEF PickContext
  <2> QED
    BY <1>1, <2>1 DEF NetDies, TypeInv, NetType, IndexType
<1> QED
  BY <1>2, <1>3

LEMMA PickStepsEffect ==
    ASSUME TypeInv, NEW c \in Co, PickSteps(c)
    PROVE  NetGoes /\ IndexType'
<1>1. /\ pc[c] = "picked" /\ GoTo(c, "pick") /\ ops' = ops
      /\ next' \in {next + 1, index[c] + 1} /\ index' = [index EXCEPT ![c] = 0]
  BY DEF PickSteps
<1>2. "pick" \in NetPlaces /\ How("pick") = "run" /\ OpsGrow(c, "pick")
  BY <1>1 DEF NetPlaces, How, OpsGrow
<1>3. IndexType'
  BY <1>1 DEF TypeInv, NetType, IndexType
<1> QED
  BY <1>1, <1>2, <1>3 DEF NetGoes

LEMMA PickWrapsEffect ==
    ASSUME TypeInv, NEW c \in Co, PickWraps(c)
    PROVE  NetGoes /\ IndexType'
<1> DEFINE at == Reached(c, "connect")
<1>1. "connect" \in NetPlaces
  BY DEF NetPlaces
<1>2. at \in NetPlaces
  BY <1>1, ReachedPlace
<1>3. /\ pc[c] = "pick" /\ (IF How(at) = "run" THEN GoTo(c, at) ELSE Suspend(c, at, How(at)))
      /\ ops' = ops \cup Started(c, at, wait[c] + 1)
      /\ next' = (IF next = Contexts THEN 0 ELSE next) /\ index' = index
  BY DEF PickWraps
<1> HIDE DEF at
<1>4. OpsGrow(c, at)
  BY <1>3 DEF OpsGrow, NewOp, Started
<1>5. IndexType'
  BY <1>3 DEF TypeInv, NetType, IndexType
<1>6. PICK b \in NetPlaces : b = at
  BY <1>2
<1> QED
  BY <1>3, <1>4, <1>5, <1>6 DEF NetGoes

LEMMA NetStepEffect ==
    ASSUME TypeInv, NetStep
    PROVE  NetEffect /\ IndexType' /\ chanVars' = chanVars
<1>0. /\ next' = next /\ index' = index => IndexType'
      /\ chanVars' = chanVars
  BY DEF NetStep, TypeInv, NetType, IndexType
<1>1. ASSUME NEW t \in tasks, Continue(t)
      PROVE  NetEffect /\ IndexType'
  BY <1>0, <1>1, ContinueEffect DEF NetEffect
<1>2. ASSUME NEW t \in tasks, PickContext(t)
      PROVE  NetEffect /\ IndexType'
  BY <1>2, PickContextEffect DEF NetEffect
<1>3. ASSUME NEW c \in Co, PickSteps(c) \/ PickWraps(c)
      PROVE  NetEffect /\ IndexType'
  BY <1>3, PickStepsEffect, PickWrapsEffect DEF NetEffect
<1>4. ASSUME NEW o \in ops,
             \/ Connected(o) \/ Accepted(o) \/ Wrote(o) \/ HasRead(o)
             \/ Sent(o) \/ Received(o) \/ Slept(o) \/ Failed(o)
      PROVE  NetEffect /\ IndexType'
  <2>1. PICK r \in {-1, 0, Size} : Ends(o, r)
    BY <1>4 DEF Connected, Accepted, Wrote, HasRead, Sent, Received, Slept, Failed
  <2> QED
    BY <1>0, <2>1, EndsEffect DEF NetEffect
<1>5. CASE Dropped
  BY <1>0, <1>5 DEF Dropped, NetEffect, NetIdles
<1>6. NetNext
  BY DEF NetStep
<1> QED
  BY <1>0, <1>1, <1>2, <1>3, <1>4, <1>5, <1>6 DEF NetNext

-----------------------------------------------------------------------------
(* What any step does to the waits *)

TimedAt(c, at) == TimedNet(at) \/ (at = "asleep" /\ TimedReader(c))

WaitRuns == \E t \in tasks, at \in Places, how \in Hows, news \in SUBSET Co :
               Execute(t, at, how, news) /\ (TimedAt(t.co, at) => how = "timed")
WaitGoes == \E c \in Co, at \in Places : GoTo(c, at) /\ ~TimedAt(c, at)
WaitStops == \E c \in Co, at \in Places, how \in Hows :
                Suspend(c, at, how) /\ (TimedAt(c, at) => how = "timed")
WaitEnds == \E c \in Co, n \in Nat, r \in Int :
               /\ Resume(c, n, r) /\ pc' \in [Co -> Places]
               /\ \A d \in Co : pc'[d] = pc[d] \/ ~TimedAt(d, pc'[d])
WaitDies == UseDeadFrame /\ pc' = pc
WaitIdles == waitVars' = waitVars

WaitEffect == \/ WaitRuns \/ WaitGoes \/ WaitStops \/ WaitEnds \/ WaitDies \/ WaitIdles
              \/ (\E t \in tasks : Leftover(t)) \/ (\E x \in timers : Arm(x))
              \/ Tick \/ (\E x \in timers : Fire(x) \/ Release(x))

LEMMA EffectType == ASSUME WaitType, WaitEffect PROVE WaitType'
<1>1. CASE WaitRuns
  BY <1>1, ExecuteType DEF WaitRuns
<1>2. CASE WaitGoes
  BY <1>2, GoToType DEF WaitGoes
<1>3. CASE WaitStops
  BY <1>3, SuspendType DEF WaitStops
<1>4. CASE WaitEnds
  BY <1>4, ResumeType DEF WaitEnds
<1>5. CASE WaitDies
  BY <1>5, UseDeadFrameType DEF WaitDies, WaitType
<1>6. CASE WaitIdles
  BY <1>6 DEF WaitIdles, waitVars, WaitType, Task, Timer
<1>7. CASE \E t \in tasks : Leftover(t)
  BY <1>7, LeftoverType
<1>8. CASE \E x \in timers : Arm(x)
  BY <1>8, ArmType
<1>9. CASE Tick
  BY <1>9, TickType
<1>10. CASE \E x \in timers : Fire(x) \/ Release(x)
  BY <1>10, FireType, ReleaseType
<1> QED
  BY <1>1, <1>2, <1>3, <1>4, <1>5, <1>6, <1>7, <1>8, <1>9, <1>10 DEF WaitEffect

LEMMA NetPlaceTimed == ASSUME NEW c, NEW at \in NetPlaces
                       PROVE  TimedAt(c, at) <=> How(at) = "timed"
BY HowAt DEF TimedAt, NetPlaces

OpsType == ops \subseteq [co : Co, n : Nat, at : Places]

LEMMA NetWaits ==
    ASSUME TypeInv, NetEffect
    PROVE  WaitEffect /\ OpsType'
<1> USE DEF OpsType
<1>1. \A c \in Co, at \in NetPlaces : OpsGrow(c, at) => OpsType'
  <2>1. SUFFICES ASSUME NEW c \in Co, NEW at \in NetPlaces, OpsGrow(c, at), NEW o \in ops'
                 PROVE  o \in [co : Co, n : Nat, at : Places]
    OBVIOUS
  <2>2. wait[c] + 1 \in Nat /\ at \in Places
    BY HowAt DEF TypeInv, WaitType
  <2> QED
    BY <2>1, <2>2 DEF OpsGrow, NewOp, TypeInv, NetType
<1>2. CASE NetRuns
  <2>1. PICK t \in tasks, at \in NetPlaces, news \in SUBSET Conns :
           Execute(t, at, How(at), news) /\ OpsGrow(t.co, at)
    BY <1>2 DEF NetRuns
  <2>2. t.co \in Co /\ news \in SUBSET Co /\ at \in Places /\ How(at) \in Hows
    BY HowAt DEF TypeInv, WaitType, Task, Conns
  <2>3. TimedAt(t.co, at) => How(at) = "timed"
    BY NetPlaceTimed
  <2>4. WaitRuns
    BY <2>1, <2>2, <2>3 DEF WaitRuns
  <2> QED
    BY <1>1, <2>1, <2>2, <2>4 DEF WaitEffect
<1>3. CASE NetDies
  BY <1>3 DEF NetDies, WaitEffect, WaitDies, TypeInv, NetType
<1>4. CASE NetGoes
  <2>1. PICK c \in Co, at \in NetPlaces :
           /\ OpsGrow(c, at)
           /\ IF How(at) = "run" THEN GoTo(c, at) ELSE Suspend(c, at, How(at))
    BY <1>4 DEF NetGoes
  <2>2. at \in Places /\ How(at) \in Hows /\ (TimedAt(c, at) <=> How(at) = "timed")
    BY HowAt, NetPlaceTimed
  <2>3. CASE How(at) = "run"
    BY <1>1, <2>1, <2>2, <2>3 DEF WaitEffect, WaitGoes
  <2>4. CASE How(at) # "run"
    BY <1>1, <2>1, <2>2, <2>4 DEF WaitEffect, WaitStops
  <2> QED
    BY <2>3, <2>4
<1>5. CASE NetEnds
  <2>1. PICK o \in ops, r \in {-1, 0, Size} : Resume(o.co, o.n, r) /\ pc' = pc /\ ops' \subseteq ops
    BY <1>5 DEF NetEnds
  <2>2. o.co \in Co /\ o.n \in Nat /\ r \in Int
    BY DEF TypeInv, NetType, Size
  <2>3. WaitEnds
    BY <2>1, <2>2 DEF WaitEnds, TypeInv, WaitType
  <2> QED
    BY <2>1, <2>3 DEF WaitEffect, TypeInv, NetType
<1>6. CASE NetIdles
  BY <1>6 DEF NetIdles, WaitEffect, WaitIdles, TypeInv, NetType
<1> QED
  BY <1>2, <1>3, <1>4, <1>5, <1>6 DEF NetEffect

LEMMA ReaderRunsType ==
    ASSUME TypeInv, NEW t \in tasks, ReaderRuns(t)
    PROVE  WaitEffect /\ ChanType'
<1>1. PICK at \in {"pop", "poll", "expired"} : Execute(t, at, "run", {})
  BY DEF ReaderRuns
<1>2. at \in Places /\ "run" \in Hows /\ {} \in SUBSET Co /\ ~TimedAt(t.co, at)
  BY DEF Places, ChanPlaces, Hows, TimedAt, TimedNet
<1>3. WaitRuns
  BY <1>1, <1>2 DEF WaitRuns
<1> QED
  BY <1>3 DEF WaitEffect, ReaderRuns, TypeInv, ChanType

LEMMA WriterStartsType ==
    ASSUME TypeInv, NEW t \in tasks, WriterStarts(t)
    PROVE  WaitEffect /\ ChanType'
<1>1. "push" \in Places /\ "run" \in Hows /\ {} \in SUBSET Co /\ ~TimedAt(t.co, "push")
  BY DEF Places, ChanPlaces, Hows, TimedAt, TimedNet
<1>2. WaitRuns
  BY <1>1 DEF WaitRuns, WriterStarts
<1> QED
  BY <1>2 DEF WaitEffect, WriterStarts, TypeInv, ChanType, chanVars

\* The steps of the channel that only go on.
ChanGoes(c) == \E at \in ChanPlaces \ {"asleep"} : GoTo(c, at)

LEMMA ChanGoesWait == ASSUME NEW c \in Co, ChanGoes(c) PROVE WaitEffect
<1>1. \A at \in ChanPlaces \ {"asleep"} : at \in Places /\ ~TimedAt(c, at)
  BY DEF Places, ChanPlaces, TimedAt, TimedNet
<1> QED
  BY <1>1 DEF ChanGoes, WaitEffect, WaitGoes

LEMMA QueueType ==
    ASSUME queue \in Seq(Co)
    PROVE  /\ queue # <<>> => Tail(queue) \in Seq(Co)
           /\ \A c \in Co : Append(queue, c) \in Seq(Co)
OBVIOUS

LEMMA GoingType ==
    ASSUME TypeInv, NEW c \in Co,
           \/ Pop(c) \/ AskNotify(c) \/ Poll(c) \/ Found(c) \/ GiveUp(c) \/ Park(c) \/ Unpark(c)
           \/ Push(c) \/ TestMode(c) \/ Notify(c) \/ NotifyThread(c) \/ WriterLocks(c)
    PROVE  ChanGoes(c) /\ ChanType'
<1> USE QueueType DEF TypeInv, ChanType, ChanGoes, ChanPlaces
<1>1. CASE Pop(c) \/ Poll(c)
  BY <1>1 DEF Pop, Poll
<1>2. CASE AskNotify(c) \/ Found(c) \/ GiveUp(c)
  BY <1>2 DEF AskNotify, Found, GiveUp
<1>3. CASE Park(c) \/ Unpark(c)
  BY <1>3 DEF Park, Unpark
<1>4. CASE Push(c)
  BY <1>4 DEF Push
<1>5. CASE TestMode(c)
  BY <1>5 DEF TestMode, chanVars
<1>6. CASE Notify(c) \/ NotifyThread(c)
  BY <1>6 DEF Notify, NotifyThread
<1>7. CASE WriterLocks(c)
  BY <1>7 DEF WriterLocks
<1> QED
  BY <1>1, <1>2, <1>3, <1>4, <1>5, <1>6, <1>7

LEMMA ReaderLocksType ==
    ASSUME TypeInv, NEW c \in Co, ReaderLocks(c)
    PROVE  WaitEffect /\ ChanType'
<1>1. ChanType'
  BY DEF ReaderLocks, TypeInv, ChanType
<1>2. CASE TimedReader(c) /\ PoolFull
  <2>1. ChanGoes(c)
    BY <1>2 DEF ReaderLocks, ChanGoes, ChanPlaces
  <2> QED
    BY <1>1, <2>1, ChanGoesWait
<1>3. CASE ~(TimedReader(c) /\ PoolFull)
  <2>1. PICK how \in Hows : Suspend(c, "asleep", how) /\ (TimedReader(c) => how = "timed")
    BY <1>3 DEF ReaderLocks, Hows
  <2>2. "asleep" \in Places /\ (TimedAt(c, "asleep") => TimedReader(c))
    BY DEF Places, ChanPlaces, TimedAt, TimedNet
  <2>3. WaitStops
    BY <2>1, <2>2 DEF WaitStops
  <2> QED
    BY <1>1, <2>3 DEF WaitEffect
<1> QED
  BY <1>2, <1>3

LEMMA WrapFuncType ==
    ASSUME TypeInv, NEW c \in Co, WrapFunc(c)
    PROVE  WaitEffect /\ ChanType'
<1>1. wait[c] \in Nat /\ pc \in [Co -> Places]
  BY DEF TypeInv, WaitType
<1>2. [co |-> c, n |-> wait[c]] \in [co : Co, n : Nat]
  BY <1>1
<1>3. ChanType'
  BY <1>2 DEF WrapFunc, TypeInv, ChanType
<1>4. CASE notified
  <2>1. Resume(c, wait[c], 0) /\ pc' = pc /\ 0 \in Int
    BY <1>4 DEF WrapFunc
  <2>2. WaitEnds
    BY <1>1, <2>1 DEF WaitEnds
  <2> QED
    BY <1>3, <2>2 DEF WaitEffect
<1>5. CASE ~notified
  BY <1>3, <1>5 DEF WrapFunc, WaitEffect, WaitIdles
<1> QED
  BY <1>4, <1>5

LEMMA CallResumeType ==
    ASSUME TypeInv, NEW c \in Co, CallResume(c)
    PROVE  WaitEffect /\ ChanType'
<1>1. pc' = [pc EXCEPT ![c] = "ended"] /\ pc \in [Co -> Places] /\ "ended" \in Places
  BY DEF CallResume, TypeInv, WaitType, Places, NetPlaces
<1>2. ~TimedAt(c, "ended")
  BY DEF TimedAt, TimedNet
<1>3. ChanType'
  BY DEF CallResume, TypeInv, ChanType
<1>4. CASE resumeF # NoFrame
  <2>1. Resume(resumeF.co, resumeF.n, 0) /\ resumeF.co \in Co /\ resumeF.n \in Nat /\ 0 \in Int
    BY <1>4 DEF CallResume, TypeInv, ChanType
  <2>2. WaitEnds
    BY <1>1, <1>2, <2>1 DEF WaitEnds
  <2> QED
    BY <1>3, <2>2 DEF WaitEffect
<1>5. CASE resumeF = NoFrame
  <2>1. GoTo(c, "ended")
    BY <1>5 DEF CallResume, GoTo
  <2>2. ChanGoes(c)
    BY <2>1 DEF ChanGoes, ChanPlaces
  <2> QED
    BY <1>3, <2>2, ChanGoesWait
<1> QED
  BY <1>4, <1>5

LEMMA ChanWaits == ASSUME TypeInv, ChanNext PROVE WaitEffect /\ ChanType'
<1>1. ASSUME NEW t \in tasks, ReaderRuns(t) \/ WriterStarts(t)
      PROVE  WaitEffect /\ ChanType'
  BY <1>1, ReaderRunsType, WriterStartsType
<1>2. ASSUME NEW c \in Co,
             \/ Pop(c) \/ AskNotify(c) \/ Poll(c) \/ Found(c) \/ GiveUp(c) \/ Park(c) \/ Unpark(c)
             \/ Push(c) \/ TestMode(c) \/ Notify(c) \/ NotifyThread(c) \/ WriterLocks(c)
      PROVE  WaitEffect /\ ChanType'
  BY <1>2, GoingType, ChanGoesWait
<1>3. ASSUME NEW c \in Co, ReaderLocks(c) \/ WrapFunc(c) \/ CallResume(c)
      PROVE  WaitEffect /\ ChanType'
  BY <1>3, ReaderLocksType, WrapFuncType, CallResumeType
<1> QED
  BY <1>1, <1>2, <1>3 DEF ChanNext

LEMMA NextType == ASSUME TypeInv, Next PROVE TypeInv' /\ WaitEffect
<1>1. CASE NetStep
  <2>1. WaitEffect /\ OpsType' /\ IndexType' /\ chanVars' = chanVars
    BY <1>1, NetStepEffect, NetWaits
  <2>2. WaitType'
    BY <2>1, EffectType DEF TypeInv
  <2> QED
    BY <2>1, <2>2 DEF TypeInv, NetType, IndexType, ChanType, OpsType, chanVars
<1>2. CASE ChanStep
  <2>1. WaitEffect /\ ChanType'
    BY <1>2, ChanWaits DEF ChanStep
  <2>2. WaitType'
    BY <2>1, EffectType DEF TypeInv
  <2> QED
    BY <1>2, <2>1, <2>2 DEF TypeInv, NetType, IndexType, ChanStep, netVars
<1>3. CASE TaskLeft \/ ArmTimer \/ TurnWheel
  <2>1. WaitEffect /\ netVars' = netVars /\ chanVars' = chanVars
    BY <1>3 DEF TaskLeft, ArmTimer, TurnWheel, WaitEffect
  <2>2. WaitType'
    BY <2>1, EffectType DEF TypeInv
  <2> QED
    BY <2>1, <2>2 DEF TypeInv, NetType, IndexType, ChanType, netVars, chanVars
<1> QED
  BY <1>1, <1>2, <1>3 DEF Next

LEMMA StutterType == ASSUME TypeInv, UNCHANGED vars PROVE TypeInv'
BY DEF vars, waitVars, netVars, chanVars, TypeInv, WaitType, NetType, IndexType, ChanType

LEMMA InitType == Init => TypeInv
<1> SUFFICES ASSUME Init PROVE TypeInv
  OBVIOUS
<1> DEFINE started == {c \in Co : Kind(c) \notin {"conn", "none"}}
<1>1. started \subseteq Co
  OBVIOUS
<1>2. WaitInit(started) /\ prog \in Setups
  BY DEF Init
<1> HIDE DEF started
<1>3. WaitType
  <2>1. tasks \subseteq Task /\ dropped \subseteq Task
    BY <1>1, <1>2, NewTaskType DEF WaitInit
  <2>2. pc \in [Co -> Places] /\ suspended \subseteq Co /\ wait \in [Co -> Nat] /\ result \in [Co -> Int]
    BY <1>2 DEF WaitInit, Places
  <2>3. slot \in 0 .. Slots - 1 /\ timers \subseteq Timer /\ undefined \in BOOLEAN
    <3>1. 0 \in 0 .. Slots - 1
      BY Constants
    <3> QED
      BY <1>2, <3>1 DEF WaitInit
  <2> QED
    BY <1>2, <2>1, <2>2, <2>3 DEF WaitType
<1>4. NetType
  BY DEF Init, NetInit, NetType, IndexType
<1>5. ChanType
  <2>1. ChanInit /\ <<>> \in Seq(Co)
    BY DEF Init
  <2> QED
    BY <2>1 DEF ChanInit, ChanType
<1> QED
  BY <1>3, <1>4, <1>5 DEF TypeInv

(* The state of the waits, the network and the channel keeps its type: tasks, timers and
   operations are of coroutines and their waits, for any programs and any wheel. *)
THEOREM TypeCorrect == Spec => []TypeInv
<1>1. TypeInv /\ [Next]_vars => TypeInv'
  BY NextType, StutterType
<1> QED
  BY <1>1, InitType, PTL DEF Spec

-----------------------------------------------------------------------------
(* A timed wait is resumed in time *)

Due(c) ==
    \/ \E t \in tasks : Of(t, c, wait[c])
    \/ \E x \in timers : Of(x, c, wait[c]) /\ ~x.canceled /\ WillFire(x)
    \/ TimeoutTask(c, wait[c]) \in dropped
AllDue == \A c \in suspended : TimedAt(c, pc[c]) => Due(c)
\* A timer's age counts from when it is put on the wheel.
AgeInv == \A x \in timers : x.slot = Unarmed => x.age = 0
DueInv == ~undefined => AllDue /\ AgeInv

LEMMA SameProg == ASSUME WaitEffect PROVE prog' = prog
BY DEF WaitEffect, WaitRuns, WaitGoes, WaitStops, WaitEnds, WaitDies, WaitIdles, waitVars,
       Execute, GoTo, Suspend, Resume, UseDeadFrame, Leftover, Arm, Tick, Fire, Release

\* A wait whose timers and tasks a step leaves alone stays due.
LEMMA StaysDue ==
    ASSUME NEW d, Due(d), wait'[d] = wait[d], slot' = slot, dropped \subseteq dropped',
           \A t \in tasks : t.co = d => t \in tasks',
           \A x \in timers : x.co = d => x \in timers'
    PROVE  Due(d)'
BY DEF Due, Of, WillFire, OnTime

LEMMA TimerIsDue ==
    ASSUME NEW d \in Co, WaitType, NewTimer(d) \in timers', wait'[d] = wait[d] + 1
    PROVE  Due(d)'
<1>1. /\ NewTimer(d).co = d /\ NewTimer(d).n = wait[d] + 1 /\ NewTimer(d).slot = Unarmed
      /\ NewTimer(d).canceled = FALSE
  BY NewTimerType
<1>2. PICK x \in timers' : x.co = d /\ x.n = wait'[d] /\ x.slot = Unarmed /\ x.canceled = FALSE
  BY <1>1
<1> QED
  BY <1>2 DEF Due, Of, WillFire

LEMMA RunsDue ==
    ASSUME TypeInv, AllDue, AgeInv, prog' = prog,
           NEW t \in tasks, NEW at \in Places, NEW how \in Hows, NEW news \in SUBSET Co,
           Execute(t, at, how, news), TimedAt(t.co, at) => how = "timed"
    PROVE  AllDue' /\ AgeInv'
<1>0. t \in Task /\ t.co \in Co /\ WaitType
  BY DEF TypeInv, WaitType, Task
<1>1. timers' = Canceled(t) \cup (IF how = "timed" THEN {NewTimer(t.co)} ELSE {})
  BY DEF Execute
<1>2. AgeInv'
  <2>1. SUFFICES ASSUME NEW y \in timers', y.slot = Unarmed
                 PROVE  y.age = 0
    BY DEF AgeInv, Unarmed
  <2>2. CASE y \in Canceled(t)
    <3>1. PICK x \in timers : x.slot = y.slot /\ x.age = y.age
      BY <1>0, <2>2, CanceledType
    <3> QED
      BY <2>1, <3>1 DEF AgeInv
  <2>3. CASE y \notin Canceled(t)
    <3>1. y = NewTimer(t.co)
      BY <1>1, <2>1, <2>3
    <3> QED
      BY <1>0, <3>1, NewTimerType
  <2> QED
    BY <2>2, <2>3
<1>3. AllDue'
  <2>1. SUFFICES ASSUME NEW d \in suspended', TimedAt(d, pc'[d])
                 PROVE  Due(d)'
    BY DEF AllDue, TimedAt, TimedReader
  <2>2. d \in Co
    BY <1>0 DEF Execute, TypeInv, WaitType
  <2>3. CASE d # t.co
    <3>1. /\ d \in suspended /\ TimedAt(d, pc[d]) /\ wait'[d] = wait[d] /\ slot' = slot
          /\ dropped' = dropped
      BY <2>1, <2>2, <2>3 DEF Execute, TypeInv, WaitType, TimedAt, TimedNet
    <3>2. Due(d)
      BY <3>1 DEF AllDue
    <3>3. \A u \in tasks : u.co = d => u \in tasks'
      BY <2>3 DEF Execute
    <3>4. \A x \in timers : x.co = d => x \in timers'
      BY <1>0, <1>1, <2>3, CanceledType
    <3> QED
      BY <3>1, <3>2, <3>3, <3>4, StaysDue
  <2>4. CASE d = t.co
    <3>1. pc'[d] = at
      BY <1>0, <2>4 DEF Execute
    <3>2. how = "timed"
      BY <2>1, <2>4, <3>1
    <3>3. NewTimer(d) \in timers' /\ wait'[d] = wait[d] + 1
      BY <1>0, <1>1, <2>4, <3>2 DEF Execute, WaitType
    <3> QED
      BY <1>0, <2>2, <3>3, TimerIsDue
  <2> QED
    BY <2>3, <2>4
<1> QED
  BY <1>2, <1>3

LEMMA GoesDue ==
    ASSUME TypeInv, AllDue, AgeInv, NEW c \in Co, NEW at \in Places,
           GoTo(c, at), ~TimedAt(c, at)
    PROVE  AllDue' /\ AgeInv'
<1>1. /\ timers' = timers /\ tasks' = tasks /\ wait' = wait /\ slot' = slot
      /\ dropped' = dropped
      /\ suspended' = suspended /\ prog' = prog /\ pc' = [pc EXCEPT ![c] = at]
  BY DEF GoTo
<1>2. AgeInv'
  BY <1>1 DEF AgeInv
<1>3. ASSUME NEW d \in suspended, TimedAt(d, pc'[d])
      PROVE  Due(d)'
  <2>1. TimedAt(d, pc[d])
    BY <1>1, <1>3 DEF TypeInv, WaitType
  <2> QED
    BY <1>1, <2>1, StaysDue DEF AllDue
<1> QED
  BY <1>1, <1>2, <1>3 DEF AllDue, TimedAt, TimedReader

LEMMA StopsDue ==
    ASSUME TypeInv, AllDue, AgeInv, NEW c \in Co, NEW at \in Places, NEW how \in Hows,
           Suspend(c, at, how), TimedAt(c, at) => how = "timed"
    PROVE  AllDue' /\ AgeInv'
<1>0. WaitType
  BY DEF TypeInv
<1>1. /\ timers' = timers \cup (IF how = "timed" THEN {NewTimer(c)} ELSE {})
      /\ tasks' = tasks /\ slot' = slot /\ wait' = [wait EXCEPT ![c] = @ + 1]
      /\ dropped' = dropped
      /\ suspended' = suspended \cup {c} /\ prog' = prog /\ pc' = [pc EXCEPT ![c] = at]
  BY DEF Suspend
<1>2. AgeInv'
  BY <1>0, <1>1, NewTimerType DEF AgeInv
<1>3. ASSUME NEW d \in suspended', TimedAt(d, pc'[d])
      PROVE  Due(d)'
  <2>1. CASE d # c
    <3>1. d \in suspended /\ TimedAt(d, pc[d]) /\ wait'[d] = wait[d]
      BY <1>1, <1>3, <2>1 DEF TypeInv, WaitType
    <3> QED
      BY <1>1, <3>1, StaysDue DEF AllDue
  <2>2. CASE d = c
    <3>1. how = "timed" /\ wait'[d] = wait[d] + 1
      BY <1>0, <1>1, <1>3, <2>2 DEF WaitType
    <3>2. NewTimer(d) \in timers'
      BY <1>1, <2>2, <3>1
    <3> QED
      BY <1>0, <2>2, <3>1, <3>2, TimerIsDue
  <2> QED
    BY <2>1, <2>2
<1> QED
  BY <1>1, <1>2, <1>3 DEF AllDue, TimedAt, TimedReader

LEMMA EndsDue ==
    ASSUME TypeInv, AllDue, AgeInv, NEW c \in Co, NEW n \in Nat, NEW r \in Int,
           Resume(c, n, r), pc' \in [Co -> Places],
           \A d \in Co : pc'[d] = pc[d] \/ ~TimedAt(d, pc'[d])
    PROVE  DueInv'
<1>1. CASE Frame(c, n)
  <2>1. /\ timers' = timers /\ tasks \subseteq tasks' /\ slot' = slot /\ wait' = wait
        /\ dropped \subseteq dropped' /\ suspended' = suspended /\ prog' = prog
    BY <1>1 DEF Resume, Queue
  <2>2. ASSUME NEW d \in suspended, TimedAt(d, pc'[d])
        PROVE  Due(d)'
    <3>1. d \in Co /\ TimedAt(d, pc[d])
      BY <2>2 DEF TypeInv, WaitType
    <3> QED
      BY <2>1, <3>1, StaysDue DEF AllDue
  <2> QED
    BY <2>1, <2>2 DEF DueInv, AllDue, AgeInv, TimedAt, TimedReader
<1>2. CASE ~Frame(c, n)
  BY <1>2 DEF Resume, UseDeadFrame, DueInv
<1> QED
  BY <1>1, <1>2

LEMMA LeftoverDue ==
    ASSUME TypeInv, AllDue, AgeInv, NEW t \in tasks, Leftover(t)
    PROVE  DueInv'
<1>1. CASE t.co \in suspended
  BY <1>1 DEF Leftover, UseDeadFrame, DueInv
<1>2. CASE t.co \notin suspended
  <2>1. /\ timers' = timers /\ tasks' = tasks \ {t} /\ slot' = slot /\ wait' = wait
        /\ dropped' = dropped /\ suspended' = suspended /\ prog' = prog /\ pc' = pc
    BY <1>2 DEF Leftover
  <2>2. ASSUME NEW d \in suspended, TimedAt(d, pc[d])
        PROVE  Due(d)'
    <3>1. \A u \in tasks : u.co = d => u \in tasks'
      BY <1>2, <2>1
    <3> QED
      BY <2>1, <2>2, <3>1, StaysDue DEF AllDue
  <2> QED
    BY <2>1, <2>2 DEF DueInv, AllDue, AgeInv, TimedAt, TimedReader
<1> QED
  BY <1>1, <1>2

LEMMA ArmDue ==
    ASSUME TypeInv, AllDue, AgeInv, NEW x \in timers, Arm(x)
    PROVE  DueInv'
<1>1. CASE ~Frame(x.co, x.n)
  BY <1>1 DEF Arm, UseDeadFrame, DueInv
<1>2. CASE Frame(x.co, x.n)
  <2>0. x \in Timer /\ x.slot = Unarmed /\ x.age = 0 /\ slot \in 0 .. Slots - 1
    BY DEF Arm, AgeInv, TypeInv, WaitType
  <2>1. PICK y : y = [x EXCEPT !.slot = SlotFor(Interval)]
    OBVIOUS
  <2>2. /\ y.co = x.co /\ y.n = x.n /\ y.canceled = x.canceled /\ y.age = 0
        /\ y.slot = SlotFor(Interval)
    BY <2>0, <2>1 DEF Timer
  <2>3. y.slot \in 0 .. Slots - 1 /\ y.slot # Unarmed /\ Ahead(y.slot, slot) = Interval
    BY <2>0, <2>2, SlotForAhead, Constants DEF Unarmed
  <2>4. ((y.slot - slot) % Slots) + y.age = Interval
    BY <2>2, <2>3, Constants DEF Ahead
  <2>5. /\ timers' = (timers \ {x}) \cup {y} /\ tasks' = tasks /\ slot' = slot /\ wait' = wait
        /\ dropped' = dropped /\ suspended' = suspended /\ prog' = prog /\ pc' = pc
    BY <1>2, <2>1 DEF Arm
  <2>6. AgeInv'
    BY <2>3, <2>5 DEF AgeInv
  <2>7. ASSUME NEW d \in suspended, TimedAt(d, pc[d])
        PROVE  Due(d)'
    <3>0. Due(d)
      BY <2>7 DEF AllDue
    <3>1. CASE \E t \in tasks : Of(t, d, wait[d])
      BY <2>5, <3>1 DEF Due
    <3>3. CASE TimeoutTask(d, wait[d]) \in dropped
      BY <2>5, <3>3 DEF Due
    <3>2. CASE \E z \in timers : Of(z, d, wait[d]) /\ ~z.canceled /\ WillFire(z)
      <4>1. PICK z \in timers : Of(z, d, wait[d]) /\ ~z.canceled /\ WillFire(z)
        BY <3>2
      <4>2. CASE z = x
        <5>1. y \in timers' /\ Of(y, d, wait'[d]) /\ ~y.canceled
          BY <2>2, <2>5, <4>1, <4>2 DEF Of
        <5>2. ((y.slot - slot') % Slots) + y.age = Interval
          BY <2>4, <2>5
        <5> QED
          BY <2>3, <5>1, <5>2 DEF Due, WillFire, OnTime
      <4>3. CASE z # x
        BY <2>5, <4>1, <4>3 DEF Due, Of, WillFire, OnTime
      <4> QED
        BY <4>2, <4>3
    <3> QED
      BY <3>0, <3>1, <3>2, <3>3 DEF Due
  <2> QED
    BY <2>5, <2>6, <2>7 DEF DueInv, AllDue, TimedAt, TimedReader
<1> QED
  BY <1>1, <1>2

\* A wait stays due when the timers that will fire, and what was queued or lost, remain.
LEMMA AllStayDue ==
    ASSUME AllDue, tasks \subseteq tasks', dropped \subseteq dropped', wait' = wait,
           suspended' = suspended, prog' = prog, pc' = pc,
           \A z \in timers : ~z.canceled /\ WillFire(z) =>
              \/ TimeoutTask(z.co, z.n) \in tasks' \cup dropped'
              \/ \E y \in timers' : y.co = z.co /\ y.n = z.n /\ ~y.canceled /\ WillFire(y)'
    PROVE  AllDue'
<1>1. ASSUME NEW d \in suspended, TimedAt(d, pc[d])
      PROVE  Due(d)'
  <2>1. Due(d)
    BY <1>1 DEF AllDue
  <2>2. CASE \E t \in tasks : Of(t, d, wait[d])
    BY <2>2 DEF Due
  <2>3. CASE TimeoutTask(d, wait[d]) \in dropped
    BY <2>3 DEF Due
  <2>4. CASE \E z \in timers : Of(z, d, wait[d]) /\ ~z.canceled /\ WillFire(z)
    <3>1. PICK z \in timers : z.co = d /\ z.n = wait[d] /\ ~z.canceled /\ WillFire(z)
      BY <2>4 DEF Of
    <3>2. CASE \E y \in timers' : y.co = z.co /\ y.n = z.n /\ ~y.canceled /\ WillFire(y)'
      BY <3>1, <3>2 DEF Due, Of
    <3>3. CASE TimeoutTask(z.co, z.n) \in tasks' \cup dropped'
      <4>1. Of(TimeoutTask(d, wait[d]), d, wait'[d])
        BY DEF TimeoutTask, Of
      <4> QED
        BY <3>1, <3>3, <4>1 DEF Due
    <3> QED
      BY <3>1, <3>2, <3>3
  <2> QED
    BY <2>1, <2>2, <2>3, <2>4 DEF Due
<1> QED
  BY <1>1 DEF AllDue, TimedAt, TimedReader

LEMMA TickDue ==
    ASSUME TypeInv, AllDue, AgeInv, Tick
    PROVE  DueInv'
<1>0. slot \in 0 .. Slots - 1 /\ timers \subseteq Timer
  BY DEF TypeInv, WaitType
<1>1. /\ slot' = (slot + 1) % Slots
      /\ timers' = {Turned(x) : x \in timers}
      /\ tasks' = tasks /\ dropped' = dropped
      /\ wait' = wait /\ suspended' = suspended /\ prog' = prog /\ pc' = pc
  BY DEF Tick
<1>2. ASSUME NEW x \in timers
      PROVE  /\ Turned(x).co = x.co /\ Turned(x).n = x.n /\ Turned(x).canceled = x.canceled
             /\ Turned(x).slot = IF x.slot = slot THEN Taken ELSE x.slot
             /\ Turned(x).age = IF x.slot \in {slot, Unarmed} THEN x.age ELSE x.age + 1
  <2>1. slot # Unarmed
    BY <1>0, Constants DEF Unarmed
  <2> QED
    BY <1>0, <2>1 DEF Turned, Timer
<1>3. Taken # Unarmed /\ Taken \notin 0 .. Slots - 1 /\ Unarmed \notin 0 .. Slots - 1
  BY Constants DEF Taken, Unarmed
<1>4. AgeInv'
  BY <1>0, <1>1, <1>2, <1>3 DEF AgeInv
<1>5. ASSUME NEW z \in timers, ~z.canceled, WillFire(z)
      PROVE  \E y \in timers' : y.co = z.co /\ y.n = z.n /\ ~y.canceled /\ WillFire(y)'
  <2>1. PICK y \in timers' : y = Turned(z)
    BY <1>1
  <2>2. y.co = z.co /\ y.n = z.n /\ ~y.canceled
    BY <1>2, <1>5, <2>1
  <2>3. z.slot \notin {Taken, Called} /\ z.age \in Nat
    BY <1>0 DEF Tick, Timer
  <2>4. CASE z.slot = Unarmed
    <3>1. y.slot = Unarmed
      BY <1>0, <1>2, <1>3, <2>1, <2>4
    <3>2. WillFire(y)'
      BY <3>1 DEF WillFire, Unarmed
    <3> QED
      BY <2>2, <3>2
  <2>5. CASE z.slot = slot
    <3>1. z.slot \in 0 .. Slots - 1 /\ OnTime(z)
      BY <1>0, <1>3, <1>5, <2>3, <2>5 DEF WillFire
    <3>2. Ahead(slot, slot) = 0
      BY <1>0, AheadValue
    <3>3. z.age = Interval
      BY <2>3, <2>5, <3>1, <3>2, Constants DEF OnTime, Ahead
    <3>4. y.slot = Taken /\ y.age = Interval
      BY <1>2, <2>1, <2>5, <3>3
    <3>5. WillFire(y)'
      BY <3>4 DEF WillFire, Taken
    <3> QED
      BY <2>2, <3>5
  <2>6. CASE z.slot \notin {slot, Unarmed}
    <3>1. z.slot \in 0 .. Slots - 1 /\ OnTime(z)
      BY <1>5, <2>3, <2>6 DEF WillFire
    <3>2. Ahead(z.slot, slot') = Ahead(z.slot, slot) - 1
      BY <1>0, <1>1, <2>6, <3>1, TickAhead
    <3>3. Ahead(z.slot, slot) + z.age = Interval
      BY <3>1 DEF OnTime, Ahead
    <3>4. y.age = z.age + 1 /\ y.slot = z.slot
      BY <1>2, <2>1, <2>6
    <3>5. Ahead(z.slot, slot) \in Int
      BY <1>0, <3>1, Constants, ModRange DEF Ahead
    <3>6. Ahead(z.slot, slot') + y.age = Interval
      BY <2>3, <3>2, <3>3, <3>4, <3>5, Constants
    <3>7. ((y.slot - slot') % Slots) + y.age = Interval
      BY <3>4, <3>6 DEF Ahead
    <3>8. WillFire(y)'
      BY <3>1, <3>4, <3>7 DEF WillFire, OnTime
    <3> QED
      BY <2>2, <3>8
  <2> QED
    BY <2>4, <2>5, <2>6
<1>6. AllDue'
  BY <1>1, <1>5, AllStayDue
<1> QED
  BY <1>4, <1>6 DEF DueInv

LEMMA FireDue ==
    ASSUME TypeInv, AllDue, AgeInv, NEW x, Fire(x)
    PROVE  DueInv'
<1>0. x \in timers /\ x \in Timer /\ x.slot = Taken
  BY DEF Fire, TypeInv, WaitType
<1>1. PICK y : y = [x EXCEPT !.slot = Called]
  OBVIOUS
<1>2. y.slot = Called /\ Called # Unarmed
  BY <1>0, <1>1, Constants DEF Timer, Called, Unarmed
<1>3. /\ timers' = (timers \ {x}) \cup {y} /\ slot' = slot
      /\ wait' = wait /\ suspended' = suspended /\ prog' = prog /\ pc' = pc
      /\ ~x.canceled => Queue(TimeoutTask(x.co, x.n))
      /\ x.canceled => tasks' = tasks /\ dropped' = dropped
  BY <1>1 DEF Fire
<1>4. /\ tasks \subseteq tasks' /\ dropped \subseteq dropped'
      /\ ~x.canceled => TimeoutTask(x.co, x.n) \in tasks' \cup dropped'
  BY <1>3 DEF Queue
<1>5. AgeInv'
  BY <1>2, <1>3 DEF AgeInv
<1>6. ASSUME NEW z \in timers, ~z.canceled, WillFire(z)
      PROVE  \/ TimeoutTask(z.co, z.n) \in tasks' \cup dropped'
             \/ \E w \in timers' : w.co = z.co /\ w.n = z.n /\ ~w.canceled /\ WillFire(w)'
  <2>1. CASE z = x
    BY <1>4, <1>6, <2>1
  <2>2. CASE z # x
    <3>1. z \in timers' /\ WillFire(z)'
      BY <1>3, <1>6, <2>2 DEF WillFire, OnTime
    <3> QED
      BY <1>6, <3>1
  <2> QED
    BY <2>1, <2>2
<1>7. AllDue'
  BY <1>3, <1>4, <1>6, AllStayDue
<1> QED
  BY <1>5, <1>7 DEF DueInv

LEMMA ReleaseDue ==
    ASSUME TypeInv, AllDue, AgeInv, NEW x, Release(x)
    PROVE  DueInv'
<1>1. CASE ~Frame(x.co, x.n)
  BY <1>1 DEF Release, UseDeadFrame, DueInv
<1>2. CASE Frame(x.co, x.n)
  <2>1. /\ timers' = timers \ {x} /\ slot' = slot /\ tasks' = tasks /\ dropped' = dropped
        /\ wait' = wait /\ suspended' = suspended /\ prog' = prog /\ pc' = pc
    BY <1>2 DEF Release
  <2>2. x.slot = Called /\ Called # Unarmed /\ Called # Taken /\ Called \notin 0 .. Slots - 1
    BY Constants DEF Release, Called, Unarmed, Taken
  <2>3. \A z \in timers : WillFire(z) => z \in timers' /\ WillFire(z)'
    BY <2>1, <2>2 DEF WillFire, OnTime
  <2>4. AllDue'
    BY <2>1, <2>3, AllStayDue
  <2> QED
    BY <2>1, <2>4 DEF DueInv, AgeInv
<1> QED
  BY <1>1, <1>2

LEMMA EffectDue == ASSUME TypeInv, DueInv, ~undefined, WaitEffect PROVE DueInv'
<1>0. AllDue /\ AgeInv /\ prog' = prog
  BY SameProg DEF DueInv
<1>1. CASE WaitRuns
  BY <1>0, <1>1, RunsDue DEF WaitRuns, DueInv
<1>2. CASE WaitGoes
  BY <1>0, <1>2, GoesDue DEF WaitGoes, DueInv
<1>3. CASE WaitStops
  BY <1>0, <1>3, StopsDue DEF WaitStops, DueInv
<1>4. CASE WaitEnds
  BY <1>0, <1>4, EndsDue DEF WaitEnds
<1>5. CASE WaitDies
  BY <1>5 DEF WaitDies, UseDeadFrame, DueInv
<1>6. CASE WaitIdles
  BY <1>0, <1>6
  DEF WaitIdles, waitVars, DueInv, AllDue, AgeInv, Due, WillFire, OnTime, TimedAt, TimedReader
<1>7. CASE \E t \in tasks : Leftover(t)
  BY <1>0, <1>7, LeftoverDue
<1>8. CASE \E x \in timers : Arm(x)
  BY <1>0, <1>8, ArmDue
<1>9. CASE Tick
  BY <1>0, <1>9, TickDue
<1>10. CASE \E x \in timers : Fire(x) \/ Release(x)
  BY <1>0, <1>10, FireDue, ReleaseDue
<1> QED
  BY <1>1, <1>2, <1>3, <1>4, <1>5, <1>6, <1>7, <1>8, <1>9, <1>10 DEF WaitEffect

LEMMA StutterDue == ASSUME DueInv, UNCHANGED vars PROVE DueInv'
BY DEF vars, waitVars, DueInv, AllDue, AgeInv, Due, WillFire, OnTime, TimedAt, TimedReader

LEMMA InitDue == Init => DueInv
BY DEF Init, WaitInit, DueInv, AllDue, AgeInv

LEMMA DueIsTheProperty == DueInv => TimeoutIsDue
BY DEF DueInv, AllDue, Due, TimeoutIsDue, ResumeIsDue, InTimedWait, TimedAt

(* A coroutine that waits with a timeout is sure to be resumed: a task is queued for it, or
   its timer, which is not canceled, is to be armed, or is on the wheel, where it fires
   exactly Interval ticks after it was added, or is about to be called; only the loss of the
   timeout's own task to a full queue ends that (co_yield_impl, time_wheel_t). *)
THEOREM TimeoutIsDueHolds == Spec => []TimeoutIsDue
<1>1. Init => TypeInv /\ DueInv
  BY InitType, InitDue
<1>2. TypeInv /\ DueInv /\ [Next]_vars => (TypeInv /\ DueInv)'
  <2>1. CASE Next
    BY <2>1, NextType, EffectDue DEF Next
  <2>2. CASE UNCHANGED vars
    BY <2>2, StutterType, StutterDue
  <2> QED
    BY <2>1, <2>2
<1> QED
  BY <1>1, <1>2, DueIsTheProperty, PTL DEF Spec

-----------------------------------------------------------------------------
(* The reader of a channel misses no message *)

ChanCo == Readers \cup Writers
RunPlaces == {"pop", "missed", "poll", "found", "lock", "parked", "expired", "ended"}
ReaderPlaces == {"none", "new", "asleep"} \cup RunPlaces
WriterPlaces == {"none", "new", "push", "mode", "notify", "wlock", "call", "ended"}

\* Where the coroutines of a channel are, and when they are suspended.
PlaceInv ==
    /\ \A c \in Readers : /\ pc[c] \in ReaderPlaces
                          /\ c \in suspended <=> pc[c] = "asleep"
                          /\ pc[c] = "asleep" => ~ThreadReads
                          /\ pc[c] \in {"poll", "lock", "asleep", "parked"} => mode
    /\ \A c \in Writers : pc[c] \in WriterPlaces /\ c \notin suspended
    /\ \A c \in Co : pc[c] = "parked" => c \in Readers

\* What may resume them is of a wait that began, and never an operation.
PastInv ==
    /\ \A t \in tasks : t.co \in ChanCo => /\ t.n <= wait[t.co]
                                           /\ t.why = "new" => t = NewTask(t.co) /\ pc[t.co] = "new"
    /\ \A x \in timers : x.co \in ChanCo => x.n <= wait[x.co]
    /\ \A o \in ops : o.co \notin ChanCo
    /\ resumeF # NoFrame => resumeF.co \in Readers /\ resumeF.n <= wait[resumeF.co]

\* Nothing resumes a reader whose wrap_func has not run.
StartInv ==
    \A c \in starting :
        /\ c \in Readers /\ c \in suspended
        /\ \A t \in tasks : ~Of(t, c, wait[c])
        /\ \A x \in timers : Of(x, c, wait[c]) => x.slot = Unarmed
        /\ resumeF # NoFrame => ~Of(resumeF, c, wait[c])

\* Its resumption is queued, or was lost to a full queue.
Resumed(c) == \E t \in tasks \cup dropped : Of(t, c, wait[c])
Waking(places) == \E w \in Writers : pc[w] \in places

\* A writer finds the reader that sleeps, and has been told of it or is on its way.
WakeInv ==
    \A c \in Readers :
        /\ c \in suspended \ starting =>
              /\ Resumed(c) \/ resumeF = [co |-> c, n |-> wait[c]]
              /\ Resumed(c) \/ queue = <<>> \/ Waking({"mode", "notify", "wlock", "call"})
        /\ c \in starting \/ pc[c] \in {"lock", "parked"} =>
              queue = <<>> \/ notified \/ Waking({"mode", "notify"})

MissInv == ~undefined => PlaceInv /\ PastInv /\ StartInv /\ WakeInv

LEMMA SameKinds == ASSUME prog' = prog
                   PROVE  /\ Readers' = Readers /\ Writers' = Writers /\ ChanCo' = ChanCo
                          /\ ThreadReads' = ThreadReads
BY DEF Readers, Writers, ChanCo, ThreadReads

LEMMA KindsApart ==
    /\ Readers \subseteq Co /\ Writers \subseteq Co
    /\ \A c : ~(c \in Readers /\ c \in Writers)
    /\ \A c \in Conns : c \notin ChanCo
    /\ \A c : Kind(c) \in NetKinds => c \notin ChanCo
<1>1. \A c \in Readers : prog[c].kind \in ReaderKinds
  BY DEF Readers
<1>2. \A c \in Writers : prog[c].kind \in {"writer", "thread writer"}
  BY DEF Writers
<1> QED
  BY <1>1, <1>2 DEF Readers, Writers, ChanCo, ReaderKinds, Conns, Kind, NetKinds

LEMMA OneReader == ASSUME TypeInv, NEW c \in Readers, NEW d \in Readers PROVE c = d
<1>1. prog \in Setups /\ c \in Co /\ d \in Co
  BY DEF TypeInv, WaitType, Readers
<1>2. {prog[c].kind, prog[d].kind} \subseteq ReaderKinds
  BY DEF Readers
<1> QED
  BY <1>1, <1>2, ProgramAssumption

-----------------------------------------------------------------------------
(* Steps of other coroutines *)

\* A step that leaves c where it is: it ends no task of c's wait, and a task or timer
\* it adds is of a wait that began, and is not of one that is starting.
Calm(c) ==
    /\ pc'[c] = pc[c] /\ wait'[c] = wait[c] /\ (c \in suspended' <=> c \in suspended)
    /\ \A t \in tasks : t.co = c /\ c \in suspended => t \in tasks'
    /\ dropped \subseteq dropped'
    /\ \A t \in tasks' : t.co = c =>
          \/ t \in tasks
          \/ t.why # "new" /\ t.n <= wait[c] /\ (c \in starting => t.n # wait[c])
    /\ \A y \in timers' : y.co = c =>
          \/ y.n <= wait[c] /\ (c \in starting => y.n # wait[c])
          \/ \E x \in timers : x.co = c /\ x.n = y.n /\ x.slot = y.slot

\* A writer goes on.
Moves(c) ==
    /\ pc'[c] \in WriterPlaces /\ c \notin suspended' /\ wait'[c] = wait[c]
    /\ \A t \in tasks' : t.co = c => t \in tasks /\ t.why # "new"
    /\ \A y \in timers' : y.co = c => \E x \in timers : x.co = c /\ x.n = y.n

LEMMA CalmAtGoTo ==
    ASSUME TypeInv, NEW c \in Co, NEW at \in Places, GoTo(c, at), NEW d \in Co, d # c
    PROVE  Calm(d)
BY DEF GoTo, Calm, TypeInv, WaitType

LEMMA CalmAtSuspend ==
    ASSUME TypeInv, NEW c \in Co, NEW at, NEW how, Suspend(c, at, how), NEW d \in Co, d # c
    PROVE  Calm(d)
<1>1. WaitType /\ NewTimer(c).co = c
  BY DEF TypeInv, NewTimer
<1>2. \A y \in timers' : y.co = d => y \in timers
  BY <1>1 DEF Suspend
<1> QED
  BY <1>1, <1>2 DEF Suspend, Calm, WaitType

LEMMA CalmAtExecute ==
    ASSUME TypeInv, NEW t \in tasks, NEW at, NEW how, NEW news \in SUBSET Co, Execute(t, at, how, news),
           NEW d \in Co, d # t.co, d \notin news
    PROVE  Calm(d)
<1>0. t \in Task /\ t.co \in Co /\ WaitType
  BY DEF TypeInv, WaitType, Task
<1>1. /\ tasks' = (tasks \ {t}) \cup {NewTask(c) : c \in news}
      /\ timers' = Canceled(t) \cup (IF how = "timed" THEN {NewTimer(t.co)} ELSE {})
      /\ pc' = [c \in Co |-> IF c = t.co THEN at ELSE IF c \in news THEN "new" ELSE pc[c]]
      /\ suspended' = IF how = "run" THEN suspended \ {t.co} ELSE suspended \cup {t.co}
      /\ wait' = [wait EXCEPT ![t.co] = IF how = "run" THEN @ ELSE @ + 1]
  BY DEF Execute
<1>2. pc'[d] = pc[d] /\ wait'[d] = wait[d] /\ (d \in suspended' <=> d \in suspended)
  BY <1>0, <1>1 DEF WaitType
<1>3. \A u \in tasks : u.co = d => u \in tasks'
  BY <1>1
<1>4. \A u \in tasks' : u.co = d => u \in tasks
  BY <1>1 DEF NewTask
<1>5. ASSUME NEW y \in timers', y.co = d
      PROVE  \E x \in timers : x.co = d /\ x.n = y.n /\ x.slot = y.slot
  <2>1. y \in Canceled(t)
    BY <1>0, <1>1, <1>5, NewTimerType
  <2> QED
    BY <1>0, <1>5, <2>1, CanceledType
<1>6. dropped' = dropped
  BY DEF Execute
<1> QED
  BY <1>2, <1>3, <1>4, <1>5, <1>6 DEF Calm

LEMMA CalmAtResume ==
    ASSUME TypeInv, NEW c \in Co, NEW n \in Nat, NEW r, Resume(c, n, r), Frame(c, n),
           NEW d \in Co, pc'[d] = pc[d], d # c \/ d \notin starting
    PROVE  Calm(d)
<1>1. /\ tasks \subseteq tasks' /\ dropped \subseteq dropped'
      /\ \A t \in tasks' : t \in tasks \/ t = [co |-> c, n |-> n, why |-> "done"]
      /\ suspended' = suspended /\ wait' = wait /\ timers' = timers
  BY DEF Resume, Queue
<1>2. n = wait[c] /\ wait[c] \in Nat
  BY DEF Frame, TypeInv, WaitType
<1>3. ASSUME NEW t \in tasks', t.co = d
      PROVE  t \in tasks \/ (t.why # "new" /\ t.n <= wait[d] /\ d \notin starting)
  <2>1. CASE t \notin tasks
    <3>1. t.co = c /\ t.n = n /\ t.why = "done"
      BY <1>1, <2>1
    <3> QED
      BY <1>2, <1>3, <3>1
  <2> QED
    BY <2>1
<1> QED
  BY <1>1, <1>3 DEF Calm

MissParts == PlaceInv /\ PastInv /\ StartInv /\ WakeInv

LEMMA StayPlaces ==
    ASSUME TypeInv, PlaceInv, prog' = prog, mode' = mode,
           \A c \in Readers : Calm(c),
           \A c \in Writers : Calm(c) \/ Moves(c),
           \A c \in Co : pc'[c] = "parked" => pc[c] = "parked"
    PROVE  PlaceInv'
<1>0. Readers' = Readers /\ Writers' = Writers /\ ThreadReads' = ThreadReads
  BY SameKinds
<1>1. ASSUME NEW c \in Readers
      PROVE  /\ pc'[c] \in ReaderPlaces
             /\ c \in suspended' <=> pc'[c] = "asleep"
             /\ pc'[c] = "asleep" => ~ThreadReads
             /\ pc'[c] \in {"poll", "lock", "asleep", "parked"} => mode'
  <2>1. pc'[c] = pc[c] /\ (c \in suspended' <=> c \in suspended)
    BY DEF Calm
  <2> QED
    BY <2>1 DEF PlaceInv
<1>2. ASSUME NEW c \in Writers
      PROVE  pc'[c] \in WriterPlaces /\ c \notin suspended'
  BY DEF Calm, Moves, PlaceInv
<1>3. ASSUME NEW c \in Co, pc'[c] = "parked"
      PROVE  c \in Readers
  BY <1>3 DEF PlaceInv
<1> QED
  BY <1>0, <1>1, <1>2, <1>3 DEF PlaceInv

LEMMA StayPast ==
    ASSUME TypeInv, TypeInv', PastInv, prog' = prog, resumeF' \in {resumeF, NoFrame},
           \A o \in ops' : o.co \notin ChanCo,
           \A c \in Readers : Calm(c),
           \A c \in Writers : Calm(c) \/ Moves(c)
    PROVE  PastInv'
<1>0. Readers' = Readers /\ Writers' = Writers /\ ChanCo' = ChanCo
  BY SameKinds
<1>1. ASSUME NEW t \in tasks', t.co \in ChanCo
      PROVE  /\ t.n <= wait'[t.co]
             /\ t.why = "new" => t = NewTask(t.co) /\ pc'[t.co] = "new"
  BY <1>1 DEF Calm, Moves, PastInv, ChanCo
<1>2. ASSUME NEW y \in timers', y.co \in ChanCo
      PROVE  y.n <= wait'[y.co]
  <2>1. wait'[y.co] = wait[y.co]
    BY <1>2 DEF Calm, Moves, ChanCo
  <2>2. CASE \E x \in timers : x.co = y.co /\ x.n = y.n
    BY <1>2, <2>1, <2>2 DEF PastInv
  <2>3. CASE ~\E x \in timers : x.co = y.co /\ x.n = y.n
    BY <1>2, <2>1, <2>3 DEF Calm, Moves, ChanCo
  <2> QED
    BY <2>2, <2>3
<1>3. ASSUME resumeF' # NoFrame
      PROVE  resumeF'.co \in Readers /\ resumeF'.n <= wait'[resumeF'.co]
  BY <1>3 DEF PastInv, Calm
<1>4. \A c : NewTask(c)' = NewTask(c)
  BY DEF NewTask
<1> QED
  BY <1>0, <1>1, <1>2, <1>3, <1>4 DEF PastInv, NewTask

LEMMA StayStart ==
    ASSUME TypeInv, StartInv, prog' = prog, starting' = starting, resumeF' \in {resumeF, NoFrame},
           \A c \in Readers : Calm(c)
    PROVE  StartInv'
<1>0. Readers' = Readers
  BY SameKinds
<1>1. ASSUME NEW c \in starting
      PROVE  /\ c \in Readers /\ c \in suspended'
             /\ \A t \in tasks' : ~Of(t, c, wait'[c])
             /\ \A x \in timers' : Of(x, c, wait'[c]) => x.slot = Unarmed
             /\ resumeF' # NoFrame => ~Of(resumeF', c, wait'[c])
  <2>1. c \in Readers /\ c \in suspended
    BY DEF StartInv
  <2>2. wait'[c] = wait[c] /\ c \in suspended' /\ Calm(c)
    BY <2>1 DEF Calm
  <2>3. ASSUME NEW t \in tasks', Of(t, c, wait[c])
        PROVE  FALSE
    <3>1. t.co = c /\ t.n = wait[c]
      BY <2>3 DEF Of
    <3>2. t \in tasks
      BY <2>2, <3>1 DEF Calm
    <3> QED
      BY <2>3, <3>2 DEF StartInv
  <2>4. ASSUME NEW y \in timers', Of(y, c, wait[c])
        PROVE  y.slot = Unarmed
    <3>1. y.co = c /\ y.n = wait[c]
      BY <2>4 DEF Of
    <3>2. PICK x \in timers : x.co = c /\ x.n = y.n /\ x.slot = y.slot
      BY <2>2, <3>1 DEF Calm
    <3>3. Of(x, c, wait[c])
      BY <3>1, <3>2 DEF Of
    <3> QED
      BY <3>2, <3>3 DEF StartInv
  <2> QED
    BY <2>1, <2>2, <2>3, <2>4 DEF StartInv
<1> QED
  BY <1>0, <1>1 DEF StartInv, Of, Unarmed

\* A reader that is suspended keeps the task that resumes it.
LEMMA CalmResumed == ASSUME NEW c, Calm(c), c \in suspended, Resumed(c) PROVE Resumed(c)'
BY DEF Calm, Resumed, Of

LEMMA StayWake ==
    ASSUME TypeInv, WakeInv, prog' = prog, starting' = starting, resumeF' = resumeF,
           queue' = queue, notified' = notified,
           \A c \in Readers : Calm(c),
           \A c \in Writers : pc'[c] = pc[c]
    PROVE  WakeInv'
<1>0. Readers' = Readers /\ Writers' = Writers
  BY SameKinds
<1>1. Waking({"mode", "notify"}) => Waking({"mode", "notify"})'
  BY <1>0 DEF Waking
<1>2. Waking({"mode", "notify", "wlock", "call"}) => Waking({"mode", "notify", "wlock", "call"})'
  BY <1>0 DEF Waking
<1>3. ASSUME NEW c \in Readers, c \in suspended' \ starting'
      PROVE  /\ Resumed(c)' \/ resumeF' = [co |-> c, n |-> wait'[c]]
             /\ Resumed(c)' \/ queue' = <<>> \/ Waking({"mode", "notify", "wlock", "call"})'
  <2>1. c \in suspended \ starting /\ wait'[c] = wait[c] /\ (Resumed(c) => Resumed(c)')
    BY <1>3, CalmResumed DEF Calm
  <2> QED
    BY <1>2, <2>1 DEF WakeInv
<1>4. ASSUME NEW c \in Readers, c \in starting' \/ pc'[c] \in {"lock", "parked"}
      PROVE  queue' = <<>> \/ notified' \/ Waking({"mode", "notify"})'
  <2>1. c \in starting \/ pc[c] \in {"lock", "parked"}
    BY <1>4 DEF Calm
  <2> QED
    BY <1>1, <2>1 DEF WakeInv
<1> QED
  BY <1>0, <1>3, <1>4 DEF WakeInv

\* A step of coroutines that are not of the channel.
LEMMA OthersStep ==
    ASSUME TypeInv, TypeInv', MissParts, prog' = prog, chanVars' = chanVars,
           \A o \in ops' : o.co \notin ChanCo,
           \A c \in ChanCo : Calm(c),
           \A c \in Co : pc'[c] = "parked" => pc[c] = "parked"
    PROVE  MissParts'
<1>1. \A c \in Readers : Calm(c)
  BY DEF ChanCo
<1>2. \A c \in Writers : Calm(c) /\ pc'[c] = pc[c]
  BY DEF ChanCo, Calm
<1>3. /\ mode' = mode /\ starting' = starting /\ resumeF' = resumeF
      /\ queue' = queue /\ notified' = notified
  BY DEF chanVars
<1>4. PlaceInv'
  BY <1>1, <1>2, <1>3, StayPlaces DEF MissParts
<1>5. PastInv'
  BY <1>1, <1>2, <1>3, StayPast DEF MissParts
<1>6. StartInv'
  BY <1>1, <1>3, StayStart DEF MissParts
<1>7. WakeInv'
  BY <1>1, <1>2, <1>3, StayWake DEF MissParts
<1> QED
  BY <1>4, <1>5, <1>6, <1>7 DEF MissParts

\* The hypotheses of OthersStep that a step has to give.
Outside ==
    /\ \A o \in ops' : o.co \notin ChanCo
    /\ \A c \in ChanCo : Calm(c)
    /\ \A c \in Co : pc'[c] = "parked" => pc[c] = "parked"

LEMMA ChanCoType == ChanCo \subseteq Co
BY KindsApart DEF ChanCo

LEMMA NetOutside ==
    ASSUME TypeInv, MissParts, NetEffect, ~undefined'
    PROVE  Outside
<1>0. \A o \in ops : o.co \notin ChanCo
  BY DEF MissParts, PastInv
<1>1. ASSUME NEW c, NEW at, c \notin ChanCo, OpsGrow(c, at)
      PROVE  \A o \in ops' : o.co \notin ChanCo
  BY <1>0, <1>1 DEF OpsGrow, NewOp
<1>2. \A at \in NetPlaces : at # "parked" /\ at \in Places
  BY HowAt DEF NetPlaces
<1>3. CASE NetRuns
  <2>1. PICK t \in tasks, at \in NetPlaces, news \in SUBSET Conns :
           Kind(t.co) \in NetKinds /\ Execute(t, at, How(at), news) /\ OpsGrow(t.co, at)
    BY <1>3 DEF NetRuns
  <2>2. t.co \notin ChanCo /\ news \in SUBSET Co /\ \A c \in ChanCo : c \notin news
    BY <2>1, KindsApart DEF Conns
  <2>3. \A c \in ChanCo : Calm(c)
    BY <2>1, <2>2, ChanCoType, CalmAtExecute
  <2>4. \A c \in Co : pc'[c] = "parked" => pc[c] = "parked"
    BY <1>2, <2>1 DEF Execute
  <2> QED
    BY <1>1, <2>1, <2>2, <2>3, <2>4 DEF Outside
<1>4. CASE NetDies
  BY <1>4 DEF NetDies, UseDeadFrame
<1>5. CASE NetGoes
  <2>1. PICK c \in Co, at \in NetPlaces :
           /\ pc[c] \in {"picked", "pick"} /\ OpsGrow(c, at)
           /\ IF How(at) = "run" THEN GoTo(c, at) ELSE Suspend(c, at, How(at))
    BY <1>5 DEF NetGoes
  <2>2. c \notin ChanCo
    BY <2>1 DEF MissParts, PlaceInv, ChanCo, ReaderPlaces, RunPlaces, WriterPlaces
  <2>3. \A d \in ChanCo : Calm(d)
    BY <1>2, <2>1, <2>2, ChanCoType, CalmAtGoTo, CalmAtSuspend
  <2>4. pc' = [pc EXCEPT ![c] = at]
    BY <2>1 DEF GoTo, Suspend
  <2>5. \A d \in Co : pc'[d] = "parked" => pc[d] = "parked"
    BY <1>2, <2>4 DEF TypeInv, WaitType
  <2> QED
    BY <1>1, <2>1, <2>2, <2>3, <2>5 DEF Outside
<1>6. CASE NetEnds
  <2>1. PICK o \in ops, r \in {-1, 0, Size} : Resume(o.co, o.n, r) /\ pc' = pc /\ ops' \subseteq ops
    BY <1>6 DEF NetEnds
  <2>2. o.co \notin ChanCo /\ o.co \in Co /\ o.n \in Nat /\ Frame(o.co, o.n)
    BY <1>0, <2>1 DEF TypeInv, NetType, Resume, UseDeadFrame
  <2>3. \A d \in ChanCo : Calm(d)
    BY <2>1, <2>2, ChanCoType, CalmAtResume
  <2> QED
    BY <1>0, <2>1, <2>3 DEF Outside
<1>7. CASE NetIdles
  BY <1>0, <1>7 DEF NetIdles, waitVars, Outside, Calm
<1> QED
  BY <1>3, <1>4, <1>5, <1>6, <1>7 DEF NetEffect

LEMMA LeftOutside ==
    ASSUME TypeInv, MissParts, NEW t \in tasks, Leftover(t), ops' = ops, ~undefined'
    PROVE  Outside
<1>1. t.co \notin suspended
  BY DEF Leftover, UseDeadFrame
<1>2. /\ tasks' = tasks \ {t} /\ pc' = pc /\ suspended' = suspended /\ wait' = wait
      /\ timers' = timers /\ dropped' = dropped
  BY <1>1 DEF Leftover
<1> QED
  BY <1>1, <1>2 DEF Outside, Calm, MissParts, PastInv

LEMMA ArmOutside ==
    ASSUME TypeInv, MissParts, NEW x \in timers, x.co \notin starting, Arm(x), ops' = ops, ~undefined'
    PROVE  Outside
<1>1. Frame(x.co, x.n)
  BY DEF Arm, UseDeadFrame
<1>2. /\ timers' = (timers \ {x}) \cup {[x EXCEPT !.slot = SlotFor(Interval)]}
      /\ tasks' = tasks /\ pc' = pc /\ suspended' = suspended /\ wait' = wait
      /\ dropped' = dropped
  BY <1>1 DEF Arm
<1>3. x \in Timer
  BY DEF TypeInv, WaitType
<1>4. ASSUME NEW c \in ChanCo, NEW y \in timers', y.co = c
      PROVE  \/ y.n <= wait[c] /\ (c \in starting => y.n # wait[c])
             \/ \E z \in timers : z.co = c /\ z.n = y.n /\ z.slot = y.slot
  <2>1. CASE y \in timers
    BY <1>4, <2>1
  <2>2. CASE y \notin timers
    <3>1. y.co = x.co /\ y.n = x.n
      BY <1>2, <1>3, <2>2 DEF Timer
    <3> QED
      BY <1>4, <3>1 DEF MissParts, PastInv
  <2> QED
    BY <2>1, <2>2
<1> QED
  BY <1>2, <1>4 DEF Outside, Calm, MissParts, PastInv

\* A timer that is not starting anything goes on.
LEMMA TimerOutside ==
    ASSUME TypeInv, MissParts, NEW x \in timers, x.slot # Unarmed, x.co \in ChanCo
    PROVE  x.n <= wait[x.co] /\ (x.co \in starting => x.n # wait[x.co])
BY DEF MissParts, PastInv, StartInv, Of

LEMMA TickOutside ==
    ASSUME TypeInv, MissParts, Tick, ops' = ops
    PROVE  Outside
<1>1. /\ timers' = {Turned(x) : x \in timers}
      /\ tasks' = tasks /\ dropped' = dropped
      /\ pc' = pc /\ suspended' = suspended /\ wait' = wait
  BY DEF Tick
<1>2. slot # Unarmed
  BY Constants DEF TypeInv, WaitType, Unarmed
<1>3. ASSUME NEW x \in timers
      PROVE  Turned(x).co = x.co /\ Turned(x).n = x.n /\ (x.slot # slot => Turned(x).slot = x.slot)
  BY DEF Turned, TypeInv, WaitType, Timer
<1>4. ASSUME NEW c \in ChanCo, NEW y \in timers', y.co = c
      PROVE  \/ y.n <= wait[c] /\ (c \in starting => y.n # wait[c])
             \/ \E x \in timers : x.co = c /\ x.n = y.n /\ x.slot = y.slot
  <2>1. PICK x \in timers : y = Turned(x)
    BY <1>1
  <2>2. x.co = c /\ x.n = y.n /\ (x.slot # slot => y.slot = x.slot)
    BY <1>3, <1>4, <2>1
  <2> QED
    BY <1>2, <2>2, TimerOutside
<1> QED
  BY <1>1, <1>4 DEF Outside, Calm, MissParts, PastInv

LEMMA FireOutside ==
    ASSUME TypeInv, MissParts, NEW x, Fire(x), ops' = ops
    PROVE  Outside
<1>1. /\ x \in timers /\ x \in Timer /\ x.slot = Taken /\ Taken # Unarmed
      /\ timers' = (timers \ {x}) \cup {[x EXCEPT !.slot = Called]}
      /\ pc' = pc /\ suspended' = suspended /\ wait' = wait
  BY Constants DEF Fire, TypeInv, WaitType, Taken, Unarmed
<1>2. /\ tasks \subseteq tasks' /\ dropped \subseteq dropped'
      /\ \A t \in tasks' : t \in tasks \/ t = TimeoutTask(x.co, x.n)
  BY DEF Fire, Queue
<1>3. x.co \in ChanCo => x.n <= wait[x.co] /\ (x.co \in starting => x.n # wait[x.co])
  BY <1>1, TimerOutside
<1>4. ASSUME NEW y \in timers', y \notin timers
      PROVE  y.co = x.co /\ y.n = x.n
  BY <1>1, <1>4 DEF Timer
<1>5. ASSUME NEW t \in tasks', t \notin tasks
      PROVE  t.co = x.co /\ t.n = x.n /\ t.why # "new"
  BY <1>2, <1>5 DEF TimeoutTask
<1> QED
  BY <1>1, <1>2, <1>3, <1>4, <1>5 DEF Outside, Calm, MissParts, PastInv

LEMMA ReleaseOutside ==
    ASSUME TypeInv, MissParts, NEW x, Release(x), ops' = ops, ~undefined'
    PROVE  Outside
<1>1. Frame(x.co, x.n)
  BY DEF Release, UseDeadFrame
<1>2. /\ timers' = timers \ {x} /\ tasks' = tasks /\ dropped' = dropped
      /\ pc' = pc /\ suspended' = suspended /\ wait' = wait
  BY <1>1 DEF Release
<1> QED
  BY <1>2 DEF Outside, Calm, MissParts, PastInv

LEMMA OutsideStep ==
    ASSUME TypeInv, MissParts, NetStep \/ TaskLeft \/ ArmTimer \/ TurnWheel, ~undefined'
    PROVE  Outside /\ chanVars' = chanVars
<1>1. CASE NetStep
  BY <1>1, NetStepEffect, NetOutside
<1>2. CASE TaskLeft
  BY <1>2, LeftOutside DEF TaskLeft, netVars
<1>3. CASE ArmTimer
  BY <1>3, ArmOutside DEF ArmTimer, netVars
<1>4. CASE TurnWheel
  BY <1>4, TickOutside, FireOutside, ReleaseOutside DEF TurnWheel, netVars
<1> QED
  BY <1>1, <1>2, <1>3, <1>4

-----------------------------------------------------------------------------
(* Steps of the writers *)

Told == {"mode", "notify"}
Wakes == {"mode", "notify", "wlock", "call"}

NoneParks == \A c \in Co : pc'[c] = "parked" => pc[c] = "parked"

LEMMA WriterStep ==
    ASSUME TypeInv, TypeInv', MissParts, prog' = prog, NEW w \in Writers, Moves(w),
           \A d \in ChanCo : d # w => Calm(d),
           mode' = mode, starting' = starting, resumeF' \in {resumeF, NoFrame}, ops' = ops, NoneParks
    PROVE  PlaceInv' /\ PastInv' /\ StartInv'
<1>1. \A c \in Readers : Calm(c)
  BY KindsApart DEF ChanCo
<1>2. \A c \in Writers : Calm(c) \/ Moves(c)
  BY DEF ChanCo
<1>3. \A o \in ops' : o.co \notin ChanCo
  BY DEF MissParts, PastInv
<1>4. PlaceInv'
  BY <1>1, <1>2, StayPlaces DEF MissParts, NoneParks
<1>5. PastInv'
  BY <1>1, <1>2, <1>3, StayPast DEF MissParts
<1>6. StartInv'
  BY <1>1, StayStart DEF MissParts
<1> QED
  BY <1>4, <1>5, <1>6

\* What a writer's step has to keep for the readers.
LEMMA WriterWake ==
    ASSUME TypeInv, WakeInv, prog' = prog, starting' = starting, resumeF' = resumeF,
           \A c \in Readers : Calm(c),
           ASSUME NEW c \in Readers, c \in suspended \ starting, ~Resumed(c),
                  queue = <<>> \/ Waking(Wakes)
           PROVE  queue' = <<>> \/ Waking(Wakes)',
           ASSUME NEW c \in Readers, c \in starting \/ pc[c] \in {"lock", "parked"},
                  queue = <<>> \/ notified \/ Waking(Told)
           PROVE  queue' = <<>> \/ notified' \/ Waking(Told)'
    PROVE  WakeInv'
<1>0. Readers' = Readers
  BY SameKinds
<1>3. ASSUME NEW c \in Readers, c \in suspended' \ starting'
      PROVE  /\ Resumed(c)' \/ resumeF' = [co |-> c, n |-> wait'[c]]
             /\ Resumed(c)' \/ queue' = <<>> \/ Waking(Wakes)'
  <2>1. c \in suspended \ starting /\ wait'[c] = wait[c] /\ (Resumed(c) => Resumed(c)')
    BY <1>3, CalmResumed DEF Calm
  <2> QED
    BY <2>1 DEF WakeInv, Wakes
<1>4. ASSUME NEW c \in Readers, c \in starting' \/ pc'[c] \in {"lock", "parked"}
      PROVE  queue' = <<>> \/ notified' \/ Waking(Told)'
  <2>1. c \in starting \/ pc[c] \in {"lock", "parked"}
    BY <1>4 DEF Calm
  <2> QED
    BY <2>1 DEF WakeInv, Told
<1> QED
  BY <1>0, <1>3, <1>4 DEF WakeInv, Told, Wakes

LEMMA WriterGoes ==
    ASSUME TypeInv, TypeInv', MissParts, NEW w \in Writers, NEW at \in WriterPlaces,
           pc[w] # "new", at # "none", GoTo(w, at),
           mode' = mode, starting' = starting, resumeF' = resumeF, ops' = ops
    PROVE  /\ PlaceInv' /\ PastInv' /\ StartInv' /\ prog' = prog
           /\ \A c \in Readers : Calm(c)
           /\ \A places : pc[w] \notin places /\ Waking(places) => Waking(places)'
           /\ \A places : at \in places => Waking(places)'
<1>0. w \in Co /\ at \in Places /\ w \notin suspended
  BY KindsApart DEF MissParts, PlaceInv, WriterPlaces, Places, ChanPlaces
<1>1. /\ pc' = [pc EXCEPT ![w] = at] /\ prog' = prog /\ suspended' = suspended /\ wait' = wait
      /\ tasks' = tasks /\ timers' = timers
  BY DEF GoTo
<1>2. Moves(w)
  <2>1. \A t \in tasks : t.co = w => t.why # "new"
    BY DEF MissParts, PastInv, ChanCo
  <2>2. pc'[w] = at
    BY <1>0, <1>1 DEF TypeInv, WaitType
  <2> QED
    BY <1>0, <1>1, <2>1, <2>2 DEF Moves
<1>3. \A d \in ChanCo : d # w => Calm(d)
  BY <1>0, CalmAtGoTo, ChanCoType
<1>4. NoneParks
  BY <1>0, <1>1 DEF NoneParks, TypeInv, WaitType, WriterPlaces
<1>5. \A c \in Readers : Calm(c)
  BY <1>3, KindsApart DEF ChanCo
<1>6. Writers' = Writers /\ Writers \subseteq Co
  BY <1>1, SameKinds, KindsApart
<1>7. \A places : pc[w] \notin places /\ Waking(places) => Waking(places)'
  BY <1>1, <1>6 DEF Waking, TypeInv, WaitType
<1>8. \A places : at \in places => Waking(places)'
  BY <1>0, <1>1, <1>6 DEF Waking, TypeInv, WaitType
<1> QED
  BY <1>1, <1>2, <1>3, <1>4, <1>5, <1>7, <1>8, WriterStep

LEMMA PushMiss ==
    ASSUME TypeInv, TypeInv', MissParts, NEW w \in Writers, Push(w), netVars' = netVars
    PROVE  MissParts'
<1> DEFINE at == IF Len(queue) < QCap THEN "mode" ELSE "ended"
<1>1. /\ pc[w] = "push" /\ GoTo(w, at)
      /\ mode' = mode /\ starting' = starting /\ resumeF' = resumeF /\ ops' = ops
      /\ notified' = notified /\ (at = "ended" => queue' = queue)
  BY DEF Push, netVars
<1>2. at \in {"mode", "ended"} /\ at \in WriterPlaces /\ at # "none"
  BY DEF WriterPlaces
<1> HIDE DEF at
<1>3. /\ PlaceInv' /\ PastInv' /\ StartInv' /\ prog' = prog
      /\ \A c \in Readers : Calm(c)
      /\ \A places : pc[w] \notin places /\ Waking(places) => Waking(places)'
      /\ \A places : at \in places => Waking(places)'
  BY <1>1, <1>2, WriterGoes
<1>4. /\ queue' = queue \/ (Waking(Wakes)' /\ Waking(Told)')
      /\ Waking(Wakes) => Waking(Wakes)'
      /\ Waking(Told) => Waking(Told)'
  BY <1>1, <1>2, <1>3 DEF Told, Wakes
<1>5. WakeInv'
  BY <1>1, <1>3, <1>4, WriterWake DEF MissParts
<1> QED
  BY <1>3, <1>5 DEF MissParts

LEMMA TestModeMiss ==
    ASSUME TypeInv, TypeInv', MissParts, NEW w \in Writers, TestMode(w), netVars' = netVars
    PROVE  MissParts'
<1> DEFINE at == IF mode THEN "notify" ELSE "ended"
<1>1. /\ pc[w] = "mode" /\ GoTo(w, at)
      /\ mode' = mode /\ starting' = starting /\ resumeF' = resumeF /\ ops' = ops
      /\ notified' = notified /\ queue' = queue
  BY DEF TestMode, netVars, chanVars
<1>2. at \in WriterPlaces /\ at # "none" /\ (mode => at \in Told /\ at \in Wakes)
  BY DEF WriterPlaces, Told, Wakes
<1> HIDE DEF at
<1>3. /\ PlaceInv' /\ PastInv' /\ StartInv' /\ prog' = prog
      /\ \A c \in Readers : Calm(c)
      /\ \A places : at \in places => Waking(places)'
  BY <1>1, <1>2, WriterGoes
<1>4. ASSUME NEW c \in Readers, c \in suspended \/ pc[c] \in {"lock", "parked"}
      PROVE  mode
  BY <1>4 DEF MissParts, PlaceInv
<1>5. starting \subseteq suspended
  BY DEF MissParts, StartInv
<1>6. mode => Waking(Wakes)' /\ Waking(Told)'
  BY <1>2, <1>3
<1>7. WakeInv'
  BY <1>1, <1>3, <1>4, <1>5, <1>6, WriterWake DEF MissParts
<1> QED
  BY <1>3, <1>7 DEF MissParts

LEMMA NotifyMiss ==
    ASSUME TypeInv, TypeInv', MissParts, NEW w \in Writers, Notify(w) \/ NotifyThread(w),
           netVars' = netVars
    PROVE  MissParts'
<1>0. PICK at \in {"wlock", "ended"} :
         /\ pc[w] = "notify" /\ GoTo(w, at) /\ (at = "ended" => ThreadReads)
         /\ mode' = mode /\ starting' = starting /\ resumeF' = resumeF /\ ops' = ops
         /\ notified' = TRUE /\ queue' = queue
  BY DEF Notify, NotifyThread, netVars
<1>1. at \in WriterPlaces /\ at # "none"
  BY DEF WriterPlaces
<1>2. /\ PlaceInv' /\ PastInv' /\ StartInv' /\ prog' = prog
      /\ \A c \in Readers : Calm(c)
      /\ \A places : at \in places => Waking(places)'
  BY <1>0, <1>1, WriterGoes
<1>3. at = "wlock" => Waking(Wakes)'
  BY <1>2 DEF Wakes
<1>4. ASSUME NEW c \in Readers, c \in suspended
      PROVE  at = "wlock"
  BY <1>0, <1>4 DEF MissParts, PlaceInv
<1>5. WakeInv'
  BY <1>0, <1>2, <1>3, <1>4, WriterWake DEF MissParts
<1> QED
  BY <1>2, <1>5 DEF MissParts

LEMMA WriterLocksMiss ==
    ASSUME TypeInv, TypeInv', MissParts, NEW w \in Writers, WriterLocks(w), netVars' = netVars
    PROVE  MissParts'
<1>0. /\ pc[w] = "wlock" /\ GoTo(w, "call")
      /\ mode' = mode /\ starting' = starting /\ resumeF' = resumeF /\ ops' = ops
      /\ notified' = notified /\ queue' = queue
  BY DEF WriterLocks, netVars
<1>1. "call" \in WriterPlaces /\ "call" \in Wakes /\ "wlock" \notin Told
  BY DEF WriterPlaces, Wakes, Told
<1>2. /\ PlaceInv' /\ PastInv' /\ StartInv' /\ prog' = prog
      /\ \A c \in Readers : Calm(c)
      /\ \A places : pc[w] \notin places /\ Waking(places) => Waking(places)'
      /\ \A places : "call" \in places => Waking(places)'
  BY <1>0, <1>1, WriterGoes
<1>3. Waking(Wakes)' /\ (Waking(Told) => Waking(Told)')
  BY <1>0, <1>1, <1>2
<1>5. WakeInv'
  BY <1>0, <1>2, <1>3, WriterWake DEF MissParts
<1> QED
  BY <1>2, <1>5 DEF MissParts

LEMMA WriterStartsMiss ==
    ASSUME TypeInv, TypeInv', MissParts, NEW t \in tasks, WriterStarts(t), netVars' = netVars
    PROVE  MissParts'
<1> DEFINE w == t.co
<1>0. /\ w \in Writers /\ Execute(t, "push", "run", {}) /\ ops' = ops
      /\ mode' = mode /\ starting' = starting /\ resumeF' = resumeF
      /\ notified' = notified /\ queue' = queue
  BY DEF WriterStarts, chanVars, netVars
<1>1. w \in Co /\ w \notin suspended /\ t \in Task /\ w \in ChanCo
  BY <1>0, KindsApart DEF MissParts, PlaceInv, TypeInv, WaitType, ChanCo
<1>2. t = NewTask(w) /\ pc[w] = "new"
  BY <1>0, <1>1 DEF Execute, Frame, MissParts, PastInv
<1>3. /\ tasks' = tasks \ {t} /\ timers' = Canceled(t) /\ prog' = prog
      /\ pc' = [c \in Co |-> IF c = w THEN "push" ELSE pc[c]]
      /\ w \notin suspended' /\ wait'[w] = wait[w]
  BY <1>0, <1>1 DEF Execute, TypeInv, WaitType
<1>4. Moves(w)
  <2>1. pc'[w] \in WriterPlaces
    BY <1>1, <1>3 DEF WriterPlaces
  <2>2. \A u \in tasks' : u.co = w => u \in tasks /\ u.why # "new"
    BY <1>1, <1>2, <1>3 DEF MissParts, PastInv
  <2>3. \A y \in timers' : y.co = w => \E x \in timers : x.co = w /\ x.n = y.n
    BY <1>1, <1>3, CanceledType DEF TypeInv
  <2> QED
    BY <1>3, <2>1, <2>2, <2>3 DEF Moves
<1>5. \A d \in ChanCo : d # w => Calm(d)
  BY <1>0, ChanCoType, CalmAtExecute
<1>6. NoneParks
  BY <1>3 DEF NoneParks
<1>7. PlaceInv' /\ PastInv' /\ StartInv'
  BY <1>0, <1>3, <1>4, <1>5, <1>6, WriterStep
<1>8. \A c \in Readers : Calm(c)
  BY <1>0, <1>5, KindsApart DEF ChanCo
<1>9. /\ Waking(Wakes) => Waking(Wakes)'
      /\ Waking(Told) => Waking(Told)'
  <2>1. Writers' = Writers /\ Writers \subseteq Co /\ pc[w] \notin Wakes /\ pc[w] \notin Told
    BY <1>2, <1>3, SameKinds, KindsApart DEF Wakes, Told
  <2> QED
    BY <1>3, <2>1 DEF Waking
<1>10. WakeInv'
  BY <1>0, <1>3, <1>8, <1>9, WriterWake DEF MissParts
<1> QED
  BY <1>7, <1>10 DEF MissParts

LEMMA CallResumeMiss ==
    ASSUME TypeInv, TypeInv', MissParts, NEW w \in Writers, CallResume(w), netVars' = netVars,
           ~undefined'
    PROVE  MissParts'
<1>0. /\ pc[w] = "call" /\ pc' = [pc EXCEPT ![w] = "ended"]
      /\ mode' = mode /\ starting' = starting /\ ops' = ops
      /\ notified' = notified /\ queue' = queue
  BY DEF CallResume, netVars
<1>1. "ended" \in WriterPlaces /\ "call" \notin Told
  BY DEF WriterPlaces, Told
<1>2. CASE resumeF = NoFrame
  <2>1. GoTo(w, "ended") /\ resumeF' = resumeF
    BY <1>2 DEF CallResume, GoTo
  <2>2. /\ PlaceInv' /\ PastInv' /\ StartInv' /\ prog' = prog
        /\ \A c \in Readers : Calm(c)
        /\ \A places : pc[w] \notin places /\ Waking(places) => Waking(places)'
    BY <1>0, <1>1, <2>1, WriterGoes
  <2>3. Waking(Told) => Waking(Told)'
    BY <1>0, <1>1, <2>2
  <2>4. ASSUME NEW c \in Readers, c \in suspended \ starting
        PROVE  Resumed(c)
    <3>1. wait[c] \in Nat /\ c \in Co
      BY KindsApart DEF TypeInv, WaitType
    <3>2. NoFrame # [co |-> c, n |-> wait[c]]
      BY <3>1, ChannelAssumption
    <3> QED
      BY <1>2, <2>4, <3>2 DEF MissParts, WakeInv
  <2>5. WakeInv'
    BY <1>0, <2>1, <2>2, <2>3, <2>4, WriterWake DEF MissParts
  <2> QED
    BY <2>2, <2>5 DEF MissParts
<1>3. CASE resumeF # NoFrame
  <2>0. PICK d \in Readers, n \in Nat : resumeF.co = d /\ resumeF.n = n
    BY <1>3 DEF MissParts, PastInv, TypeInv, ChanType
  <2>1. /\ Resume(d, n, 0) /\ Frame(d, n) /\ resumeF' = NoFrame
        /\ d \in Co /\ w \in Co /\ d # w
    BY <1>3, <2>0, KindsApart DEF CallResume, Resume, UseDeadFrame
  <2>2. /\ n = wait[d] /\ d \in suspended
        /\ \A t \in tasks' : t \in tasks \/ t = [co |-> d, n |-> n, why |-> "done"]
        /\ [co |-> d, n |-> n, why |-> "done"] \in tasks' \cup dropped'
        /\ timers' = timers /\ suspended' = suspended /\ wait' = wait /\ prog' = prog
    BY <2>1 DEF Frame, Resume, Queue
  <2>3. d \notin starting
    BY <1>3, <2>0, <2>2 DEF MissParts, StartInv, Of
  <2>4. \A c \in Co : c # w => pc'[c] = pc[c]
    BY <1>0 DEF TypeInv, WaitType
  <2>5. \A c \in ChanCo : c # w => Calm(c)
    BY <2>1, <2>3, <2>4, ChanCoType, CalmAtResume
  <2>6. Moves(w)
    <3>1. w \notin suspended' /\ pc'[w] \in WriterPlaces
      BY <1>0, <1>1, <2>1, <2>2 DEF MissParts, PlaceInv, TypeInv, WaitType
    <3>2. ASSUME NEW t \in tasks', t.co = w
          PROVE  t \in tasks /\ t.why # "new"
      <4>1. t \in tasks
        BY <2>1, <2>2, <3>2
      <4> QED
        BY <1>0, <3>2, <4>1 DEF MissParts, PastInv, ChanCo
    <3> QED
      BY <2>2, <3>1, <3>2 DEF Moves
  <2>7. NoneParks
    BY <1>0, <2>1 DEF NoneParks, TypeInv, WaitType
  <2>8. PlaceInv' /\ PastInv' /\ StartInv'
    BY <1>0, <2>1, <2>2, <2>5, <2>6, <2>7, WriterStep
  <2>9. Readers' = Readers /\ Writers' = Writers /\ Writers \subseteq Co
    BY <2>2, SameKinds, KindsApart
  <2>10. Resumed(d)'
    <3>1. PICK t \in tasks' \cup dropped' : t = [co |-> d, n |-> n, why |-> "done"]
      BY <2>2
    <3>2. Of(t, d, wait'[d])
      BY <2>2, <3>1 DEF Of
    <3> QED
      BY <3>2 DEF Resumed
  <2>11. \A c \in Readers : c = d
    BY OneReader
  <2>12. pc[d] = "asleep" /\ pc'[d] = "asleep"
    BY <2>1, <2>2, <2>4 DEF MissParts, PlaceInv
  <2>13. WakeInv'
    BY <1>0, <2>3, <2>9, <2>10, <2>11, <2>12 DEF WakeInv
  <2> QED
    BY <2>8, <2>13 DEF MissParts
<1> QED
  BY <1>2, <1>3

-----------------------------------------------------------------------------
(* Steps of the reader *)

\* What a step of the reader has to establish.
LEMMA ReaderStep ==
    ASSUME TypeInv, TypeInv', MissParts, prog' = prog, ops' = ops, NEW c \in Readers,
           \A w \in Writers : Calm(w), \A d \in Co : d # c => pc'[d] = pc[d],
           pc'[c] \in ReaderPlaces, c \in suspended' <=> pc'[c] = "asleep",
           pc'[c] = "asleep" => ~ThreadReads,
           pc'[c] \in {"poll", "lock", "asleep", "parked"} => mode',
           \A t \in tasks' : t.co = c => /\ t.n <= wait'[c]
                                         /\ t.why = "new" => t = NewTask(c) /\ pc'[c] = "new",
           \A x \in timers' : x.co = c => x.n <= wait'[c],
           resumeF' # NoFrame => resumeF'.co = c /\ resumeF'.n <= wait'[c],
           starting' \subseteq {c},
           c \in starting' => /\ c \in suspended'
                              /\ \A t \in tasks' : ~Of(t, c, wait'[c])
                              /\ \A x \in timers' : Of(x, c, wait'[c]) => x.slot = Unarmed
                              /\ resumeF' # NoFrame => ~Of(resumeF', c, wait'[c]),
           c \in suspended' \ starting' =>
              /\ Resumed(c)' \/ resumeF' = [co |-> c, n |-> wait'[c]]
              /\ Resumed(c)' \/ queue' = <<>> \/ Waking(Wakes)',
           c \in starting' \/ pc'[c] \in {"lock", "parked"} =>
              queue' = <<>> \/ notified' \/ Waking(Told)'
    PROVE  MissParts'
<1>0. /\ Readers' = Readers /\ Writers' = Writers /\ ThreadReads' = ThreadReads
      /\ ChanCo' = ChanCo /\ Readers \subseteq Co /\ Writers \subseteq Co
  BY SameKinds, KindsApart
<1>1. \A d \in Readers : d = c
  BY OneReader
<1>2. \A d : d \in ChanCo <=> d = c \/ d \in Writers
  BY <1>1 DEF ChanCo
<1>3. PlaceInv'
  <2>1. \A d \in Writers : pc'[d] \in WriterPlaces /\ d \notin suspended'
    BY DEF Calm, MissParts, PlaceInv
  <2>2. \A d \in Co : pc'[d] = "parked" => d \in Readers
    BY DEF MissParts, PlaceInv
  <2> QED
    BY <1>0, <1>1, <2>1, <2>2 DEF PlaceInv
<1>4. PastInv'
  <2>1. ASSUME NEW t \in tasks', t.co \in Writers
        PROVE  t.n <= wait'[t.co] /\ (t.why = "new" => t = NewTask(t.co) /\ pc'[t.co] = "new")
    BY <2>1 DEF Calm, MissParts, PastInv, ChanCo
  <2>2. ASSUME NEW y \in timers', y.co \in Writers
        PROVE  y.n <= wait'[y.co]
    <3>1. wait'[y.co] = wait[y.co] /\ Calm(y.co) /\ y.co \in ChanCo
      BY <2>2 DEF Calm, ChanCo
    <3>2. CASE \E x \in timers : x.co = y.co /\ x.n = y.n
      BY <3>1, <3>2 DEF MissParts, PastInv
    <3>3. CASE ~\E x \in timers : x.co = y.co /\ x.n = y.n
      BY <3>1, <3>3 DEF Calm
    <3> QED
      BY <3>2, <3>3
  <2>3. \A o \in ops' : o.co \notin ChanCo
    BY DEF MissParts, PastInv
  <2>4. \A t \in tasks' : t.co \in ChanCo =>
           t.n <= wait'[t.co] /\ (t.why = "new" => t = NewTask(t.co)' /\ pc'[t.co] = "new")
    BY <1>2, <2>1 DEF NewTask
  <2>5. \A y \in timers' : y.co \in ChanCo => y.n <= wait'[y.co]
    BY <1>2, <2>2
  <2> QED
    BY <1>0, <2>3, <2>4, <2>5 DEF PastInv
<1>5. StartInv'
  BY <1>0 DEF StartInv, Of, Unarmed
<1>6. WakeInv'
  BY <1>0, <1>1 DEF WakeInv, Told, Wakes
<1> QED
  BY <1>3, <1>4, <1>5, <1>6 DEF MissParts

\* A reader that runs, from a place to a place where it runs, or a thread that waits.
LEMMA ReaderGoes ==
    ASSUME TypeInv, TypeInv', MissParts, NEW c \in Readers,
           NEW at \in RunPlaces, GoTo(c, at), pc[c] \in RunPlaces,
           at \in {"poll", "lock", "parked"} => mode',
           at \in {"lock", "parked"} => queue' = <<>> \/ notified' \/ Waking(Told),
           starting' = starting, resumeF' = resumeF, ops' = ops
    PROVE  MissParts'
<1>0. c \in Co /\ c \notin suspended /\ \A d \in Readers : d = c
  BY KindsApart, OneReader DEF MissParts, PlaceInv, RunPlaces
<1>1. /\ pc' = [pc EXCEPT ![c] = at] /\ prog' = prog /\ suspended' = suspended /\ wait' = wait
      /\ tasks' = tasks /\ timers' = timers /\ dropped' = dropped
  BY DEF GoTo
<1>2. pc'[c] = at /\ \A d \in Co : d # c => pc'[d] = pc[d]
  BY <1>0, <1>1 DEF TypeInv, WaitType
<1>3. starting' = {}
  BY <1>0 DEF MissParts, StartInv
<1>4. \A w \in Writers : w \in Co /\ Calm(w)
  BY <1>1, <1>2, KindsApart DEF Calm
<1>5. Waking(Told) => Waking(Told)'
  BY <1>1, <1>2, <1>4, SameKinds, KindsApart DEF Waking
<1>6. at \in ReaderPlaces /\ at # "asleep"
  BY DEF ReaderPlaces, RunPlaces
<1>7. \A t \in tasks' : t.co = c => t.n <= wait'[c] /\ (t.why = "new" => FALSE)
  BY <1>1 DEF MissParts, PastInv, ChanCo, RunPlaces
<1>8. \A x \in timers' : x.co = c => x.n <= wait'[c]
  BY <1>1 DEF MissParts, PastInv, ChanCo
<1>9. resumeF' # NoFrame => resumeF'.co = c /\ resumeF'.n <= wait'[c]
  BY <1>0, <1>1 DEF MissParts, PastInv
<1> QED
  BY <1>0, <1>1, <1>2, <1>3, <1>4, <1>5, <1>6, <1>7, <1>8, <1>9, ReaderStep

LEMMA GoesOnMiss ==
    ASSUME TypeInv, TypeInv', MissParts, NEW c \in Co, netVars' = netVars,
           Pop(c) \/ AskNotify(c) \/ Found(c) \/ GiveUp(c)
    PROVE  MissParts'
<1>1. PICK at \in RunPlaces :
         /\ c \in Readers /\ pc[c] \in RunPlaces /\ GoTo(c, at)
         /\ at \notin {"lock", "parked"} /\ (at = "poll" => mode')
         /\ starting' = starting /\ resumeF' = resumeF /\ ops' = ops
  BY DEF Pop, AskNotify, Found, GiveUp, netVars, RunPlaces
<1> QED
  BY <1>1, ReaderGoes

LEMMA PollMiss ==
    ASSUME TypeInv, TypeInv', MissParts, NEW c \in Co, Poll(c), netVars' = netVars
    PROVE  MissParts'
<1>1. PICK at \in RunPlaces :
         /\ c \in Readers /\ pc[c] = "poll" /\ GoTo(c, at) /\ at \in {"found", "lock"}
         /\ mode' = mode /\ (at = "lock" => queue' = <<>>)
         /\ starting' = starting /\ resumeF' = resumeF /\ ops' = ops
  BY DEF Poll, netVars, RunPlaces
<1>2. mode
  BY <1>1 DEF MissParts, PlaceInv
<1> QED
  BY <1>1, <1>2, ReaderGoes DEF RunPlaces

LEMMA ParkMiss ==
    ASSUME TypeInv, TypeInv', MissParts, NEW c \in Co, Park(c) \/ Unpark(c), netVars' = netVars
    PROVE  MissParts'
<1>1. PICK at \in RunPlaces :
         /\ pc[c] \in {"lock", "parked"} /\ GoTo(c, at) /\ at \in {"poll", "parked"}
         /\ Park(c) \/ (at = "poll" /\ pc[c] = "parked")
         /\ at = "parked" => ~notified /\ pc[c] = "lock"
         /\ starting' = starting /\ resumeF' = resumeF /\ ops' = ops
         /\ mode' = mode /\ queue' = queue
  BY DEF Park, Unpark, netVars, RunPlaces
<1>2. c \in Readers
  BY <1>1 DEF Park, MissParts, PlaceInv
<1>3. mode
  BY <1>1, <1>2 DEF MissParts, PlaceInv
<1>4. at = "parked" => queue' = <<>> \/ Waking(Told)
  BY <1>1, <1>2 DEF MissParts, WakeInv, Told
<1> QED
  BY <1>1, <1>2, <1>3, <1>4, ReaderGoes DEF RunPlaces

LEMMA ReaderRunsMiss ==
    ASSUME TypeInv, TypeInv', MissParts, NEW t \in tasks, ReaderRuns(t), netVars' = netVars
    PROVE  MissParts'
<1> DEFINE c == t.co
<1>0. c \in Readers /\ c \in ChanCo /\ c \in Co /\ t \in Task /\ \A d \in Readers : d = c
  BY KindsApart, OneReader DEF ReaderRuns, ChanCo, TypeInv, WaitType
<1>1. PICK at \in {"pop", "poll", "expired"} :
         /\ Execute(t, at, "run", {})
         /\ at = "pop" => t.why = "new"
         /\ at = "poll" => t.why # "new" /\ (mode => mode')
         /\ queue' = queue /\ starting' = starting /\ resumeF' = resumeF /\ ops' = ops
  BY DEF ReaderRuns, netVars
<1>2. /\ tasks' = tasks \ {t} /\ timers' = Canceled(t) /\ prog' = prog
      /\ pc' = [d \in Co |-> IF d = c THEN at ELSE pc[d]]
      /\ c \notin suspended' /\ wait'[c] = wait[c]
      /\ t.why = "new" \/ Frame(c, t.n)
  BY <1>0, <1>1 DEF Execute, TypeInv, WaitType
<1>3. \A w \in Writers : w \in Co /\ Calm(w)
  <2>1. \A w \in Writers : w \in Co /\ w # c
    BY <1>0, KindsApart
  <2> QED
    BY <1>1, <2>1, CalmAtExecute
<1>4. starting' = {}
  <2>1. CASE t.why = "new"
    <3>1. pc[c] = "new"
      BY <1>0, <2>1 DEF MissParts, PastInv
    <3>2. c \notin suspended
      BY <1>0, <3>1 DEF MissParts, PlaceInv
    <3> QED
      BY <1>0, <1>1, <3>2 DEF MissParts, StartInv
  <2>2. CASE Frame(c, t.n)
    <3>1. Of(t, c, wait[c])
      BY <2>2 DEF Frame, Of
    <3> QED
      BY <1>0, <1>1, <3>1 DEF MissParts, StartInv
  <2> QED
    BY <1>2, <2>1, <2>2
<1>5. at \in {"poll", "lock", "asleep", "parked"} => mode'
  <2>1. CASE at = "poll"
    <3>1. c \in suspended
      BY <1>1, <1>2, <2>1 DEF Frame
    <3>2. pc[c] = "asleep"
      BY <1>0, <3>1 DEF MissParts, PlaceInv
    <3> QED
      BY <1>0, <1>1, <2>1, <3>2 DEF MissParts, PlaceInv
  <2> QED
    BY <2>1
<1>6. \A u \in tasks' : u.co = c => /\ u.n <= wait'[c]
                                    /\ u.why # "new"
  <2>1. ASSUME NEW u \in tasks, u # t, u.co = c, u.why = "new"
        PROVE  FALSE
    <3>1. u = NewTask(c) /\ pc[c] = "new"
      BY <1>0, <2>1 DEF MissParts, PastInv
    <3>2. t.why = "new"
      BY <1>0, <1>2, <3>1 DEF MissParts, PlaceInv, Frame
    <3>3. t = NewTask(c)
      BY <1>0, <3>2 DEF MissParts, PastInv
    <3> QED
      BY <2>1, <3>1, <3>3
  <2> QED
    BY <1>0, <1>2, <2>1 DEF MissParts, PastInv
<1>7. ASSUME NEW y \in timers', y.co = c
      PROVE  y.n <= wait'[c]
  <2>1. PICK x \in timers : x.co = y.co /\ x.n = y.n
    BY <1>0, <1>2, CanceledType DEF TypeInv
  <2> QED
    BY <1>0, <1>2, <1>7, <2>1 DEF MissParts, PastInv
<1>8. resumeF' # NoFrame => resumeF'.co = c /\ resumeF'.n <= wait'[c]
  BY <1>0, <1>1, <1>2 DEF MissParts, PastInv
<1>9. pc'[c] = at /\ at \in ReaderPlaces /\ \A d \in Co : d # c => pc'[d] = pc[d]
  BY <1>0, <1>2 DEF ReaderPlaces, RunPlaces
<1> HIDE DEF c
<1> QED
  BY <1>0, <1>1, <1>2, <1>3, <1>4, <1>5, <1>6, <1>7, <1>8, <1>9, ReaderStep

LEMMA ReaderLocksMiss ==
    ASSUME TypeInv, TypeInv', MissParts, NEW c \in Co, ReaderLocks(c), netVars' = netVars
    PROVE  MissParts'
<1>0. /\ c \in Readers /\ c \in ChanCo /\ pc[c] = "lock" /\ ~ThreadReads
      /\ queue' = queue /\ mode' = mode /\ resumeF' = resumeF /\ ops' = ops
      /\ \A d \in Readers : d = c
  BY OneReader DEF ReaderLocks, netVars, ChanCo
<1>1. c \notin suspended /\ mode
  BY <1>0 DEF MissParts, PlaceInv
<1>2. CASE TimedReader(c) /\ PoolFull
  <2>1. GoTo(c, "poll") /\ starting' = starting
    BY <1>2 DEF ReaderLocks
  <2>2. PICK at \in RunPlaces : at = "poll"
    BY DEF RunPlaces
  <2> QED
    BY <1>0, <1>1, <2>1, <2>2, ReaderGoes DEF RunPlaces
<1>3. CASE ~(TimedReader(c) /\ PoolFull)
  <2>1. PICK how \in Hows : Suspend(c, "asleep", how)
    BY <1>3 DEF ReaderLocks, Hows
  <2>2. starting' = {c} /\ notified' = notified
    <3>1. starting = {}
      BY <1>0, <1>1 DEF MissParts, StartInv
    <3> QED
      BY <1>3, <3>1 DEF ReaderLocks
  <2>3. /\ pc' = [pc EXCEPT ![c] = "asleep"] /\ suspended' = suspended \cup {c} /\ prog' = prog
        /\ tasks' = tasks /\ wait'[c] = wait[c] + 1 /\ wait[c] \in Nat
        /\ timers' = timers \cup (IF how = "timed" THEN {NewTimer(c)} ELSE {})
    BY <2>1 DEF Suspend, TypeInv, WaitType
  <2>4. \A w \in Writers : w \in Co /\ Calm(w)
    BY <1>0, <2>1, KindsApart, CalmAtSuspend
  <2>5. pc'[c] = "asleep" /\ \A d \in Co : d # c => pc'[d] = pc[d]
    BY <2>3 DEF TypeInv, WaitType
  <2>6. \A t \in tasks : t.co = c => t.n \in Nat /\ t.n <= wait[c] /\ t.why # "new"
    BY <1>0 DEF MissParts, PastInv, TypeInv, WaitType, Task
  <2>7. \A x \in timers : x.co = c => x.n \in Nat /\ x.n <= wait[c]
    BY <1>0 DEF MissParts, PastInv, TypeInv, WaitType, Timer
  <2>8. ASSUME NEW y \in timers', y.co = c
        PROVE  y.n <= wait'[c] /\ (y.n = wait'[c] => y.slot = Unarmed)
    <3>1. CASE y \in timers
      BY <2>3, <2>7, <2>8, <3>1
    <3>2. CASE y \notin timers
      <4>1. y.n = wait[c] + 1 /\ y.slot = Unarmed
        BY <2>3, <3>2, NewTimerType DEF TypeInv
      <4> QED
        BY <2>3, <4>1
    <3> QED
      BY <3>1, <3>2
  <2>9. resumeF # NoFrame => resumeF.co = c /\ resumeF.n \in Nat /\ resumeF.n <= wait[c]
    BY <1>0 DEF MissParts, PastInv, TypeInv, ChanType
  <2>10. /\ \A t \in tasks' : t.co = c => t.n <= wait'[c] /\ t.n # wait'[c] /\ t.why # "new"
         /\ resumeF' # NoFrame => resumeF'.co = c /\ resumeF'.n <= wait'[c] /\ resumeF'.n # wait'[c]
    BY <1>0, <2>3, <2>6, <2>9
  <2>11. /\ \A t \in tasks' : ~Of(t, c, wait'[c])
         /\ \A x \in timers' : Of(x, c, wait'[c]) => x.slot = Unarmed
         /\ resumeF' # NoFrame => ~Of(resumeF', c, wait'[c])
    BY <2>8, <2>10 DEF Of
  <2>12. queue' = <<>> \/ notified' \/ Waking(Told)'
    <3>1. queue = <<>> \/ notified \/ Waking(Told)
      BY <1>0 DEF MissParts, WakeInv, Told
    <3>2. Writers' = Writers /\ \A w \in Writers : pc'[w] = pc[w]
      BY <2>3, <2>4, SameKinds DEF Calm
    <3>3. Waking(Told) => Waking(Told)'
      BY <3>2 DEF Waking
    <3> QED
      BY <1>0, <2>2, <3>1, <3>3
  <2>13. "asleep" \in ReaderPlaces
    BY DEF ReaderPlaces
  <2> QED
    BY <1>0, <1>1, <2>2, <2>3, <2>4, <2>5, <2>8, <2>10, <2>11, <2>12, <2>13, ReaderStep
<1> QED
  BY <1>2, <1>3

LEMMA WrapFuncMiss ==
    ASSUME TypeInv, TypeInv', MissParts, NEW c \in Co, WrapFunc(c), netVars' = netVars
    PROVE  MissParts'
<1>0. /\ c \in starting /\ c \in Readers /\ c \in suspended /\ c \in ChanCo
      /\ queue' = queue /\ mode' = mode /\ notified' = notified /\ ops' = ops
      /\ \A d \in Readers : d = c
  BY OneReader DEF WrapFunc, MissParts, StartInv, netVars, ChanCo
<1>1. starting' = {} /\ wait[c] \in Nat /\ pc[c] = "asleep" /\ mode /\ ~ThreadReads
  BY <1>0 DEF WrapFunc, MissParts, StartInv, PlaceInv, TypeInv, WaitType
<1>2. /\ pc' = pc /\ suspended' = suspended /\ wait' = wait /\ timers' = timers /\ prog' = prog
      /\ tasks \subseteq tasks' /\ dropped \subseteq dropped'
      /\ \A t \in tasks' : t \in tasks \/ t = [co |-> c, n |-> wait[c], why |-> "done"]
      /\ resumeF' # NoFrame => resumeF' = [co |-> c, n |-> wait[c]]
  BY <1>0 DEF WrapFunc, Resume, Queue, Frame, waitVars
<1>3. notified => [co |-> c, n |-> wait[c], why |-> "done"] \in tasks' \cup dropped'
  BY <1>0 DEF WrapFunc, Resume, Queue, Frame
<1>4. ~notified => resumeF' = [co |-> c, n |-> wait[c]]
  BY DEF WrapFunc
<1>5. notified => Resumed(c)'
  <2>1. SUFFICES ASSUME notified
                 PROVE  \E t \in tasks' \cup dropped' : Of(t, c, wait'[c])
    BY DEF Resumed
  <2>2. PICK t \in tasks' \cup dropped' : t = [co |-> c, n |-> wait[c], why |-> "done"]
    BY <1>3, <2>1
  <2>3. Of(t, c, wait'[c])
    BY <1>2, <2>2 DEF Of
  <2> QED
    BY <2>3
<1>6. \A w \in Writers : w \in Co /\ Calm(w)
  BY <1>0, <1>2, KindsApart DEF Calm
<1>7. \A t \in tasks' : t.co = c => t.n <= wait'[c] /\ t.why # "new"
  BY <1>0, <1>1, <1>2 DEF MissParts, PastInv
<1>8. \A x \in timers' : x.co = c => x.n <= wait'[c]
  BY <1>0, <1>2 DEF MissParts, PastInv
<1>9. resumeF' # NoFrame => resumeF'.co = c /\ resumeF'.n <= wait'[c]
  BY <1>1, <1>2
<1>10. ~notified => queue' = <<>> \/ Waking(Wakes)'
  <2>1. queue = <<>> \/ notified \/ Waking(Told)
    BY <1>0 DEF MissParts, WakeInv, Told
  <2>2. Waking(Told) => Waking(Wakes)'
    BY <1>2, SameKinds DEF Waking, Told, Wakes
  <2> QED
    BY <1>0, <2>1, <2>2
<1> QED
  BY <1>0, <1>1, <1>2, <1>4, <1>5, <1>6, <1>7, <1>8, <1>9, <1>10, ReaderStep DEF ReaderPlaces

-----------------------------------------------------------------------------
(* The channel's invariant and theorem *)

LEMMA ChanMiss ==
    ASSUME TypeInv, TypeInv', MissParts, ChanNext, netVars' = netVars, ~undefined'
    PROVE  MissParts'
<1>1. ASSUME NEW t \in tasks, ReaderRuns(t) \/ WriterStarts(t)
      PROVE  MissParts'
  BY <1>1, ReaderRunsMiss, WriterStartsMiss
<1>2. ASSUME NEW c \in Co,
             \/ Pop(c) \/ AskNotify(c) \/ Found(c) \/ GiveUp(c) \/ Poll(c)
             \/ ReaderLocks(c) \/ WrapFunc(c) \/ Park(c) \/ Unpark(c)
      PROVE  MissParts'
  BY <1>2, GoesOnMiss, PollMiss, ReaderLocksMiss, WrapFuncMiss, ParkMiss
<1>3. ASSUME NEW c \in Co,
             \/ Push(c) \/ TestMode(c) \/ Notify(c) \/ NotifyThread(c)
             \/ WriterLocks(c) \/ CallResume(c)
      PROVE  MissParts'
  <2>1. c \in Writers
    BY <1>3 DEF Push, TestMode, Notify, NotifyThread, WriterLocks, CallResume
  <2> QED
    BY <1>3, <2>1, PushMiss, TestModeMiss, NotifyMiss, WriterLocksMiss, CallResumeMiss
<1> QED
  BY <1>1, <1>2, <1>3 DEF ChanNext

LEMMA NextMiss == ASSUME TypeInv, TypeInv', MissInv, Next PROVE MissInv'
<1>0. MissParts
  BY DEF MissInv, MissParts, Next
<1>1. SUFFICES ASSUME ~undefined' PROVE MissParts'
  BY DEF MissInv, MissParts
<1>2. CASE NetStep \/ TaskLeft \/ ArmTimer \/ TurnWheel
  <2>1. Outside /\ chanVars' = chanVars
    BY <1>0, <1>1, <1>2, OutsideStep
  <2>2. prog' = prog
    <3>1. WaitEffect
      BY <1>2, NextType DEF Next
    <3> QED
      BY <3>1, SameProg
  <2> QED
    BY <1>0, <2>1, <2>2, OthersStep DEF Outside
<1>3. CASE ChanStep
  BY <1>0, <1>1, <1>3, ChanMiss DEF ChanStep
<1> QED
  BY <1>2, <1>3 DEF Next

LEMMA StutterMiss == ASSUME MissInv, UNCHANGED vars PROVE MissInv'
<1>1. /\ prog' = prog /\ pc' = pc /\ suspended' = suspended /\ wait' = wait /\ tasks' = tasks
      /\ dropped' = dropped /\ timers' = timers /\ undefined' = undefined /\ ops' = ops
      /\ queue' = queue /\ mode' = mode /\ notified' = notified /\ resumeF' = resumeF
      /\ starting' = starting
  BY DEF vars, waitVars, netVars, chanVars
<1>2. Readers' = Readers /\ Writers' = Writers /\ ChanCo' = ChanCo /\ ThreadReads' = ThreadReads
  BY <1>1, SameKinds
<1> QED
  BY <1>1, <1>2 DEF MissInv, PlaceInv, PastInv, StartInv, WakeInv, Resumed, Waking, Of, NewTask, Unarmed

LEMMA InitMiss == Init => MissInv
<1> SUFFICES ASSUME Init PROVE MissParts
  BY DEF MissInv, MissParts
<1> DEFINE started == {c \in Co : Kind(c) \notin {"conn", "none"}}
<1>1. WaitInit(started) /\ NetInit /\ ChanInit /\ started \subseteq Co
  BY DEF Init
<1> HIDE DEF started
<1>2. /\ pc \in [Co -> {"new", "none"}] /\ \A c \in started : pc[c] = "new"
      /\ suspended = {} /\ timers = {} /\ ops = {} /\ starting = {} /\ resumeF = NoFrame
      /\ queue = <<>> /\ tasks = {NewTask(c) : c \in started} /\ wait = [c \in Co |-> 0]
  BY <1>1 DEF WaitInit, NetInit, ChanInit
<1>3. PlaceInv
  BY <1>2, KindsApart DEF PlaceInv, ReaderPlaces, RunPlaces, WriterPlaces
<1>4. PastInv
  <2>1. \A t \in tasks : t = NewTask(t.co) /\ t.n = 0 /\ t.co \in started
    BY <1>2 DEF NewTask
  <2> QED
    BY <1>1, <1>2, <2>1 DEF PastInv
<1>5. StartInv /\ WakeInv
  BY <1>2, KindsApart DEF StartInv, WakeInv
<1> QED
  BY <1>3, <1>4, <1>5 DEF MissParts

LEMMA MissIsTheProperty == TypeInv /\ MissInv => NoMissedMessage
<1> SUFFICES ASSUME TypeInv, MissInv, ~undefined, NEW c \in Readers, Waits(c), queue # <<>>
             PROVE  \/ Resumed(c)
                    \/ (c \in starting \/ pc[c] = "parked") /\ notified
                    \/ Waking(Wakes)
  BY DEF NoMissedMessage, Resumed, Waking, Wakes
<1>1. WakeInv
  BY DEF MissInv
<1>2. Waking(Told) => Waking(Wakes)
  BY DEF Waking, Told, Wakes
<1>3. CASE c \in suspended \ starting
  BY <1>1, <1>3 DEF WakeInv, Wakes
<1>4. CASE c \in starting \/ pc[c] = "parked"
  BY <1>1, <1>2, <1>4 DEF WakeInv, Told
<1> QED
  BY <1>3, <1>4 DEF Waits

(* While a channel's reader sleeps, or a thread waits, and there is a message, its
   resumption is queued, or was until it found its queue full, or it will find itself notified, or a writer is on its way to wake
   it (np_queue_t::dequeue against try_enqueue), for any number of writers, with and
   without a timeout. *)
THEOREM NoMissedMessageHolds == Spec => []NoMissedMessage
<1>1. Init => TypeInv /\ MissInv
  BY InitType, InitMiss
<1>2. TypeInv /\ MissInv /\ [Next]_vars => (TypeInv /\ MissInv)'
  <2>1. CASE Next
    BY <2>1, NextType, NextMiss
  <2>2. CASE UNCHANGED vars
    BY <2>2, StutterType, StutterMiss
  <2> QED
    BY <2>1, <2>2
<1> QED
  BY <1>1, <1>2, MissIsTheProperty, PTL DEF Spec
=============================================================================
