--------------------------- MODULE CorSched_proofs ---------------------------
(***************************************************************************)
(* Proofs about CorSched, for every number of queues, executors, coroutines *)
(* and every program that IsConf admits.                                    *)
(*                                                                         *)
(* The invariants build on one another:                                     *)
(*   TypeInv    what the variables and the fields of the executors hold;    *)
(*   PlaceInv   no cell is named by two tasks, joiners or executors;        *)
(*   HostInv    a coroutine on an executor is there alone, in no cell;      *)
(*   CallerInv  the cell caller_c of join() is its caller's own;            *)
(*   WaitInv    who is awaited by a suspended coroutine;                    *)
(*   HomeInv    without stealing, a queue belongs to one executor, and      *)
(*              (StillJoined) a caller stays in the join() that moves it;     *)
(*   KeptInv    where a coroutine that has not ended is.                    *)
(* The steps are seen through what they do to the cells (Effect).           *)
(***************************************************************************)
EXTENDS CorSched, TLAPS

Bare == {"none", "idle", "steal", "gone"}
Caller == {"push", "check", "move"}

MadeTask == [co : made, n : Nat \ {0}]
MadeJoiner == [co : made, n : Nat \ {0}, tq : Queue]

(* What an executor may hold: a coroutine exactly when it executes one, and that
   has been created. *)
Sane(r) ==
    /\ r \in Executor
    /\ r.pc \in Bare <=> r.co = NoCo
    /\ r.co # NoCo => r.co \in made /\ r.n > 0
    /\ r.pc \in Caller => r.m > 0

QueueType == /\ queue \in [Queue -> Seq(MadeTask)]
             /\ \A q \in Queue : Len(queue[q]) <= conf.qcap
JoinType == joiners \in [Co -> Seq(MadeJoiner)]
ExType == /\ ex \in [Exec -> Executor] /\ \A x \in Exec : Sane(ex[x])
          /\ current \in [Queue -> Exec]
          /\ alive \in Exec /\ alive >= N
          /\ \A x \in Exec : x > alive => ex[x].pc = "none"
LifeType == /\ made \subseteq DOMAIN Prog
            /\ started \subseteq Co /\ stopped \subseteq Co /\ lost \subseteq Co
            /\ crashed \in BOOLEAN
CellType == /\ step \in [Co -> Nat \ {0}]
            /\ waitsFor \in [Co -> Co \cup {NoCo}]
            /\ held \in [Co -> Nat] /\ cells \in [Co -> Nat \ {0}]
            /\ \A c \in Co \ made : held[c] = 1 /\ cells[c] = 1 /\ waitsFor[c] = NoCo

TypeInv == conf \in Confs /\ QueueType /\ JoinType /\ ExType /\ LifeType /\ CellType

-----------------------------------------------------------------------------
(* Sequences *)

LEMMA AppendFact ==
    ASSUME NEW S, NEW s \in Seq(S), NEW x \in S
    PROVE  Append(s, x) \in Seq(S) /\ Len(Append(s, x)) = Len(s) + 1
OBVIOUS

LEMMA HeadFact ==
    ASSUME NEW S, NEW s \in Seq(S), s # <<>>
    PROVE  Head(s) \in S /\ Tail(s) \in Seq(S) /\ Len(Tail(s)) = Len(s) - 1 /\ Len(s) \in Nat
OBVIOUS

LEMMA LargerSeq ==
    ASSUME NEW S, NEW T, S \subseteq T, NEW s \in Seq(S)
    PROVE  s \in Seq(T)
OBVIOUS

LEMMA EmptySeq == ASSUME NEW S PROVE <<>> \in Seq(S) /\ Len(<<>>) = 0
OBVIOUS

LEMMA HalfFact == ASSUME NEW n \in Nat PROVE Half(n) \in Nat
BY DEF Half

-----------------------------------------------------------------------------
(* The programs *)

LEMMA ConfFacts ==
    ASSUME conf \in Confs
    PROVE  /\ conf.steal \in BOOLEAN
           /\ conf.qcap \in Nat \ {0} /\ conf.waitcap \in Nat
           /\ DOMAIN Prog \subseteq Co
           /\ \A c \in DOMAIN Prog : /\ Prog[c] \in Seq(Op)
                 /\ \A i \in DOMAIN Prog[c] :
                       Prog[c][i].op = "create" => Prog[c][i].co \in DOMAIN Prog
<1>1. IsConf(conf)
  BY SchedAssumption
<1> QED
  BY <1>1 DEF IsConf, Prog

LEMMA Constants ==
    /\ NoCo \notin Co /\ N \in Nat \ {0} /\ MaxExec \in Nat /\ MaxExec >= N
    /\ \A x \in Exec : x \in Nat \ {0} /\ x <= MaxExec
    /\ \A q \in Queue : (q + 1) % N \in Queue
BY SchedAssumption DEF Exec, Queue

(* What an executor holds, field by field. *)
LEMMA ExFields ==
    ASSUME TypeInv, NEW x \in Exec
    PROVE  LET r == ex[x]
           IN  /\ r \in Executor
               /\ r.pc \in ExPc /\ r.tq \in Queue /\ r.on \in BOOLEAN
               /\ r.n \in Nat /\ r.m \in Nat /\ r.stolen \in BOOLEAN /\ r.blocking \in BOOLEAN
               /\ r.pc \notin Bare => r.co \in made /\ r.co \in Co /\ r.co # NoCo /\ r.n > 0
               /\ r.pc \in Bare => r.co = NoCo
               /\ r.pc \in Caller => r.m > 0
<1>1. ex[x] \in Executor /\ Sane(ex[x]) /\ made \subseteq Co
  BY ConfFacts DEF TypeInv, ExType, LifeType
<1> QED
  BY <1>1 DEF Executor, Sane

(* The argument of create or join. *)
LEMMA ArgFact ==
    ASSUME TypeInv, NEW x \in Exec
    PROVE  /\ Runs(x, "create") => Arg(x) \in DOMAIN Prog
           /\ Runs(x, "join") => Arg(x) \in Co
<1> DEFINE c == ex[x].co
           i == step[c]
<1> SUFFICES ASSUME Runs(x, "create") \/ Runs(x, "join")
             PROVE  /\ Prog[c][i].op = "create" => Prog[c][i].co \in DOMAIN Prog
                    /\ Prog[c][i].op = "join" => Prog[c][i].co \in Co
  BY DEF Runs, Arg
<1>1. c \in made /\ c \in Co
  BY ExFields DEF Runs, On, Bare
<1>2. c \in DOMAIN Prog /\ i \in Nat \ {0} /\ i <= Len(Prog[c])
  BY <1>1 DEF Runs, TypeInv, LifeType, CellType
<1>3. Prog[c] \in Seq(Op)
  BY <1>2, ConfFacts DEF TypeInv
<1>4. i \in DOMAIN Prog[c] /\ Prog[c][i] \in Op
  BY <1>2, <1>3
<1>5. Prog[c][i].op = "join" => Prog[c][i].co \in Co
  BY <1>4 DEF Op
<1> QED
  BY <1>2, <1>4, <1>5, ConfFacts DEF TypeInv

-----------------------------------------------------------------------------
(* What the steps of an executor do to it *)

LEMMA GotoStep ==
    ASSUME TypeInv, NEW x \in Exec, NEW pc, Goto(x, pc)
    PROVE  /\ \A y \in Exec : y # x => ex'[y] = ex[y]
           /\ ex'[x].pc = pc
           /\ ex'[x].tq = ex[x].tq /\ ex'[x].on = ex[x].on /\ ex'[x].co = ex[x].co
           /\ ex'[x].n = ex[x].n /\ ex'[x].m = ex[x].m
           /\ pc \in ExPc => ex' \in [Exec -> Executor]
<1>1. ex[x] \in Executor /\ ex \in [Exec -> Executor]
  BY DEF TypeInv, ExType
<1>2. ex' = [ex EXCEPT ![x].pc = pc]
  BY DEF Goto
<1>3. ex'[x] = [ex[x] EXCEPT !.pc = pc] /\ \A y \in Exec : y # x => ex'[y] = ex[y]
  BY <1>1, <1>2
<1> QED
  BY <1>1, <1>2, <1>3 DEF Executor

LEMMA ReturnIs ==
    ASSUME NEW e \in Executor, NEW b \in BOOLEAN
    PROVE  /\ Return(e, b) \in Executor
           /\ Return(e, b).pc \in {"idle", "gone"}
           /\ Return(e, b).co = NoCo /\ Return(e, b).n = 0 /\ Return(e, b).m = 0
           /\ Return(e, b).tq = e.tq /\ Return(e, b).on = e.on
BY DEF Return, Executor, ExPc

LEMMA EndStep ==
    ASSUME TypeInv, NEW x \in Exec, EndExec(x)
    PROVE  /\ \A y \in Exec : y # x => ex'[y] = ex[y]
           /\ ex'[x].pc \in {"idle", "gone"} /\ ex'[x].co = NoCo
           /\ ex'[x].tq = ex[x].tq /\ ex'[x].on = ex[x].on
           /\ ex' \in [Exec -> Executor]
<1>1. ex[x] \in Executor /\ ex \in [Exec -> Executor]
  BY DEF TypeInv, ExType
<1>2. ex' = [ex EXCEPT ![x] = Return(ex[x], FALSE)]
  BY DEF EndExec
<1> QED
  BY <1>1, <1>2, ReturnIs

LEMMA BeginStep ==
    ASSUME TypeInv, NEW x \in Exec, NEW t \in MadeTask, NEW s \in BOOLEAN, Begin(x, t, s)
    PROVE  /\ \A y \in Exec : y # x => ex'[y] = ex[y]
           /\ ex'[x].tq = ex[x].tq /\ ex'[x].on = ex[x].on
           /\ \/ /\ Valid(t)
                 /\ ex'[x].pc = "resume" /\ ex'[x].co = t.co /\ ex'[x].n = t.n
              \/ /\ ~Valid(t)
                 /\ ex'[x].pc \in {"idle", "gone"} /\ ex'[x].co = NoCo
           /\ ex' \in [Exec -> Executor]
<1> DEFINE e == [pc |-> "resume", tq |-> ex[x].tq, on |-> ex[x].on, co |-> t.co,
                 n |-> t.n, m |-> 0, stolen |-> s, blocking |-> ex[x].blocking]
<1>1. ex[x] \in Executor /\ ex \in [Exec -> Executor] /\ made \subseteq Co
  BY ConfFacts DEF TypeInv, ExType, LifeType
<1>2. e \in Executor
  BY <1>1, ExFields DEF MadeTask, Executor, ExPc
<1>3. e.pc = "resume" /\ e.co = t.co /\ e.n = t.n /\ e.tq = ex[x].tq /\ e.on = ex[x].on
      /\ e.blocking \in BOOLEAN
  BY ExFields
<1>4. ex' = [ex EXCEPT ![x] = IF Valid(t) THEN e ELSE Return(e, e.blocking)]
  BY DEF Begin
<1> HIDE DEF e
<1>5. CASE Valid(t)
  BY <1>1, <1>2, <1>3, <1>4, <1>5
<1>6. CASE ~Valid(t)
  BY <1>1, <1>2, <1>3, <1>4, <1>6, ReturnIs
<1> QED
  BY <1>5, <1>6

(* The type of the executors when one of them changes. *)
LEMMA ExTypeStep ==
    ASSUME TypeInv, NEW x \in Exec, ex[x].pc # "none",
           ex' \in [Exec -> Executor], \A y \in Exec : y # x => ex'[y] = ex[y],
           ex'[x].pc \in Bare <=> ex'[x].co = NoCo,
           ex'[x].co # NoCo => ex'[x].co \in made /\ ex'[x].n > 0,
           ex'[x].pc \in Caller => ex'[x].m > 0,
           UNCHANGED <<monitorVars, made>>
    PROVE  ExType'
BY DEF TypeInv, ExType, Sane, monitorVars

LEMMA EnqueueType ==
    ASSUME TypeInv, NEW q \in Queue, NEW t \in MadeTask, Enqueue(q, t), UNCHANGED <<conf, made>>
    PROVE  QueueType' /\ lost' \subseteq Co
<1>1. queue \in [Queue -> Seq(MadeTask)] /\ \A p \in Queue : Len(queue[p]) <= conf.qcap
  BY DEF TypeInv, QueueType
<1>2. t.co \in Co /\ lost \subseteq Co
  BY ConfFacts DEF TypeInv, LifeType, MadeTask
<1>3. conf.qcap \in Nat
  BY ConfFacts DEF TypeInv
<1>4. CASE HasRoom(q)
  <2>1. queue' = [queue EXCEPT ![q] = Append(queue[q], t)] /\ lost' = lost
    BY <1>4 DEF Enqueue
  <2>2. Append(queue[q], t) \in Seq(MadeTask) /\ Len(Append(queue[q], t)) <= conf.qcap
    <3>1. queue[q] \in Seq(MadeTask)
      BY <1>1
    <3>2. Len(queue[q]) \in Nat /\ Len(queue[q]) < conf.qcap
      BY <1>4, <3>1 DEF HasRoom
    <3> QED
      BY <1>3, <3>1, <3>2, AppendFact
  <2>3. queue' \in [Queue -> Seq(MadeTask)] /\ \A p \in Queue : Len(queue'[p]) <= conf.qcap
    BY <1>1, <2>1, <2>2
  <2> QED
    BY <1>2, <2>1, <2>3 DEF QueueType, MadeTask
<1>5. CASE ~HasRoom(q)
  BY <1>1, <1>2, <1>5 DEF Enqueue, QueueType, MadeTask
<1> QED
  BY <1>4, <1>5

LEMMA TailType ==
    ASSUME TypeInv, NEW q \in Queue, queue[q] # <<>>, queue' = [queue EXCEPT ![q] = Tail(@)],
           UNCHANGED <<conf, made>>
    PROVE  QueueType' /\ Head(queue[q]) \in MadeTask
<1>1. queue \in [Queue -> Seq(MadeTask)] /\ \A p \in Queue : Len(queue[p]) <= conf.qcap
  BY DEF TypeInv, QueueType
<1>2. conf.qcap \in Nat
  BY ConfFacts DEF TypeInv
<1>3. Head(queue[q]) \in MadeTask /\ Tail(queue[q]) \in Seq(MadeTask)
      /\ Len(Tail(queue[q])) <= conf.qcap
  <2>1. queue[q] \in Seq(MadeTask) /\ Len(queue[q]) <= conf.qcap
    BY <1>1
  <2> QED
    BY <1>2, <2>1, HeadFact
<1>4. queue' \in [Queue -> Seq(MadeTask)] /\ \A p \in Queue : Len(queue'[p]) <= conf.qcap
  BY <1>1, <1>3
<1> QED
  BY <1>3, <1>4 DEF QueueType, MadeTask

USE DEF On

(* The types of the cells and lives when a coroutine's cell or step changes. *)
LEMMA StepAdvances ==
    ASSUME TypeInv, NEW c \in Co, Advance(c)
    PROVE  step' \in [Co -> Nat \ {0}]
BY DEF TypeInv, CellType, Advance

LEMMA HeldStep ==
    ASSUME TypeInv, NEW c \in made, NEW n \in Nat,
           held' = [held EXCEPT ![c] = n], UNCHANGED <<cells, made>>,
           step' \in [Co -> Nat \ {0}],
           waitsFor' \in [Co -> Co \cup {NoCo}], \A d \in Co : d # c => waitsFor'[d] = waitsFor[d]
    PROVE  CellType'
BY ConfFacts DEF TypeInv, CellType, LifeType

LEMMA InitType == Init => TypeInv
<1> SUFFICES ASSUME Init PROVE TypeInv
  OBVIOUS
<1> USE DEF Init
<1>0. conf \in Confs
  OBVIOUS
<1>1. /\ Prog = conf.prog /\ conf.initial \in Seq(DOMAIN Prog) /\ Len(conf.initial) <= conf.qcap
      /\ DOMAIN Prog \subseteq Co
  BY <1>0, SchedAssumption DEF IsConf, Prog
<1>2. \A i \in DOMAIN conf.initial : conf.initial[i] \in DOMAIN Prog
  BY <1>1
<1>3. QueueType
  <2> DEFINE k == Len(conf.initial)
             s == [i \in DOMAIN conf.initial |-> [co |-> conf.initial[i], n |-> 1]]
  <2>1. DOMAIN conf.initial = 1 .. k /\ k \in Nat
    BY <1>1
  <2>2. \A i \in 1 .. k : [co |-> conf.initial[i], n |-> 1] \in MadeTask
    BY <2>1 DEF MadeTask
  <2>3. s \in Seq(MadeTask) /\ Len(s) = k
    BY <2>1, <2>2
  <2>4. conf.qcap \in Nat
    BY <1>0, ConfFacts
  <2> HIDE DEF s
  <2>5. queue = [q \in Queue |-> IF q = 0 THEN s ELSE <<>>]
    BY DEF s
  <2>6. <<>> \in Seq(MadeTask) /\ Len(<<>>) = 0 /\ k \in Nat /\ k <= conf.qcap
    BY <1>1, EmptySeq
  <2> HIDE DEF k, Init
  <2>7. \A q \in Queue : queue[q] = s \/ queue[q] = <<>>
    BY <2>5
  <2>8. \A q \in Queue : queue[q] \in Seq(MadeTask) /\ Len(queue[q]) <= conf.qcap
    <3> TAKE q \in Queue
    <3>1. CASE queue[q] = s
      BY <2>3, <2>6, <3>1
    <3>2. CASE queue[q] = <<>>
      <4>1. Len(queue[q]) = 0 /\ queue[q] \in Seq(MadeTask)
        BY <2>6, <3>2, Zenon
      <4> QED
        BY <2>4, <4>1
    <3> QED
      BY <2>7, <3>1, <3>2
  <2> QED
    BY <2>5, <2>8 DEF QueueType
<1>4. JoinType
  BY EmptySeq DEF JoinType
<1>5. ExType
  <2>1. \A q \in Queue : NewExecutor(q) \in Executor
    BY DEF NewExecutor, Executor, ExPc
  <2>2. 0 \in Queue /\ \A x \in Exec : x <= N => x - 1 \in Queue
    BY SchedAssumption DEF Queue, Exec
  <2>3. NoExecutor \in Executor /\ NoExecutor.pc = "none" /\ NoExecutor.co = NoCo
    <3>1. NewExecutor(0) \in Executor /\ NewExecutor(0).co = NoCo
      BY <2>1, <2>2 DEF NewExecutor
    <3> QED
      BY <3>1 DEF NoExecutor, Executor, ExPc
  <2>4. \A q \in Queue : NewExecutor(q).pc = "idle" /\ NewExecutor(q).co = NoCo
    BY DEF NewExecutor
  <2>5. \A x \in Exec : /\ ex[x] \in Executor /\ ex[x].co = NoCo
                        /\ ex[x].pc = IF x <= N THEN "idle" ELSE "none"
    BY <2>1, <2>2, <2>3, <2>4
  <2>6. \A x \in Exec : Sane(ex[x])
    BY <2>5 DEF Sane, Bare, Caller
  <2>7. ex \in [Exec -> Executor]
    BY <2>1, <2>2, <2>3
  <2>8. current \in [Queue -> Exec] /\ alive \in Exec /\ alive >= N
    BY SchedAssumption DEF Queue, Exec
  <2>9. \A x \in Exec : x > alive => ex[x].pc = "none"
    BY <2>5, <2>8 DEF Exec
  <2> QED
    BY <2>6, <2>7, <2>8, <2>9 DEF ExType
<1>6. LifeType
  BY <1>1, <1>2 DEF LifeType
<1>7. CellType
  BY DEF CellType
<1> QED
  BY <1>0, <1>3, <1>4, <1>5, <1>6, <1>7 DEF TypeInv

-----------------------------------------------------------------------------

LEMMA TakeType ==
    ASSUME TypeInv, NEW x \in Exec, ex[x].pc = "idle", NEW q \in Queue, queue[q] # <<>>,
           NEW s \in BOOLEAN, Begin(x, Head(queue[q]), s),
           queue' = [queue EXCEPT ![q] = Tail(@)],
           UNCHANGED <<conf, monitorVars, lifeVars, lost, joinVars, step, cellVars, crashed>>
    PROVE  TypeInv'
<1> DEFINE t == Head(queue[q])
<1>1. QueueType' /\ t \in MadeTask
  BY TailType DEF lifeVars
<1> HIDE DEF t
<1>2. /\ \A y \in Exec : y # x => ex'[y] = ex[y]
      /\ \/ ex'[x].pc = "resume" /\ ex'[x].co = t.co /\ ex'[x].n = t.n
         \/ ex'[x].pc \in {"idle", "gone"} /\ ex'[x].co = NoCo
      /\ ex' \in [Exec -> Executor]
  BY <1>1, BeginStep DEF t
<1>3. t.co \in made /\ t.co # NoCo /\ t.n > 0 /\ made' = made
  BY <1>1, ConfFacts, SchedAssumption DEF MadeTask, TypeInv, LifeType, lifeVars
<1>4. ExType'
  BY <1>2, <1>3, ExTypeStep DEF Bare, Caller
<1> QED
  BY <1>1, <1>4 DEF TypeInv, JoinType, MadeJoiner, LifeType, CellType, Prog, lifeVars, joinVars, cellVars

LEMMA DequeueType ==
    ASSUME TypeInv, NEW x \in Exec, Dequeue(x), UNCHANGED conf PROVE TypeInv'
<1>1. ex[x].tq \in Queue
  BY ExFields
<1> QED
  BY <1>1, TakeType DEF Dequeue

(* The tail of a sequence of one element. *)
LEMMA SingleSeq ==
    ASSUME NEW S, NEW s \in Seq(S), Len(s) = 1
    PROVE  s # <<>> /\ Tail(s) = <<>>
<1>1. s # <<>>
  OBVIOUS
<1>2. Tail(s) \in Seq(S) /\ Len(Tail(s)) = 0
  BY <1>1
<1>3. \A t \in Seq(S) : Len(t) = 0 => t = <<>>
  OBVIOUS
<1> QED
  BY <1>1, <1>2, <1>3

(* Stealing a single task is taking it from the queue. *)
LEMMA StealSingleIs ==
    ASSUME TypeInv, NEW x \in Exec, StealSingle(x)
    PROVE  \E q \in Queue : /\ q = (ex[x].tq + 1) % N /\ queue[q] # <<>>
                            /\ Begin(x, Head(queue[q]), TRUE)
                            /\ queue' = [queue EXCEPT ![q] = Tail(@)]
<1> DEFINE q == (ex[x].tq + 1) % N
<1>1. q \in Queue
  BY ExFields, Constants
<1>2. queue[q] \in Seq(MadeTask) /\ Len(queue[q]) = 1
  BY <1>1 DEF StealSingle, TypeInv, QueueType
<1>3. queue[q] # <<>> /\ Tail(queue[q]) = <<>>
  BY <1>2, SingleSeq
<1>4. Begin(x, Head(queue[q]), TRUE) /\ queue' = [queue EXCEPT ![q] = <<>>]
  BY DEF StealSingle
<1> HIDE DEF q
<1>5. queue' = [queue EXCEPT ![q] = Tail(@)]
  BY <1>3, <1>4
<1> QED
  BY <1>1, <1>3, <1>4, <1>5 DEF q

LEMMA StealSingleType ==
    ASSUME TypeInv, NEW x \in Exec, StealSingle(x), UNCHANGED conf PROVE TypeInv'
<1>1. PICK q \in Queue : /\ queue[q] # <<>>
                         /\ Begin(x, Head(queue[q]), TRUE)
                         /\ queue' = [queue EXCEPT ![q] = Tail(@)]
  BY StealSingleIs
<1> QED
  BY <1>1, TakeType DEF StealSingle

(* An executor that sets out to steal has nothing in hand. *)
LEMMA StealHalfStep ==
    ASSUME TypeInv, NEW x \in Exec, StealHalf(x)
    PROVE  /\ \A y \in Exec : y # x => ex'[y] = ex[y]
           /\ ex'[x].pc = "steal" /\ ex'[x].co = NoCo /\ ex'[x].tq = ex[x].tq
           /\ ex' \in [Exec -> Executor]
<1> DEFINE m == Half(Len(queue[(ex[x].tq + 1) % N]))
           r == [NewExecutor(ex[x].tq) EXCEPT !.pc = "steal", !.m = m,
                     !.on = ex[x].on, !.blocking = ex[x].blocking]
<1>1. m \in Nat
  <2>1. queue[(ex[x].tq + 1) % N] \in Seq(MadeTask)
    BY ExFields, Constants DEF TypeInv, QueueType
  <2>2. Len(queue[(ex[x].tq + 1) % N]) \in Nat
    BY <2>1
  <2> QED
    BY <2>2, HalfFact
<1>2. ex' = [ex EXCEPT ![x] = r]
  BY DEF StealHalf
<1> HIDE DEF m
<1>3. r \in Executor /\ r.pc = "steal" /\ r.co = NoCo /\ r.tq = ex[x].tq
  <2>1. /\ NewExecutor(ex[x].tq) \in Executor
        /\ NewExecutor(ex[x].tq).co = NoCo /\ NewExecutor(ex[x].tq).tq = ex[x].tq
    BY ExFields DEF NewExecutor, Executor, ExPc
  <2> QED
    BY <1>1, <2>1, ExFields DEF Executor, ExPc
<1> HIDE DEF r
<1> QED
  BY <1>2, <1>3 DEF TypeInv, ExType

LEMMA StealHalfType ==
    ASSUME TypeInv, NEW x \in Exec, StealHalf(x), UNCHANGED conf PROVE TypeInv'
<1>1. ExType'
  BY StealHalfStep, ExTypeStep DEF StealHalf, Bare, Caller, lifeVars
<1> QED
  BY <1>1 DEF StealHalf, TypeInv, QueueType, MadeTask, JoinType, MadeJoiner, LifeType, CellType,
              Prog, lifeVars, joinVars, cellVars

(* The second queue loses its head to the first, or drops it. *)
LEMMA StealOneIs ==
    ASSUME TypeInv, NEW x \in Exec, StealOne(x)
    PROVE  \E q, p \in Queue :
              /\ p = ex[x].tq
              /\ \A y \in Exec : y # x => ex'[y] = ex[y]
              /\ ex'[x].pc \in {"idle", "steal"} /\ ex'[x].co = NoCo /\ ex'[x].tq = ex[x].tq
              /\ ex' \in [Exec -> Executor]
              /\ \/ UNCHANGED <<queue, lost>>
                 \/ /\ queue[q] # <<>> /\ HasRoom(p) /\ UNCHANGED lost
                    /\ queue' = [queue EXCEPT ![p] = Append(@, Head(queue[q])), ![q] = Tail(@)]
                 \/ /\ queue[q] # <<>>
                    /\ queue' = [queue EXCEPT ![q] = Tail(@)]
                    /\ lost' = IF Valid(Head(queue[q])) THEN lost \cup {Head(queue[q]).co} ELSE lost
<1> DEFINE q == (ex[x].tq + 1) % N
           p == ex[x].tq
<1>0. q \in Queue /\ p \in Queue /\ ex[x].pc = "steal" /\ ex[x].co = NoCo
  BY ExFields, Constants DEF StealOne, Bare
<1>1. CASE Goto(x, "idle") /\ UNCHANGED <<queue, lost>>
  BY <1>0, <1>1, GotoStep DEF ExPc
<1>2. CASE /\ ex[x].m > 0 /\ queue[q] # <<>> /\ HasRoom(p)
           /\ queue' = [queue EXCEPT ![p] = Append(@, Head(queue[q])), ![q] = Tail(@)]
           /\ ex' = [ex EXCEPT ![x].m = @ - 1]
           /\ UNCHANGED lost
  <2>1. ex[x] \in Executor /\ ex \in [Exec -> Executor] /\ ex[x].m \in Nat /\ ex[x].m - 1 \in Nat
    BY <1>2, ExFields DEF TypeInv, ExType
  <2>2. ex' = [ex EXCEPT ![x] = [ex[x] EXCEPT !.m = ex[x].m - 1]]
    BY <1>2
  <2>3. [ex[x] EXCEPT !.m = ex[x].m - 1] \in Executor
    BY <2>1 DEF Executor
  <2>4. /\ \A y \in Exec : y # x => ex'[y] = ex[y]
        /\ ex'[x].pc = "steal" /\ ex'[x].co = NoCo /\ ex'[x].tq = ex[x].tq
        /\ ex' \in [Exec -> Executor]
    BY <1>0, <2>1, <2>2, <2>3 DEF Executor
  <2> QED
    BY <1>0, <1>2, <2>4
<1>3. CASE /\ queue[q] # <<>>
           /\ queue' = [queue EXCEPT ![q] = Tail(@)]
           /\ lost' = IF Valid(Head(queue[q])) THEN lost \cup {Head(queue[q]).co} ELSE lost
           /\ Goto(x, "idle")
  BY <1>0, <1>3, GotoStep DEF ExPc
<1> QED
  BY <1>1, <1>2, <1>3 DEF StealOne

(* Parts of the state that a step leaves alone. *)
LEMMA SameQueue == TypeInv /\ UNCHANGED <<queue, made, conf>> => QueueType'
BY DEF TypeInv, QueueType, MadeTask

LEMMA SameJoin == TypeInv /\ UNCHANGED <<joiners, made>> => JoinType'
BY DEF TypeInv, JoinType, MadeJoiner

LEMMA SameLife == TypeInv /\ UNCHANGED <<lifeVars, lost, crashed, conf>> => LifeType'
BY DEF TypeInv, LifeType, lifeVars, Prog

LEMMA SameCells ==
    TypeInv /\ UNCHANGED <<waitsFor, held, cells, made>> /\ step' \in [Co -> Nat \ {0}] => CellType'
BY DEF TypeInv, CellType

LEMMA SameStep == TypeInv /\ UNCHANGED step => step' \in [Co -> Nat \ {0}]
BY DEF TypeInv, CellType

LEMMA MoreLost ==
    TypeInv /\ UNCHANGED <<made, started, stopped, crashed, conf>> /\ lost' \subseteq Co => LifeType'
BY DEF TypeInv, LifeType, Prog

USE DEF lifeVars, joinVars, cellVars

LEMMA StealOneType ==
    ASSUME TypeInv, NEW x \in Exec, StealOne(x), UNCHANGED conf PROVE TypeInv'
<1>1. PICK q, p \in Queue :
              /\ \A y \in Exec : y # x => ex'[y] = ex[y]
              /\ ex'[x].pc \in {"idle", "steal"} /\ ex'[x].co = NoCo
              /\ ex' \in [Exec -> Executor]
              /\ \/ UNCHANGED <<queue, lost>>
                 \/ /\ queue[q] # <<>> /\ HasRoom(p) /\ UNCHANGED lost
                    /\ queue' = [queue EXCEPT ![p] = Append(@, Head(queue[q])), ![q] = Tail(@)]
                 \/ /\ queue[q] # <<>>
                    /\ queue' = [queue EXCEPT ![q] = Tail(@)]
                    /\ lost' = IF Valid(Head(queue[q])) THEN lost \cup {Head(queue[q]).co} ELSE lost
  BY StealOneIs
<1>2. UNCHANGED <<monitorVars, lifeVars, joinVars, step, cellVars, crashed>> /\ ex[x].pc # "none"
  BY DEF StealOne
<1>3. ExType'
  BY <1>1, <1>2, ExTypeStep DEF Bare, Caller
<1>4. JoinType' /\ CellType'
  BY <1>2, SameJoin, SameCells, SameStep
<1>5. QueueType' /\ lost' \subseteq Co
  <2>1. CASE UNCHANGED <<queue, lost>>
    BY <1>2, <2>1, SameQueue DEF TypeInv, LifeType
  <2>2. CASE /\ queue[q] # <<>> /\ HasRoom(p) /\ UNCHANGED lost
             /\ queue' = [queue EXCEPT ![p] = Append(@, Head(queue[q])), ![q] = Tail(@)]
    <3> DEFINE t == Head(queue[q])
    <3>0. \A r \in Queue : queue[r] \in Seq(MadeTask) /\ Len(queue[r]) <= conf.qcap
      BY DEF TypeInv, QueueType
    <3>1. t \in MadeTask /\ Tail(queue[q]) \in Seq(MadeTask) /\ Len(Tail(queue[q])) = Len(queue[q]) - 1
          /\ Len(queue[q]) \in Nat
      BY <2>2, <3>0, HeadFact
    <3>2. conf.qcap \in Nat
      BY ConfFacts DEF TypeInv
    <3>3. CASE p # q
      <4>1. Append(queue[p], t) \in Seq(MadeTask) /\ Len(Append(queue[p], t)) = Len(queue[p]) + 1
            /\ Len(queue[p]) \in Nat
        BY <3>0, <3>1, AppendFact
      <4>2. queue' = [queue EXCEPT ![p] = Append(queue[p], t), ![q] = Tail(queue[q])]
        BY <2>2, <3>3
      <4> HIDE DEF t
      <4>3. Len(Append(queue[p], t)) <= conf.qcap /\ Len(Tail(queue[q])) <= conf.qcap
        BY <2>2, <3>0, <3>1, <3>2, <4>1 DEF HasRoom
      <4>4. /\ queue'[p] = Append(queue[p], t) /\ queue'[q] = Tail(queue[q])
            /\ \A r \in Queue : r # p /\ r # q => queue'[r] = queue[r]
            /\ DOMAIN queue' = Queue /\ queue' = [r \in Queue |-> queue'[r]]
        BY <3>3, <4>2 DEF TypeInv, QueueType
      <4>5. \A r \in Queue : queue'[r] \in Seq(MadeTask) /\ Len(queue'[r]) <= conf.qcap
        BY <3>0, <3>1, <4>1, <4>3, <4>4
      <4>6. queue' \in [Queue -> Seq(MadeTask)] /\ \A r \in Queue : Len(queue'[r]) <= conf.qcap
        BY <4>4, <4>5
      <4> QED
        BY <1>2, <2>2, <4>6 DEF QueueType, MadeTask, TypeInv, LifeType
    <3>4. CASE p = q
      <4>1. Append(queue[p], t) \in Seq(MadeTask) /\ Append(queue[p], t) # <<>>
            /\ Len(Append(queue[p], t)) = Len(queue[p]) + 1
            /\ Len(queue[p]) \in Nat
        BY <3>0, <3>1
      <4>2. Tail(Append(queue[p], t)) \in Seq(MadeTask) /\ Len(Tail(Append(queue[p], t))) = Len(queue[p])
        BY <4>1, HeadFact
      <4>3. queue' = [queue EXCEPT ![p] = Tail(Append(queue[p], t))]
        BY <2>2, <3>4 DEF TypeInv, QueueType
      <4> HIDE DEF t
      <4>4. queue' \in [Queue -> Seq(MadeTask)] /\ \A r \in Queue : Len(queue'[r]) <= conf.qcap
        BY <3>0, <4>2, <4>3 DEF TypeInv, QueueType
      <4> QED
        BY <1>2, <2>2, <4>4 DEF QueueType, MadeTask, TypeInv, LifeType
    <3> QED
      BY <3>3, <3>4
  <2>3. CASE /\ queue[q] # <<>>
             /\ queue' = [queue EXCEPT ![q] = Tail(@)]
             /\ lost' = IF Valid(Head(queue[q])) THEN lost \cup {Head(queue[q]).co} ELSE lost
    <3>1. QueueType' /\ Head(queue[q]) \in MadeTask
      BY <1>2, <2>3, TailType
    <3> QED
      BY <2>3, <3>1, ConfFacts DEF MadeTask, TypeInv, LifeType
  <2> QED
    BY <1>1, <2>1, <2>2, <2>3
<1> QED
  BY <1>2, <1>3, <1>4, <1>5, MoreLost DEF TypeInv

LEMMA ResumeType ==
    ASSUME TypeInv, NEW x \in Exec, Resume(x), UNCHANGED conf PROVE TypeInv'
<1> DEFINE c == ex[x].co
<1>0. c \in made /\ c \in Co /\ c # NoCo /\ ex[x].pc = "resume" /\ ex[x].n > 0 /\ ex[x].n \in Nat
  BY ExFields DEF Resume, Bare
<1>1. QueueType' /\ JoinType'
  BY SameQueue, SameJoin DEF Resume
<1>2. CASE Valid(ex[x])
  <2>1. /\ started' = started \cup {c}
        /\ held' = [held EXCEPT ![c] = 0]
        /\ step' = IF waitsFor[c] = NoCo THEN step ELSE [step EXCEPT ![c] = @ + 1]
        /\ waitsFor' = [waitsFor EXCEPT ![c] = NoCo]
        /\ Goto(x, "run")
        /\ UNCHANGED crashed
    BY <1>2 DEF Resume
  <2>2. ExType'
    BY <1>0, <2>1, GotoStep, ExTypeStep DEF Bare, Caller, ExPc, Resume
  <2>3. LifeType'
    BY <1>0, <2>1 DEF TypeInv, LifeType, Resume, Prog
  <2>4. CellType'
    <3>1. step' \in [Co -> Nat \ {0}]
      BY <1>0, <2>1 DEF TypeInv, CellType
    <3>2. waitsFor' \in [Co -> Co \cup {NoCo}] /\ \A d \in Co : d # c => waitsFor'[d] = waitsFor[d]
      BY <1>0, <2>1 DEF TypeInv, CellType
    <3> HIDE DEF c
    <3> QED
      BY <1>0, <2>1, <3>1, <3>2, HeldStep DEF Resume
  <2> QED
    BY <1>1, <2>2, <2>3, <2>4 DEF TypeInv
<1>3. CASE ~Valid(ex[x])
  <2>1. crashed' = TRUE /\ UNCHANGED <<started, held, step, waitsFor, ex>>
    BY <1>3 DEF Resume
  <2>2. ExType' /\ LifeType' /\ CellType'
    BY <2>1 DEF TypeInv, ExType, Sane, LifeType, CellType, Resume, Prog, monitorVars
  <2> QED
    BY <1>1, <2>2 DEF TypeInv
<1> QED
  BY <1>2, <1>3

LEMMA YieldType ==
    ASSUME TypeInv, NEW x \in Exec, Yield(x), UNCHANGED conf PROVE TypeInv'
<1> DEFINE c == ex[x].co
           t == [co |-> c, n |-> ex[x].n]
<1>0. c \in made /\ c \in Co /\ ex[x].pc = "run" /\ ex[x].n > 0 /\ ex[x].n \in Nat /\ ex[x].tq \in Queue
  BY ExFields DEF Yield, Runs, Bare
<1>1. t \in MadeTask
  BY <1>0 DEF MadeTask
<1>2. QueueType' /\ lost' \subseteq Co
  BY <1>0, <1>1, EnqueueType DEF Yield
<1>3. ExType'
  BY <1>0, EndStep, ExTypeStep DEF Bare, Caller, Yield
<1>4. JoinType' /\ LifeType'
  BY <1>2, SameJoin, MoreLost DEF Yield
<1>5. CellType'
  <2>1. /\ held' = [held EXCEPT ![c] = ex[x].n] /\ Advance(c) /\ UNCHANGED <<cells, made, waitsFor>>
    BY DEF Yield
  <2>2. step' \in [Co -> Nat \ {0}]
    BY <1>0, <2>1, StepAdvances
  <2>3. waitsFor' \in [Co -> Co \cup {NoCo}] /\ \A d \in Co : d # c => waitsFor'[d] = waitsFor[d]
    BY <2>1 DEF TypeInv, CellType
  <2> HIDE DEF c
  <2> QED
    BY <1>0, <2>1, <2>2, <2>3, HeldStep
<1> QED
  BY <1>2, <1>3, <1>4, <1>5 DEF TypeInv, Yield

(* Steps by which an executor goes on with its coroutine. *)
LEMMA GotoType ==
    ASSUME TypeInv, NEW x \in Exec, ex[x].pc \notin Bare,
           NEW pc, pc \in ExPc \ Bare, pc \in Caller => ex[x].pc \in Caller, Goto(x, pc),
           UNCHANGED <<conf, queue, monitorVars, made, started, lost, waitsFor, joiners, cellVars, crashed>>,
           step' \in [Co -> Nat \ {0}], stopped' \subseteq Co
    PROVE  TypeInv'
<1>1. ex[x].co \in made /\ ex[x].co # NoCo /\ ex[x].n > 0 /\ (ex[x].pc \in Caller => ex[x].m > 0)
  BY ExFields
<1>2. ex'[x].pc = pc /\ ex'[x].co = ex[x].co /\ ex'[x].n = ex[x].n /\ ex'[x].m = ex[x].m
      /\ ex' \in [Exec -> Executor] /\ \A y \in Exec : y # x => ex'[y] = ex[y]
  BY GotoStep
<1>3. ExType'
  BY <1>1, <1>2, ExTypeStep DEF Bare
<1> QED
  BY <1>3, SameQueue, SameJoin, SameCells DEF TypeInv, LifeType, Prog

LEMMA BlockType ==
    ASSUME TypeInv, NEW x \in Exec, Block(x), UNCHANGED conf PROVE TypeInv'
<1>1. "blocked" \in ExPc \ Bare /\ "blocked" \notin Caller
  BY DEF ExPc, Bare, Caller
<1>2. ex[x].pc \notin Bare /\ stopped' \subseteq Co
  BY DEF Block, Runs, Bare, TypeInv, LifeType
<1> QED
  BY <1>1, <1>2, GotoType, SameStep DEF Block

LEMMA UnblockType ==
    ASSUME TypeInv, NEW x \in Exec, Unblock(x), UNCHANGED conf PROVE TypeInv'
<1>1. "run" \in ExPc \ Bare /\ "run" \notin Caller
  BY DEF ExPc, Bare, Caller
<1>2. ex[x].pc \notin Bare /\ stopped' \subseteq Co
  BY DEF Unblock, Bare, TypeInv, LifeType
<1>3. step' \in [Co -> Nat \ {0}]
  BY <1>2, ExFields, StepAdvances DEF Unblock
<1> QED
  BY <1>1, <1>2, <1>3, GotoType DEF Unblock

LEMMA JoinReturnsType ==
    ASSUME TypeInv, NEW x \in Exec, JoinReturns(x), UNCHANGED conf PROVE TypeInv'
<1>1. ex[x].pc \notin Bare
  BY DEF JoinReturns, Runs, Bare
<1>2. step' \in [Co -> Nat \ {0}]
  BY <1>1, ExFields, StepAdvances DEF JoinReturns
<1> QED
  BY <1>2, SameQueue, SameJoin, SameCells, SameLife DEF JoinReturns, TypeInv, ExType, Sane, monitorVars

LEMMA CheckType ==
    ASSUME TypeInv, NEW x \in Exec, Check(x), UNCHANGED conf PROVE TypeInv'
<1>1. "move" \in ExPc \ Bare /\ ex[x].pc \in Caller /\ ex[x].pc \notin Bare
  BY DEF ExPc, Bare, Caller, Check
<1>2. CASE Goto(x, "move")
  BY <1>1, <1>2, GotoType, SameStep DEF Check, TypeInv, LifeType
<1>3. CASE EndExec(x)
  <2>1. ExType'
    BY <1>1, <1>3, EndStep, ExTypeStep DEF Check, Bare, Caller
  <2> QED
    BY <2>1, SameQueue, SameJoin, SameCells, SameStep, SameLife DEF Check, TypeInv
<1> QED
  BY <1>2, <1>3 DEF Check

LEMMA EndType ==
    ASSUME TypeInv, NEW x \in Exec, End(x), UNCHANGED conf PROVE TypeInv'
<1>1. "wake" \in ExPc \ Bare /\ "wake" \notin Caller /\ ex[x].pc \notin Bare
  BY DEF ExPc, Bare, Caller, End
<1>2. stopped' \subseteq Co
  BY <1>1, ExFields DEF End, TypeInv, LifeType
<1> QED
  BY <1>1, <1>2, GotoType, SameStep DEF End

LEMMA MoveType ==
    ASSUME TypeInv, NEW x \in Exec, Move(x), UNCHANGED conf PROVE TypeInv'
<1> DEFINE c == ex[x].co
<1>0. c \in made /\ c \in Co /\ c # NoCo /\ ex[x].pc = "move" /\ ex[x].n > 0
  BY ExFields DEF Move, Bare
<1>1. QueueType' /\ JoinType' /\ LifeType' /\ (UNCHANGED crashed \/ crashed' = TRUE)
  BY SameQueue, SameJoin DEF Move, TypeInv, LifeType, Prog
<1>2. CASE held[c] = ex[x].m /\ waitsFor[c] # NoCo
  <2>1. /\ held' = [held EXCEPT ![c] = 0]
        /\ waitsFor' = [waitsFor EXCEPT ![c] = NoCo]
        /\ Advance(c)
        /\ Goto(x, "run")
        /\ UNCHANGED <<cells, made, monitorVars>>
    BY <1>2 DEF Move
  <2>2. ExType'
    BY <1>0, <2>1, GotoStep, ExTypeStep DEF Bare, Caller, ExPc
  <2>3. step' \in [Co -> Nat \ {0}]
    BY <1>0, <2>1, StepAdvances
  <2>4. waitsFor' \in [Co -> Co \cup {NoCo}] /\ \A d \in Co : d # c => waitsFor'[d] = waitsFor[d]
    BY <1>0, <2>1 DEF TypeInv, CellType
  <2> HIDE DEF c
  <2>5. CellType'
    BY <1>0, <2>1, <2>3, <2>4, HeldStep
  <2> QED
    BY <1>1, <2>2, <2>5 DEF TypeInv
<1>3. CASE held[c] # ex[x].m \/ waitsFor[c] = NoCo
  BY <1>1, <1>3 DEF Move, TypeInv, ExType, Sane, CellType, monitorVars
<1> QED
  BY <1>2, <1>3

LEMMA CreateType ==
    ASSUME TypeInv, NEW x \in Exec, Create(x), UNCHANGED conf PROVE TypeInv'
<1> DEFINE d == Arg(x)
           T == [co : made', n : Nat \ {0}]
           J == [co : made', n : Nat \ {0}, tq : Queue]
<1>0. d \in DOMAIN Prog /\ d \in Co /\ d \notin made /\ made' = made \cup {d} /\ Prog' = Prog
  BY ArgFact, ConfFacts DEF Create, TypeInv, Prog
<1> HIDE DEF d
<1>1. ex[x].pc = "run" /\ ex[x].co \in Co
  BY ExFields DEF Create, Runs, Bare
<1>2. ExType'
  BY <1>0 DEF Create, TypeInv, ExType, Sane, monitorVars
<1>3. JoinType'
  <2>1. MadeJoiner \subseteq J
    BY <1>0 DEF MadeJoiner
  <2>2. \A t \in Co : joiners[t] \in Seq(J)
    BY <2>1, LargerSeq DEF TypeInv, JoinType
  <2>3. UNCHANGED joiners
    BY DEF Create
  <2> QED
    BY <2>2, <2>3 DEF TypeInv, JoinType, MadeJoiner
<1>4. QueueType' /\ lost' \subseteq Co
  <2>1. MadeTask \subseteq T
    BY <1>0 DEF MadeTask
  <2>2. \A q \in Queue : queue[q] \in Seq(T) /\ Len(queue[q]) <= conf.qcap
    <3> HIDE DEF T
    <3>1. \A q \in Queue : queue[q] \in Seq(MadeTask) /\ Len(queue[q]) <= conf.qcap
      BY DEF TypeInv, QueueType
    <3> QED
      BY <2>1, <3>1, LargerSeq
  <2>3. conf.qcap \in Nat
    BY ConfFacts DEF TypeInv
  <2>4. CASE UNCHANGED queue /\ lost' = lost \cup {d}
    BY <1>0, <2>2, <2>4 DEF TypeInv, QueueType, MadeTask, LifeType
  <2>5. ASSUME NEW q \in Queue, HasRoom(q), UNCHANGED lost,
               queue' = [queue EXCEPT ![q] = Append(@, [co |-> d, n |-> 1])]
        PROVE  QueueType' /\ lost' \subseteq Co
    <3> DEFINE t == [co |-> d, n |-> 1]
    <3>1. t \in T
      BY <1>0
    <3>2. Append(queue[q], t) \in Seq(T) /\ Len(Append(queue[q], t)) = Len(queue[q]) + 1
          /\ Len(queue[q]) \in Nat
      BY <2>2, <3>1, AppendFact
    <3> HIDE DEF t, T
    <3>3. Len(Append(queue[q], t)) <= conf.qcap
      BY <2>3, <2>5, <3>2 DEF HasRoom
    <3>4. /\ queue' \in [Queue -> Seq(T)] /\ \A p \in Queue : Len(queue'[p]) <= conf.qcap
      BY <2>2, <2>5, <3>2, <3>3 DEF t, TypeInv, QueueType
    <3> QED
      BY <2>5, <3>4 DEF T, QueueType, MadeTask, TypeInv, LifeType
  <2> QED
    BY <2>4, <2>5 DEF Create, d
<1>5. LifeType'
  BY <1>0, <1>4 DEF Create, TypeInv, LifeType
<1>6. CellType'
  BY <1>0, <1>1, StepAdvances DEF Create, TypeInv, CellType
<1> QED
  BY <1>2, <1>3, <1>4, <1>5, <1>6 DEF TypeInv

LEMMA JoinStep ==
    ASSUME TypeInv, NEW x \in Exec, Join(x)
    PROVE  LET c == ex[x].co
               m == cells[c] + 1
           IN  /\ c \in made /\ c \in Co /\ c # NoCo /\ ex[x].n > 0 /\ m \in Nat \ {0}
               /\ \A y \in Exec : y # x => ex'[y] = ex[y]
               /\ ex[x].pc = "run" /\ ex'[x].pc = "push" /\ ex'[x].co = c /\ ex'[x].n = ex[x].n
               /\ ex'[x].m = m /\ ex'[x].tq = ex[x].tq /\ ex'[x].on = ex[x].on
               /\ ex' \in [Exec -> Executor]
<1> DEFINE c == ex[x].co
           m == cells[c] + 1
           r == [ex[x] EXCEPT !.pc = "push", !.m = m]
<1>0. c \in made /\ c \in Co /\ c # NoCo /\ ex[x].n > 0 /\ ex[x].pc = "run"
  BY ExFields DEF Join, Runs, Bare
<1>1. m \in Nat \ {0}
  BY <1>0 DEF TypeInv, CellType
<1>2. ex' = [ex EXCEPT ![x] = r]
  BY DEF Join
<1>3. ex[x] \in Executor /\ ex \in [Exec -> Executor]
  BY DEF TypeInv, ExType
<1> HIDE DEF m
<1>4. r \in Executor /\ r.pc = "push" /\ r.m = m /\ r.co = c /\ r.n = ex[x].n /\ r.tq = ex[x].tq
      /\ r.on = ex[x].on
  BY <1>1, <1>3 DEF Executor, ExPc
<1> HIDE DEF r, c
<1>5. ex'[x] = r /\ (\A y \in Exec : y # x => ex'[y] = ex[y]) /\ ex' \in [Exec -> Executor]
  BY <1>2, <1>3, <1>4
<1> QED
  BY <1>0, <1>1, <1>4, <1>5 DEF c, m

LEMMA JoinIsTyped ==
    ASSUME TypeInv, NEW x \in Exec, Join(x), UNCHANGED conf PROVE TypeInv'
<1> DEFINE c == ex[x].co
           m == cells[c] + 1
<1>1. /\ c \in made /\ c \in Co /\ c # NoCo /\ ex[x].n > 0 /\ m \in Nat \ {0}
      /\ ex[x].pc = "run"
      /\ ex'[x].pc = "push" /\ ex'[x].co = c /\ ex'[x].n = ex[x].n /\ ex'[x].m = m
      /\ ex' \in [Exec -> Executor] /\ \A y \in Exec : y # x => ex'[y] = ex[y]
  BY JoinStep
<1>2. /\ waitsFor' = [waitsFor EXCEPT ![c] = Arg(x)] /\ cells' = [cells EXCEPT ![c] = m]
      /\ held' = [held EXCEPT ![c] = m]
      /\ UNCHANGED <<queue, monitorVars, lifeVars, lost, joiners, step, crashed>>
  BY DEF Join
<1>3. Arg(x) \in Co
  BY ArgFact DEF Join
<1> HIDE DEF c, m
<1>4. ExType'
  BY <1>1, <1>2, ExTypeStep DEF Bare, Caller
<1>5. CellType'
  BY <1>1, <1>2, <1>3, ConfFacts DEF TypeInv, CellType, LifeType
<1> QED
  BY <1>2, <1>4, <1>5, SameQueue, SameJoin, SameLife DEF TypeInv

LEMMA PushType ==
    ASSUME TypeInv, NEW x \in Exec, Push(x), UNCHANGED conf PROVE TypeInv'
<1> DEFINE c == ex[x].co
           t == waitsFor[c]
           w == [co |-> c, n |-> ex[x].m, tq |-> ex[x].tq]
<1>0. /\ c \in made /\ c \in Co /\ c # NoCo /\ ex[x].pc = "push" /\ ex[x].n > 0
      /\ ex[x].m > 0 /\ ex[x].m \in Nat /\ ex[x].tq \in Queue
  BY ExFields DEF Push, Bare, Caller
<1>1. UNCHANGED <<queue, monitorVars, lifeVars, waitsFor, step, cells, crashed>>
  BY DEF Push
<1>2. QueueType'
  BY <1>1, SameQueue
<1>3. CASE /\ joiners' = [joiners EXCEPT ![t] = Append(@, w)]
           /\ Goto(x, "check")
           /\ UNCHANGED <<held, lost>>
  <2>1. w \in MadeJoiner
    BY <1>0 DEF MadeJoiner
  <2> HIDE DEF w
  <2>2. \A d \in Co : Append(joiners[d], w) \in Seq(MadeJoiner)
    BY <2>1, AppendFact DEF TypeInv, JoinType
  <2> HIDE DEF t
  <2>3. JoinType'
    BY <1>1, <1>3, <2>2 DEF TypeInv, JoinType, MadeJoiner
  <2>4. ExType'
    BY <1>0, <1>1, <1>3, GotoStep, ExTypeStep DEF Bare, Caller, ExPc
  <2> QED
    BY <1>1, <1>2, <1>3, <2>3, <2>4, SameLife, SameCells, SameStep DEF TypeInv
<1>4. CASE /\ held' = [held EXCEPT ![c] = 0]
           /\ lost' = lost \cup {c}
           /\ EndExec(x)
           /\ UNCHANGED joiners
  <2>1. ExType'
    BY <1>0, <1>1, <1>4, EndStep, ExTypeStep DEF Bare, Caller
  <2>2. step' \in [Co -> Nat \ {0}] /\ waitsFor' \in [Co -> Co \cup {NoCo}]
        /\ \A d \in Co : d # c => waitsFor'[d] = waitsFor[d]
    BY <1>1 DEF TypeInv, CellType
  <2> HIDE DEF c
  <2>3. CellType'
    BY <1>0, <1>1, <1>4, <2>2, HeldStep
  <2>4. LifeType'
    BY <1>0, <1>1, <1>4 DEF TypeInv, LifeType, Prog
  <2> QED
    BY <1>1, <1>2, <1>4, <2>1, <2>3, <2>4, SameJoin DEF TypeInv
<1> QED
  BY <1>3, <1>4 DEF Push

LEMMA WakeType ==
    ASSUME TypeInv, NEW x \in Exec, Wake(x), UNCHANGED conf PROVE TypeInv'
<1> DEFINE c == ex[x].co
           w == Head(joiners[c])
           t == [co |-> w.co, n |-> w.n]
<1>0. c \in Co /\ ex[x].pc = "wake"
  BY ExFields DEF Wake, Bare
<1>1. UNCHANGED <<monitorVars, lifeVars, waitsFor, step, cellVars, crashed>>
  BY DEF Wake
<1>2. CellType'
  BY <1>1, SameCells, SameStep
<1>3. CASE joiners[c] = <<>>
  <2>1. EndExec(x) /\ UNCHANGED <<queue, lost, joiners>>
    BY <1>3 DEF Wake
  <2>2. ExType'
    BY <1>0, <1>1, <2>1, EndStep, ExTypeStep DEF Bare, Caller
  <2> QED
    BY <1>1, <1>2, <2>1, <2>2, SameQueue, SameJoin, SameLife DEF TypeInv
<1>4. CASE joiners[c] # <<>>
  <2>1. /\ joiners' = [joiners EXCEPT ![c] = Tail(joiners[c])]
        /\ UNCHANGED ex
        /\ IF Valid(w) THEN Enqueue(w.tq, t) ELSE UNCHANGED <<queue, lost>>
    BY <1>4 DEF Wake
  <2>2. w \in MadeJoiner /\ Tail(joiners[c]) \in Seq(MadeJoiner)
    BY <1>0, <1>4, HeadFact DEF TypeInv, JoinType
  <2>3. w.tq \in Queue /\ t \in MadeTask
    BY <2>2 DEF MadeJoiner, MadeTask
  <2> HIDE DEF w, t
  <2>4. JoinType'
    BY <1>0, <1>1, <2>1, <2>2 DEF TypeInv, JoinType, MadeJoiner
  <2>5. QueueType' /\ lost' \subseteq Co
    <3>1. CASE Valid(w)
      BY <1>1, <2>1, <2>3, <3>1, EnqueueType
    <3>2. CASE ~Valid(w)
      BY <1>1, <2>1, <3>2, SameQueue DEF TypeInv, LifeType
    <3> QED
      BY <3>1, <3>2
  <2>6. ExType'
    BY <1>1, <2>1 DEF TypeInv, ExType, Sane, monitorVars
  <2> QED
    BY <1>1, <1>2, <2>4, <2>5, <2>6, MoreLost DEF TypeInv
<1> QED
  BY <1>3, <1>4

(* The monitor changes no hands. *)
LEMMA MarkStep ==
    ASSUME TypeInv, NEW q \in Queue, Mark(q)
    PROVE  /\ \A y \in Exec : /\ ex'[y].pc = ex[y].pc /\ ex'[y].co = ex[y].co
                              /\ ex'[y].n = ex[y].n /\ ex'[y].m = ex[y].m
                              /\ ex'[y].tq = ex[y].tq /\ ex'[y].on = ex[y].on
           /\ ex' \in [Exec -> Executor]
<1> DEFINE x == current[q]
           r == [ex[x] EXCEPT !.blocking = TRUE]
<1>1. x \in Exec /\ ex \in [Exec -> Executor] /\ ex[x] \in Executor
  BY DEF TypeInv, ExType
<1>2. ex' = [ex EXCEPT ![x] = r]
  BY DEF Mark
<1>3. /\ r \in Executor /\ r.pc = ex[x].pc /\ r.co = ex[x].co /\ r.n = ex[x].n /\ r.m = ex[x].m
      /\ r.tq = ex[x].tq /\ r.on = ex[x].on
  BY <1>1 DEF Executor
<1> HIDE DEF x, r
<1> QED
  BY <1>1, <1>2, <1>3

LEMMA MarkType ==
    ASSUME TypeInv, NEW q \in Queue, Mark(q), UNCHANGED conf PROVE TypeInv'
<1>1. /\ \A y \in Exec : /\ ex'[y].pc = ex[y].pc /\ ex'[y].co = ex[y].co
                          /\ ex'[y].n = ex[y].n /\ ex'[y].m = ex[y].m
      /\ ex' \in [Exec -> Executor] /\ UNCHANGED <<monitorVars, made>>
  BY MarkStep DEF Mark
<1>2. \A y \in Exec : Sane(ex[y])'
  BY <1>1 DEF TypeInv, ExType, Sane
<1>3. ExType'
  BY <1>1, <1>2 DEF TypeInv, ExType, monitorVars
<1> QED
  BY <1>3, SameQueue, SameJoin, SameLife, SameCells, SameStep DEF Mark, TypeInv

(* The new executor starts idle; the replaced one keeps what it has in hand. *)
LEMMA ReplaceStep ==
    ASSUME TypeInv, NEW q \in Queue, Replace(q)
    PROVE  \E x, z \in Exec :
             /\ x = current[q] /\ z = alive + 1 /\ x # z
             /\ ex[x].pc # "none" /\ ex[z].pc = "none"
             /\ \A y \in Exec : y # x /\ y # z => ex'[y] = ex[y]
             /\ ex'[z].pc = "idle" /\ ex'[z].co = NoCo /\ ex'[z].tq = q
             /\ ex'[x].pc = ex[x].pc /\ ex'[x].co = ex[x].co /\ ex'[x].n = ex[x].n
             /\ ex'[x].m = ex[x].m /\ ex'[x].tq = ex[x].tq
             /\ ex' \in [Exec -> Executor]
             /\ current' = [current EXCEPT ![q] = z] /\ alive' = z
<1> DEFINE x == current[q]
           z == alive + 1
           r == [ex[x] EXCEPT !.on = FALSE]
<1>1. x \in Exec /\ ex \in [Exec -> Executor] /\ ex[x] \in Executor
  BY DEF TypeInv, ExType
<1>2. z \in Exec /\ z > alive
  BY SchedAssumption DEF Replace, TypeInv, ExType, Exec
<1>3. ex[z].pc = "none" /\ ex[x].pc # "none" /\ x # z
  BY <1>2 DEF Replace, Executing, TypeInv, ExType
<1>4. ex' = [ex EXCEPT ![x].on = FALSE, ![z] = NewExecutor(q)]
  BY DEF Replace
<1>5. /\ r \in Executor /\ r.pc = ex[x].pc /\ r.co = ex[x].co /\ r.n = ex[x].n /\ r.m = ex[x].m
      /\ r.tq = ex[x].tq
  BY <1>1 DEF Executor
<1>6. NewExecutor(q) \in Executor /\ NewExecutor(q).pc = "idle" /\ NewExecutor(q).co = NoCo
      /\ NewExecutor(q).tq = q
  BY DEF NewExecutor, Executor, ExPc
<1>7. ex' = [ex EXCEPT ![x] = r, ![z] = NewExecutor(q)]
  BY <1>4
<1>8. current' = [current EXCEPT ![q] = z] /\ alive' = z
  BY DEF Replace
<1> HIDE DEF x, z, r
<1>9. /\ ex'[x] = r /\ ex'[z] = NewExecutor(q)
      /\ \A y \in Exec : y # x /\ y # z => ex'[y] = ex[y]
      /\ ex' \in [Exec -> Executor]
  BY <1>1, <1>2, <1>3, <1>5, <1>6, <1>7
<1> QED
  BY <1>1, <1>2, <1>3, <1>5, <1>6, <1>8, <1>9 DEF x, z

LEMMA ReplaceType ==
    ASSUME TypeInv, NEW q \in Queue, Replace(q), UNCHANGED conf PROVE TypeInv'
<1>1. PICK x, z \in Exec :
             /\ x = current[q] /\ z = alive + 1 /\ x # z
             /\ ex[x].pc # "none" /\ ex[z].pc = "none"
             /\ \A y \in Exec : y # x /\ y # z => ex'[y] = ex[y]
             /\ ex'[z].pc = "idle" /\ ex'[z].co = NoCo
             /\ ex'[x].pc = ex[x].pc /\ ex'[x].co = ex[x].co /\ ex'[x].n = ex[x].n
             /\ ex'[x].m = ex[x].m
             /\ ex' \in [Exec -> Executor]
             /\ current' = [current EXCEPT ![q] = z] /\ alive' = z
  BY ReplaceStep
<1>2. \A y \in Exec : Sane(ex'[y])
  BY <1>1 DEF TypeInv, ExType, Sane, Bare, Caller
<1>3. UNCHANGED made
  BY DEF Replace
<1>4. \A y \in Exec : y > z => ex'[y].pc = "none"
  <2> TAKE y \in Exec
  <2>1. x <= alive /\ alive \in Nat /\ y \in Nat
    BY <1>1 DEF TypeInv, ExType, Exec
  <2> QED
    BY <1>1, <2>1 DEF TypeInv, ExType
<1>5. ExType'
  BY <1>1, <1>2, <1>3, <1>4, SchedAssumption DEF TypeInv, ExType, Exec, Sane
<1> QED
  BY <1>5, SameQueue, SameJoin, SameLife, SameCells, SameStep DEF Replace, TypeInv

LEMMA TypeStep == TypeInv /\ [Next]_vars => TypeInv'
<1> SUFFICES ASSUME TypeInv, [Next]_vars PROVE TypeInv'
  OBVIOUS
<1>1. CASE UNCHANGED vars
  BY <1>1, SameQueue, SameJoin, SameLife, SameCells, SameStep
     DEF vars, TypeInv, ExType, Sane, monitorVars
<1>2. CASE AllQuiet
  BY <1>2, SameQueue, SameJoin, SameLife, SameCells, SameStep
     DEF AllQuiet, vars, TypeInv, ExType, Sane, monitorVars
<1>3. ASSUME NEW x \in Exec, Work(x) PROVE TypeInv'
  BY <1>3, DequeueType, StealSingleType, StealHalfType, StealOneType, ResumeType, YieldType,
     BlockType, CreateType, JoinReturnsType, JoinIsTyped, PushType, CheckType, MoveType,
     EndType, WakeType DEF Work, WorkOf
<1>4. ASSUME NEW x \in Exec, Unblock(x), UNCHANGED conf PROVE TypeInv'
  BY <1>4, UnblockType
<1>5. ASSUME NEW q \in Queue, Monitor(q) PROVE TypeInv'
  BY <1>5, MarkType, ReplaceType DEF Monitor
<1> QED
  BY <1>1, <1>2, <1>3, <1>4, <1>5 DEF Next

LEMMA TypeInvHolds == Spec => []TypeInv
BY InitType, TypeStep, PTL DEF Spec

(* The state of the scheduler keeps its type. *)
THEOREM TypeCorrect == Spec => []TypeOK
<1>1. TypeInv => TypeOK
  <2> SUFFICES ASSUME TypeInv PROVE TypeOK
    OBVIOUS
  <2>1. made \subseteq Co
    BY ConfFacts DEF TypeInv, LifeType
  <2>2. MadeTask \subseteq Task /\ MadeJoiner \subseteq Joiner
    BY <2>1 DEF MadeTask, MadeJoiner, Task, Joiner
  <2>3. queue \in [Queue -> Seq(Task)] /\ joiners \in [Co -> Seq(Joiner)]
    BY <2>2, LargerSeq DEF TypeInv, QueueType, JoinType
  <2> QED
    BY <2>1, <2>3 DEF TypeInv, ExType, Sane, Bare, LifeType, CellType, TypeOK
<1> QED
  BY <1>1, TypeInvHolds, PTL

(* The cell a task or a joiner names. *)
CellOf(t) == <<t.co, t.n>>
CellsOf(s) == {CellOf(s[i]) : i \in DOMAIN s}
Once(s) == \A i, j \in DOMAIN s : CellOf(s[i]) = CellOf(s[j]) => i = j

LEMMA AppendCells ==
    ASSUME NEW S, NEW s \in Seq(S), NEW x \in S
    PROVE  /\ CellsOf(Append(s, x)) = CellsOf(s) \cup {CellOf(x)}
           /\ Once(s) /\ CellOf(x) \notin CellsOf(s) => Once(Append(s, x))
<1> DEFINE t == Append(s, x)
<1>1. /\ Len(s) \in Nat
      /\ DOMAIN s = 1 .. Len(s)
      /\ DOMAIN t = 1 .. Len(s) + 1
      /\ \A i \in 1 .. Len(s) : t[i] = s[i]
      /\ t[Len(s) + 1] = x
  OBVIOUS
<1> HIDE DEF t
<1>2. CellsOf(t) = CellsOf(s) \cup {CellOf(x)}
  <2>1. \A i \in DOMAIN t : CellOf(t[i]) \in CellsOf(s) \cup {CellOf(x)}
    <3> TAKE i \in DOMAIN t
    <3>1. CASE i \in 1 .. Len(s)
      BY <1>1, <3>1 DEF CellsOf
    <3>2. CASE i = Len(s) + 1
      BY <1>1, <3>2
    <3> QED
      BY <1>1, <3>1, <3>2
  <2>2. \A i \in DOMAIN s : CellOf(s[i]) \in CellsOf(t)
    <3> TAKE i \in DOMAIN s
    <3>1. i \in DOMAIN t /\ t[i] = s[i]
      BY <1>1
    <3> QED
      BY <3>1 DEF CellsOf
  <2>3. CellOf(x) \in CellsOf(t)
    BY <1>1 DEF CellsOf
  <2> QED
    BY <2>1, <2>2, <2>3 DEF CellsOf
<1>3. ASSUME Once(s), CellOf(x) \notin CellsOf(s) PROVE Once(t)
  <2> SUFFICES ASSUME NEW i \in DOMAIN t, NEW j \in DOMAIN t, CellOf(t[i]) = CellOf(t[j])
               PROVE  i = j
    BY DEF Once
  <2>1. \A k \in 1 .. Len(s) : CellOf(t[k]) # CellOf(x)
    BY <1>1, <1>3 DEF CellsOf
  <2> QED
    BY <1>1, <1>3, <2>1 DEF Once
<1> QED
  BY <1>2, <1>3 DEF t

LEMMA TailCells ==
    ASSUME NEW S, NEW s \in Seq(S), s # <<>>, Once(s)
    PROVE  /\ CellOf(Head(s)) \in CellsOf(s)
           /\ CellsOf(Tail(s)) = CellsOf(s) \ {CellOf(Head(s))}
           /\ Once(Tail(s))
<1> DEFINE t == Tail(s)
           h == Head(s)
<1>1. /\ Len(s) \in Nat \ {0}
      /\ DOMAIN s = 1 .. Len(s)
      /\ DOMAIN t = 1 .. Len(s) - 1
      /\ \A i \in 1 .. Len(s) - 1 : t[i] = s[i + 1]
      /\ h = s[1]
  OBVIOUS
<1> HIDE DEF t, h
<1>2. CellOf(h) \in CellsOf(s)
  BY <1>1 DEF CellsOf
<1>3. ASSUME NEW i \in DOMAIN t
      PROVE  CellOf(t[i]) \in CellsOf(s) /\ CellOf(t[i]) # CellOf(h)
  <2>1. t[i] = s[i + 1] /\ i + 1 \in DOMAIN s /\ 1 \in DOMAIN s /\ i + 1 # 1
    BY <1>1
  <2> QED
    BY <1>1, <2>1 DEF CellsOf, Once
<1>4. ASSUME NEW i \in DOMAIN s, CellOf(s[i]) # CellOf(h)
      PROVE  CellOf(s[i]) \in CellsOf(t)
  <2>1. i # 1
    BY <1>1, <1>4
  <2>2. i - 1 \in DOMAIN t /\ t[i - 1] = s[(i - 1) + 1] /\ (i - 1) + 1 = i
    BY <1>1, <2>1
  <2> QED
    BY <2>2 DEF CellsOf
<1>5. CellsOf(t) = CellsOf(s) \ {CellOf(h)}
  BY <1>3, <1>4 DEF CellsOf
<1>6. Once(t)
  <2> SUFFICES ASSUME NEW i \in DOMAIN t, NEW j \in DOMAIN t, CellOf(t[i]) = CellOf(t[j])
               PROVE  i = j
    BY DEF Once
  <2>1. i + 1 \in DOMAIN s /\ j + 1 \in DOMAIN s /\ t[i] = s[i + 1] /\ t[j] = s[j + 1]
    BY <1>1
  <2>2. i + 1 = j + 1
    BY <2>1 DEF Once
  <2> QED
    BY <1>1, <2>2
<1> QED
  BY <1>2, <1>5, <1>6 DEF t, h

-----------------------------------------------------------------------------

InQueue == [q \in Queue |-> CellsOf(queue[q])]
InWait == [t \in Co |-> CellsOf(joiners[t])]

(* An executor has the cell of the task it executes in hand, and in join() also
   caller_c, until it has queued it. *)
InHand == [x \in Exec |->
    IF ex[x].co = NoCo THEN {}
    ELSE IF ex[x].pc = "push" THEN {<<ex[x].co, ex[x].n>>, <<ex[x].co, ex[x].m>>}
    ELSE {<<ex[x].co, ex[x].n>>}]

(* The cells the coroutines have used so far. *)
Used == {p \in made \X (Nat \ {0}) : p[2] <= cells[p[1]]}

(* No two places name the same cell. *)
Apart(W, T, H, U) ==
    /\ \A t \in Co : W[t] \subseteq U
    /\ \A q \in Queue : T[q] \subseteq U
    /\ \A x \in Exec : H[x] \subseteq U
    /\ \A t \in Co, q \in Queue : W[t] \cap T[q] = {}
    /\ \A t \in Co, x \in Exec : W[t] \cap H[x] = {}
    /\ \A q \in Queue, x \in Exec : T[q] \cap H[x] = {}
    /\ \A t, u \in Co : t # u => W[t] \cap W[u] = {}
    /\ \A q, r \in Queue : q # r => T[q] \cap T[r] = {}
    /\ \A x, y \in Exec : x # y => H[x] \cap H[y] = {}

PlaceInv ==
    /\ \A t \in Co : Once(joiners[t])
    /\ \A q \in Queue : Once(queue[q])
    /\ Apart(InWait, InQueue, InHand, Used)
    /\ \A x \in Exec : ex[x].pc = "push" => ex[x].m # ex[x].n

LEMMA UsedCells ==
    ASSUME TypeInv
    PROVE  \A c, k : <<c, k>> \in Used <=> c \in made /\ k \in Nat \ {0} /\ k <= cells[c]
BY DEF Used

(* Places that lose cells. *)
LEMMA ApartShrinks ==
    ASSUME NEW W, NEW T, NEW H, NEW U, Apart(W, T, H, U),
           NEW V, NEW S, NEW G, NEW X,
           \A t \in Co : V[t] \subseteq W[t],
           \A q \in Queue : S[q] \subseteq T[q],
           \A x \in Exec : G[x] \subseteq H[x],
           U \subseteq X
    PROVE  Apart(V, S, G, X)
BY DEF Apart

(* A cell leaves a task queue for the hands of an executor that has none. *)
LEMMA ApartTaken ==
    ASSUME NEW W, NEW T, NEW H, NEW U, Apart(W, T, H, U),
           NEW x \in Exec, NEW q \in Queue, NEW p \in T[q], H[x] = {},
           NEW S, S[q] = T[q] \ {p}, \A r \in Queue : r # q => S[r] = T[r],
           NEW G, G[x] \subseteq {p}, \A y \in Exec : y # x => G[y] = H[y]
    PROVE  Apart(W, S, G, U)
BY DEF Apart

(* An executor hands a cell over to a task queue. *)
LEMMA ApartYielded ==
    ASSUME NEW W, NEW T, NEW H, NEW U, Apart(W, T, H, U),
           NEW x \in Exec, NEW q \in Queue, NEW p \in H[x],
           NEW S, S[q] \subseteq T[q] \cup {p}, \A r \in Queue : r # q => S[r] = T[r],
           NEW G, G[x] \subseteq H[x] \ {p}, \A y \in Exec : y # x => G[y] = H[y]
    PROVE  Apart(W, S, G, U)
BY DEF Apart

(* An executor hands a cell over to the joiners of a coroutine. *)
LEMMA ApartPushed ==
    ASSUME NEW W, NEW T, NEW H, NEW U, Apart(W, T, H, U),
           NEW x \in Exec, NEW t \in Co, NEW p \in H[x],
           NEW V, V[t] = W[t] \cup {p}, \A u \in Co : u # t => V[u] = W[u],
           NEW G, G[x] \subseteq H[x] \ {p}, \A y \in Exec : y # x => G[y] = H[y]
    PROVE  Apart(V, T, G, U)
BY DEF Apart

(* A joiner is moved to a task queue. *)
LEMMA ApartWoken ==
    ASSUME NEW W, NEW T, NEW H, NEW U, Apart(W, T, H, U),
           NEW q \in Queue, NEW t \in Co, NEW p \in W[t],
           NEW V, V[t] = W[t] \ {p}, \A u \in Co : u # t => V[u] = W[u],
           NEW S, S[q] \subseteq T[q] \cup {p}, \A r \in Queue : r # q => S[r] = T[r]
    PROVE  Apart(V, S, H, U)
BY DEF Apart

(* A cell that was never used comes into the hands of an executor, ... *)
LEMMA ApartNewHand ==
    ASSUME NEW W, NEW T, NEW H, NEW U, Apart(W, T, H, U),
           NEW x \in Exec, NEW p, p \notin U, NEW X, U \cup {p} \subseteq X,
           NEW G, G[x] = H[x] \cup {p}, \A y \in Exec : y # x => G[y] = H[y]
    PROVE  Apart(W, T, G, X)
BY DEF Apart

(* ... or to a task queue. *)
LEMMA ApartNewTask ==
    ASSUME NEW W, NEW T, NEW H, NEW U, Apart(W, T, H, U),
           NEW q \in Queue, NEW p, p \notin U, NEW X, U \cup {p} \subseteq X,
           NEW S, S[q] = T[q] \cup {p}, \A r \in Queue : r # q => S[r] = T[r]
    PROVE  Apart(W, S, H, X)
BY DEF Apart

(* A task goes from one queue to another. *)
LEMMA ApartStolen ==
    ASSUME NEW W, NEW T, NEW H, NEW U, Apart(W, T, H, U),
           NEW q \in Queue, NEW r \in Queue, NEW p \in T[q],
           NEW S, r # q => S[q] = T[q] \ {p} /\ S[r] = T[r] \cup {p},
           r = q => S[q] = T[q],
           \A s \in Queue : s # q /\ s # r => S[s] = T[s]
    PROVE  Apart(W, S, H, U)
BY DEF Apart

-----------------------------------------------------------------------------
(* How the steps change what the places name *)

Others(x) == \A y \in Exec : y # x => ex'[y] = ex[y]
SameQueues == \A q \in Queue : InQueue'[q] = InQueue[q]
SameWaits == \A t \in Co : InWait'[t] = InWait[t]
QueueGains(q, p) == InQueue'[q] = InQueue[q] \cup {p} /\ \A r \in Queue : r # q => InQueue'[r] = InQueue[r]
QueueLoses(q, p) == /\ p \in InQueue[q] /\ InQueue'[q] = InQueue[q] \ {p}
                    /\ \A r \in Queue : r # q => InQueue'[r] = InQueue[r]
WaitGains(t, p) == InWait'[t] = InWait[t] \cup {p} /\ \A u \in Co : u # t => InWait'[u] = InWait[u]
WaitLoses(t, p) == /\ p \in InWait[t] /\ InWait'[t] = InWait[t] \ {p}
                   /\ \A u \in Co : u # t => InWait'[u] = InWait[u]

LEMMA HandsOf ==
    \A x \in Exec : InHand[x] =
        IF ex[x].co = NoCo THEN {}
        ELSE IF ex[x].pc = "push" THEN {<<ex[x].co, ex[x].n>>, <<ex[x].co, ex[x].m>>}
        ELSE {<<ex[x].co, ex[x].n>>}
BY DEF InHand

LEMMA HandsOfNext ==
    \A x \in Exec : InHand'[x] =
        IF ex'[x].co = NoCo THEN {}
        ELSE IF ex'[x].pc = "push" THEN {<<ex'[x].co, ex'[x].n>>, <<ex'[x].co, ex'[x].m>>}
        ELSE {<<ex'[x].co, ex'[x].n>>}
BY DEF InHand

LEMMA HandsStay == \A x \in Exec : Others(x) => \A y \in Exec : y # x => InHand'[y] = InHand[y]
BY HandsOf, HandsOfNext DEF Others

LEMMA AppendQueue ==
    ASSUME TypeInv, PlaceInv, NEW q \in Queue, NEW S, queue[q] \in Seq(S), NEW t \in S,
           queue' = [queue EXCEPT ![q] = Append(@, t)]
    PROVE  /\ QueueGains(q, CellOf(t))
           /\ CellOf(t) \notin InQueue[q] => \A r \in Queue : Once(queue'[r])
<1> DEFINE s == Append(queue[q], t)
<1>1. CellsOf(s) = CellsOf(queue[q]) \cup {CellOf(t)}
      /\ (CellOf(t) \notin CellsOf(queue[q]) => Once(s))
  BY AppendCells DEF PlaceInv
<1>2. queue' = [queue EXCEPT ![q] = s] /\ queue \in [Queue -> Seq(MadeTask)]
  BY DEF TypeInv, QueueType
<1> HIDE DEF s
<1> QED
  BY <1>1, <1>2 DEF InQueue, QueueGains, PlaceInv

LEMMA TailQueue ==
    ASSUME TypeInv, PlaceInv, NEW q \in Queue, queue[q] # <<>>,
           queue' = [queue EXCEPT ![q] = Tail(@)]
    PROVE  /\ QueueLoses(q, CellOf(Head(queue[q])))
           /\ \A r \in Queue : Once(queue'[r])
<1> DEFINE s == Tail(queue[q])
           p == CellOf(Head(queue[q]))
<1>1. queue \in [Queue -> Seq(MadeTask)]
  BY DEF TypeInv, QueueType
<1>2. CellsOf(s) = CellsOf(queue[q]) \ {p} /\ p \in CellsOf(queue[q]) /\ Once(s)
  BY <1>1, TailCells DEF PlaceInv
<1>3. queue' = [queue EXCEPT ![q] = s]
  OBVIOUS
<1> HIDE DEF s, p
<1>4. QueueLoses(q, p) /\ \A r \in Queue : Once(queue'[r])
  BY <1>1, <1>2, <1>3 DEF InQueue, QueueLoses, PlaceInv
<1> QED
  BY <1>4 DEF p

LEMMA SameQueueCells == UNCHANGED queue => SameQueues
BY DEF SameQueues, InQueue

LEMMA SameWaitCells == UNCHANGED joiners => SameWaits
BY DEF SameWaits, InWait

(* A task is appended, or dropped with its coroutine. *)
LEMMA EnqueueCells ==
    ASSUME TypeInv, PlaceInv, NEW q \in Queue, NEW t \in MadeTask, Enqueue(q, t),
           CellOf(t) \notin InQueue[q]
    PROVE  /\ \/ QueueGains(q, CellOf(t)) /\ lost' = lost
              \/ SameQueues /\ lost' = lost \cup {t.co}
           /\ \A r \in Queue : Once(queue'[r])
<1>1. CASE HasRoom(q)
  <2>1. queue' = [queue EXCEPT ![q] = Append(@, t)] /\ lost' = lost
    BY <1>1 DEF Enqueue
  <2>2. queue[q] \in Seq(MadeTask)
    BY DEF TypeInv, QueueType
  <2> QED
    BY <2>1, <2>2, AppendQueue
<1>2. CASE ~HasRoom(q)
  BY <1>2, SameQueueCells DEF Enqueue, PlaceInv
<1> QED
  BY <1>1, <1>2

(* Dequeue, or StealSingle: an executor takes a task that names the cell of a
   coroutine, or drops a stale one. *)
Takes(x, q, c, k) ==
    /\ ex[x].pc = "idle" /\ c \in made /\ k \in Nat \ {0}
    /\ QueueLoses(q, <<c, k>>) /\ SameWaits /\ Others(x) /\ ex'[x].tq = ex[x].tq
    /\ \/ held[c] = k /\ ex'[x].pc = "resume" /\ ex'[x].co = c /\ ex'[x].n = k
       \/ held[c] # k /\ ex'[x].pc \in {"idle", "gone"} /\ ex'[x].co = NoCo
    /\ UNCHANGED <<conf, made, joiners, started, stopped, lost, waitsFor, held, cells, crashed, alive>>

LEMMA TakeCells ==
    ASSUME TypeInv, PlaceInv, NEW x \in Exec, NEW q \in Queue, queue[q] # <<>>, ex[x].pc = "idle",
           NEW s \in BOOLEAN, Begin(x, Head(queue[q]), s),
           queue' = [queue EXCEPT ![q] = Tail(@)],
           UNCHANGED <<conf, monitorVars, lifeVars, lost, joinVars, step, cellVars, crashed>>
    PROVE  /\ \E c \in made, k \in Nat \ {0} : Takes(x, q, c, k)
           /\ \A r \in Queue : Once(queue'[r])
<1> DEFINE t == Head(queue[q])
<1>1. t \in MadeTask
  BY TailType
<1>2. QueueLoses(q, CellOf(t)) /\ \A r \in Queue : Once(queue'[r])
  BY TailQueue
<1> HIDE DEF t
<1>3. t.co \in made /\ t.n \in Nat \ {0} /\ CellOf(t) = <<t.co, t.n>>
  BY <1>1 DEF MadeTask, CellOf
<1>4. Begin(x, t, s)
  BY DEF t
<1>5. Takes(x, q, t.co, t.n)
  BY <1>1, <1>2, <1>3, <1>4, BeginStep, SameWaitCells DEF Takes, Valid, Others, monitorVars
<1> QED
  BY <1>2, <1>3, <1>5

(* What a coroutine that yields does: its cell goes to the end of a queue. *)
Yields(x) ==
    LET c == ex[x].co
        k == ex[x].n
    IN  /\ c \in made /\ c # NoCo /\ ex[x].pc = "run" /\ ex[x].tq \in Queue /\ k \in Nat \ {0}
        /\ Others(x) /\ ex'[x].pc \in {"idle", "gone"} /\ ex'[x].co = NoCo /\ ex'[x].tq = ex[x].tq
        /\ SameWaits
        /\ \/ QueueGains(ex[x].tq, <<c, k>>) /\ lost' = lost
           \/ SameQueues /\ lost' = lost \cup {c}
        /\ held' = [held EXCEPT ![c] = k]
        /\ UNCHANGED <<conf, made, joiners, started, stopped, waitsFor, cells, crashed, alive>>

LEMMA YieldCells ==
    ASSUME TypeInv, PlaceInv, NEW x \in Exec, Yield(x), UNCHANGED conf
    PROVE  Yields(x) /\ PlaceInv'
<1> DEFINE c == ex[x].co
           k == ex[x].n
           t == [co |-> c, n |-> k]
<1>1. /\ c \in made /\ c # NoCo /\ ex[x].pc = "run" /\ ex[x].tq \in Queue /\ k \in Nat \ {0}
      /\ ex[x].n > 0
  BY ExFields DEF Yield, Runs, Bare
<1>2. t \in MadeTask /\ CellOf(t) = <<c, k>>
  BY <1>1 DEF MadeTask, CellOf
<1>3. InHand[x] = {<<c, k>>}
  BY <1>1, HandsOf
<1>4. <<c, k>> \notin InQueue[ex[x].tq]
  BY <1>1, <1>3 DEF PlaceInv, Apart
<1>5. /\ \/ QueueGains(ex[x].tq, <<c, k>>) /\ lost' = lost
         \/ SameQueues /\ lost' = lost \cup {c}
      /\ \A r \in Queue : Once(queue'[r])
  <2>1. Enqueue(ex[x].tq, t) /\ t.co = c
    BY DEF Yield
  <2> HIDE DEF t
  <2> QED
    BY <1>1, <1>2, <1>4, <2>1, EnqueueCells
<1>6. Others(x) /\ ex'[x].pc \in {"idle", "gone"} /\ ex'[x].co = NoCo /\ ex'[x].tq = ex[x].tq
  BY EndStep DEF Yield, Others
<1>7. SameWaits /\ UNCHANGED joiners
  BY SameWaitCells DEF Yield
<1>8. Yields(x)
  BY <1>1, <1>5, <1>6, <1>7 DEF Yields, Yield, monitorVars
<1>9. PlaceInv'
  <2>1. InHand'[x] = {} /\ \A y \in Exec : y # x => InHand'[y] = InHand[y]
    BY <1>6, HandsOfNext, HandsStay
  <2>2. InQueue'[ex[x].tq] \subseteq InQueue[ex[x].tq] \cup {<<c, k>>}
        /\ \A r \in Queue : r # ex[x].tq => InQueue'[r] = InQueue[r]
    BY <1>1, <1>5 DEF QueueGains, SameQueues
  <2>3. Apart(InWait, InQueue', InHand', Used)
    <3> DEFINE p == <<c, k>>
               q == ex[x].tq
    <3>1. /\ q \in Queue /\ p \in InHand[x] /\ InHand'[x] \subseteq InHand[x] \ {p}
          /\ InQueue'[q] \subseteq InQueue[q] \cup {p}
          /\ \A r \in Queue : r # q => InQueue'[r] = InQueue[r]
          /\ Apart(InWait, InQueue, InHand, Used)
      BY <1>1, <1>3, <2>1, <2>2 DEF PlaceInv
    <3> HIDE DEF p, q
    <3> QED
      BY <2>1, <3>1, ApartYielded
  <2>4. UNCHANGED <<InWait, Used>>
    BY <1>7 DEF InWait, Used, Yield
  <2>5. \A y \in Exec : ex'[y].pc = "push" => ex'[y].m # ex'[y].n
    BY <1>6 DEF PlaceInv, Others
  <2> QED
    BY <1>5, <1>7, <2>3, <2>4, <2>5 DEF PlaceInv
<1> QED
  BY <1>8, <1>9

(* Nothing is named anew. *)
LEMMA PlaceSame ==
    ASSUME PlaceInv, UNCHANGED <<queue, joiners, made, cells>>,
           \A y \in Exec : InHand'[y] \subseteq InHand[y],
           \A y \in Exec : ex'[y].pc = "push" => ex'[y].m # ex'[y].n
    PROVE  PlaceInv'
<1>1. Apart(InWait, InQueue, InHand, Used)
  BY DEF PlaceInv
<1>2. UNCHANGED <<InWait, InQueue, Used>>
  BY DEF InWait, InQueue, Used
<1>3. Apart(InWait', InQueue', InHand', Used')
  BY <1>1, <1>2, ApartShrinks
<1> QED
  BY <1>3 DEF PlaceInv

LEMMA TakePlace ==
    ASSUME TypeInv, PlaceInv, NEW x \in Exec, NEW q \in Queue, NEW c \in made, NEW k \in Nat \ {0},
           Takes(x, q, c, k), \A r \in Queue : Once(queue'[r])
    PROVE  PlaceInv'
<1>1. InHand[x] = {}
  BY HandsOf, ExFields DEF Takes, Bare
<1>2. InHand'[x] \subseteq {<<c, k>>} /\ \A y \in Exec : y # x => InHand'[y] = InHand[y]
  BY HandsOfNext, HandsStay DEF Takes
<1>3. Apart(InWait, InQueue', InHand', Used)
  BY <1>1, <1>2, ApartTaken DEF PlaceInv, Takes, QueueLoses
<1>4. UNCHANGED <<InWait, Used>>
  BY DEF Takes, InWait, Used
<1>5. \A y \in Exec : ex'[y].pc = "push" => ex'[y].m # ex'[y].n
  BY DEF PlaceInv, Takes, Others
<1> QED
  BY <1>3, <1>4, <1>5 DEF PlaceInv, Takes

LEMMA DequeueCells ==
    ASSUME TypeInv, PlaceInv, NEW x \in Exec, Dequeue(x), UNCHANGED conf
    PROVE  /\ \E c \in made, k \in Nat \ {0} : Takes(x, ex[x].tq, c, k)
           /\ PlaceInv'
<1>1. ex[x].tq \in Queue
  BY ExFields
<1>2. /\ \E c \in made, k \in Nat \ {0} : Takes(x, ex[x].tq, c, k)
      /\ \A r \in Queue : Once(queue'[r])
  BY <1>1, TakeCells DEF Dequeue
<1> QED
  BY <1>1, <1>2, TakePlace

LEMMA StealSingleCells ==
    ASSUME TypeInv, PlaceInv, NEW x \in Exec, StealSingle(x), UNCHANGED conf
    PROVE  /\ \E q \in Queue, c \in made, k \in Nat \ {0} : Takes(x, q, c, k)
           /\ PlaceInv'
<1>1. PICK q \in Queue : /\ queue[q] # <<>>
                         /\ Begin(x, Head(queue[q]), TRUE)
                         /\ queue' = [queue EXCEPT ![q] = Tail(@)]
  BY StealSingleIs
<1>2. /\ \E c \in made, k \in Nat \ {0} : Takes(x, q, c, k)
      /\ \A r \in Queue : Once(queue'[r])
  BY <1>1, TakeCells DEF StealSingle
<1> QED
  BY <1>2, TakePlace

(* StealHalf and StealOne: a thief has nothing in hand; a task goes from a queue
   to its own, or is dropped. *)
Steals(x) ==
    /\ conf.steal
    /\ ex[x].co = NoCo /\ ex'[x].co = NoCo /\ ex'[x].tq = ex[x].tq
    /\ ex[x].pc \in {"idle", "steal"} /\ ex'[x].pc \in {"idle", "steal"}
    /\ Others(x) /\ SameWaits
    /\ \/ SameQueues /\ lost' = lost
       \/ \E q, r \in Queue, p \in Used :
             /\ q # r /\ lost' = lost
             /\ p \in InQueue[q] /\ InQueue'[q] = InQueue[q] \ {p} /\ InQueue'[r] = InQueue[r] \cup {p}
             /\ \A s \in Queue : s # q /\ s # r => InQueue'[s] = InQueue[s]
       \/ \E q \in Queue, c \in made, k \in Nat \ {0} :
             /\ QueueLoses(q, <<c, k>>)
             /\ lost' = IF held[c] = k THEN lost \cup {c} ELSE lost
    /\ UNCHANGED <<conf, made, joiners, started, stopped, waitsFor, held, cells, crashed, alive>>

(* A thief steals only in a build with stealing. *)
ThiefInv == \A x \in Exec : ex[x].pc = "steal" => conf.steal

LEMMA StealHalfCells ==
    ASSUME TypeInv, PlaceInv, NEW x \in Exec, StealHalf(x), UNCHANGED conf
    PROVE  Steals(x) /\ PlaceInv'
<1>1. ex[x].pc = "idle" /\ ex[x].co = NoCo
  BY ExFields DEF StealHalf, Bare
<1>2. Others(x) /\ ex'[x].pc = "steal" /\ ex'[x].co = NoCo /\ ex'[x].tq = ex[x].tq
  BY StealHalfStep DEF Others
<1>3. SameQueues /\ SameWaits /\ UNCHANGED <<queue, joiners, cells, made>>
  BY SameQueueCells, SameWaitCells DEF StealHalf
<1>4. Steals(x)
  BY <1>1, <1>2, <1>3 DEF Steals, StealHalf, monitorVars
<1>5. \A y \in Exec : InHand'[y] \subseteq InHand[y]
  BY <1>1, <1>2, HandsOf, HandsOfNext, HandsStay
<1> QED
  BY <1>2, <1>3, <1>4, <1>5, PlaceSame DEF PlaceInv, Others

LEMMA StealOneCells ==
    ASSUME TypeInv, PlaceInv, ThiefInv, NEW x \in Exec, StealOne(x), UNCHANGED conf
    PROVE  Steals(x) /\ PlaceInv'
<1>1. PICK q, r \in Queue :
              /\ Others(x)
              /\ ex'[x].pc \in {"idle", "steal"} /\ ex'[x].co = NoCo /\ ex'[x].tq = ex[x].tq
              /\ \/ UNCHANGED <<queue, lost>>
                 \/ /\ queue[q] # <<>> /\ HasRoom(r) /\ UNCHANGED lost
                    /\ queue' = [queue EXCEPT ![r] = Append(@, Head(queue[q])), ![q] = Tail(@)]
                 \/ /\ queue[q] # <<>>
                    /\ queue' = [queue EXCEPT ![q] = Tail(@)]
                    /\ lost' = IF Valid(Head(queue[q])) THEN lost \cup {Head(queue[q]).co} ELSE lost
  BY StealOneIs DEF Others
<1>2. ex[x].pc = "steal" /\ ex[x].co = NoCo /\ conf.steal
  BY ExFields DEF StealOne, Bare, ThiefInv
<1>3. SameWaits /\ UNCHANGED <<conf, made, started, stopped, waitsFor, held, cells, crashed, alive, joiners>>
  BY SameWaitCells DEF StealOne, monitorVars
<1>4. (\A y \in Exec : InHand'[y] = InHand[y]) /\ \A y \in Exec : ex'[y].pc = "push" => ex'[y].m # ex'[y].n
  <2>1. InHand[x] = {} /\ InHand'[x] = {}
    BY <1>1, <1>2, HandsOf, HandsOfNext
  <2>2. \A y \in Exec : y # x => InHand'[y] = InHand[y]
    BY <1>1, HandsStay
  <2> QED
    BY <1>1, <2>1, <2>2 DEF PlaceInv, Others
<1>5. CASE UNCHANGED <<queue, lost>>
  <2>1. SameQueues
    BY <1>5, SameQueueCells
  <2> QED
    BY <1>1, <1>2, <1>3, <1>4, <1>5, <2>1, PlaceSame DEF Steals
<1> DEFINE t == Head(queue[q])
           p == CellOf(t)
<1>6. ASSUME queue[q] # <<>>
      PROVE  /\ t \in MadeTask /\ p = <<t.co, t.n>> /\ t.co \in made /\ t.n \in Nat \ {0}
             /\ CellsOf(Tail(queue[q])) = CellsOf(queue[q]) \ {p} /\ p \in CellsOf(queue[q])
             /\ Once(Tail(queue[q])) /\ p \in Used
  <2>1. queue[q] \in Seq(MadeTask) /\ Once(queue[q])
    BY DEF TypeInv, QueueType, PlaceInv
  <2>2. CellsOf(Tail(queue[q])) = CellsOf(queue[q]) \ {p} /\ p \in CellsOf(queue[q])
        /\ Once(Tail(queue[q]))
    BY <1>6, <2>1, TailCells
  <2>3. t \in MadeTask
    BY <1>6, <2>1, HeadFact
  <2> HIDE DEF t
  <2> QED
    BY <2>2, <2>3 DEF MadeTask, CellOf, PlaceInv, Apart, InQueue
<1>7. CASE /\ queue[q] # <<>> /\ HasRoom(r) /\ UNCHANGED lost
           /\ queue' = [queue EXCEPT ![r] = Append(@, t), ![q] = Tail(@)]
  <2>0. /\ queue \in [Queue -> Seq(MadeTask)] /\ queue[q] \in Seq(MadeTask) /\ queue[r] \in Seq(MadeTask)
        /\ Once(queue[r])
    BY DEF TypeInv, QueueType, PlaceInv
  <2>1. /\ CellsOf(Append(queue[r], t)) = CellsOf(queue[r]) \cup {p}
        /\ p \notin CellsOf(queue[r]) => Once(Append(queue[r], t))
    BY <1>6, <1>7, <2>0, AppendCells
  <2>2. CASE q # r
    <3>1. /\ queue'[r] = Append(queue[r], t) /\ queue'[q] = Tail(queue[q])
          /\ \A s \in Queue : s # q /\ s # r => queue'[s] = queue[s]
      BY <1>7, <2>0, <2>2
    <3> HIDE DEF t, p
    <3>2. /\ p \in InQueue[q] /\ InQueue'[q] = InQueue[q] \ {p} /\ InQueue'[r] = InQueue[r] \cup {p}
          /\ \A s \in Queue : s # q /\ s # r => InQueue'[s] = InQueue[s]
      <4>1. \A s \in Queue : InQueue[s] = CellsOf(queue[s]) /\ InQueue'[s] = CellsOf(queue'[s])
        BY DEF InQueue
      <4> QED
        BY <1>6, <1>7, <2>1, <3>1, <4>1
    <3>3. Steals(x)
      BY <1>1, <1>2, <1>3, <1>6, <1>7, <2>2, <3>2 DEF Steals
    <3>4. p \notin CellsOf(queue[r])
      BY <2>2, <3>2 DEF PlaceInv, Apart, InQueue
    <3>5. \A s \in Queue : Once(queue'[s])
      BY <1>6, <1>7, <2>1, <3>1, <3>4 DEF PlaceInv
    <3>6. Apart(InWait, InQueue', InHand, Used)
      BY <2>2, <3>2, ApartStolen DEF PlaceInv
    <3>7. Apart(InWait, InQueue', InHand', Used)
      BY <1>4, <3>6, ApartShrinks
    <3>8. UNCHANGED <<InWait, Used>>
      BY <1>3 DEF InWait, Used
    <3> QED
      BY <1>3, <1>4, <3>3, <3>5, <3>7, <3>8 DEF PlaceInv
  <2>3. CASE q = r
    <3> DEFINE s == Append(queue[q], t)
    <3>1. s \in Seq(MadeTask) /\ s # <<>> /\ queue[q] # <<>>
      <4>1. t \in MadeTask /\ queue[q] \in Seq(MadeTask) /\ queue[q] # <<>>
        BY <1>6, <1>7, <2>0
      <4> HIDE DEF t
      <4> QED
        BY <4>1
    <3>2. queue' = [queue EXCEPT ![q] = Tail(s)]
      BY <1>7, <2>0, <2>3
    <3>3. Tail(s) = Append(Tail(queue[q]), t) /\ Tail(queue[q]) \in Seq(MadeTask)
      BY <1>6, <2>0, <3>1
    <3>4. CellsOf(Tail(s)) = CellsOf(Tail(queue[q])) \cup {p} /\ Once(Tail(s))
      <4> DEFINE u == Tail(queue[q])
      <4>1. u \in Seq(MadeTask) /\ t \in MadeTask /\ Once(u) /\ p \notin CellsOf(u)
            /\ Tail(s) = Append(u, t)
        BY <1>6, <1>7, <3>3
      <4> HIDE DEF u, t, s
      <4>2. CellsOf(Append(u, t)) = CellsOf(u) \cup {p} /\ Once(Append(u, t))
        BY <4>1, AppendCells
      <4>3. CellsOf(Tail(s)) = CellsOf(u) \cup {p} /\ Once(Tail(s))
        BY <4>1, <4>2, Zenon
      <4> QED
        BY <4>3 DEF u
    <3>5. CellsOf(Tail(s)) = CellsOf(queue[q])
      BY <1>6, <1>7, <3>4
    <3> HIDE DEF s, t, p
    <3>6. SameQueues /\ \A u \in Queue : Once(queue'[u])
      BY <2>0, <3>2, <3>4, <3>5 DEF SameQueues, InQueue, PlaceInv
    <3>7. Steals(x)
      BY <1>1, <1>2, <1>3, <1>7, <3>6 DEF Steals
    <3>8. Apart(InWait, InQueue', InHand', Used)
      BY <1>4, <3>6, ApartShrinks DEF PlaceInv, SameQueues
    <3>9. UNCHANGED <<InWait, Used>>
      BY <1>3 DEF InWait, Used
    <3> QED
      BY <1>3, <1>4, <3>6, <3>7, <3>8, <3>9 DEF PlaceInv
  <2> QED
    BY <2>2, <2>3
<1>8. CASE /\ queue[q] # <<>>
           /\ queue' = [queue EXCEPT ![q] = Tail(@)]
           /\ lost' = IF Valid(t) THEN lost \cup {t.co} ELSE lost
  <2>1. QueueLoses(q, p) /\ \A s \in Queue : Once(queue'[s])
    BY <1>8, TailQueue
  <2>2. lost' = IF held[t.co] = t.n THEN lost \cup {t.co} ELSE lost
    BY <1>8 DEF Valid
  <2> HIDE DEF t, p
  <2>3. Steals(x)
    <3>1. t.co \in made /\ t.n \in Nat \ {0} /\ QueueLoses(q, <<t.co, t.n>>)
      BY <1>6, <1>8, <2>1
    <3>2. \E u \in Queue, c \in made, k \in Nat \ {0} :
             /\ QueueLoses(u, <<c, k>>)
             /\ lost' = IF held[c] = k THEN lost \cup {c} ELSE lost
      BY <2>2, <3>1
    <3> QED
      BY <1>1, <1>2, <1>3, <3>2 DEF Steals
  <2>4. Apart(InWait, InQueue', InHand', Used)
    BY <1>4, <2>1, ApartShrinks DEF PlaceInv, QueueLoses
  <2>5. UNCHANGED <<InWait, Used>>
    BY <1>3 DEF InWait, Used
  <2> QED
    BY <1>3, <1>4, <2>1, <2>3, <2>4, <2>5 DEF PlaceInv
<1> QED
  BY <1>1, <1>5, <1>7, <1>8

LEMMA ResumePlace ==
    ASSUME TypeInv, PlaceInv, NEW x \in Exec, Resume(x), UNCHANGED conf PROVE PlaceInv'
<1>1. ex[x].pc = "resume" /\ UNCHANGED <<queue, joiners, made, cells>>
  BY DEF Resume
<1>2. CASE Goto(x, "run")
  <2>1. /\ Others(x) /\ ex'[x].pc = "run" /\ ex'[x].co = ex[x].co /\ ex'[x].n = ex[x].n
    BY <1>2, GotoStep DEF Others
  <2>2. \A y \in Exec : InHand'[y] \subseteq InHand[y]
    BY <1>1, <2>1, HandsOf, HandsOfNext, HandsStay
  <2> QED
    BY <1>1, <2>1, <2>2, PlaceSame DEF PlaceInv, Others
<1>3. CASE UNCHANGED ex
  BY <1>1, <1>3, PlaceSame DEF PlaceInv, InHand
<1> QED
  BY <1>2, <1>3 DEF Resume

(* An executor goes on with what it has in hand. *)
LEMMA GotoPlace ==
    ASSUME TypeInv, PlaceInv, NEW x \in Exec, ex[x].pc # "push", NEW pc, pc # "push", Goto(x, pc),
           UNCHANGED <<queue, joiners, made, cells>>
    PROVE  PlaceInv'
<1>1. /\ Others(x) /\ ex'[x].pc = pc /\ ex'[x].co = ex[x].co /\ ex'[x].n = ex[x].n
  BY GotoStep DEF Others
<1>2. \A y \in Exec : InHand'[y] \subseteq InHand[y]
  BY <1>1, HandsOf, HandsOfNext, HandsStay
<1> QED
  BY <1>1, <1>2, PlaceSame DEF PlaceInv, Others

(* An executor drops what it has in hand. *)
LEMMA EndPlace ==
    ASSUME TypeInv, PlaceInv, NEW x \in Exec, EndExec(x), UNCHANGED <<queue, joiners, made, cells>>
    PROVE  PlaceInv'
<1>1. /\ Others(x) /\ ex'[x].pc # "push" /\ ex'[x].co = NoCo
  BY EndStep DEF Others
<1>2. \A y \in Exec : InHand'[y] \subseteq InHand[y]
  BY <1>1, HandsOf, HandsOfNext, HandsStay
<1> QED
  BY <1>1, <1>2, PlaceSame DEF PlaceInv, Others

LEMMA SameHands ==
    ASSUME UNCHANGED ex PROVE \A y \in Exec : InHand'[y] = InHand[y]
BY DEF InHand

(* A new coroutine is queued, or dropped. *)
Creates(x, d) ==
    /\ d \in Co /\ d \notin made /\ made' = made \cup {d}
    /\ \/ (\E q \in Queue : QueueGains(q, <<d, 1>>)) /\ lost' = lost
       \/ SameQueues /\ lost' = lost \cup {d}
    /\ SameWaits
    /\ UNCHANGED <<conf, ex, joiners, started, stopped, waitsFor, held, cells, crashed, alive>>

LEMMA CreateCells ==
    ASSUME TypeInv, PlaceInv, NEW x \in Exec, Create(x), UNCHANGED conf
    PROVE  (\E d \in Co : Creates(x, d)) /\ PlaceInv'
<1> DEFINE d == Arg(x)
           p == <<d, 1>>
<1>1. d \in Co /\ d \notin made /\ made' = made \cup {d} /\ cells[d] = 1
  BY ArgFact, ConfFacts DEF Create, TypeInv, CellType
<1> HIDE DEF d
<1>2. SameWaits /\ UNCHANGED <<conf, ex, joiners, started, stopped, waitsFor, held, cells, crashed, alive>>
  BY SameWaitCells DEF Create, monitorVars
<1>3. p \notin Used /\ Used \cup {p} \subseteq Used'
  <2>1. \A c, k : <<c, k>> \in Used <=> c \in made /\ k \in Nat \ {0} /\ k <= cells[c]
    BY UsedCells
  <2>2. \A c, k : <<c, k>> \in Used' <=> c \in made' /\ k \in Nat \ {0} /\ k <= cells[c]
    BY <1>2 DEF Used
  <2>3. p \notin Used /\ p \in Used'
    BY <1>1, <2>1, <2>2
  <2>4. Used \subseteq Used'
    BY <1>1, <1>2 DEF Used
  <2> QED
    BY <2>3, <2>4
<1>4. UNCHANGED <<InWait, InHand>>
  BY <1>2 DEF InWait, InHand
<1>5. ASSUME NEW q \in Queue, UNCHANGED lost,
             queue' = [queue EXCEPT ![q] = Append(@, [co |-> d, n |-> 1])]
      PROVE  Creates(x, d) /\ PlaceInv'
  <2> DEFINE t == [co |-> d, n |-> 1]
             T == [co : Co, n : Nat]
  <2>1. t \in T /\ CellOf(t) = p
    BY <1>1 DEF CellOf
  <2>2. MadeTask \subseteq T
    BY ConfFacts DEF MadeTask, TypeInv, LifeType
  <2> HIDE DEF t, T, p
  <2>3. queue[q] \in Seq(T)
    BY <2>2, LargerSeq DEF TypeInv, QueueType
  <2>4. queue' = [queue EXCEPT ![q] = Append(@, t)]
    BY <1>5 DEF t
  <2>5. p \notin InQueue[q]
    BY <1>3 DEF PlaceInv, Apart
  <2>6. QueueGains(q, p) /\ \A r \in Queue : Once(queue'[r])
    BY <2>1, <2>3, <2>4, <2>5, AppendQueue
  <2>7. Creates(x, d)
    BY <1>1, <1>2, <1>5, <2>6 DEF Creates, p
  <2>8. Apart(InWait, InQueue', InHand, Used')
    BY <1>3, <2>6, ApartNewTask DEF PlaceInv, QueueGains
  <2> QED
    BY <1>2, <1>4, <2>6, <2>7, <2>8 DEF PlaceInv
<1>6. CASE UNCHANGED queue /\ lost' = lost \cup {d}
  <2>1. SameQueues
    BY <1>6, SameQueueCells
  <2>2. Apart(InWait, InQueue', InHand, Used')
    BY <1>3, <2>1, ApartShrinks DEF PlaceInv, SameQueues
  <2> QED
    BY <1>1, <1>2, <1>4, <1>6, <2>1, <2>2 DEF Creates, PlaceInv
<1> QED
  BY <1>1, <1>5, <1>6 DEF Create, d

LEMMA JoinPlace ==
    ASSUME TypeInv, PlaceInv, NEW x \in Exec, Join(x), UNCHANGED conf
    PROVE  <<ex[x].co, cells[ex[x].co] + 1>> \notin Used /\ PlaceInv'
<1> DEFINE c == ex[x].co
           n == ex[x].n
           m == cells[c] + 1
           p == <<c, m>>
<1>1. /\ c \in made /\ c \in Co /\ c # NoCo /\ n > 0 /\ m \in Nat \ {0} /\ cells[c] \in Nat
      /\ ex[x].pc = "run"
      /\ Others(x) /\ ex'[x].pc = "push" /\ ex'[x].co = c /\ ex'[x].n = n /\ ex'[x].m = m
  BY JoinStep DEF TypeInv, CellType, Others
<1>2. cells' = [cells EXCEPT ![c] = m] /\ UNCHANGED <<queue, joiners, made>>
  BY DEF Join
<1> HIDE DEF c, n
<1>3. p \notin Used
  BY <1>1, UsedCells
<1>4. Used \cup {p} \subseteq Used'
  BY <1>1, <1>2 DEF Used, TypeInv, CellType
<1>5. InHand[x] = {<<c, n>>}
  BY <1>1, HandsOf DEF c, n
<1>6. n <= cells[c] /\ n # m
  <2>1. <<c, n>> \in Used
    BY <1>5 DEF PlaceInv, Apart
  <2>2. n \in Nat /\ n <= cells[c]
    BY <2>1, UsedCells
  <2> QED
    BY <1>1, <2>2
<1> HIDE DEF m
<1>7. InHand'[x] = InHand[x] \cup {p} /\ \A y \in Exec : y # x => InHand'[y] = InHand[y]
  BY <1>1, <1>5, HandsOfNext, HandsStay
<1> HIDE DEF p
<1>8. Apart(InWait, InQueue, InHand', Used')
  BY <1>3, <1>4, <1>7, ApartNewHand DEF PlaceInv
<1>9. UNCHANGED <<InQueue, InWait>>
  BY <1>2 DEF InQueue, InWait
<1>10. \A y \in Exec : ex'[y].pc = "push" => ex'[y].m # ex'[y].n
  BY <1>1, <1>6 DEF PlaceInv, Others
<1> QED
  BY <1>2, <1>3, <1>8, <1>9, <1>10 DEF PlaceInv, p, m, c

(* The joiners of each coroutine, with the queues they came from. *)
Entries == [t \in Co |-> {joiners[t][i] : i \in DOMAIN joiners[t]}]

(* The caller of join() is queued at the other, or dropped. *)
Pushes(x) ==
    LET c == ex[x].co
        m == ex[x].m
        t == waitsFor[c]
    IN  /\ c \in made /\ c \in Co /\ c # NoCo /\ m \in Nat \ {0} /\ ex[x].pc = "push"
        /\ Others(x) /\ ex'[x].tq = ex[x].tq /\ SameQueues
        /\ \/ /\ ex'[x].pc = "check" /\ ex'[x].co = c /\ ex'[x].n = ex[x].n /\ ex'[x].m = m
              /\ t \in Co => WaitGains(t, <<c, m>>)
              /\ t \notin Co => SameWaits
              /\ \A u \in Co : Entries'[u] \subseteq Entries[u] \cup {[co |-> c, n |-> m, tq |-> ex[x].tq]}
              /\ UNCHANGED <<held, lost>>
           \/ /\ ex'[x].pc \in {"idle", "gone"} /\ ex'[x].co = NoCo
              /\ SameWaits /\ UNCHANGED joiners
              /\ held' = [held EXCEPT ![c] = 0]
              /\ lost' = lost \cup {c}
        /\ UNCHANGED <<conf, made, started, stopped, waitsFor, cells, crashed, alive>>

LEMMA AppendWait ==
    ASSUME TypeInv, PlaceInv, NEW t \in Co, NEW w \in MadeJoiner, CellOf(w) \notin InWait[t],
           joiners' = [joiners EXCEPT ![t] = Append(@, w)]
    PROVE  /\ WaitGains(t, CellOf(w))
           /\ \A u \in Co : Once(joiners'[u])
           /\ \A u \in Co : Entries'[u] \subseteq Entries[u] \cup {w}
<1> DEFINE s == Append(joiners[t], w)
<1>0. joiners[t] \in Seq(MadeJoiner) /\ joiners \in [Co -> Seq(MadeJoiner)]
  BY DEF TypeInv, JoinType
<1>1. CellsOf(s) = CellsOf(joiners[t]) \cup {CellOf(w)}
      /\ (CellOf(w) \notin CellsOf(joiners[t]) => Once(s))
  BY <1>0, AppendCells DEF PlaceInv
<1>2. joiners' = [joiners EXCEPT ![t] = s]
  OBVIOUS
<1>3. \A i \in DOMAIN s : s[i] = w \/ \E j \in DOMAIN joiners[t] : s[i] = joiners[t][j]
  BY <1>0
<1> HIDE DEF s
<1>4. \A u \in Co : u # t => joiners'[u] = joiners[u]
  BY <1>0, <1>2
<1>5. joiners'[t] = s
  BY <1>0, <1>2
<1>6. WaitGains(t, CellOf(w)) /\ \A u \in Co : Once(joiners'[u])
  <2>1. \A u \in Co : InWait[u] = CellsOf(joiners[u]) /\ InWait'[u] = CellsOf(joiners'[u])
    BY DEF InWait
  <2>2. WaitGains(t, CellOf(w))
    BY <1>1, <1>4, <1>5, <2>1 DEF WaitGains
  <2>3. Once(s)
    BY <1>1, <2>1
  <2> QED
    BY <1>4, <1>5, <2>2, <2>3 DEF PlaceInv
<1>7. \A u \in Co : Entries'[u] \subseteq Entries[u] \cup {w}
  BY <1>3, <1>4, <1>5 DEF Entries
<1> QED
  BY <1>6, <1>7

LEMMA PushCells ==
    ASSUME TypeInv, PlaceInv, NEW x \in Exec, Push(x), UNCHANGED conf
    PROVE  Pushes(x) /\ PlaceInv'
<1> DEFINE c == ex[x].co
           n == ex[x].n
           m == ex[x].m
           t == waitsFor[c]
           p == <<c, m>>
           w == [co |-> c, n |-> m, tq |-> ex[x].tq]
<1>0. /\ c \in made /\ c \in Co /\ c # NoCo /\ ex[x].pc = "push" /\ n > 0
      /\ m \in Nat \ {0} /\ ex[x].tq \in Queue /\ m # n
  BY ExFields DEF Push, Bare, Caller, PlaceInv
<1>1. SameQueues /\ UNCHANGED <<conf, queue, made, started, stopped, waitsFor, cells, crashed, alive>>
  BY SameQueueCells DEF Push, monitorVars
<1>2. CASE /\ joiners' = [joiners EXCEPT ![t] = Append(@, w)]
           /\ Goto(x, "check")
           /\ UNCHANGED <<held, lost>>
  <2>1. w \in MadeJoiner /\ CellOf(w) = p
    BY <1>0 DEF MadeJoiner, CellOf
  <2>2. InHand[x] = {<<c, n>>, p}
    BY <1>0, HandsOf
  <2>3. /\ Others(x) /\ ex'[x].pc = "check" /\ ex'[x].co = c /\ ex'[x].n = n /\ ex'[x].m = m
        /\ ex'[x].tq = ex[x].tq
    BY <1>2, GotoStep DEF Others
  <2>4. InHand'[x] \subseteq InHand[x] \ {p} /\ \A y \in Exec : y # x => InHand'[y] = InHand[y]
    <3>1. InHand'[x] = {<<c, n>>}
      BY <1>0, <2>3, HandsOfNext
    <3>2. \A y \in Exec : y # x => InHand'[y] = InHand[y]
      BY <2>3, HandsStay
    <3>3. p # <<c, n>>
      BY <1>0
    <3> QED
      BY <2>2, <3>1, <3>2, <3>3
  <2>5. \A y \in Exec : ex'[y].pc = "push" => ex'[y].m # ex'[y].n
    BY <2>3 DEF PlaceInv, Others
  <2>6. UNCHANGED <<InQueue, Used>>
    BY <1>1 DEF InQueue, Used
  <2>7. CASE t \in Co
    <3>1. \A u \in Co : p \notin InWait[u]
      BY <2>2 DEF PlaceInv, Apart
    <3> HIDE DEF w, t, p
    <3>2. /\ WaitGains(t, p) /\ (\A u \in Co : Once(joiners'[u]))
          /\ \A u \in Co : Entries'[u] \subseteq Entries[u] \cup {w}
      BY <1>2, <2>1, <2>7, <3>1, AppendWait
    <3>3. Apart(InWait', InQueue, InHand', Used)
      BY <2>2, <2>4, <2>7, <3>2, ApartPushed DEF PlaceInv, WaitGains
    <3>4. PlaceInv'
      BY <1>1, <2>5, <2>6, <3>2, <3>3 DEF PlaceInv
    <3>5. Pushes(x)
      BY <1>0, <1>1, <1>2, <2>3, <2>7, <3>2 DEF Pushes, w, t, p
    <3> QED
      BY <3>4, <3>5
  <2>8. CASE t \notin Co
    <3>1. UNCHANGED joiners
      BY <1>2, <2>8 DEF TypeInv, JoinType
    <3>2. SameWaits /\ \A u \in Co : Entries'[u] \subseteq Entries[u]
      BY <3>1, SameWaitCells DEF Entries
    <3>3. \A y \in Exec : InHand'[y] \subseteq InHand[y]
      BY <2>4
    <3>4. PlaceInv'
      BY <1>1, <2>5, <3>1, <3>3, PlaceSame
    <3>5. Pushes(x)
      BY <1>0, <1>1, <1>2, <2>3, <2>8, <3>2 DEF Pushes
    <3> QED
      BY <3>4, <3>5
  <2> QED
    BY <2>7, <2>8
<1>3. CASE /\ held' = [held EXCEPT ![c] = 0]
           /\ lost' = lost \cup {c}
           /\ EndExec(x)
           /\ UNCHANGED joiners
  <2>1. Others(x) /\ ex'[x].pc \in {"idle", "gone"} /\ ex'[x].co = NoCo /\ ex'[x].tq = ex[x].tq
    BY <1>3, EndStep DEF Others
  <2>2. Pushes(x)
    BY <1>0, <1>1, <1>3, <2>1, SameWaitCells DEF Pushes
  <2> QED
    BY <1>1, <1>3, <2>2, EndPlace
<1> QED
  BY <1>2, <1>3 DEF Push

(* The end of a coroutine pops a joiner, and schedules one that is still there. *)
Wakes(x) ==
    LET c == ex[x].co
    IN  /\ c \in Co /\ ex[x].pc = "wake"
        /\ \/ /\ InWait[c] = {}
              /\ Others(x) /\ ex'[x].pc \in {"idle", "gone"} /\ ex'[x].co = NoCo /\ ex'[x].tq = ex[x].tq
              /\ SameQueues /\ SameWaits /\ UNCHANGED <<lost, joiners>>
           \/ \E w \in MadeJoiner :
                 /\ w \in Entries[c]
                 /\ \A u \in Co : Entries'[u] \subseteq Entries[u]
                 /\ WaitLoses(c, <<w.co, w.n>>)
                 /\ \/ held[w.co] # w.n /\ SameQueues /\ lost' = lost
                    \/ held[w.co] = w.n /\ QueueGains(w.tq, <<w.co, w.n>>) /\ lost' = lost
                    \/ held[w.co] = w.n /\ SameQueues /\ lost' = lost \cup {w.co}
                 /\ UNCHANGED ex
        /\ UNCHANGED <<conf, made, started, stopped, waitsFor, held, cells, crashed, alive>>

LEMMA TailWait ==
    ASSUME TypeInv, PlaceInv, NEW c \in Co, joiners[c] # <<>>,
           joiners' = [joiners EXCEPT ![c] = Tail(@)]
    PROVE  /\ Head(joiners[c]) \in MadeJoiner /\ Head(joiners[c]) \in Entries[c]
           /\ WaitLoses(c, CellOf(Head(joiners[c])))
           /\ \A u \in Co : Once(joiners'[u])
           /\ \A u \in Co : Entries'[u] \subseteq Entries[u]
<1> DEFINE s == Tail(joiners[c])
           w == Head(joiners[c])
           p == CellOf(w)
<1>1. joiners \in [Co -> Seq(MadeJoiner)] /\ joiners[c] \in Seq(MadeJoiner)
  BY DEF TypeInv, JoinType
<1>2. CellsOf(s) = CellsOf(joiners[c]) \ {p} /\ p \in CellsOf(joiners[c]) /\ Once(s)
  BY <1>1, TailCells DEF PlaceInv
<1>3. w \in MadeJoiner
  BY <1>1, HeadFact
<1>4. \A i \in DOMAIN s : \E j \in DOMAIN joiners[c] : s[i] = joiners[c][j]
  BY <1>1
<1>5. \E j \in DOMAIN joiners[c] : w = joiners[c][j]
  <2>1. 1 \in DOMAIN joiners[c] /\ w = joiners[c][1]
    BY <1>1
  <2> QED
    BY <2>1
<1>6. joiners' = [joiners EXCEPT ![c] = s]
  OBVIOUS
<1> HIDE DEF s, w, p
<1>7. joiners'[c] = s /\ \A u \in Co : u # c => joiners'[u] = joiners[u]
  BY <1>1, <1>6
<1>8. \A u \in Co : InWait[u] = CellsOf(joiners[u]) /\ InWait'[u] = CellsOf(joiners'[u])
  BY DEF InWait
<1>9. WaitLoses(c, p) /\ \A u \in Co : Once(joiners'[u])
  BY <1>2, <1>7, <1>8 DEF WaitLoses, PlaceInv
<1>10. w \in Entries[c] /\ \A u \in Co : Entries'[u] \subseteq Entries[u]
  BY <1>4, <1>5, <1>7 DEF Entries
<1> QED
  BY <1>3, <1>9, <1>10 DEF p, w

LEMMA WakeCells ==
    ASSUME TypeInv, PlaceInv, NEW x \in Exec, Wake(x), UNCHANGED conf
    PROVE  Wakes(x) /\ PlaceInv'
<1> DEFINE c == ex[x].co
           w == Head(joiners[c])
           t == [co |-> w.co, n |-> w.n]
           p == <<w.co, w.n>>
<1>0. c \in Co /\ ex[x].pc = "wake"
  BY ExFields DEF Wake, Bare
<1>1. UNCHANGED <<conf, made, started, stopped, waitsFor, held, cells, crashed, alive>>
  BY DEF Wake, monitorVars
<1>2. CASE joiners[c] = <<>>
  <2>1. EndExec(x) /\ UNCHANGED <<queue, lost, joiners>>
    BY <1>2 DEF Wake
  <2>2. Others(x) /\ ex'[x].pc \in {"idle", "gone"} /\ ex'[x].co = NoCo /\ ex'[x].tq = ex[x].tq
    BY <2>1, EndStep DEF Others
  <2>3. InWait[c] = {}
    BY <1>0, <1>2 DEF InWait, CellsOf
  <2> QED
    BY <1>0, <1>1, <2>1, <2>2, <2>3, SameQueueCells, SameWaitCells, EndPlace DEF Wakes
<1>3. CASE joiners[c] # <<>>
  <2>1. /\ joiners' = [joiners EXCEPT ![c] = Tail(@)]
        /\ UNCHANGED ex
        /\ IF Valid(w) THEN Enqueue(w.tq, t) ELSE UNCHANGED <<queue, lost>>
    BY <1>3 DEF Wake
  <2>2. /\ w \in MadeJoiner /\ w \in Entries[c] /\ WaitLoses(c, p)
        /\ \A u \in Co : Once(joiners'[u])
        /\ \A u \in Co : Entries'[u] \subseteq Entries[u]
    BY <1>0, <1>3, <2>1, TailWait DEF CellOf
  <2>3. w.tq \in Queue /\ t \in MadeTask /\ CellOf(t) = p /\ t.co = w.co
    BY <2>2 DEF MadeJoiner, MadeTask, CellOf
  <2> HIDE DEF w, t
  <2>4. p \notin InQueue[w.tq]
    BY <1>0, <2>2, <2>3 DEF PlaceInv, Apart, WaitLoses
  <2>5. /\ \/ held[w.co] # w.n /\ SameQueues /\ lost' = lost
           \/ held[w.co] = w.n /\ QueueGains(w.tq, p) /\ lost' = lost
           \/ held[w.co] = w.n /\ SameQueues /\ lost' = lost \cup {w.co}
        /\ \A r \in Queue : Once(queue'[r])
    <3>1. CASE Valid(w)
      BY <2>1, <2>3, <2>4, <3>1, EnqueueCells DEF Valid
    <3>2. CASE ~Valid(w)
      BY <2>1, <3>2, SameQueueCells DEF Valid, PlaceInv
    <3> QED
      BY <3>1, <3>2
  <2>6. Wakes(x)
    BY <1>0, <1>1, <2>1, <2>2, <2>5 DEF Wakes
  <2> HIDE DEF p
  <2>7. p \in InWait[c] /\ InWait'[c] = InWait[c] \ {p} /\ \A u \in Co : u # c => InWait'[u] = InWait[u]
    BY <2>2 DEF WaitLoses
  <2>8. /\ InQueue'[w.tq] \subseteq InQueue[w.tq] \cup {p}
        /\ \A r \in Queue : r # w.tq => InQueue'[r] = InQueue[r]
    BY <2>3, <2>5 DEF QueueGains, SameQueues
  <2>9. Apart(InWait', InQueue', InHand, Used)
    <3> DEFINE q == w.tq
    <3>1. /\ q \in Queue /\ Apart(InWait, InQueue, InHand, Used)
          /\ InQueue'[q] \subseteq InQueue[q] \cup {p}
          /\ \A r \in Queue : r # q => InQueue'[r] = InQueue[r]
      BY <2>3, <2>8 DEF PlaceInv
    <3> HIDE DEF q, c
    <3> QED
      BY <1>0, <2>7, <3>1, ApartWoken
  <2>10. UNCHANGED <<InHand, Used>>
    BY <1>1, <2>1 DEF InHand, Used
  <2> QED
    BY <2>1, <2>2, <2>5, <2>6, <2>9, <2>10 DEF PlaceInv
<1> QED
  BY <1>2, <1>3

LEMMA MovePlace ==
    ASSUME TypeInv, PlaceInv, NEW x \in Exec, Move(x), UNCHANGED conf PROVE PlaceInv'
<1>1. ex[x].pc = "move" /\ UNCHANGED <<queue, joiners, made, cells>>
  BY DEF Move
<1>2. CASE Goto(x, "run")
  BY <1>1, <1>2, GotoPlace
<1>3. CASE UNCHANGED ex
  BY <1>1, <1>3, SameHands, PlaceSame DEF PlaceInv
<1> QED
  BY <1>2, <1>3 DEF Move

LEMMA MonitorPlace ==
    ASSUME TypeInv, PlaceInv, NEW q \in Queue, Monitor(q) PROVE PlaceInv'
<1>0. UNCHANGED <<queue, joiners, made, cells>>
  BY DEF Monitor, Mark, Replace
<1>1. CASE Mark(q)
  <2>1. \A y \in Exec : /\ ex'[y].pc = ex[y].pc /\ ex'[y].co = ex[y].co
                        /\ ex'[y].n = ex[y].n /\ ex'[y].m = ex[y].m
    BY <1>1, MarkStep
  <2>2. \A y \in Exec : InHand'[y] \subseteq InHand[y]
    BY <2>1, HandsOf, HandsOfNext
  <2> QED
    BY <1>0, <2>1, <2>2, PlaceSame DEF PlaceInv
<1>2. CASE Replace(q)
  <2>1. PICK x, z \in Exec :
             /\ x # z /\ ex[x].pc # "none" /\ ex[z].pc = "none"
             /\ \A y \in Exec : y # x /\ y # z => ex'[y] = ex[y]
             /\ ex'[z].pc = "idle" /\ ex'[z].co = NoCo
             /\ ex'[x].pc = ex[x].pc /\ ex'[x].co = ex[x].co /\ ex'[x].n = ex[x].n
             /\ ex'[x].m = ex[x].m
    BY <1>2, ReplaceStep
  <2>2. \A y \in Exec : InHand'[y] \subseteq InHand[y]
    BY <2>1, HandsOf, HandsOfNext
  <2> QED
    BY <1>0, <2>1, <2>2, PlaceSame DEF PlaceInv
<1> QED
  BY <1>1, <1>2 DEF Monitor

LEMMA PlaceInit == Init => PlaceInv
<1> SUFFICES ASSUME Init PROVE PlaceInv
  OBVIOUS
<1>0. TypeInv
  BY InitType
<1> DEFINE s == queue[0]
<1>1. /\ conf.initial \in Seq(DOMAIN Prog)
      /\ \A i, j \in DOMAIN conf.initial : conf.initial[i] = conf.initial[j] => i = j
  BY SchedAssumption DEF Init, IsConf, Prog
<1>2. 0 \in Queue
  BY SchedAssumption DEF Queue
<1>3. /\ DOMAIN s = DOMAIN conf.initial
      /\ \A i \in DOMAIN s : CellOf(s[i]) = <<conf.initial[i], 1>>
      /\ \A q \in Queue : q # 0 => queue[q] = <<>>
  BY <1>2 DEF Init, CellOf
<1>4. Once(s) /\ CellsOf(<<>>) = {} /\ Once(<<>>)
  BY <1>1, <1>3 DEF Once, CellsOf
<1>5. InQueue[0] \subseteq Used /\ \A q \in Queue : q # 0 => InQueue[q] = {}
  <2>1. \A i \in DOMAIN conf.initial : conf.initial[i] \in made /\ cells[conf.initial[i]] = 1
    BY <1>0, ConfFacts DEF Init, TypeInv, LifeType
  <2>2. \A i \in DOMAIN s : CellOf(s[i]) \in Used
    BY <1>0, <1>3, <2>1, UsedCells
  <2> QED
    BY <1>2, <1>3, <1>4, <2>2 DEF InQueue, CellsOf
<1>6. \A t \in Co : joiners[t] = <<>>
  BY DEF Init
<1>7. \A t \in Co : InWait[t] = {} /\ Once(joiners[t])
  BY <1>4, <1>6 DEF InWait
<1>8. \A x \in Exec : ex[x].pc \in {"none", "idle"} /\ ex[x].co = NoCo
  <2>1. \A q : NewExecutor(q).pc = "idle" /\ NewExecutor(q).co = NoCo /\ NoExecutor.pc = "none"
    BY DEF NewExecutor, NoExecutor
  <2>2. \A x \in Exec : ex[x] = NewExecutor(x - 1) \/ ex[x] = NoExecutor
    BY DEF Init
  <2> QED
    BY <1>0, <2>1, <2>2, ExFields DEF Bare
<1>9. \A x \in Exec : InHand[x] = {}
  BY <1>8, HandsOf
<1>10. \A q \in Queue : Once(queue[q])
  BY <1>3, <1>4
<1> QED
  BY <1>5, <1>7, <1>8, <1>9, <1>10 DEF PlaceInv, Apart

LEMMA ThiefInit == Init => ThiefInv
<1> SUFFICES ASSUME Init, NEW x \in Exec PROVE ex[x].pc # "steal"
  BY DEF ThiefInv
<1>1. \A q : NewExecutor(q).pc = "idle" /\ NoExecutor.pc = "none"
  BY DEF NewExecutor, NoExecutor
<1>2. ex[x] = NewExecutor(x - 1) \/ ex[x] = NoExecutor
  BY DEF Init
<1> QED
  BY <1>1, <1>2

LEMMA WorkPlace ==
    ASSUME TypeInv, PlaceInv, ThiefInv, NEW x \in Exec, Work(x) PROVE PlaceInv'
<1>0. UNCHANGED conf
  BY DEF Work
<1>1. CASE Block(x)
  BY <1>1, GotoPlace DEF Block, Runs
<1>2. CASE JoinReturns(x)
  BY <1>2, SameHands, PlaceSame DEF JoinReturns, PlaceInv
<1>3. CASE Check(x)
  <2>1. ex[x].pc = "check" /\ (Goto(x, "move") \/ EndExec(x)) /\ UNCHANGED <<queue, joiners, made, cells>>
    BY <1>3 DEF Check
  <2> QED
    BY <2>1, GotoPlace, EndPlace
<1>4. CASE End(x)
  BY <1>4, GotoPlace DEF End
<1> QED
  BY <1>0, <1>1, <1>2, <1>3, <1>4, DequeueCells, StealSingleCells, StealHalfCells, StealOneCells,
     ResumePlace, YieldCells, CreateCells, JoinPlace, PushCells, MovePlace, WakeCells
     DEF Work, WorkOf

LEMMA PlaceStep == TypeInv /\ PlaceInv /\ ThiefInv /\ [Next]_vars => PlaceInv'
<1> SUFFICES ASSUME TypeInv, PlaceInv, ThiefInv, [Next]_vars PROVE PlaceInv'
  OBVIOUS
<1>1. CASE UNCHANGED vars
  BY <1>1, SameHands, PlaceSame DEF vars, PlaceInv
<1>2. CASE AllQuiet
  BY <1>2, SameHands, PlaceSame DEF AllQuiet, vars, PlaceInv
<1>3. ASSUME NEW x \in Exec, Unblock(x) PROVE PlaceInv'
  BY <1>3, GotoPlace DEF Unblock
<1> QED
  BY <1>1, <1>2, <1>3, WorkPlace, MonitorPlace DEF Next

LEMMA ThiefStep == TypeInv /\ PlaceInv /\ ThiefInv /\ [Next]_vars => ThiefInv'
<1> SUFFICES ASSUME TypeInv, PlaceInv, ThiefInv, [Next]_vars PROVE ThiefInv'
  OBVIOUS
<1>1. CASE UNCHANGED vars
  BY <1>1 DEF vars, ThiefInv
<1>2. CASE AllQuiet
  BY <1>2 DEF AllQuiet, vars, ThiefInv
<1>3. ASSUME NEW x \in Exec, Work(x) PROVE ThiefInv'
  <2> SUFFICES ASSUME UNCHANGED conf PROVE ThiefInv'
    BY <1>3 DEF Work
  <2>1. CASE Others(x) /\ ex'[x].pc # "steal"
    BY <2>1 DEF ThiefInv, Others
  <2>2. CASE UNCHANGED ex
    BY <2>2 DEF ThiefInv
  <2>3. CASE Dequeue(x)
    BY <2>1, <2>3, DequeueCells DEF Takes
  <2>4. CASE StealSingle(x)
    BY <2>1, <2>4, StealSingleCells DEF Takes
  <2>5. CASE StealHalf(x)
    BY <2>5, StealHalfCells DEF Steals, ThiefInv, Others
  <2>6. CASE StealOne(x)
    BY <2>6, StealOneCells DEF Steals, ThiefInv, Others
  <2>7. CASE Resume(x)
    BY <2>1, <2>2, <2>7, GotoStep DEF Resume, Others
  <2>8. CASE Yield(x)
    BY <2>1, <2>8, YieldCells DEF Yields
  <2>9. CASE Block(x)
    BY <2>1, <2>9, GotoStep DEF Block, Others
  <2>10. CASE Create(x)
    BY <2>2, <2>10 DEF Create
  <2>11. CASE JoinReturns(x)
    BY <2>2, <2>11 DEF JoinReturns
  <2>12. CASE Join(x)
    BY <2>1, <2>12, JoinStep DEF Others
  <2>13. CASE Push(x)
    BY <2>1, <2>13, PushCells DEF Pushes
  <2>14. CASE Check(x)
    BY <2>1, <2>14, GotoStep, EndStep DEF Check, Others
  <2>15. CASE Move(x)
    BY <2>1, <2>2, <2>15, GotoStep DEF Move, Others
  <2>16. CASE End(x)
    BY <2>1, <2>16, GotoStep DEF End, Others
  <2>17. CASE Wake(x)
    BY <2>1, <2>2, <2>17, WakeCells DEF Wakes
  <2> QED
    BY <1>3, <2>3, <2>4, <2>5, <2>6, <2>7, <2>8, <2>9, <2>10, <2>11, <2>12, <2>13, <2>14, <2>15,
       <2>16, <2>17 DEF Work, WorkOf
<1>4. ASSUME NEW x \in Exec, Unblock(x), UNCHANGED conf PROVE ThiefInv'
  BY <1>4, GotoStep DEF Unblock, ThiefInv
<1>5. ASSUME NEW q \in Queue, Monitor(q) PROVE ThiefInv'
  <2>1. UNCHANGED conf
    BY <1>5 DEF Monitor
  <2>2. CASE Mark(q)
    BY <2>1, <2>2, MarkStep DEF ThiefInv
  <2>3. CASE Replace(q)
    <3>1. conf.steal
      BY <2>3 DEF Replace
    <3> QED
      BY <2>1, <3>1 DEF ThiefInv
  <2> QED
    BY <1>5, <2>2, <2>3 DEF Monitor
<1> QED
  BY <1>1, <1>2, <1>3, <1>4, <1>5 DEF Next

LEMMA PlaceHolds == Spec => [](PlaceInv /\ ThiefInv)
BY PlaceInit, ThiefInit, PlaceStep, ThiefStep, TypeInvHolds, PTL DEF Spec

-----------------------------------------------------------------------------

HostPc == {"run", "blocked", "wake"}

HostInv ==
    /\ \A x, y \in Exec : ex[x].pc \in HostPc /\ ex[y].pc \in HostPc /\ ex[x].co = ex[y].co => x = y
    /\ \A x \in Exec : ex[x].pc \in HostPc => held[ex[x].co] = 0 /\ waitsFor[ex[x].co] = NoCo

(* The executors that run a coroutine were running it before. *)
LEMMA HostSame ==
    ASSUME HostInv,
           \A x \in Exec : ex'[x].pc \in HostPc => ex[x].pc \in HostPc /\ ex'[x].co = ex[x].co
                              /\ held'[ex[x].co] = 0 /\ waitsFor'[ex[x].co] = NoCo
    PROVE  HostInv'
BY DEF HostInv

(* A coroutine that nobody runs is resumed by one executor. *)
LEMMA HostNew ==
    ASSUME TypeInv, HostInv, NEW x \in Exec, NEW c \in Co, ex[x].co = c, held[c] # 0,
           Others(x), ex'[x].co = c,
           held' = [held EXCEPT ![c] = 0], waitsFor' = [waitsFor EXCEPT ![c] = NoCo]
    PROVE  HostInv'
<1>1. \A y \in Exec : ex[y].pc \in HostPc => ex[y].co # c /\ ex[y].co \in Co
  BY ExFields DEF HostInv, HostPc, Bare
<1>2. held'[c] = 0 /\ waitsFor'[c] = NoCo
      /\ \A d \in Co : d # c => held'[d] = held[d] /\ waitsFor'[d] = waitsFor[d]
  BY DEF TypeInv, CellType
<1> QED
  BY <1>1, <1>2 DEF HostInv, Others

(* The executor of a coroutine leaves it. *)
LEMMA HostLeaves ==
    ASSUME TypeInv, HostInv, NEW x \in Exec, ex[x].pc \in HostPc, Others(x), ex'[x].pc \notin HostPc,
           \A d \in Co : d # ex[x].co => held'[d] = held[d] /\ waitsFor'[d] = waitsFor[d]
    PROVE  HostInv'
<1>1. \A y \in Exec : y # x /\ ex[y].pc \in HostPc => ex[y].co # ex[x].co /\ ex[y].co \in Co
  BY ExFields DEF HostInv, HostPc, Bare
<1> QED
  BY <1>1 DEF HostInv, Others

LEMMA WorkHost ==
    ASSUME TypeInv, PlaceInv, ThiefInv, HostInv, NEW x \in Exec, Work(x) PROVE HostInv'
<1>0. UNCHANGED conf
  BY DEF Work
<1>1. CASE UNCHANGED <<held, waitsFor>> /\ Others(x) /\ ex'[x].pc \notin HostPc
  BY <1>1, HostSame DEF Others, HostInv
<1>2. CASE UNCHANGED <<held, waitsFor, ex>>
  BY <1>2, HostSame DEF HostInv
<1>3. CASE UNCHANGED <<held, waitsFor>> /\ Others(x) /\ ex[x].pc \in HostPc /\ ex'[x].co = ex[x].co
  BY <1>3, HostSame DEF Others, HostInv
<1>4. CASE Dequeue(x)
  BY <1>0, <1>1, <1>4, DequeueCells DEF Takes, HostPc
<1>5. CASE StealSingle(x)
  BY <1>0, <1>1, <1>5, StealSingleCells DEF Takes, HostPc
<1>6. CASE StealHalf(x)
  BY <1>0, <1>1, <1>6, StealHalfCells DEF Steals, HostPc
<1>7. CASE StealOne(x)
  BY <1>0, <1>1, <1>7, StealOneCells DEF Steals, HostPc
<1>8. CASE Resume(x)
  <2>1. ex[x].co \in Co /\ ex[x].n > 0
    BY <1>8, ExFields DEF Resume, Bare
  <2>2. CASE Valid(ex[x])
    BY <1>8, <2>1, <2>2, GotoStep, HostNew DEF Resume, Valid, Others
  <2> QED
    BY <1>2, <1>8, <2>2 DEF Resume
<1>9. CASE Yield(x)
  <2>1. Yields(x)
    BY <1>0, <1>9, YieldCells
  <2>2. \A d \in Co : d # ex[x].co => held'[d] = held[d] /\ waitsFor'[d] = waitsFor[d]
    BY <2>1 DEF Yields, TypeInv, CellType
  <2> QED
    BY <2>1, <2>2, HostLeaves DEF Yields, HostPc
<1>10. CASE Block(x)
  BY <1>3, <1>10, GotoStep DEF Block, Runs, Others, HostPc
<1>11. CASE Create(x)
  BY <1>2, <1>11 DEF Create
<1>12. CASE JoinReturns(x)
  BY <1>2, <1>12 DEF JoinReturns
<1>13. CASE Join(x)
  <2>1. ex[x].pc = "run" /\ Others(x) /\ ex'[x].pc = "push"
    BY <1>13, JoinStep DEF Others
  <2>2. \A d \in Co : d # ex[x].co => held'[d] = held[d] /\ waitsFor'[d] = waitsFor[d]
    BY <1>13 DEF Join, TypeInv, CellType
  <2> QED
    BY <2>1, <2>2, HostLeaves DEF HostPc
<1>14. CASE Push(x)
  <2>1. Pushes(x)
    BY <1>0, <1>14, PushCells
  <2>2. Others(x) /\ ex'[x].pc \notin HostPc /\ UNCHANGED waitsFor
    BY <2>1 DEF Pushes, HostPc
  <2>3. \A d \in Co : held[d] = 0 => held'[d] = 0
    BY <2>1 DEF Pushes, TypeInv, CellType
  <2>4. \A y \in Exec : ex[y].pc \in HostPc => ex[y].co \in Co
    BY ExFields DEF HostPc, Bare
  <2> QED
    BY <2>2, <2>3, <2>4, HostSame DEF Others, HostInv
<1>15. CASE Check(x)
  BY <1>1, <1>15, GotoStep, EndStep DEF Check, Others, HostPc
<1>16. CASE Move(x)
  <2>1. ex[x].co \in Co /\ ex[x].m > 0 /\ ex[x].m \in Nat
    BY <1>16, ExFields DEF Move, Bare, Caller
  <2>2. CASE held[ex[x].co] = ex[x].m /\ waitsFor[ex[x].co] # NoCo
    BY <1>16, <2>1, <2>2, GotoStep, HostNew DEF Move, Others
  <2> QED
    BY <1>2, <1>16, <2>2 DEF Move
<1>17. CASE End(x)
  BY <1>3, <1>17, GotoStep DEF End, Others, HostPc
<1>18. CASE Wake(x)
  BY <1>0, <1>1, <1>2, <1>18, WakeCells DEF Wakes, HostPc
<1> QED
  BY <1>4, <1>5, <1>6, <1>7, <1>8, <1>9, <1>10, <1>11, <1>12, <1>13, <1>14, <1>15, <1>16, <1>17,
     <1>18 DEF Work, WorkOf

LEMMA MonitorHands ==
    ASSUME TypeInv, NEW q \in Queue, Monitor(q)
    PROVE  /\ \A y \in Exec : \/ /\ ex'[y].pc = ex[y].pc /\ ex'[y].co = ex[y].co
                                 /\ ex'[y].n = ex[y].n /\ ex'[y].m = ex[y].m
                                 /\ ex'[y].tq = ex[y].tq
                              \/ /\ ex[y].pc = "none" /\ ex'[y].pc = "idle" /\ ex'[y].co = NoCo
                                 /\ ex[y].co = NoCo
           /\ UNCHANGED <<conf, queue, joiners, made, started, stopped, lost, waitsFor, held, cells, crashed>>
<1>1. CASE Mark(q)
  BY <1>1, MarkStep DEF Mark, Monitor
<1>2. CASE Replace(q)
  <2>1. PICK x, z \in Exec :
             /\ x # z /\ ex[x].pc # "none" /\ ex[z].pc = "none"
             /\ \A y \in Exec : y # x /\ y # z => ex'[y] = ex[y]
             /\ ex'[z].pc = "idle" /\ ex'[z].co = NoCo
             /\ ex'[x].pc = ex[x].pc /\ ex'[x].co = ex[x].co /\ ex'[x].n = ex[x].n
             /\ ex'[x].m = ex[x].m /\ ex'[x].tq = ex[x].tq
    BY <1>2, ReplaceStep
  <2>2. ex[z].co = NoCo
    BY <2>1, ExFields DEF Bare
  <2> QED
    BY <1>2, <2>1, <2>2 DEF Replace, Monitor
<1> QED
  BY <1>1, <1>2 DEF Monitor

LEMMA HostStep == TypeInv /\ PlaceInv /\ ThiefInv /\ HostInv /\ [Next]_vars => HostInv'
<1> SUFFICES ASSUME TypeInv, PlaceInv, ThiefInv, HostInv, [Next]_vars PROVE HostInv'
  OBVIOUS
<1>1. CASE UNCHANGED vars
  BY <1>1, HostSame DEF vars, HostInv
<1>2. CASE AllQuiet
  BY <1>2, HostSame DEF AllQuiet, vars, HostInv
<1>3. ASSUME NEW x \in Exec, Unblock(x) PROVE HostInv'
  BY <1>3, GotoStep, HostSame DEF Unblock, HostInv, HostPc
<1>4. ASSUME NEW q \in Queue, Monitor(q) PROVE HostInv'
  BY <1>4, MonitorHands, HostSame DEF HostInv, HostPc
<1> QED
  BY <1>1, <1>2, <1>3, <1>4, WorkHost DEF Next

LEMMA HostInit == Init => HostInv
<1> SUFFICES ASSUME Init PROVE HostInv
  OBVIOUS
<1>1. \A q : NewExecutor(q).pc = "idle" /\ NoExecutor.pc = "none"
  BY DEF NewExecutor, NoExecutor
<1>2. \A x \in Exec : ex[x] = NewExecutor(x - 1) \/ ex[x] = NoExecutor
  BY DEF Init
<1> QED
  BY <1>1, <1>2 DEF HostInv, HostPc

LEMMA HostHolds == Spec => []HostInv
BY HostInit, HostStep, TypeInvHolds, PlaceHolds, PTL DEF Spec

(* A coroutine runs on one executor at most, and a suspended one is due to be
   resumed at most once. *)
THEOREM RunsOnceHolds == Spec => []RunsOnce
<1>1. TypeInv /\ PlaceInv /\ HostInv => RunsOnce
  <2> SUFFICES ASSUME TypeInv, PlaceInv, HostInv, NEW c \in Co
               PROVE  /\ \A x, y \in Hosted(c) : x = y
                      /\ \A a, b \in Queued(c) : a = b
                      /\ \A x, y \in About(c) : x = y
                      /\ Queued(c) = {} \/ About(c) = {}
    BY DEF RunsOnce
  <2> DEFINE k == <<c, held[c]>>
  <2>1. \A x, y \in Hosted(c) : x = y
    BY DEF Hosted, HostInv, HostPc
  <2>2. \A p \in Queued(c) : /\ p[1] \in Queue /\ p[2] \in DOMAIN queue[p[1]] /\ p = <<p[1], p[2]>>
                             /\ CellOf(queue[p[1]][p[2]]) = k /\ k \in InQueue[p[1]]
    <3> TAKE p \in Queued(c)
    <3>1. p \in Queue \X (1 .. conf.qcap) /\ Names(p, c)
      BY DEF Queued
    <3>2. /\ p[1] \in Queue /\ p = <<p[1], p[2]>> /\ p[2] \in DOMAIN queue[p[1]]
          /\ queue[p[1]][p[2]].co = c /\ held[c] = queue[p[1]][p[2]].n
      BY <3>1 DEF Names, Valid
    <3>3. CellOf(queue[p[1]][p[2]]) = k
      BY <3>2 DEF CellOf
    <3>4. k \in InQueue[p[1]]
      BY <3>2, <3>3 DEF InQueue, CellsOf
    <3> QED
      BY <3>2, <3>3, <3>4
  <2>3. \A x \in About(c) : x \in Exec /\ k \in InHand[x]
    <3> TAKE x \in About(c)
    <3>1. x \in Exec /\ ex[x].co = c /\ ex[x].pc = "resume" /\ held[c] = ex[x].n
      BY DEF About, Valid
    <3>2. ex[x].co # NoCo
      BY <3>1, ExFields DEF Bare
    <3> QED
      BY <3>1, <3>2, HandsOf
  <2> HIDE DEF k
  <2>4. \A a, b \in Queued(c) : a = b
    <3> TAKE a, b \in Queued(c)
    <3>1. a[1] = b[1]
      BY <2>2 DEF PlaceInv, Apart
    <3>2. a[2] = b[2]
      <4>1. CellOf(queue[a[1]][a[2]]) = CellOf(queue[a[1]][b[2]])
            /\ a[2] \in DOMAIN queue[a[1]] /\ b[2] \in DOMAIN queue[a[1]] /\ a[1] \in Queue
        BY <2>2, <3>1
      <4> QED
        BY <4>1 DEF PlaceInv, Once
    <3> QED
      BY <2>2, <3>1, <3>2
  <2>5. \A x, y \in About(c) : x = y
    BY <2>3 DEF PlaceInv, Apart
  <2>6. Queued(c) = {} \/ About(c) = {}
    BY <2>2, <2>3 DEF PlaceInv, Apart
  <2> QED
    BY <2>1, <2>4, <2>5, <2>6
<1> QED
  BY <1>1, TypeInvHolds, PlaceHolds, HostHolds, PTL

(* Every step changes the places, and what the coroutines wait for, in one of
   the following ways. *)

Nowhere == SameQueues /\ SameWaits /\ UNCHANGED joiners
Holds(x, pc) == /\ ex'[x].pc = pc /\ ex'[x].co = ex[x].co /\ ex'[x].n = ex[x].n
                /\ ex'[x].m = ex[x].m /\ ex'[x].tq = ex[x].tq
Leaves(x) == ex'[x].pc \in {"idle", "gone"} /\ ex'[x].co = NoCo /\ ex'[x].tq = ex[x].tq

(* No cell is filled, emptied or moved; a new executor may appear. *)
Stays ==
    /\ \A y \in Exec :
          \/ Holds(y, ex[y].pc)
          \/ ex[y].pc \in {"run", "blocked"} /\ (Holds(y, "run") \/ Holds(y, "blocked"))
          \/ conf.steal /\ ex[y].pc = "none" /\ ex[y].co = NoCo /\ ex'[y].pc = "idle" /\ ex'[y].co = NoCo
    /\ Nowhere
    /\ \/ crashed' = crashed
       \/ \E x \in Exec : \/ ex[x].pc = "resume" /\ held[ex[x].co] # ex[x].n
                          \/ ex[x].pc = "move" /\ held[ex[x].co] # ex[x].m
                          \/ ex[x].pc = "move" /\ waitsFor[ex[x].co] = NoCo
    /\ UNCHANGED <<conf, made, started, stopped, lost, waitsFor, held, cells>>

(* Resume, or Move: a coroutine leaves its cell for an executor. *)
GoesOn(x) ==
    LET c == ex[x].co
    IN  /\ c \in made /\ c \in Co
        /\ \/ ex[x].pc = "resume" /\ held[c] = ex[x].n /\ ex[x].n # 0
           \/ ex[x].pc = "move" /\ held[c] = ex[x].m /\ ex[x].m # 0
        /\ Others(x) /\ Holds(x, "run") /\ Nowhere
        /\ held' = [held EXCEPT ![c] = 0]
        /\ waitsFor' = [waitsFor EXCEPT ![c] = NoCo]
        /\ UNCHANGED <<conf, made, stopped, lost, cells, crashed>>

(* A coroutine moves into a new cell, to wait for another one. *)
Joins(x) ==
    LET c == ex[x].co
        m == cells[c] + 1
    IN  /\ c \in made /\ c \in Co /\ m \in Nat \ {0} /\ ex[x].pc = "run" /\ <<c, m>> \notin Used
        /\ Others(x) /\ Nowhere
        /\ ex'[x].pc = "push" /\ ex'[x].co = c /\ ex'[x].n = ex[x].n /\ ex'[x].m = m
        /\ ex'[x].tq = ex[x].tq
        /\ \E u \in Co : waitsFor' = [waitsFor EXCEPT ![c] = u]
        /\ held' = [held EXCEPT ![c] = m]
        /\ cells' = [cells EXCEPT ![c] = m]
        /\ UNCHANGED <<conf, made, stopped, lost, crashed>>

Checks(x) ==
    LET c == ex[x].co
    IN  /\ c \in made /\ c \in Co /\ ex[x].pc = "check"
        /\ Others(x) /\ Nowhere
        /\ \/ waitsFor[c] \in stopped \cup {NoCo} /\ held[c] = ex[x].m /\ Holds(x, "move")
           \/ ~(waitsFor[c] \in stopped \cup {NoCo} /\ held[c] = ex[x].m) /\ Leaves(x)
        /\ UNCHANGED <<conf, made, stopped, lost, waitsFor, held, cells, crashed>>

Ends(x) ==
    LET c == ex[x].co
    IN  /\ c \in made /\ c \in Co /\ ex[x].pc = "run"
        /\ Others(x) /\ Nowhere /\ Holds(x, "wake")
        /\ stopped' = stopped \cup {c}
        /\ UNCHANGED <<conf, made, lost, waitsFor, held, cells, crashed>>

Effect(x) ==
    \/ \E q \in Queue, c \in made, k \in Nat \ {0} :
          Takes(x, q, c, k) /\ (conf.steal \/ q = ex[x].tq)
    \/ Steals(x) \/ GoesOn(x) \/ Yields(x) \/ (\E d \in Co : Creates(x, d))
    \/ Joins(x) \/ Pushes(x) \/ Checks(x) \/ Ends(x) \/ Wakes(x)

LEMMA StaysStill == UNCHANGED <<ex, queue, joiners, conf, crashed, made, started, stopped, lost, waitsFor, held, cells>> => Stays
BY SameQueueCells, SameWaitCells DEF Stays, Nowhere, Holds

LEMMA WorkEffect ==
    ASSUME TypeInv, PlaceInv, ThiefInv, NEW x \in Exec, Work(x) PROVE Stays \/ Effect(x)
<1>0. UNCHANGED conf
  BY DEF Work
<1>N. UNCHANGED <<queue, joiners>> => Nowhere
  BY SameQueueCells, SameWaitCells DEF Nowhere
<1>F. /\ ex[x].pc \in {"run", "resume", "check", "move"} => ex[x].co \in made /\ ex[x].co \in Co /\ ex[x].n > 0
      /\ ex[x].pc = "move" => ex[x].m > 0
      /\ ex[x].tq \in Queue /\ ex[x].n \in Nat /\ ex[x].m \in Nat
  BY ExFields DEF Bare, Caller
<1>G. ASSUME NEW pc, Goto(x, pc) PROVE Others(x) /\ Holds(x, pc)
  BY <1>G, GotoStep DEF Others, Holds
<1>E. ASSUME EndExec(x) PROVE Others(x) /\ Leaves(x)
  BY <1>E, EndStep DEF Others, Leaves
<1>1. CASE Block(x)
  <2>1. Others(x) /\ Holds(x, "blocked") /\ ex[x].pc = "run" /\ Nowhere
    BY <1>1, <1>G, <1>N DEF Block, Runs
  <2> QED
    BY <1>0, <1>1, <2>1 DEF Stays, Others, Holds, Block
<1>2. CASE JoinReturns(x)
  BY <1>0, <1>2, StaysStill DEF JoinReturns
<1>3. CASE Dequeue(x)
  BY <1>0, <1>3, <1>F, DequeueCells DEF Effect
<1>4. CASE StealSingle(x)
  <2>1. conf.steal
    BY <1>4 DEF StealSingle
  <2> QED
    BY <1>0, <1>4, <2>1, StealSingleCells DEF Effect
<1>5. CASE Resume(x)
  <2>1. CASE Valid(ex[x])
    <3>1. /\ Others(x) /\ Holds(x, "run") /\ Nowhere /\ ex[x].pc = "resume"
      BY <1>5, <1>G, <1>N, <2>1 DEF Resume
    <3> QED
      BY <1>0, <1>5, <1>F, <2>1, <3>1 DEF Effect, GoesOn, Resume, Valid
  <2>2. CASE ~Valid(ex[x])
    <3>1. UNCHANGED <<ex, waitsFor, held, started>> /\ Nowhere /\ ex[x].pc = "resume"
      BY <1>5, <1>N, <2>2 DEF Resume
    <3> QED
      BY <1>0, <1>5, <2>2, <3>1 DEF Stays, Holds, Resume, Valid
  <2> QED
    BY <2>1, <2>2
<1>6. CASE Join(x)
  <2>1. /\ <<ex[x].co, cells[ex[x].co] + 1>> \notin Used /\ Nowhere
        /\ Others(x) /\ ex'[x].pc = "push" /\ ex'[x].co = ex[x].co /\ ex'[x].n = ex[x].n
        /\ ex'[x].m = cells[ex[x].co] + 1 /\ ex'[x].tq = ex[x].tq /\ ex[x].pc = "run"
        /\ cells[ex[x].co] + 1 \in Nat \ {0}
    BY <1>0, <1>6, <1>N, JoinPlace, JoinStep DEF Join, Others
  <2>2. Arg(x) \in Co
    BY <1>6, ArgFact DEF Join
  <2> QED
    BY <1>0, <1>6, <1>F, <2>1, <2>2 DEF Effect, Joins, Join
<1>7. CASE Check(x)
  <2>1. /\ IF waitsFor[ex[x].co] \in stopped \cup {NoCo} /\ held[ex[x].co] = ex[x].m
           THEN Goto(x, "move") ELSE EndExec(x)
        /\ Nowhere /\ ex[x].pc = "check"
    BY <1>7, <1>N DEF Check
  <2>2. CASE waitsFor[ex[x].co] \in stopped \cup {NoCo} /\ held[ex[x].co] = ex[x].m
    <3>1. Others(x) /\ Holds(x, "move")
      BY <1>G, <2>1, <2>2
    <3> QED
      BY <1>0, <1>7, <1>F, <2>1, <2>2, <3>1 DEF Effect, Checks, Check
  <2>3. CASE ~(waitsFor[ex[x].co] \in stopped \cup {NoCo} /\ held[ex[x].co] = ex[x].m)
    <3>1. Others(x) /\ Leaves(x)
      BY <1>E, <2>1, <2>3
    <3> QED
      BY <1>0, <1>7, <1>F, <2>1, <2>3, <3>1 DEF Effect, Checks, Check
  <2> QED
    BY <2>2, <2>3
<1>8. CASE Move(x)
  <2>0. ex[x].pc = "move" /\ Nowhere
    BY <1>8, <1>N DEF Move
  <2>1. CASE held[ex[x].co] = ex[x].m /\ waitsFor[ex[x].co] # NoCo
    <3>1. /\ Others(x) /\ Holds(x, "run")
      BY <1>8, <1>G, <2>1 DEF Move
    <3> QED
      BY <1>0, <1>8, <1>F, <2>0, <2>1, <3>1 DEF Effect, GoesOn, Move
  <2>2. CASE held[ex[x].co] # ex[x].m \/ waitsFor[ex[x].co] = NoCo
    BY <1>0, <1>8, <2>0, <2>2 DEF Stays, Holds, Move
  <2> QED
    BY <2>1, <2>2
<1>9. CASE End(x)
  <2>1. Others(x) /\ Holds(x, "wake") /\ Nowhere /\ ex[x].pc = "run"
    BY <1>9, <1>G, <1>N DEF End
  <2> QED
    BY <1>0, <1>9, <1>F, <2>1 DEF Effect, Ends, End
<1> QED
  BY <1>0, <1>1, <1>2, <1>3, <1>4, <1>5, <1>6, <1>7, <1>8, <1>9, StealHalfCells, StealOneCells,
     YieldCells, CreateCells, PushCells, WakeCells DEF Work, WorkOf, Effect

LEMMA NextEffect ==
    ASSUME TypeInv, PlaceInv, ThiefInv, [Next]_vars PROVE Stays \/ \E x \in Exec : Effect(x)
<1>1. CASE UNCHANGED vars
  BY <1>1, StaysStill DEF vars
<1>2. CASE AllQuiet
  BY <1>2, StaysStill DEF AllQuiet, vars
<1>3. ASSUME NEW x \in Exec, Unblock(x), UNCHANGED conf PROVE Stays
  <2>1. Others(x) /\ Holds(x, "run") /\ ex[x].pc = "blocked" /\ Nowhere
    BY <1>3, GotoStep, SameQueueCells, SameWaitCells DEF Unblock, Others, Holds, Nowhere
  <2> QED
    BY <1>3, <2>1 DEF Stays, Others, Holds, Unblock
<1>4. ASSUME NEW q \in Queue, Monitor(q) PROVE Stays
  <2>1. Nowhere
    BY <1>4, MonitorHands, SameQueueCells, SameWaitCells DEF Nowhere
  <2>2. conf.steal
    BY <1>4 DEF Monitor, Mark, Replace
  <2> QED
    BY <1>4, <2>1, <2>2, MonitorHands DEF Stays, Holds
<1> QED
  BY <1>1, <1>2, <1>3, <1>4, WorkEffect DEF Next

(* What an executor in join() holds: caller_c is a cell of its own, where the
   caller is until it has been queued. *)
CallerInv ==
    /\ \A x \in Exec : ex[x].pc \in Caller => ex[x].m <= cells[ex[x].co] /\ ex[x].m # ex[x].n
    /\ \A x, y \in Exec : ex[x].pc \in Caller /\ ex[y].pc \in Caller /\ ex[x].co = ex[y].co
                          /\ ex[x].m = ex[y].m => x = y
    /\ \A x \in Exec : ex[x].pc = "push" => held[ex[x].co] = ex[x].m /\ waitsFor[ex[x].co] \in Co

(* No executor enters join(), and the callers that are there stay. *)
LEMMA CallerSame ==
    ASSUME CallerInv, UNCHANGED cells,
           \A y \in Exec : ex'[y].pc \in Caller =>
               /\ ex[y].pc \in Caller /\ ex'[y].co = ex[y].co /\ ex'[y].n = ex[y].n /\ ex'[y].m = ex[y].m
               /\ ex'[y].pc = "push" => /\ ex[y].pc = "push"
                                        /\ held'[ex[y].co] = held[ex[y].co]
                                        /\ waitsFor'[ex[y].co] = waitsFor[ex[y].co]
    PROVE  CallerInv'
BY DEF CallerInv, Caller

(* The coroutine of another executor that is about to queue its caller. *)
LEMMA OtherPush ==
    ASSUME TypeInv, PlaceInv, HostInv, CallerInv, NEW x \in Exec, NEW y \in Exec, x # y,
           ex[y].pc = "push", ex[x].co = ex[y].co
    PROVE  ~ \/ ex[x].pc \in HostPc \cup {"push"}
             \/ ex[x].pc = "resume" /\ held[ex[x].co] = ex[x].n
             \/ ex[x].pc = "move" /\ held[ex[x].co] = ex[x].m
<1>1. ex[y].co # NoCo /\ ex[y].m > 0 /\ ex[y].m \in Nat
  BY ExFields DEF Bare, Caller
<1>2. held[ex[x].co] = ex[y].m
  BY DEF CallerInv
<1>3. <<ex[y].co, ex[y].m>> \in InHand[y]
  BY <1>1, HandsOf
<1>4. ex[x].pc = "resume" => <<ex[x].co, ex[x].n>> \in InHand[x]
  BY <1>1, HandsOf
<1> QED
  BY <1>1, <1>2, <1>3, <1>4 DEF HostInv, HostPc, CallerInv, Caller, PlaceInv, Apart

LEMMA CallerStep ==
    TypeInv /\ PlaceInv /\ ThiefInv /\ HostInv /\ CallerInv /\ [Next]_vars => CallerInv'
<1> SUFFICES ASSUME TypeInv, PlaceInv, ThiefInv, HostInv, CallerInv, [Next]_vars PROVE CallerInv'
  OBVIOUS
<1>1. CASE Stays
  BY <1>1, CallerSame DEF Stays, Holds, Caller
<1> SUFFICES ASSUME NEW x \in Exec, Effect(x) PROVE CallerInv'
  BY <1>1, NextEffect
<1> DEFINE c == ex[x].co
<1>T. held \in [Co -> Nat] /\ waitsFor \in [Co -> Co \cup {NoCo}] /\ cells \in [Co -> Nat \ {0}]
  BY DEF TypeInv, CellType
<1>C. \A y \in Exec : ex[y].pc \in Caller => ex[y].co \in Co /\ ex[y].m \in Nat
  BY ExFields DEF Bare, Caller
<1>2. ASSUME NEW q \in Queue, NEW d \in made, NEW k \in Nat \ {0}, Takes(x, q, d, k) PROVE CallerInv'
  BY <1>2, CallerSame DEF Takes, Others, Caller
<1>3. CASE Steals(x)
  BY <1>3, CallerSame DEF Steals, Others, Caller
<1>4. CASE GoesOn(x)
  <2>1. \A y \in Exec : y # x /\ ex[y].pc = "push" => ex[y].co # c
    BY <1>4, OtherPush DEF GoesOn
  <2> QED
    BY <1>4, <1>T, <1>C, <2>1, CallerSame DEF GoesOn, Others, Holds, Caller
<1>5. CASE Yields(x)
  <2>1. \A y \in Exec : y # x /\ ex[y].pc = "push" => ex[y].co # c
    BY <1>5, OtherPush DEF Yields, HostPc
  <2> QED
    BY <1>5, <1>T, <1>C, <2>1, CallerSame DEF Yields, Others, Caller
<1>6. ASSUME NEW d \in Co, Creates(x, d) PROVE CallerInv'
  BY <1>6, CallerSame DEF Creates
<1>7. CASE Joins(x)
  <2> DEFINE m == cells[c] + 1
  <2>1. \A y \in Exec : y # x /\ ex[y].pc = "push" => ex[y].co # c
    BY <1>7, OtherPush DEF Joins, HostPc
  <2>2. /\ c \in Co /\ m \in Nat /\ ex[x].n \in Nat /\ ex[x].n # m
    <3>1. <<c, ex[x].n>> \in InHand[x]
      BY <1>7, HandsOf, ExFields DEF Joins, Bare
    <3> QED
      BY <1>7, <3>1, ExFields DEF Joins, PlaceInv, Apart
  <2>3. PICK u \in Co : waitsFor' = [waitsFor EXCEPT ![c] = u]
    BY <1>7 DEF Joins
  <2>4. /\ held'[c] = m /\ cells'[c] = m /\ waitsFor'[c] = u
        /\ \A d \in Co : d # c => held'[d] = held[d] /\ cells'[d] = cells[d] /\ waitsFor'[d] = waitsFor[d]
    BY <1>7, <1>T, <2>2, <2>3 DEF Joins
  <2>5. /\ Others(x) /\ ex'[x].pc = "push" /\ ex'[x].co = c /\ ex'[x].n = ex[x].n /\ ex'[x].m = m
    BY <1>7 DEF Joins
  <2>6. \A y \in Exec : ex[y].pc \in Caller /\ ex[y].co = c => ex[y].m < m
    BY <1>C, <1>T, <2>2 DEF CallerInv
  <2>7. m > cells[c] /\ cells[c] \in Nat
    BY <1>T, <2>2
  <2> HIDE DEF m, c
  <2>8. \A y \in Exec : y # x /\ ex'[y].pc \in Caller => ex'[y].m <= cells'[ex'[y].co] /\ ex'[y].m # ex'[y].n
    <3> TAKE y \in Exec
    <3>1. CASE ex[y].co = c
      BY <1>C, <2>2, <2>4, <2>5, <2>6, <3>1 DEF CallerInv, Others
    <3>2. CASE ex[y].co # c
      BY <1>C, <2>4, <2>5, <3>2 DEF CallerInv, Others
    <3> QED
      BY <3>1, <3>2
  <2>9. \A y \in Exec : y # x /\ ex[y].pc \in Caller => ex[y].co # c \/ ex[y].m # m
    BY <1>C, <2>2, <2>6
  <2>10. \A y, z \in Exec : ex'[y].pc \in Caller /\ ex'[z].pc \in Caller /\ ex'[y].co = ex'[z].co
                          /\ ex'[y].m = ex'[z].m => y = z
    BY <2>5, <2>9 DEF CallerInv, Others
  <2>11. \A y \in Exec : ex'[y].pc = "push" => held'[ex'[y].co] = ex'[y].m /\ waitsFor'[ex'[y].co] \in Co
    BY <1>C, <2>1, <2>4, <2>5 DEF CallerInv, Others, Caller
  <2> QED
    BY <2>2, <2>4, <2>5, <2>8, <2>10, <2>11 DEF CallerInv
<1>8. CASE Pushes(x)
  <2>1. \A y \in Exec : y # x /\ ex[y].pc = "push" => ex[y].co # c
    BY <1>8, OtherPush DEF Pushes
  <2>2. Others(x) /\ UNCHANGED <<cells, waitsFor>> /\ ex[x].pc = "push"
        /\ \/ /\ ex'[x].pc = "check" /\ ex'[x].co = c /\ ex'[x].n = ex[x].n /\ ex'[x].m = ex[x].m
           \/ ex'[x].pc \in {"idle", "gone"}
    BY <1>8 DEF Pushes
  <2>3. \A d \in Co : d # c => held'[d] = held[d]
    BY <1>8, <1>T DEF Pushes
  <2> QED
    BY <1>C, <2>1, <2>2, <2>3, CallerSame DEF Others, Caller
<1>9. CASE Checks(x)
  BY <1>9, CallerSame DEF Checks, Others, Holds, Leaves, Caller
<1>10. CASE Ends(x)
  BY <1>10, CallerSame DEF Ends, Others, Holds, Caller
<1>11. CASE Wakes(x)
  BY <1>11, CallerSame DEF Wakes, Others, Caller
<1> QED
  BY <1>2, <1>3, <1>4, <1>5, <1>6, <1>7, <1>8, <1>9, <1>10, <1>11 DEF Effect

LEMMA CallerInit == Init => CallerInv
<1> SUFFICES ASSUME Init PROVE CallerInv
  OBVIOUS
<1>1. \A q : NewExecutor(q).pc = "idle" /\ NoExecutor.pc = "none"
  BY DEF NewExecutor, NoExecutor
<1>2. \A x \in Exec : ex[x] = NewExecutor(x - 1) \/ ex[x] = NoExecutor
  BY DEF Init
<1>3. \A x \in Exec : ex[x].pc \notin Caller
  BY <1>1, <1>2 DEF Caller
<1> QED
  BY <1>3 DEF CallerInv, Caller

LEMMA CallerHolds == Spec => []CallerInv
BY CallerInit, CallerStep, TypeInvHolds, PlaceHolds, HostHolds, PTL DEF Spec

Here(c) == <<c, held[c]>>

(* A suspended coroutine that was woken from join(), by itself or by the other,
   waits for one that has stopped; a joiner that is still there waits for the
   coroutine at which it is queued.  (An executor that is about to move its
   caller can find it in the same cell again, where it has yielded since.) *)
WaitInv ==
    /\ \A c, t \in Co : Here(c) \in InWait[t] => waitsFor[c] = t
    /\ \A c \in Co, q \in Queue : Here(c) \in InQueue[q] => waitsFor[c] \in stopped \cup {NoCo}
    /\ \A x \in Exec : ex[x].pc = "resume" /\ held[ex[x].co] = ex[x].n
                          => waitsFor[ex[x].co] \in stopped \cup {NoCo}
    /\ \A x \in Exec : ex[x].pc = "move" /\ held[ex[x].co] = ex[x].m
                          => waitsFor[ex[x].co] \in stopped \cup {NoCo}
    /\ \A x \in Exec : ex[x].pc = "wake" => ex[x].co \in stopped

(* The coroutine of x is alone in its cell with x. *)
LEMMA AloneInHand ==
    ASSUME TypeInv, PlaceInv, NEW x \in Exec, ex[x].co # NoCo
    PROVE  LET p == <<ex[x].co, ex[x].n>>
           IN  /\ \A t \in Co : p \notin InWait[t]
               /\ \A q \in Queue : p \notin InQueue[q]
               /\ \A y \in Exec : y # x /\ ex[y].co = ex[x].co => ex[y].n # ex[x].n
<1>1. <<ex[x].co, ex[x].n>> \in InHand[x]
  BY HandsOf
<1>2. \A y \in Exec : ex[y].co # NoCo => <<ex[y].co, ex[y].n>> \in InHand[y]
  BY HandsOf
<1> QED
  BY <1>1, <1>2 DEF PlaceInv, Apart

(* Only one coroutine moves, to a cell that nobody names, or to one that it may
   be resumed from. *)
LEMMA WaitMoves ==
    ASSUME TypeInv, WaitInv, NEW x \in Exec, NEW c \in Co, ex[x].co = c, Others(x),
           ex'[x].pc \notin {"resume", "move", "wake"},
           NEW k \in Nat, held' = [held EXCEPT ![c] = k],
           NEW u, waitsFor' = [waitsFor EXCEPT ![c] = u],
           SameWaits, UNCHANGED stopped,
           \A t \in Co : <<c, k>> \notin InWait[t],
           \A q \in Queue : <<c, k>> \in InQueue'[q] => u \in stopped \cup {NoCo},
           \A q \in Queue, d \in Co \ {c} : Here(d) \in InQueue'[q] => Here(d) \in InQueue[q],
           \A y \in Exec \ {x} : ex[y].pc = "resume" /\ ex[y].co = c => k # ex[y].n,
           \A y \in Exec \ {x} : ex[y].pc = "move" /\ ex[y].co = c => k # ex[y].m \/ u = NoCo
    PROVE  WaitInv'
<1>1. /\ held'[c] = k /\ waitsFor'[c] = u
      /\ \A d \in Co : d # c => held'[d] = held[d] /\ waitsFor'[d] = waitsFor[d]
  BY DEF TypeInv, CellType
<1>2. \A y \in Exec : ex[y].pc \in {"resume", "move"} => ex[y].co \in Co
  BY ExFields DEF Bare
<1>3. \A d, t \in Co : Here(d)' \in InWait'[t] => waitsFor'[d] = t
  <2> TAKE d, t \in Co
  <2>1. CASE d = c
    BY <1>1, <2>1 DEF Here, SameWaits
  <2>2. CASE d # c
    BY <1>1, <2>2 DEF Here, SameWaits, WaitInv
  <2> QED
    BY <2>1, <2>2
<1>4. \A d \in Co, q \in Queue : Here(d)' \in InQueue'[q] => waitsFor'[d] \in stopped \cup {NoCo}
  <2> TAKE d \in Co, q \in Queue
  <2>1. CASE d = c
    BY <1>1, <2>1 DEF Here
  <2>2. CASE d # c
    <3>1. Here(d)' = Here(d)
      BY <1>1, <2>2 DEF Here
    <3> QED
      BY <1>1, <2>2, <3>1 DEF WaitInv
  <2> QED
    BY <2>1, <2>2
<1>5. \A y \in Exec : ex'[y].pc = "resume" /\ held'[ex'[y].co] = ex'[y].n
                        => waitsFor'[ex'[y].co] \in stopped \cup {NoCo}
  BY <1>1, <1>2 DEF Others, WaitInv
<1>6. \A y \in Exec : ex'[y].pc = "move" /\ held'[ex'[y].co] = ex'[y].m
                        => waitsFor'[ex'[y].co] \in stopped \cup {NoCo}
  BY <1>1, <1>2 DEF Others, WaitInv
<1>7. \A y \in Exec : ex'[y].pc = "wake" => ex'[y].co \in stopped
  BY DEF Others, WaitInv
<1> QED
  BY <1>3, <1>4, <1>5, <1>6, <1>7 DEF WaitInv

(* No coroutine moves or waits for another than before. *)
LEMMA WaitStays ==
    ASSUME TypeInv, WaitInv, UNCHANGED <<held, waitsFor>>, stopped \subseteq stopped',
           \A c, t \in Co : Here(c) \in InWait'[t] => Here(c) \in InWait[t] \/ waitsFor[c] = t,
           \A c \in Co, q \in Queue : Here(c) \in InQueue'[q] =>
               (\E r \in Queue : Here(c) \in InQueue[r]) \/ waitsFor[c] \in stopped \cup {NoCo},
           \A y \in Exec : ex'[y].pc \in {"resume", "move"} =>
               \/ ex'[y].co = ex[y].co /\ ex'[y].n = ex[y].n /\ ex'[y].m = ex[y].m /\ ex'[y].pc = ex[y].pc
               \/ waitsFor[ex'[y].co] \in stopped \cup {NoCo},
           \A y \in Exec : ex'[y].pc = "wake" =>
               (ex[y].pc = "wake" /\ ex'[y].co = ex[y].co) \/ ex'[y].co \in stopped'
    PROVE  WaitInv'
<1>1. \A c \in Co : Here(c)' = Here(c) /\ waitsFor'[c] = waitsFor[c]
  BY DEF Here
<1>2. \A c, t \in Co : Here(c)' \in InWait'[t] => waitsFor'[c] = t
  BY <1>1 DEF WaitInv
<1>3. \A c \in Co, q \in Queue : Here(c)' \in InQueue'[q] => waitsFor'[c] \in stopped' \cup {NoCo}
  BY <1>1 DEF WaitInv
<1>4. \A y \in Exec : ex'[y].pc = "resume" /\ held'[ex'[y].co] = ex'[y].n
                        => waitsFor'[ex'[y].co] \in stopped' \cup {NoCo}
  BY DEF WaitInv
<1>5. \A y \in Exec : ex'[y].pc = "move" /\ held'[ex'[y].co] = ex'[y].m
                        => waitsFor'[ex'[y].co] \in stopped' \cup {NoCo}
  BY DEF WaitInv
<1>6. \A y \in Exec : ex'[y].pc = "wake" => ex'[y].co \in stopped'
  BY DEF WaitInv
<1> QED
  BY <1>2, <1>3, <1>4, <1>5, <1>6 DEF WaitInv

LEMMA WaitStep ==
    TypeInv /\ PlaceInv /\ ThiefInv /\ HostInv /\ CallerInv /\ WaitInv /\ [Next]_vars => WaitInv'
<1> SUFFICES ASSUME TypeInv, PlaceInv, ThiefInv, HostInv, CallerInv, WaitInv, [Next]_vars PROVE WaitInv'
  OBVIOUS
<1>1. CASE Stays
  BY <1>1, WaitStays DEF Stays, Holds, Nowhere, SameQueues, SameWaits
<1> SUFFICES ASSUME NEW x \in Exec, Effect(x) PROVE WaitInv'
  BY <1>1, NextEffect
<1> DEFINE c == ex[x].co
           n == ex[x].n
<1>T. /\ held \in [Co -> Nat] /\ waitsFor \in [Co -> Co \cup {NoCo}] /\ cells \in [Co -> Nat \ {0}]
      /\ made \subseteq Co
  BY ConfFacts DEF TypeInv, CellType, LifeType
<1>H. \A d, u : Here(d) = <<d, held[d]>>
  BY DEF Here
<1>U. /\ \A t \in Co : InWait[t] \subseteq Used
      /\ \A q \in Queue : InQueue[q] \subseteq Used
      /\ \A d, k : <<d, k>> \in Used => k \in Nat \ {0} /\ d \in made /\ k <= cells[d]
  BY UsedCells DEF PlaceInv, Apart
<1>X. \A y \in Exec : /\ ex[y].pc = "resume" => ex[y].n # 0 /\ ex[y].co \in Co
                      /\ ex[y].pc = "move" => ex[y].m # 0 /\ ex[y].co \in Co
  BY ExFields DEF Bare, Caller
<1>2. ASSUME NEW q \in Queue, NEW d \in made, NEW k \in Nat \ {0}, Takes(x, q, d, k) PROVE WaitInv'
  <2>1. \A r \in Queue : InQueue'[r] \subseteq InQueue[r]
    BY <1>2 DEF Takes, QueueLoses
  <2>2. ex'[x].pc = "resume" => waitsFor[ex'[x].co] \in stopped \cup {NoCo}
    <3>1. <<d, k>> \in InQueue[q] /\ (held[d] = k => Here(d) = <<d, k>>) /\ d \in Co
      BY <1>2, <1>T DEF Takes, QueueLoses, Here
    <3> QED
      BY <1>2, <3>1 DEF Takes, WaitInv
  <2> QED
    BY <1>2, <2>1, <2>2, WaitStays DEF Takes, Others, SameWaits
<1>3. CASE Steals(x)
  <2>1. \A r \in Queue : \A p \in InQueue'[r] : \E s \in Queue : p \in InQueue[s]
    BY <1>3 DEF Steals, SameQueues, QueueLoses
  <2> QED
    BY <1>3, <2>1, WaitStays DEF Steals, Others, SameWaits
<1>4. CASE GoesOn(x)
  <2>1. \A t \in Co : <<c, 0>> \notin InWait[t]
    BY <1>U
  <2>2. \A q \in Queue : <<c, 0>> \notin InQueue'[q]
    BY <1>4, <1>U DEF GoesOn, Nowhere, SameQueues
  <2>3. \A q \in Queue, d \in Co \ {c} : Here(d) \in InQueue'[q] => Here(d) \in InQueue[q]
    BY <1>4 DEF GoesOn, Nowhere, SameQueues
  <2>4. /\ c \in Co /\ Others(x) /\ ex'[x].pc = "run" /\ SameWaits /\ UNCHANGED stopped
        /\ held' = [held EXCEPT ![c] = 0] /\ waitsFor' = [waitsFor EXCEPT ![c] = NoCo]
    BY <1>4 DEF GoesOn, Holds, Nowhere
  <2> DEFINE k == 0
             u == NoCo
  <2>5. /\ c \in Co /\ Others(x) /\ ex'[x].pc \notin {"resume", "move", "wake"} /\ SameWaits /\ UNCHANGED stopped
        /\ held' = [held EXCEPT ![c] = k] /\ waitsFor' = [waitsFor EXCEPT ![c] = u] /\ k \in Nat
        /\ \A t \in Co : <<c, k>> \notin InWait[t]
        /\ \A q \in Queue : <<c, k>> \in InQueue'[q] => u \in stopped \cup {NoCo}
        /\ \A y \in Exec \ {x} : ex[y].pc = "resume" /\ ex[y].co = c => k # ex[y].n
        /\ \A y \in Exec \ {x} : ex[y].pc = "move" /\ ex[y].co = c => k # ex[y].m \/ u = NoCo
    BY <1>X, <2>1, <2>2, <2>4
  <2> HIDE DEF k, u
  <2> QED
    BY <2>3, <2>5, WaitMoves
<1>5. CASE Yields(x)
  <2>1. /\ c \in Co /\ n \in Nat /\ ex[x].co # NoCo /\ Others(x) /\ ex'[x].pc \notin {"resume", "move", "wake"}
        /\ SameWaits /\ UNCHANGED <<stopped, waitsFor>> /\ held' = [held EXCEPT ![c] = n]
        /\ waitsFor[c] = NoCo
    BY <1>5, <1>T DEF Yields, HostInv, HostPc
  <2>2. /\ \A t \in Co : <<c, n>> \notin InWait[t]
        /\ \A y \in Exec \ {x} : ex[y].pc = "resume" /\ ex[y].co = c => n # ex[y].n
    BY <2>1, AloneInHand
  <2>3. waitsFor' = [waitsFor EXCEPT ![c] = NoCo]
    BY <1>T, <2>1
  <2>4. \A q \in Queue, d \in Co \ {c} : Here(d) \in InQueue'[q] => Here(d) \in InQueue[q]
    BY <1>5, <1>H DEF Yields, QueueGains, SameQueues
  <2> HIDE DEF c, n
  <2> QED
    BY <2>1, <2>2, <2>3, <2>4, WaitMoves DEF c
<1>6. ASSUME NEW d \in Co, Creates(x, d) PROVE WaitInv'
  <2>1. waitsFor[d] = NoCo
    BY <1>6 DEF Creates, TypeInv, CellType
  <2>2. \A e \in Co, q \in Queue : Here(e) \in InQueue'[q] =>
            (\E r \in Queue : Here(e) \in InQueue[r]) \/ waitsFor[e] \in stopped \cup {NoCo}
    BY <1>6, <1>H, <2>1 DEF Creates, QueueGains, SameQueues
  <2> QED
    BY <1>6, <2>2, WaitStays DEF Creates, SameWaits
<1>7. CASE Joins(x)
  <2> DEFINE m == cells[c] + 1
  <2>1. PICK u \in Co : waitsFor' = [waitsFor EXCEPT ![c] = u]
    BY <1>7 DEF Joins
  <2>2. /\ c \in Co /\ m \in Nat /\ Others(x) /\ ex'[x].pc = "push" /\ SameWaits /\ UNCHANGED stopped
        /\ held' = [held EXCEPT ![c] = m] /\ SameQueues /\ <<c, m>> \notin Used
    BY <1>7 DEF Joins, Nowhere
  <2>3. /\ \A t \in Co : <<c, m>> \notin InWait[t]
        /\ \A q \in Queue : <<c, m>> \notin InQueue'[q]
    BY <1>U, <2>2 DEF SameQueues
  <2>4. \A y \in Exec : ex[y].pc = "move" /\ ex[y].co = c => m # ex[y].m
    <3>1. \A y \in Exec : ex[y].pc = "move" /\ ex[y].co = c => ex[y].m <= cells[c] /\ ex[y].m \in Nat
      BY ExFields DEF CallerInv, Caller
    <3> QED
      BY <1>T, <2>2, <3>1
  <2>5. \A y \in Exec : ex[y].pc = "resume" /\ ex[y].co = c => m # ex[y].n
    <3>1. \A y \in Exec : ex[y].pc = "resume" /\ ex[y].co = c => <<c, ex[y].n>> \in Used
      <4> SUFFICES ASSUME NEW y \in Exec, ex[y].pc = "resume", ex[y].co = c PROVE <<c, ex[y].n>> \in Used
        OBVIOUS
      <4>1. <<c, ex[y].n>> \in InHand[y]
        BY HandsOf, ExFields DEF Bare
      <4> QED
        BY <4>1 DEF PlaceInv, Apart
    <3> QED
      BY <2>2, <3>1
  <2>6. \A q \in Queue, d \in Co \ {c} : Here(d) \in InQueue'[q] => Here(d) \in InQueue[q]
    BY <2>2 DEF SameQueues
  <2>7. /\ c \in Co /\ Others(x) /\ ex'[x].pc \notin {"resume", "move", "wake"} /\ SameWaits /\ UNCHANGED stopped
        /\ held' = [held EXCEPT ![c] = m] /\ waitsFor' = [waitsFor EXCEPT ![c] = u] /\ m \in Nat
        /\ \A t \in Co : <<c, m>> \notin InWait[t]
        /\ \A q \in Queue : <<c, m>> \in InQueue'[q] => u \in stopped \cup {NoCo}
        /\ \A y \in Exec \ {x} : ex[y].pc = "resume" /\ ex[y].co = c => m # ex[y].n
        /\ \A y \in Exec \ {x} : ex[y].pc = "move" /\ ex[y].co = c => m # ex[y].m \/ u = NoCo
    BY <2>1, <2>2, <2>3, <2>4, <2>5
  <2> HIDE DEF m
  <2> QED
    BY <2>6, <2>7, WaitMoves
<1>8. CASE Pushes(x)
  <2>1. CASE ex'[x].pc = "check"
    <3>1. /\ held[c] = ex[x].m /\ waitsFor[c] \in Co /\ UNCHANGED held /\ WaitGains(waitsFor[c], <<c, ex[x].m>>)
          /\ Others(x) /\ UNCHANGED <<waitsFor, stopped>> /\ SameQueues
      BY <1>8, <2>1 DEF Pushes, CallerInv
    <3>2. \A d, t \in Co : Here(d) \in InWait'[t] => Here(d) \in InWait[t] \/ waitsFor[d] = t
      BY <1>H, <3>1 DEF WaitGains
    <3> QED
      BY <2>1, <3>1, <3>2, WaitStays DEF Others, SameQueues
  <2>2. CASE ex'[x].pc # "check"
    <3>1. /\ c \in Co /\ Others(x) /\ ex'[x].pc \notin {"resume", "move", "wake"} /\ SameWaits /\ SameQueues
          /\ UNCHANGED <<stopped, waitsFor>> /\ held' = [held EXCEPT ![c] = 0]
      BY <1>8, <2>2 DEF Pushes
    <3>2. /\ \A t \in Co : <<c, 0>> \notin InWait[t]
          /\ \A q \in Queue : <<c, 0>> \notin InQueue'[q]
      BY <1>U, <3>1 DEF SameQueues
    <3>3. waitsFor' = [waitsFor EXCEPT ![c] = waitsFor[c]]
      BY <1>T, <3>1
    <3>4. \A q \in Queue, d \in Co \ {c} : Here(d) \in InQueue'[q] => Here(d) \in InQueue[q]
      BY <3>1 DEF SameQueues
    <3> DEFINE u == waitsFor[c]
               k == 0
    <3>5. /\ c \in Co /\ Others(x) /\ ex'[x].pc \notin {"resume", "move", "wake"} /\ SameWaits /\ UNCHANGED stopped
          /\ held' = [held EXCEPT ![c] = k] /\ waitsFor' = [waitsFor EXCEPT ![c] = u] /\ k \in Nat
          /\ \A t \in Co : <<c, k>> \notin InWait[t]
          /\ \A q \in Queue : <<c, k>> \in InQueue'[q] => u \in stopped \cup {NoCo}
          /\ \A y \in Exec \ {x} : ex[y].pc = "resume" /\ ex[y].co = c => k # ex[y].n
          /\ \A y \in Exec \ {x} : ex[y].pc = "move" /\ ex[y].co = c => k # ex[y].m \/ u = NoCo
      BY <1>X, <3>1, <3>2, <3>3
    <3> HIDE DEF k, u
    <3> QED
      BY <3>4, <3>5, WaitMoves
  <2> QED
    BY <2>1, <2>2
<1>9. CASE Checks(x)
  BY <1>9, WaitStays DEF Checks, Others, Holds, Leaves, Nowhere, SameQueues, SameWaits
<1>10. CASE Ends(x)
  BY <1>10, WaitStays DEF Ends, Others, Holds, Nowhere, SameQueues, SameWaits
<1>11. CASE Wakes(x)
  <2>1. CASE InWait[c] = {} /\ ex'[x].pc \in {"idle", "gone"} /\ Others(x) /\ SameQueues /\ SameWaits
    BY <1>11, <2>1, WaitStays DEF Wakes, Others, SameQueues, SameWaits
  <2>2. ASSUME NEW w \in MadeJoiner, WaitLoses(c, <<w.co, w.n>>), UNCHANGED ex,
               \/ SameQueues
               \/ held[w.co] = w.n /\ QueueGains(w.tq, <<w.co, w.n>>)
        PROVE  WaitInv'
    <3>1. c \in stopped /\ c \in Co /\ w.co \in Co /\ w.tq \in Queue
      BY <1>11, <1>T DEF Wakes, WaitInv, MadeJoiner
    <3>2. held[w.co] = w.n => waitsFor[w.co] = c
      BY <1>H, <2>2, <3>1 DEF WaitLoses, WaitInv
    <3>3. \A d \in Co, q \in Queue : Here(d) \in InQueue'[q] =>
            (\E r \in Queue : Here(d) \in InQueue[r]) \/ waitsFor[d] \in stopped \cup {NoCo}
      BY <1>H, <2>2, <3>1, <3>2 DEF SameQueues, QueueGains
    <3>4. \A t \in Co : InWait'[t] \subseteq InWait[t]
      BY <2>2 DEF WaitLoses
    <3> QED
      BY <1>11, <2>2, <3>3, <3>4, WaitStays DEF Wakes
  <2> QED
    BY <1>11, <2>1, <2>2 DEF Wakes
<1> QED
  BY <1>2, <1>3, <1>4, <1>5, <1>6, <1>7, <1>8, <1>9, <1>10, <1>11 DEF Effect

LEMMA InitExecutors ==
    ASSUME Init
    PROVE  \A x \in Exec : /\ ex[x].pc \in {"none", "idle"}
                           /\ x <= N => ex[x].tq = x - 1
                           /\ x > N => ex[x].pc = "none"
<1>1. \A q : NewExecutor(q).pc = "idle" /\ NewExecutor(q).tq = q /\ NoExecutor.pc = "none"
  BY DEF NewExecutor, NoExecutor
<1>2. \A x \in Exec : ex[x] = IF x <= N THEN NewExecutor(x - 1) ELSE NoExecutor
  BY DEF Init
<1> QED
  BY <1>1, <1>2, Constants

LEMMA WaitInit == Init => WaitInv
<1> SUFFICES ASSUME Init PROVE WaitInv
  OBVIOUS
<1>1. \A t \in Co : InWait[t] = {}
  BY DEF Init, InWait, CellsOf
<1>2. \A c \in Co : waitsFor[c] = NoCo
  BY DEF Init
<1> QED
  BY <1>1, <1>2, InitExecutors DEF WaitInv

LEMMA WaitHolds == Spec => []WaitInv
BY WaitInit, WaitStep, TypeInvHolds, PlaceHolds, HostHolds, CallerHolds, PTL DEF Spec

(* join() of a coroutine that has started returns after it has stopped. *)
THEOREM JoinOutlastsHolds == Spec => JoinOutlastsStarted
<1>1. TypeInv /\ PlaceInv /\ ThiefInv /\ HostInv /\ WaitInv /\ [Next]_vars
        => [\A c \in Co : waitsFor[c] # NoCo /\ waitsFor'[c] = NoCo => waitsFor[c] \in stopped]_vars
  <2> SUFFICES ASSUME TypeInv, PlaceInv, ThiefInv, HostInv, WaitInv, [Next]_vars,
                      NEW c \in Co, waitsFor[c] # NoCo, waitsFor'[c] = NoCo
               PROVE  waitsFor[c] \in stopped
    OBVIOUS
  <2>1. ~ UNCHANGED waitsFor
    OBVIOUS
  <2>2. PICK x \in Exec : Effect(x)
    BY <2>1, NextEffect DEF Stays
  <2>3. waitsFor \in [Co -> Co \cup {NoCo}] /\ NoCo \notin Co
    BY Constants DEF TypeInv, CellType
  <2>4. GoesOn(x) \/ Joins(x)
    BY <2>1, <2>2 DEF Effect, Takes, Steals, Yields, Creates, Pushes, Checks, Ends, Wakes
  <2>5. CASE GoesOn(x)
    BY <2>3, <2>5 DEF GoesOn, WaitInv
  <2>6. CASE Joins(x)
    BY <2>3, <2>6 DEF Joins
  <2> QED
    BY <2>4, <2>5, <2>6
<1> QED
  BY <1>1, TypeInvHolds, PlaceHolds, HostHolds, WaitHolds, PTL DEF Spec, JoinOutlastsStarted

-----------------------------------------------------------------------------

(* Without stealing a queue belongs to one executor, so that a task stays valid
   from can_resume() to the resumption, and a caller stays where it was found:
   the task by which the other wakes it is in the queue of this executor. *)
HomeInv ==
    /\ \A x \in Exec : (x <= N => ex[x].tq = x - 1) /\ (x > N => ex[x].pc = "none")
    /\ \A x \in Exec : ex[x].pc = "resume" => held[ex[x].co] = ex[x].n
    /\ \A x \in Exec : ex[x].pc \in {"check", "move"} =>
          LET p == <<ex[x].co, ex[x].m>>
          IN  /\ held[ex[x].co] = ex[x].m
              /\ \A y \in Exec : p \notin InHand[y]
              /\ \A q \in Queue : p \in InQueue[q] => q = ex[x].tq
              /\ \A t \in Co : \A w \in Entries[t] : <<w.co, w.n>> = p => w.tq = ex[x].tq

StillJoined == \A x \in Exec : ex[x].pc \in {"check", "move"} => waitsFor[ex[x].co] # NoCo

LEMMA EntryCells ==
    ASSUME NEW t \in Co, NEW w \in Entries[t] PROVE <<w.co, w.n>> \in InWait[t]
BY DEF Entries, InWait, CellsOf, CellOf

LEMMA EntriesSame == UNCHANGED joiners => \A t \in Co : Entries'[t] = Entries[t]
BY DEF Entries

(* The places that can hold the caller of join() do not get it anew. *)
LEMMA HomeSame ==
    ASSUME TypeInv, HomeInv,
           \A y \in Exec : ex'[y].tq = ex[y].tq /\ (ex[y].pc = "none" => ex'[y].pc = "none"),
           \A y \in Exec : ex'[y].pc = "resume" =>
               \/ held'[ex'[y].co] = ex'[y].n
               \/ /\ ex[y].pc = "resume" /\ ex'[y].co = ex[y].co /\ ex'[y].n = ex[y].n
                  /\ held'[ex[y].co] = held[ex[y].co],
           \A y \in Exec : ex'[y].pc \in {"check", "move"} =>
               LET p == <<ex[y].co, ex[y].m>>
               IN  /\ ex[y].pc \in {"check", "move"} /\ ex'[y].co = ex[y].co /\ ex'[y].m = ex[y].m
                   /\ held'[ex[y].co] = held[ex[y].co]
                   /\ \A z \in Exec : p \in InHand'[z] => p \in InHand[z]
                   /\ \A q \in Queue : p \in InQueue'[q] => p \in InQueue[q] \/ q = ex[y].tq
                   /\ \A t \in Co : \A w \in Entries'[t] :
                         <<w.co, w.n>> = p => w \in Entries[t] \/ w.tq = ex[y].tq
    PROVE  HomeInv'
<1>1. \A x \in Exec : (x <= N => ex'[x].tq = x - 1) /\ (x > N => ex'[x].pc = "none")
  BY DEF HomeInv
<1>2. \A x \in Exec : ex'[x].pc = "resume" => held'[ex'[x].co] = ex'[x].n
  BY DEF HomeInv
<1>3. ASSUME NEW x \in Exec, ex'[x].pc \in {"check", "move"}
      PROVE  LET p == <<ex'[x].co, ex'[x].m>>
             IN  /\ held'[ex'[x].co] = ex'[x].m
                 /\ \A y \in Exec : p \notin InHand'[y]
                 /\ \A q \in Queue : p \in InQueue'[q] => q = ex'[x].tq
                 /\ \A t \in Co : \A w \in Entries'[t] : <<w.co, w.n>> = p => w.tq = ex'[x].tq
  <2> DEFINE p == <<ex[x].co, ex[x].m>>
  <2>1. /\ ex[x].pc \in {"check", "move"} /\ ex'[x].co = ex[x].co /\ ex'[x].m = ex[x].m
        /\ ex'[x].tq = ex[x].tq
        /\ held'[ex[x].co] = held[ex[x].co]
        /\ \A z \in Exec : p \in InHand'[z] => p \in InHand[z]
        /\ \A q \in Queue : p \in InQueue'[q] => p \in InQueue[q] \/ q = ex[x].tq
        /\ \A t \in Co : \A w \in Entries'[t] :
              <<w.co, w.n>> = p => w \in Entries[t] \/ w.tq = ex[x].tq
    BY <1>3
  <2>2. /\ held[ex[x].co] = ex[x].m
        /\ \A y \in Exec : p \notin InHand[y]
        /\ \A q \in Queue : p \in InQueue[q] => q = ex[x].tq
        /\ \A t \in Co : \A w \in Entries[t] : <<w.co, w.n>> = p => w.tq = ex[x].tq
    BY <2>1 DEF HomeInv
  <2>3. p = <<ex'[x].co, ex'[x].m>>
    BY <2>1
  <2> HIDE DEF p
  <2> QED
    BY <2>1, <2>2, <2>3
<1> QED
  BY <1>1, <1>2, <1>3 DEF HomeInv

(* Nobody else moves the coroutine of an executor that is in join(), or is about
   to resume it. *)
LEMMA HomeAlone ==
    ASSUME TypeInv, PlaceInv, HostInv, CallerInv, HomeInv,
           NEW x \in Exec, NEW y \in Exec, x # y, ex[x].co = ex[y].co,
           ex[y].pc \in {"resume", "check", "move"}
    PROVE  ~(ex[x].pc \in HostPc \cup {"push", "resume", "move"})
<1>1. ex[y].co # NoCo /\ ex[y].n > 0 /\ ex[y].n \in Nat /\ (ex[y].pc \in Caller => ex[y].m > 0 /\ ex[y].m \in Nat)
  BY ExFields DEF Bare
<1>H. \A z \in Exec :
         /\ ex[z].pc = "resume" => held[ex[z].co] = ex[z].n
         /\ ex[z].pc \in {"check", "move"} =>
               held[ex[z].co] = ex[z].m /\ \A u \in Exec : <<ex[z].co, ex[z].m>> \notin InHand[u]
  BY DEF HomeInv
<1>2. held[ex[x].co] # 0
  <2>1. ex[y].n # 0 /\ (ex[y].pc \in {"check", "move"} => ex[y].m # 0)
    BY <1>1 DEF Caller
  <2>2. held[ex[y].co] # 0
    BY <1>H, <2>1
  <2> QED
    BY <2>2
<1>3. ex[x].pc \notin HostPc
  BY <1>2 DEF HostInv
<1>4. /\ <<ex[y].co, ex[y].n>> \in InHand[y] /\ <<ex[x].co, ex[x].n>> \in InHand[x]
      /\ ex[x].pc = "push" => <<ex[x].co, ex[x].m>> \in InHand[x]
  BY <1>1, HandsOf
<1>5. ex[x].pc = "push" => held[ex[x].co] = ex[x].m
  BY DEF CallerInv
<1>6. ex[y].pc = "resume" => ex[x].pc \notin {"push", "resume", "move"}
  BY <1>4, <1>5 DEF HomeInv, PlaceInv, Apart
<1>7. ASSUME ex[y].pc \in {"check", "move"} PROVE ex[x].pc \notin {"push", "resume", "move"}
  <2>1. held[ex[x].co] = ex[y].m /\ <<ex[x].co, ex[y].m>> \notin InHand[x]
    BY <1>7, <1>H
  <2>2. ex[x].pc = "move" => ex[x].m # ex[y].m
    BY <1>7 DEF CallerInv, Caller
  <2> QED
    BY <1>4, <1>5, <1>H, <2>1, <2>2
<1> QED
  BY <1>3, <1>6, <1>7

(* An executor that executes a coroutine keeps it, or leaves it; no other
   executor is about to resume it, or in join() with it. *)
LEMMA HomeKeeps ==
    ASSUME TypeInv, PlaceInv, HostInv, CallerInv, HomeInv, NEW x \in Exec, Others(x),
           ex'[x].tq = ex[x].tq, ex[x].pc # "none",
           ex[x].pc \in HostPc \cup {"push", "resume", "move"},
           ex'[x].pc \notin {"resume", "check", "move"},
           ex'[x].co \in {NoCo, ex[x].co},
           \A d \in Co : d # ex[x].co => held'[d] = held[d],
           \A q \in Queue : \A p \in InQueue'[q] : p \in InQueue[q] \/ p[1] = ex[x].co,
           UNCHANGED joiners
    PROVE  HomeInv'
<1> DEFINE c == ex[x].co
<1>1. \A y \in Exec : y # x /\ ex[y].pc \in {"resume", "check", "move"} => ex[y].co # c /\ ex[y].co \in Co
  BY HomeAlone, ExFields DEF Bare
<1>2. \A p \in InHand'[x] : p[1] = c
  <2>1. InHand'[x] \subseteq {<<c, ex'[x].n>>, <<c, ex'[x].m>>}
    BY HandsOfNext
  <2> HIDE DEF c
  <2> QED
    BY <2>1
<1>3. \A y \in Exec : y # x => InHand'[y] = InHand[y]
  BY HandsStay
<1>4. \A t \in Co : Entries'[t] = Entries[t]
  BY EntriesSame
<1>5. \A y \in Exec : ex'[y].tq = ex[y].tq /\ (ex[y].pc = "none" => ex'[y].pc = "none")
  BY DEF Others
<1>6. \A y \in Exec : ex'[y].pc = "resume" =>
               /\ ex[y].pc = "resume" /\ ex'[y].co = ex[y].co /\ ex'[y].n = ex[y].n
               /\ held'[ex[y].co] = held[ex[y].co]
  BY <1>1 DEF Others
<1>7. ASSUME NEW y \in Exec, ex'[y].pc \in {"check", "move"}
      PROVE  LET p == <<ex[y].co, ex[y].m>>
             IN  /\ ex[y].pc \in {"check", "move"} /\ ex'[y].co = ex[y].co /\ ex'[y].m = ex[y].m
                 /\ held'[ex[y].co] = held[ex[y].co]
                 /\ \A z \in Exec : p \in InHand'[z] => p \in InHand[z]
                 /\ \A q \in Queue : p \in InQueue'[q] => p \in InQueue[q] \/ q = ex[y].tq
                 /\ \A t \in Co : \A w \in Entries'[t] :
                       <<w.co, w.n>> = p => w \in Entries[t] \/ w.tq = ex[y].tq
  <2> DEFINE p == <<ex[y].co, ex[y].m>>
  <2>1. y # x /\ ex'[y] = ex[y] /\ ex[y].pc \in {"check", "move"}
    BY <1>7 DEF Others
  <2>2. p[1] # c /\ ex[y].co # c /\ ex[y].co \in Co
    BY <1>1, <2>1
  <2> HIDE DEF p
  <2>3. \A z \in Exec : p \in InHand'[z] => p \in InHand[z]
    BY <1>2, <1>3, <2>2
  <2>4. \A q \in Queue : p \in InQueue'[q] => p \in InQueue[q]
    BY <2>2
  <2> QED
    BY <1>4, <2>1, <2>2, <2>3, <2>4 DEF p
<1> QED
  BY <1>5, <1>6, <1>7, HomeSame

LEMMA HomeIs ==
    ASSUME \A y \in Exec : (y <= N => ex'[y].tq = y - 1) /\ (y > N => ex'[y].pc = "none"),
           \A y \in Exec : ex'[y].pc = "resume" => held'[ex'[y].co] = ex'[y].n,
           \A y \in Exec : ex'[y].pc \in {"check", "move"} =>
               LET p == <<ex'[y].co, ex'[y].m>>
               IN  /\ held'[ex'[y].co] = ex'[y].m
                   /\ \A z \in Exec : p \notin InHand'[z]
                   /\ \A q \in Queue : p \in InQueue'[q] => q = ex'[y].tq
                   /\ \A t \in Co : \A v \in Entries'[t] : <<v.co, v.n>> = p => v.tq = ex'[y].tq
    PROVE  HomeInv'
BY DEF HomeInv

LEMMA HomeStep ==
    ASSUME TypeInv, PlaceInv, ThiefInv, HostInv, CallerInv, HomeInv, StillJoined, ~conf.steal,
           [Next]_vars
    PROVE  HomeInv' /\ UNCHANGED crashed
<1>T. /\ held \in [Co -> Nat] /\ waitsFor \in [Co -> Co \cup {NoCo}] /\ made \subseteq Co
      /\ NoCo \notin Co
  BY ConfFacts, Constants DEF TypeInv, CellType, LifeType
<1>1. CASE Stays
  <2>1. \A y \in Exec : /\ ex'[y].co = ex[y].co /\ ex'[y].n = ex[y].n /\ ex'[y].m = ex[y].m /\ ex'[y].tq = ex[y].tq
                        /\ ex'[y].pc = ex[y].pc \/ {ex'[y].pc, ex[y].pc} \subseteq {"run", "blocked"}
    BY <1>1 DEF Stays, Holds
  <2>2. \A y \in Exec : InHand'[y] = InHand[y]
    BY <2>1, HandsOf, HandsOfNext
  <2>3. \A t \in Co : Entries'[t] = Entries[t]
    BY <1>1, EntriesSame DEF Stays, Nowhere
  <2>4. UNCHANGED held /\ SameQueues
    BY <1>1 DEF Stays, Nowhere
  <2>5. HomeInv'
    BY <2>1, <2>2, <2>3, <2>4, HomeSame DEF SameQueues
  <2>6. UNCHANGED crashed
    BY <1>1 DEF Stays, HomeInv, StillJoined
  <2> QED
    BY <2>5, <2>6
<1> SUFFICES ASSUME NEW x \in Exec, Effect(x) PROVE HomeInv' /\ UNCHANGED crashed
  BY <1>1, NextEffect
<1>C. UNCHANGED crashed
  BY DEF Effect, Takes, Steals, GoesOn, Yields, Creates, Joins, Pushes, Checks, Ends, Wakes
<1> SUFFICES HomeInv'
  BY <1>C
<1> DEFINE c == ex[x].co
<1>2. ASSUME NEW d \in made, NEW k \in Nat \ {0}, Takes(x, ex[x].tq, d, k) PROVE HomeInv'
  <2>1. /\ Others(x) /\ ex'[x].tq = ex[x].tq /\ ex[x].pc = "idle" /\ ex[x].tq \in Queue
        /\ <<d, k>> \in InQueue[ex[x].tq] /\ UNCHANGED <<held, joiners>>
        /\ \A q \in Queue : InQueue'[q] \subseteq InQueue[q]
        /\ \/ held[d] = k /\ ex'[x].pc = "resume" /\ ex'[x].co = d /\ ex'[x].n = k
           \/ held[d] # k /\ ex'[x].pc \in {"idle", "gone"} /\ ex'[x].co = NoCo
    BY <1>2, ExFields DEF Takes, QueueLoses
  <2>2. \A t \in Co : Entries'[t] = Entries[t]
    BY <2>1, EntriesSame
  <2>3. InHand'[x] \subseteq {<<d, k>>} /\ \A y \in Exec : y # x => InHand'[y] = InHand[y]
    BY <2>1, HandsOfNext, HandsStay
  <2>4. ASSUME NEW y \in Exec, y # x, ex[y].pc \in {"check", "move"}
        PROVE  <<ex[y].co, ex[y].m>> # <<d, k>>
    <3>1. y <= N /\ x <= N /\ ex[y].tq = y - 1 /\ ex[x].tq = x - 1 /\ x \in Nat /\ y \in Nat
      BY <2>1, <2>4, Constants DEF HomeInv
    <3>2. ex[y].tq # ex[x].tq
      BY <2>4, <3>1
    <3> QED
      BY <2>1, <2>4, <3>2 DEF HomeInv
  <2>5. ASSUME NEW y \in Exec, ex'[y].pc \in {"check", "move"}
        PROVE  LET p == <<ex[y].co, ex[y].m>>
               IN  /\ ex[y].pc \in {"check", "move"} /\ ex'[y].co = ex[y].co /\ ex'[y].m = ex[y].m
                   /\ held'[ex[y].co] = held[ex[y].co]
                   /\ \A z \in Exec : p \in InHand'[z] => p \in InHand[z]
                   /\ \A q \in Queue : p \in InQueue'[q] => p \in InQueue[q] \/ q = ex[y].tq
                   /\ \A t \in Co : \A w \in Entries'[t] :
                         <<w.co, w.n>> = p => w \in Entries[t] \/ w.tq = ex[y].tq
    <3> DEFINE p == <<ex[y].co, ex[y].m>>
    <3>1. y # x /\ ex'[y] = ex[y] /\ ex[y].pc \in {"check", "move"}
      BY <2>1, <2>5 DEF Others
    <3>2. p # <<d, k>>
      BY <2>4, <3>1
    <3> HIDE DEF p
    <3>3. \A z \in Exec : p \in InHand'[z] => p \in InHand[z]
      BY <2>3, <3>2
    <3> QED
      BY <2>1, <2>2, <3>1, <3>3 DEF p
  <2> QED
    BY <2>1, <2>5, HomeSame DEF Others
<1>3. CASE Steals(x)
  BY <1>3 DEF Steals
<1>4. CASE GoesOn(x)
  BY <1>4, <1>T, HomeKeeps DEF GoesOn, Holds, Nowhere, SameQueues
<1>5. CASE Yields(x)
  <2>1. \A q \in Queue : \A p \in InQueue'[q] : p \in InQueue[q] \/ p[1] = c
    BY <1>5 DEF Yields, QueueGains, SameQueues
  <2> QED
    BY <1>5, <1>T, <2>1, HomeKeeps DEF Yields, HostPc
<1>6. CASE Joins(x)
  BY <1>6, <1>T, HomeKeeps DEF Joins, Nowhere, SameQueues, HostPc
<1>7. CASE Ends(x)
  BY <1>7, <1>T, HomeKeeps DEF Ends, Holds, Nowhere, SameQueues, HostPc
<1>8. ASSUME NEW d \in Co, Creates(x, d) PROVE HomeInv'
  <2>1. /\ UNCHANGED <<ex, joiners, held>> /\ d \notin made
        /\ \A q \in Queue : \A p \in InQueue'[q] : p \in InQueue[q] \/ p[1] = d
    BY <1>8 DEF Creates, QueueGains, SameQueues
  <2>2. \A t \in Co : Entries'[t] = Entries[t]
    BY <2>1, EntriesSame
  <2>3. \A y \in Exec : InHand'[y] = InHand[y]
    BY <2>1, SameHands
  <2>4. \A y \in Exec : ex[y].pc \in {"check", "move"} => ex[y].co # d
    BY <2>1, ExFields DEF Bare
  <2>5. ASSUME NEW y \in Exec, ex[y].pc \in {"check", "move"}
        PROVE  \A q \in Queue : <<ex[y].co, ex[y].m>> \in InQueue'[q] => <<ex[y].co, ex[y].m>> \in InQueue[q]
    BY <2>1, <2>4, <2>5
  <2> QED
    BY <2>1, <2>2, <2>3, <2>5, HomeSame
<1>9. CASE Wakes(x)
  <2>0. ex[x].pc = "wake" /\ UNCHANGED held
    BY <1>9 DEF Wakes
  <2>1. CASE /\ Others(x) /\ ex'[x].pc \in {"idle", "gone"} /\ ex'[x].co = NoCo /\ ex'[x].tq = ex[x].tq
             /\ SameQueues /\ UNCHANGED joiners
    <3>1. /\ ex[x].pc # "none" /\ ex[x].pc \in HostPc \cup {"push", "resume", "move"}
          /\ ex'[x].pc \notin {"resume", "check", "move"} /\ ex'[x].co \in {NoCo, ex[x].co}
      BY <2>0, <2>1 DEF HostPc
    <3>2. \A q \in Queue : \A p \in InQueue'[q] : p \in InQueue[q]
      BY <2>1 DEF SameQueues
    <3> QED
      BY <2>0, <2>1, <3>1, <3>2, HomeKeeps
  <2>2. ASSUME NEW w \in MadeJoiner, c \in Co, w \in Entries[c], \A u \in Co : Entries'[u] \subseteq Entries[u],
               SameQueues \/ QueueGains(w.tq, <<w.co, w.n>>), UNCHANGED ex
        PROVE  HomeInv'
    <3>1. \A y \in Exec : InHand'[y] = InHand[y]
      BY <2>2, SameHands
    <3>2. ASSUME NEW y \in Exec, ex[y].pc \in {"check", "move"}, NEW q \in Queue,
                 <<ex[y].co, ex[y].m>> \in InQueue'[q]
          PROVE  <<ex[y].co, ex[y].m>> \in InQueue[q] \/ q = ex[y].tq
      <4>1. <<w.co, w.n>> = <<ex[y].co, ex[y].m>> => w.tq = ex[y].tq
        BY <2>2, <3>2 DEF HomeInv
      <4> QED
        BY <2>2, <3>2, <4>1 DEF SameQueues, QueueGains
    <3> QED
      BY <2>0, <2>2, <3>1, <3>2, HomeSame
  <2> QED
    BY <1>9, <2>1, <2>2 DEF Wakes
<1>10. CASE Checks(x)
  <2>1. /\ c \in Co /\ Others(x) /\ ex[x].pc = "check" /\ ex'[x].tq = ex[x].tq
        /\ SameQueues /\ UNCHANGED <<joiners, held>>
        /\ \/ Holds(x, "move")
           \/ Leaves(x)
    BY <1>10 DEF Checks, Nowhere, Holds, Leaves
  <2>2. \A t \in Co : Entries'[t] = Entries[t]
    BY <2>1, EntriesSame
  <2>3. \A y \in Exec : InHand'[y] \subseteq InHand[y]
    BY <2>1, HandsOf, HandsOfNext, HandsStay DEF Holds, Leaves
  <2>4. \A y \in Exec : ex'[y].tq = ex[y].tq /\ (ex[y].pc = "none" => ex'[y].pc = "none")
    BY <2>1 DEF Others
  <2>5. \A y \in Exec : ex'[y].pc = "resume" => ex[y].pc = "resume" /\ ex'[y].co = ex[y].co /\ ex'[y].n = ex[y].n
    BY <2>1 DEF Others, Holds, Leaves
  <2>6. \A y \in Exec : ex'[y].pc \in {"check", "move"} =>
           ex[y].pc \in {"check", "move"} /\ ex'[y].co = ex[y].co /\ ex'[y].m = ex[y].m
    BY <2>1 DEF Others, Holds, Leaves
  <2>7. \A q \in Queue : InQueue'[q] = InQueue[q]
    BY <2>1 DEF SameQueues
  <2>8. UNCHANGED held
    BY <2>1
  <2> QED
    BY <2>2, <2>3, <2>4, <2>5, <2>6, <2>7, <2>8, HomeSame
<1>11. CASE Pushes(x)
  <2>1. CASE ex'[x].pc # "check"
    BY <1>11, <1>T, <2>1, HomeKeeps DEF Pushes, SameQueues
  <2>2. CASE ex'[x].pc = "check"
    <3> DEFINE m == ex[x].m
               w == [co |-> c, n |-> m, tq |-> ex[x].tq]
    <3>1. /\ c \in Co /\ c # NoCo /\ ex[x].pc = "push" /\ Others(x) /\ ex'[x].tq = ex[x].tq /\ SameQueues
          /\ ex'[x].co = c /\ ex'[x].n = ex[x].n /\ ex'[x].m = m
          /\ \A u \in Co : Entries'[u] \subseteq Entries[u] \cup {w}
          /\ UNCHANGED held
      BY <1>11, <2>2 DEF Pushes
    <3>2. held[c] = m /\ m # ex[x].n
      BY <3>1 DEF CallerInv, Caller
    <3>3. <<c, m>> \in InHand[x]
      BY <3>1, HandsOf
    <3>4. InHand'[x] = {<<c, ex[x].n>>} /\ \A y \in Exec : y # x => InHand'[y] = InHand[y]
      BY <2>2, <3>1, HandsOfNext, HandsStay
    <3>5. /\ \A y \in Exec : y # x => <<c, m>> \notin InHand[y]
          /\ \A q \in Queue : <<c, m>> \notin InQueue[q]
          /\ \A t \in Co : <<c, m>> \notin InWait[t]
      BY <3>3 DEF PlaceInv, Apart
    <3>6. \A y \in Exec : y # x /\ ex[y].pc \in {"check", "move"} => ex[y].co # c
      BY <3>1, HomeAlone
    <3>7. InHand'[x] \subseteq InHand[x]
      BY <3>1, <3>4, HandsOf
    <3>8. \A q \in Queue : InQueue'[q] = InQueue[q]
      BY <3>1 DEF SameQueues
    <3>9. w.co = c /\ w.tq = ex[x].tq
      OBVIOUS
    <3>10. ASSUME NEW y \in Exec, ex'[y].pc \in {"check", "move"}
           PROVE  LET p == <<ex'[y].co, ex'[y].m>>
                  IN  /\ held'[ex'[y].co] = ex'[y].m
                      /\ \A z \in Exec : p \notin InHand'[z]
                      /\ \A q \in Queue : p \in InQueue'[q] => q = ex'[y].tq
                      /\ \A t \in Co : \A v \in Entries'[t] : <<v.co, v.n>> = p => v.tq = ex'[y].tq
      <4>1. CASE y = x
        <5>1. <<ex'[x].co, ex'[x].m>> = <<c, m>>
          BY <3>1
        <5>2. \A z \in Exec : <<c, m>> \notin InHand'[z]
          BY <3>2, <3>4, <3>5
        <5>3. \A t \in Co : \A v \in Entries[t] : <<v.co, v.n>> # <<c, m>>
          BY <3>5, EntryCells
        <5>4. \A t \in Co : \A v \in Entries'[t] : <<v.co, v.n>> = <<c, m>> => v.tq = ex[x].tq
          <6> HIDE DEF w
          <6> QED
            BY <3>1, <3>9, <5>3
        <5> QED
          BY <3>1, <3>2, <3>5, <3>8, <4>1, <5>1, <5>2, <5>4
      <4>2. CASE y # x
        <5> DEFINE p == <<ex[y].co, ex[y].m>>
        <5>1. ex'[y] = ex[y] /\ ex[y].pc \in {"check", "move"} /\ ex[y].co # c /\ p = <<ex'[y].co, ex'[y].m>>
          BY <3>1, <3>6, <3>10, <4>2 DEF Others
        <5>2. /\ held[ex[y].co] = ex[y].m
              /\ \A z \in Exec : p \notin InHand[z]
              /\ \A q \in Queue : p \in InQueue[q] => q = ex[y].tq
              /\ \A t \in Co : \A v \in Entries[t] : <<v.co, v.n>> = p => v.tq = ex[y].tq
          BY <5>1 DEF HomeInv
        <5>3. \A z \in Exec : p \notin InHand'[z]
          BY <3>4, <3>7, <5>2
        <5>4. \A t \in Co : \A v \in Entries'[t] : <<v.co, v.n>> = p => v.tq = ex[y].tq
          <6> HIDE DEF w
          <6> QED
            BY <3>1, <3>9, <5>1, <5>2
        <5> HIDE DEF p
        <5> QED
          BY <3>1, <3>8, <5>1, <5>2, <5>3, <5>4
      <4> QED
        BY <4>1, <4>2
    <3>11. \A y \in Exec : (y <= N => ex'[y].tq = y - 1) /\ (y > N => ex'[y].pc = "none")
      BY <3>1 DEF Others, HomeInv
    <3>12. \A y \in Exec : ex'[y].pc = "resume" => held'[ex'[y].co] = ex'[y].n
      BY <2>2, <3>1 DEF Others, HomeInv
    <3> HIDE DEF w, m
    <3> QED
      BY <3>10, <3>11, <3>12, HomeIs
  <2> QED
    BY <2>1, <2>2
<1> QED
  BY <1>C, <1>2, <1>3, <1>4, <1>5, <1>6, <1>7, <1>8, <1>9, <1>10, <1>11 DEF Effect

(* The caller that join() is about to move has not gone on since. *)
LEMMA StillStep ==
    ASSUME TypeInv, PlaceInv, ThiefInv, HostInv, CallerInv, HomeInv, StillJoined, ~conf.steal,
           [Next]_vars
    PROVE  StillJoined'
<1>T. waitsFor \in [Co -> Co \cup {NoCo}] /\ NoCo \notin Co
  BY Constants DEF TypeInv, CellType
<1>1. CASE Stays
  BY <1>1 DEF Stays, Holds, StillJoined
<1> SUFFICES ASSUME NEW x \in Exec, Effect(x), NEW y \in Exec, ex'[y].pc \in {"check", "move"}
             PROVE  waitsFor'[ex'[y].co] # NoCo
  BY <1>1, NextEffect DEF StillJoined
<1> DEFINE c == ex[x].co
<1>2. CASE Pushes(x)
  <2>1. /\ UNCHANGED waitsFor /\ ex[x].pc = "push" /\ (y # x => ex'[y] = ex[y])
        /\ ex'[x].pc = "check" => ex'[x].co = c
        /\ ex'[x].pc # "move"
    BY <1>2 DEF Pushes, Others
  <2>2. waitsFor[c] # NoCo
    BY <1>T, <2>1 DEF CallerInv
  <2> QED
    BY <2>1, <2>2 DEF StillJoined
<1>3. CASE GoesOn(x) \/ Joins(x)
  <2>1. /\ c \in Co /\ y # x /\ ex'[y] = ex[y] /\ \A d \in Co : d # c => waitsFor'[d] = waitsFor[d]
        /\ ex[x].pc \in HostPc \cup {"push", "resume", "move"}
    BY <1>3, <1>T DEF GoesOn, Joins, Holds, Others, HostPc
  <2>2. ex[y].co # c /\ ex[y].co \in Co
    BY <2>1, HomeAlone, ExFields DEF Bare
  <2> QED
    BY <2>1, <2>2 DEF StillJoined
<1>4. CASE ~(Pushes(x) \/ GoesOn(x) \/ Joins(x))
  <2>1. UNCHANGED waitsFor
    BY <1>4 DEF Effect, Takes, Steals, Yields, Creates, Checks, Ends, Wakes
  <2>2. ex[y].pc \in {"check", "move"} /\ ex'[y].co = ex[y].co
    BY <1>4 DEF Effect, Takes, Steals, Yields, Creates, Checks, Ends, Wakes, Others, Holds, Leaves
  <2> QED
    BY <2>1, <2>2 DEF StillJoined
<1> QED
  BY <1>2, <1>3, <1>4

NoStealInv == ~conf.steal => HomeInv /\ StillJoined /\ ~crashed

(* Without stealing no null continuation is resumed. *)
THEOREM NoNullResumeHolds == Spec => []NoNullResume
<1>1. Init => NoStealInv
  BY InitExecutors DEF NoStealInv, HomeInv, StillJoined, Init
<1>2. TypeInv /\ PlaceInv /\ ThiefInv /\ HostInv /\ CallerInv /\ NoStealInv /\ [Next]_vars => NoStealInv'
  <2>1. [Next]_vars => UNCHANGED conf
    BY DEF Next, Work, Monitor, AllQuiet, vars
  <2> QED
    BY <2>1, HomeStep, StillStep DEF NoStealInv
<1>3. NoStealInv => NoNullResume
  BY DEF NoStealInv, NoNullResume
<1> QED
  BY <1>1, <1>2, <1>3, TypeInvHolds, PlaceHolds, HostHolds, CallerHolds, PTL DEF Spec

(* Where a coroutine that has not ended is: on an executor, in a queue, in the
   hands of an executor about to resume it, or among the joiners of a coroutine
   that has not stopped, is waking them, or will be found stopped by join(). *)
Kept(c) ==
    \/ \E x \in Exec : ex[x].co = c /\ ex[x].pc \in {"run", "blocked", "push"}
    \/ \E q \in Queue : Here(c) \in InQueue[q]
    \/ \E x \in Exec : ex[x].co = c /\ ex[x].pc = "resume" /\ ex[x].n = held[c]
    \/ \E t \in Co : Here(c) \in InWait[t] /\ t \notin stopped
    \/ \E t \in Co, x \in Exec : Here(c) \in InWait[t] /\ ex[x].pc = "wake" /\ ex[x].co = t
    \/ \E t \in Co, x \in Exec : /\ Here(c) \in InWait[t]
                                 /\ ex[x].pc \in {"check", "move"} /\ ex[x].co = c /\ ex[x].m = held[c]

KeptInv == \A c \in made \ (stopped \cup lost) : Kept(c)

(* A step leaves what keeps c, ... *)
LEMMA KeptSame ==
    ASSUME NEW c \in Co, Kept(c), Here(c)' = Here(c), held'[c] = held[c],
           \A x \in Exec : ex[x].co = c /\ ex[x].pc \in {"run", "blocked", "push"} =>
               ex'[x].co = c /\ ex'[x].pc \in {"run", "blocked", "push"},
           \A q \in Queue : Here(c) \in InQueue[q] => \E r \in Queue : Here(c) \in InQueue'[r],
           \A x \in Exec : ex[x].co = c /\ ex[x].pc = "resume" =>
               ex'[x].co = c /\ ex'[x].pc = "resume" /\ ex'[x].n = ex[x].n,
           \A t \in Co : Here(c) \in InWait[t] => Here(c) \in InWait'[t],
           \A t \in Co : t \in stopped' =>
               t \in stopped \/ \E x \in Exec : ex'[x].pc = "wake" /\ ex'[x].co = t,
           \A x \in Exec : ex[x].pc = "wake" => ex'[x].pc = "wake" /\ ex'[x].co = ex[x].co,
           \A x \in Exec : ex[x].co = c /\ ex[x].pc \in {"check", "move"} =>
               ex'[x].co = c /\ ex'[x].pc \in {"check", "move"} /\ ex'[x].m = ex[x].m
    PROVE  Kept(c)'
<1>1. ASSUME NEW t \in Co, Here(c) \in InWait[t], t \notin stopped PROVE Kept(c)'
  BY <1>1 DEF Kept
<1>2. ASSUME NEW t \in Co, NEW x \in Exec, Here(c) \in InWait[t], ex[x].pc = "wake", ex[x].co = t
      PROVE  Kept(c)'
  BY <1>2 DEF Kept
<1>3. ASSUME NEW t \in Co, NEW x \in Exec, Here(c) \in InWait[t], ex[x].pc \in {"check", "move"},
             ex[x].co = c, ex[x].m = held[c]
      PROVE  Kept(c)'
  BY <1>3 DEF Kept
<1> QED
  BY <1>1, <1>2, <1>3 DEF Kept

(* ... or another coroutine leaves the executor x that was executing it. *)
LEMMA KeptOther ==
    ASSUME NEW c \in Co, Kept(c), held'[c] = held[c], NEW x \in Exec, ex[x].co # c, ex[x].pc # "wake",
           Others(x), UNCHANGED stopped,
           \A q \in Queue : Here(c) \in InQueue[q] => \E r \in Queue : Here(c) \in InQueue'[r],
           \A t \in Co : Here(c) \in InWait[t] => Here(c) \in InWait'[t]
    PROVE  Kept(c)'
<1>1. Here(c)' = Here(c)
  BY DEF Here
<1> QED
  BY <1>1, KeptSame DEF Others

LEMMA KeptStep ==
    TypeInv /\ PlaceInv /\ ThiefInv /\ HostInv /\ CallerInv /\ WaitInv /\ KeptInv /\ [Next]_vars => KeptInv'
<1> SUFFICES ASSUME TypeInv, PlaceInv, ThiefInv, HostInv, CallerInv, WaitInv, KeptInv, [Next]_vars,
                    NEW d \in made', d \notin stopped', d \notin lost'
             PROVE  Kept(d)'
  BY DEF KeptInv
<1>H. Here(d) = <<d, held[d]>> /\ Here(d)' = <<d, held'[d]>>
  BY DEF Here
<1>1. CASE Stays
  <2>1. d \in Co /\ Kept(d)
    BY <1>1, ConfFacts DEF Stays, KeptInv, TypeInv, LifeType
  <2>2. \A q \in Queue : InQueue'[q] = InQueue[q]
    BY <1>1 DEF Stays, Nowhere, SameQueues
  <2>3. \A t \in Co : InWait'[t] = InWait[t]
    BY <1>1 DEF Stays, Nowhere, SameWaits
  <2>4. \A x \in Exec : /\ ex[x].co = d /\ ex[x].pc \in {"run", "blocked", "push"} =>
                             ex'[x].co = d /\ ex'[x].pc \in {"run", "blocked", "push"}
                        /\ ex[x].pc \notin {"none", "run", "blocked"} => Holds(x, ex[x].pc)
    BY <1>1 DEF Stays, Holds
  <2>5. UNCHANGED <<stopped, held>>
    BY <1>1 DEF Stays
  <2> QED
    BY <1>H, <2>1, <2>2, <2>3, <2>4, <2>5, KeptSame DEF Holds
<1> SUFFICES ASSUME NEW x \in Exec, Effect(x) PROVE Kept(d)'
  BY <1>1, NextEffect
<1> DEFINE c == ex[x].co
<1>T. /\ held \in [Co -> Nat] /\ waitsFor \in [Co -> Co \cup {NoCo}]
      /\ made \subseteq Co /\ NoCo \notin Co
  BY ConfFacts, Constants DEF TypeInv, CellType, LifeType
<1>D. d \in Co
  BY <1>T DEF Effect, Takes, Steals, GoesOn, Yields, Creates, Joins, Pushes, Checks, Ends, Wakes
<1>K. d \in made /\ stopped \subseteq stopped' /\ lost \subseteq lost' => Kept(d)
  BY DEF KeptInv
<1>2. ASSUME NEW q \in Queue, NEW b \in made, NEW k \in Nat \ {0}, Takes(x, q, b, k) PROVE Kept(d)'
  <2>1. /\ Kept(d) /\ ex[x].co = NoCo /\ ex[x].pc = "idle" /\ Others(x) /\ UNCHANGED <<stopped, held>>
        /\ \A t \in Co : InWait'[t] = InWait[t]
        /\ InQueue'[q] = InQueue[q] \ {<<b, k>>} /\ \A r \in Queue : r # q => InQueue'[r] = InQueue[r]
    BY <1>2, <1>K, ExFields DEF Takes, Bare, QueueLoses, SameWaits
  <2>2. CASE Here(d) = <<b, k>>
    BY <1>2, <1>H, <2>1, <2>2 DEF Takes, Kept
  <2>3. CASE Here(d) # <<b, k>>
    <3>1. \A r \in Queue : Here(d) \in InQueue[r] => Here(d) \in InQueue'[r]
      BY <2>1, <2>3
    <3> QED
      BY <1>T, <1>D, <2>1, <3>1, KeptOther
  <2> QED
    BY <2>2, <2>3
<1>3. CASE Steals(x)
  <2>1. /\ d \in made /\ ex[x].co = NoCo /\ ex[x].pc # "wake" /\ Others(x) /\ UNCHANGED <<stopped, held>>
        /\ \A t \in Co : InWait'[t] = InWait[t]
    BY <1>3 DEF Steals, SameWaits
  <2>2. lost \subseteq lost'
    BY <1>3 DEF Steals
  <2>3. \A q \in Queue : Here(d) \in InQueue[q] => \E r \in Queue : Here(d) \in InQueue'[r]
    <3>1. CASE SameQueues
      BY <3>1 DEF SameQueues
    <3>2. ASSUME NEW q \in Queue, NEW r \in Queue, NEW p \in Used, q # r,
                 InQueue'[q] = InQueue[q] \ {p}, InQueue'[r] = InQueue[r] \cup {p},
                 \A s \in Queue : s # q /\ s # r => InQueue'[s] = InQueue[s]
          PROVE  \A s \in Queue : Here(d) \in InQueue[s] => \E u \in Queue : Here(d) \in InQueue'[u]
      BY <3>2
    <3>3. ASSUME NEW q \in Queue, NEW b \in made, NEW k \in Nat \ {0}, QueueLoses(q, <<b, k>>),
                 lost' = IF held[b] = k THEN lost \cup {b} ELSE lost
          PROVE  \A s \in Queue : Here(d) \in InQueue[s] => Here(d) \in InQueue'[s]
      <4>1. Here(d) # <<b, k>>
        BY <1>H, <3>3
      <4> QED
        BY <3>3, <4>1 DEF QueueLoses
    <3> QED
      BY <1>3, <3>1, <3>2, <3>3 DEF Steals
  <2> QED
    BY <1>T, <1>D, <1>K, <2>1, <2>2, <2>3, KeptOther
<1>4. CASE GoesOn(x)
  <2>1. CASE d = c
    BY <1>4, <2>1 DEF GoesOn, Holds, Kept
  <2>2. CASE d # c
    <3>1. /\ Kept(d) /\ ex[x].pc # "wake" /\ Others(x) /\ UNCHANGED stopped /\ held'[d] = held[d]
          /\ \A q \in Queue : InQueue'[q] = InQueue[q]
          /\ \A t \in Co : InWait'[t] = InWait[t]
      BY <1>4, <1>T, <1>D, <1>K, <2>2 DEF GoesOn, Nowhere, SameQueues, SameWaits
    <3> QED
      BY <1>D, <2>2, <3>1, KeptOther
  <2> QED
    BY <2>1, <2>2
<1>5. CASE Yields(x)
  <2>1. CASE d = c
    <3>1. QueueGains(ex[x].tq, <<c, ex[x].n>>) /\ ex[x].tq \in Queue /\ held'[c] = ex[x].n
      BY <1>5, <1>T, <1>D, <2>1 DEF Yields
    <3> QED
      BY <1>H, <2>1, <3>1 DEF QueueGains, Kept
  <2>2. CASE d # c
    <3>1. /\ d \in made /\ ex[x].pc # "wake" /\ Others(x) /\ UNCHANGED stopped /\ held'[d] = held[d] /\ lost \subseteq lost'
          /\ \A q \in Queue : InQueue[q] \subseteq InQueue'[q]
          /\ \A t \in Co : InWait'[t] = InWait[t]
      BY <1>5, <1>T, <1>D, <2>2 DEF Yields, QueueGains, SameQueues, SameWaits
    <3> QED
      BY <1>D, <1>K, <2>2, <3>1, KeptOther
  <2> QED
    BY <2>1, <2>2
<1>6. ASSUME NEW b \in Co, Creates(x, b) PROVE Kept(d)'
  <2>0. /\ UNCHANGED <<ex, held, stopped>> /\ made' = made \cup {b} /\ b \notin made /\ lost \subseteq lost'
        /\ \A q \in Queue : InQueue[q] \subseteq InQueue'[q]
        /\ \A t \in Co : InWait'[t] = InWait[t]
    BY <1>6 DEF Creates, QueueGains, SameQueues, SameWaits
  <2>1. CASE d = b
    <3>1. held[d] = 1
      BY <2>0, <2>1 DEF TypeInv, CellType
    <3>2. \E q \in Queue : QueueGains(q, <<d, 1>>)
      BY <1>6, <2>1 DEF Creates
    <3>3. Here(d)' = <<d, 1>>
      BY <1>H, <2>0, <3>1
    <3> QED
      BY <3>2, <3>3 DEF QueueGains, Kept
  <2>2. CASE d # b
    <3>1. Kept(d) /\ held'[d] = held[d]
      BY <1>K, <2>0, <2>2
    <3> QED
      BY <1>D, <1>H, <2>0, <3>1, KeptSame
  <2> QED
    BY <2>1, <2>2
<1>7. CASE Joins(x)
  <2>1. CASE d = c
    BY <1>7, <2>1 DEF Joins, Kept
  <2>2. CASE d # c
    <3>1. /\ Kept(d) /\ ex[x].pc # "wake" /\ Others(x) /\ UNCHANGED stopped /\ held'[d] = held[d]
          /\ \A q \in Queue : InQueue'[q] = InQueue[q]
          /\ \A t \in Co : InWait'[t] = InWait[t]
      BY <1>7, <1>T, <1>D, <1>K, <2>2 DEF Joins, Nowhere, SameQueues, SameWaits
    <3> QED
      BY <1>D, <2>2, <3>1, KeptOther
  <2> QED
    BY <2>1, <2>2
<1>8. CASE Pushes(x)
  <2>1. CASE d = c
    <3>1. /\ ex'[x].pc = "check" /\ ex'[x].co = c /\ ex'[x].m = ex[x].m /\ UNCHANGED held
          /\ waitsFor[c] \in Co => WaitGains(waitsFor[c], <<c, ex[x].m>>)
          /\ ex[x].pc = "push"
      BY <1>8, <2>1 DEF Pushes
    <3>2. held[c] = ex[x].m /\ waitsFor[c] \in Co
      BY <3>1 DEF CallerInv
    <3>3. Here(d)' \in InWait'[waitsFor[c]] /\ ex'[x].m = held'[d] /\ ex'[x].co = d
      BY <1>H, <2>1, <3>1, <3>2 DEF WaitGains
    <3> QED
      BY <3>1, <3>2, <3>3 DEF Kept
  <2>2. CASE d # c
    <3>1. /\ d \in made /\ ex[x].pc # "wake" /\ Others(x) /\ UNCHANGED stopped /\ held'[d] = held[d] /\ lost \subseteq lost'
          /\ \A q \in Queue : InQueue'[q] = InQueue[q]
          /\ \A t \in Co : InWait[t] \subseteq InWait'[t]
      BY <1>8, <1>T, <1>D, <2>2 DEF Pushes, WaitGains, SameQueues, SameWaits
    <3> QED
      BY <1>D, <1>K, <2>2, <3>1, KeptOther
  <2> QED
    BY <2>1, <2>2
<1>9. CASE Checks(x)
  <2>0. /\ Kept(d) /\ ex[x].pc = "check" /\ Others(x) /\ UNCHANGED <<stopped, held>>
        /\ \A q \in Queue : InQueue'[q] = InQueue[q]
        /\ \A t \in Co : InWait'[t] = InWait[t]
    BY <1>9, <1>K DEF Checks, Nowhere, SameQueues, SameWaits
  <2>1. CASE Holds(x, "move")
    BY <1>D, <1>H, <2>0, <2>1, KeptSame DEF Others, Holds
  <2>2. CASE d # c
    BY <1>D, <2>0, <2>2, KeptOther
  <2>3. CASE d = c /\ ~(waitsFor[c] \in stopped \cup {NoCo} /\ held[c] = ex[x].m)
    <3>1. CASE \E t \in Co : Here(d) \in InWait[t] /\ ex[x].m = held[d]
      <4>1. PICK t \in Co : Here(d) \in InWait[t] /\ ex[x].m = held[d]
        BY <3>1
      <4>2. t \notin stopped
        BY <1>D, <2>3, <4>1 DEF WaitInv
      <4>3. Here(d)' \in InWait'[t] /\ t \notin stopped'
        BY <1>H, <2>0, <4>1, <4>2
      <4> QED
        BY <4>3 DEF Kept
    <3>2. CASE ~ \E t \in Co : Here(d) \in InWait[t] /\ ex[x].m = held[d]
      BY <1>H, <2>0, <3>2 DEF Kept, Others
    <3> QED
      BY <3>1, <3>2
  <2> QED
    BY <1>9, <2>1, <2>2, <2>3 DEF Checks
<1>10. CASE Ends(x)
  <2>1. /\ Kept(d) /\ d # c /\ Others(x) /\ Holds(x, "wake") /\ ex[x].pc = "run" /\ UNCHANGED held
        /\ stopped' = stopped \cup {c}
        /\ \A q \in Queue : InQueue'[q] = InQueue[q]
        /\ \A t \in Co : InWait'[t] = InWait[t]
    BY <1>10, <1>K DEF Ends, Nowhere, SameQueues, SameWaits
  <2>2. \A t \in Co : t \in stopped' =>
           t \in stopped \/ \E y \in Exec : ex'[y].pc = "wake" /\ ex'[y].co = t
    BY <2>1 DEF Holds
  <2> QED
    BY <1>D, <1>H, <2>1, <2>2, KeptSame DEF Others, Holds
<1>11. CASE Wakes(x)
  <2>0. d \in made /\ UNCHANGED <<stopped, held>> /\ ex[x].pc = "wake" /\ c \in Co /\ lost \subseteq lost'
    BY <1>11 DEF Wakes
  <2>1. CASE InWait[c] = {} /\ Others(x) /\ SameQueues /\ SameWaits
    <3>1. Kept(d)
      BY <1>K, <2>0
    <3>2. \A y \in Exec : y # x => ex'[y] = ex[y]
      BY <2>1 DEF Others
    <3>3. /\ \A q \in Queue : InQueue'[q] = InQueue[q]
          /\ \A t \in Co : InWait'[t] = InWait[t]
      BY <2>1 DEF SameQueues, SameWaits
    <3> QED
      BY <1>H, <2>0, <2>1, <3>1, <3>2, <3>3 DEF Kept
  <2>2. ASSUME NEW w \in MadeJoiner, WaitLoses(c, <<w.co, w.n>>), UNCHANGED ex,
               \/ held[w.co] # w.n /\ SameQueues
               \/ held[w.co] = w.n /\ QueueGains(w.tq, <<w.co, w.n>>)
               \/ held[w.co] = w.n /\ SameQueues /\ lost' = lost \cup {w.co}
        PROVE  Kept(d)'
    <3>1. Kept(d) /\ w.tq \in Queue
      BY <1>K, <2>0, <2>2 DEF MadeJoiner
    <3>2. CASE Here(d) = <<w.co, w.n>>
      <4>1. d = w.co /\ held[d] = w.n
        BY <1>H, <3>2
      <4>2. QueueGains(w.tq, <<w.co, w.n>>)
        BY <2>2, <4>1
      <4>3. Here(d)' \in InQueue'[w.tq]
        BY <1>H, <2>0, <4>1, <4>2 DEF QueueGains
      <4> QED
        BY <3>1, <4>3 DEF Kept
    <3>3. CASE Here(d) # <<w.co, w.n>>
      <4>1. \A t \in Co : Here(d) \in InWait[t] => Here(d) \in InWait'[t]
        BY <2>2, <3>3 DEF WaitLoses
      <4>2. \A q \in Queue : Here(d) \in InQueue[q] => Here(d) \in InQueue'[q]
        BY <2>2 DEF SameQueues, QueueGains
      <4> QED
        BY <1>D, <1>H, <2>0, <2>2, <3>1, <4>1, <4>2, KeptSame
    <3> QED
      BY <3>2, <3>3
  <2> QED
    BY <1>11, <2>1, <2>2 DEF Wakes
<1> QED
  BY <1>2, <1>3, <1>4, <1>5, <1>6, <1>7, <1>8, <1>9, <1>10, <1>11 DEF Effect

LEMMA KeptInit == Init => KeptInv
<1> SUFFICES ASSUME Init, NEW c \in made PROVE Kept(c)
  BY DEF KeptInv
<1>0. TypeInv
  BY InitType
<1>1. c \in Co /\ 0 \in Queue
  BY <1>0, ConfFacts, SchedAssumption DEF TypeInv, LifeType, Queue
<1>2. PICK i \in DOMAIN conf.initial : c = conf.initial[i]
  BY DEF Init
<1>3. queue[0] = [j \in DOMAIN conf.initial |-> [co |-> conf.initial[j], n |-> 1]]
  BY <1>1 DEF Init
<1>4. i \in DOMAIN queue[0] /\ CellOf(queue[0][i]) = <<c, 1>>
  BY <1>2, <1>3 DEF CellOf
<1>5. Here(c) = <<c, 1>>
  BY <1>1 DEF Init, Here
<1>6. Here(c) \in InQueue[0]
  BY <1>1, <1>4, <1>5 DEF InQueue, CellsOf
<1> QED
  BY <1>1, <1>6 DEF Kept

LEMMA KeptHolds == Spec => []KeptInv
BY KeptInit, KeptStep, TypeInvHolds, PlaceHolds, HostHolds, CallerHolds, WaitHolds, PTL DEF Spec

(* A coroutine that has not ended, and was not dropped by a full queue, is on an
   executor, queued, or among the joiners of one that will still wake them. *)
THEOREM NoneForgottenHolds == Spec => []NoneForgotten
<1>1. TypeInv /\ KeptInv => NoneForgotten
  <2> SUFFICES ASSUME TypeInv, KeptInv, NEW c \in made \ (stopped \cup lost)
               PROVE  (\E x \in Exec : ex[x].co = c) \/ Queued(c) # {} \/ Awaited(c)
    BY DEF NoneForgotten
  <2>1. Kept(c) /\ c \in Co
    BY ConfFacts DEF KeptInv, TypeInv, LifeType
  <2>2. ASSUME NEW q \in Queue, Here(c) \in InQueue[q] PROVE Queued(c) # {}
    <3>1. PICK i \in DOMAIN queue[q] : CellOf(queue[q][i]) = Here(c)
      BY <2>2 DEF InQueue, CellsOf
    <3>2. queue[q][i].co = c /\ queue[q][i].n = held[c]
      BY <3>1 DEF CellOf, Here
    <3>3. i \in 1 .. conf.qcap
      <4>1. queue[q] \in Seq(MadeTask) /\ Len(queue[q]) <= conf.qcap /\ conf.qcap \in Nat
        BY ConfFacts DEF TypeInv, QueueType
      <4> QED
        BY <4>1
    <3>4. Names(<<q, i>>, c)
      BY <3>2 DEF Names, Valid
    <3> QED
      BY <3>3, <3>4 DEF Queued
  <2>3. ASSUME NEW t \in Co, Here(c) \in InWait[t],
               t \notin stopped \/ \E x \in Exec : ex[x].pc = "wake" /\ ex[x].co = t
        PROVE  Awaited(c)
    <3>1. PICK i \in DOMAIN joiners[t] : CellOf(joiners[t][i]) = Here(c)
      BY <2>3 DEF InWait, CellsOf
    <3>2. joiners[t][i].co = c /\ Valid(joiners[t][i])
      BY <3>1 DEF CellOf, Here, Valid
    <3> QED
      BY <2>3, <3>2 DEF Awaited
  <2> QED
    BY <2>1, <2>2, <2>3 DEF Kept
<1> QED
  BY <1>1, TypeInvHolds, KeptHolds, PTL
=============================================================================
