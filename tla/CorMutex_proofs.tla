--------------------------- MODULE CorMutex_proofs ---------------------------
(* Proofs about CorMutex, for any number of coroutines and executors, any
   capacities of the queues and any number of rounds.

   The invariants are proved one on top of the other.  With and without stealing:
     TypeOK      the type of the state;
     PlaceInv    every cell is named in one place: scheduled once;
     ResumeInv   who runs or suspends a coroutine, and in which state it is.
   Without stealing:
     HomeInv     nobody takes a caller from the executor that runs the second half
                 of its lock(): no null resume, no write into a dead frame;
     PrivateInv  so a compare-and-swap compares with false;
     MutexInv    whoever is inside keeps the lock set: mutual exclusion;
     WakeInv     while somebody waits for a free lock, somebody comes;
     LockHasOwner  a lock that is set has an owner. *)
EXTENDS CorMutex, TLAPS

USE DEF On

LEMMA SeqFacts ==
    ASSUME NEW S, NEW s \in Seq(S)
    PROVE  /\ \A x \in S : Append(s, x) \in Seq(S)
           /\ s # <<>> => Head(s) \in S /\ Tail(s) \in Seq(S)
           /\ \A i \in DOMAIN s : s[i] \in S
OBVIOUS

(* A part of a sequence is a sequence over the same set. *)
LEMMA SubSeqFact ==
    ASSUME NEW S, NEW s \in Seq(S), NEW m \in Nat \ {0}, NEW n \in Nat, n <= Len(s)
    PROVE  SubSeq(s, m, n) \in Seq(S)
OBVIOUS

(* A thief takes at least one task and no more than there are. *)
LEMMA HalfFact == ASSUME NEW n \in Nat, n > 0 PROVE Half(n) \in Nat /\ 0 < Half(n) /\ Half(n) <= n
BY DEF Half

(* What an executor holds, field by field. *)
LEMMA ExecutorType ==
    ASSUME TypeOK, NEW e \in Exec
    PROVE  /\ ex[e] \in Executor
           /\ ex[e].pc \in ExPc /\ ex[e].n \in Nat /\ ex[e].m \in Nat
           /\ ex[e].pc # "idle" => ex[e].co \in Co
<1>1. ex[e] \in Executor /\ (ex[e].pc = "idle" <=> ex[e].co = NoCo)
  BY DEF TypeOK
<1> QED
  BY <1>1 DEF Executor

(* Replacing the state of one executor by a well-formed one. *)
LEMMA ExecutorStep ==
    ASSUME TypeOK, NEW e \in Exec, NEW r \in Executor,
           r.pc = "idle" <=> r.co = NoCo,
           ex' = [ex EXCEPT ![e] = r]
    PROVE  /\ ex' \in [Exec -> Executor]
           /\ \A f \in Exec : ex'[f].pc = "idle" <=> ex'[f].co = NoCo
BY DEF TypeOK

LEMMA InitTypeOK == Init => TypeOK
<1> SUFFICES ASSUME Init PROVE TypeOK
  OBVIOUS
<1> USE ConstantAssumption DEF Init
<1>1. tasks \in [Exec -> Seq(Task)]
  <2> SUFFICES ASSUME NEW e \in Exec
               PROVE  [i \in 1 .. Len(Place[e]) |-> [co |-> Place[e][i], n |-> 1]]
                         \in Seq(Task)
    OBVIOUS
  <2>1. Place[e] \in Seq(Co)
    OBVIOUS
  <2>2. \A i \in 1 .. Len(Place[e]) : Place[e][i] \in Co
    BY <2>1
  <2>3. Len(Place[e]) \in Nat
    BY <2>1
  <2> QED
    BY <2>2, <2>3 DEF Task
<1>2. waiters \in Seq(Waiter)
  OBVIOUS
<1>3. ex \in [Exec -> Executor] /\ \A e \in Exec : ex[e].pc = "idle" <=> ex[e].co = NoCo
  BY DEF IdleExecutor, Executor, ExPc
<1> QED
  BY <1>1, <1>2, <1>3 DEF TypeOK, AtPc, Fault

(* The two outcomes of the first compare-and-swap. *)
Takes(e) ==
    /\ locked' = TRUE
    /\ at' = [at EXCEPT ![ex[e].co] = "cs"]
    /\ UNCHANGED <<cells, held, ex, expected>>
Suspends(e) ==
    LET c == ex[e].co
    IN  /\ expected' = [expected EXCEPT ![c] = locked]
        /\ at' = [at EXCEPT ![c] = "lock"]
        /\ cells' = [cells EXCEPT ![c] = cells[c] + 1]
        /\ held' = [held EXCEPT ![c] = cells[c] + 1]
        /\ ex' = [ex EXCEPT ![e] = [pc |-> "push", co |-> c, n |-> ex[e].n,
                                    m |-> cells[c] + 1]]
        /\ UNCHANGED locked

LEMMA FirstCasCases ==
    ASSUME NEW e \in Exec, FirstCas(e)
    PROVE  /\ ex[e].pc = "run" /\ at[ex[e].co] = "try"
           /\ UNCHANGED <<waiters, tasks, rounds, fault>>
           /\ Takes(e) \/ Suspends(e)
BY DEF FirstCas, Runs, Takes, Suspends

(* exec_co up to can_resume(). *)
LEMMA TakeType ==
    ASSUME TypeOK, NEW e \in Exec, NEW t \in Task, Take(e, t)
    PROVE  /\ ex' \in [Exec -> Executor]
           /\ \A f \in Exec : ex'[f].pc = "idle" <=> ex'[f].co = NoCo
<1>1. CASE Valid(t)
  <2> DEFINE r == [pc |-> "resume", co |-> t.co, n |-> t.n, m |-> 0]
  <2>1. r \in Executor /\ (r.pc = "idle" <=> r.co = NoCo)
    BY ConstantAssumption DEF Task, Executor, ExPc
  <2>2. ex' = [ex EXCEPT ![e] = r]
    BY <1>1 DEF Take
  <2> QED
    BY <2>1, <2>2, ExecutorStep
<1>2. CASE ~Valid(t)
  BY <1>2 DEF Take, TypeOK
<1> QED
  BY <1>1, <1>2

LEMMA DequeueType == ASSUME TypeOK, NEW e \in Exec, Dequeue(e), UNCHANGED taskCap PROVE TypeOK'
<1>1. tasks[e] \in Seq(Task) /\ tasks[e] # <<>>
  BY DEF TypeOK, Dequeue
<1>2. Head(tasks[e]) \in Task /\ Tail(tasks[e]) \in Seq(Task)
  BY <1>1, SeqFacts
<1>3. /\ ex' \in [Exec -> Executor]
      /\ \A f \in Exec : ex'[f].pc = "idle" <=> ex'[f].co = NoCo
  BY <1>2, TakeType DEF Dequeue
<1>4. tasks' \in [Exec -> Seq(Task)]
  BY <1>2 DEF TypeOK, Dequeue
<1> QED
  BY <1>3, <1>4 DEF TypeOK, Dequeue

LEMMA WorkStealType == ASSUME TypeOK, NEW e \in Exec, WorkSteal(e), UNCHANGED taskCap PROVE TypeOK'
<1> DEFINE q == (e + 1) % N
           k == Half(Len(tasks[q]))
<1>0. q \in Exec
  BY ConstantAssumption DEF Exec
<1>1. tasks[q] \in Seq(Task) /\ tasks[q] # <<>> /\ Len(tasks[q]) \in Nat
  BY <1>0 DEF TypeOK, WorkSteal
<1>2. Head(tasks[q]) \in Task
  BY <1>1, SeqFacts
<1>3. CASE Take(e, Head(tasks[q])) /\ tasks' = [tasks EXCEPT ![q] = <<>>]
  <2>1. /\ ex' \in [Exec -> Executor]
        /\ \A f \in Exec : ex'[f].pc = "idle" <=> ex'[f].co = NoCo
    BY <1>2, <1>3, TakeType
  <2>2. tasks' \in [Exec -> Seq(Task)]
    BY <1>0, <1>3 DEF TypeOK
  <2> QED
    BY <2>1, <2>2 DEF TypeOK, WorkSteal
<1>4. CASE /\ Len(tasks[q]) > 1
           /\ tasks' = [tasks EXCEPT ![e] = SubSeq(tasks[q], 1, k),
                                     ![q] = SubSeq(tasks[q], k + 1, Len(tasks[q]))]
           /\ UNCHANGED ex
  <2>1. k \in Nat /\ k <= Len(tasks[q])
    BY <1>1, <1>4, HalfFact
  <2>2. SubSeq(tasks[q], 1, k) \in Seq(Task)
    BY <1>1, <2>1, SubSeqFact
  <2>3. SubSeq(tasks[q], k + 1, Len(tasks[q])) \in Seq(Task)
    <3>1. k + 1 \in Nat \ {0}
      BY <2>1
    <3> QED
      BY <1>1, <3>1, SubSeqFact
  <2>4. tasks' \in [Exec -> Seq(Task)]
    BY <1>0, <1>4, <2>2, <2>3 DEF TypeOK
  <2> QED
    BY <1>4, <2>4 DEF TypeOK, WorkSteal
<1> QED
  BY <1>3, <1>4 DEF WorkSteal

LEMMA ResumeType == ASSUME TypeOK, NEW e \in Exec, Resume(e), UNCHANGED taskCap PROVE TypeOK'
<1>1. CASE Valid(ex[e]) /\ fault' = fault
  <2> DEFINE r == [ex[e] EXCEPT !.pc = "run"]
  <2>1. ex[e] \in Executor /\ ex[e].co \in Co
    BY ExecutorType DEF Resume
  <2>2. r \in Executor /\ (r.pc = "idle" <=> r.co = NoCo)
    BY <2>1, ConstantAssumption DEF Executor, ExPc
  <2>3. ex' = [ex EXCEPT ![e] = r]
    BY <1>1 DEF Resume
  <2>4. /\ ex' \in [Exec -> Executor]
        /\ \A f \in Exec : ex'[f].pc = "idle" <=> ex'[f].co = NoCo
    BY <2>2, <2>3, ExecutorStep
  <2>5. held' \in [Co -> Nat]
    <3>1. held' = [held EXCEPT ![ex[e].co] = 0]
      BY <1>1 DEF Resume
    <3> QED
      BY <3>1 DEF TypeOK
  <2>6. UNCHANGED <<locked, waiters, tasks, at, cells, expected, rounds, fault>>
    BY <1>1 DEF Resume
  <2> QED
    BY <2>4, <2>5, <2>6 DEF TypeOK
<1>2. CASE fault' # fault
  BY <1>2 DEF Resume, TypeOK, Fault
<1>3. CASE ~Valid(ex[e]) /\ fault' = fault
  BY <1>3 DEF Resume, TypeOK
<1> QED
  BY <1>1, <1>2, <1>3

LEMMA DeclareType == ASSUME TypeOK, NEW e \in Exec, Declare(e), UNCHANGED taskCap PROVE TypeOK'
<1>1. at' = [at EXCEPT ![ex[e].co] = "try"] /\ expected' = [expected EXCEPT ![ex[e].co] = FALSE]
  BY DEF Declare
<1>2. at' \in [Co -> AtPc] /\ expected' \in [Co -> BOOLEAN]
  BY <1>1 DEF TypeOK, AtPc
<1> QED
  BY <1>2 DEF Declare, TypeOK

LEMMA FirstCasType == ASSUME TypeOK, NEW e \in Exec, FirstCas(e), UNCHANGED taskCap PROVE TypeOK'
<1> DEFINE c == ex[e].co
<1>0. ex[e].n \in Nat /\ c \in Co /\ cells[c] \in Nat
  BY ExecutorType DEF FirstCas, Runs, TypeOK
<1>1. CASE Suspends(e)
  <2> DEFINE r == [pc |-> "push", co |-> c, n |-> ex[e].n, m |-> cells[c] + 1]
  <2>1. r \in Executor /\ (r.pc = "idle" <=> r.co = NoCo)
    BY <1>0, ConstantAssumption DEF Executor, ExPc
  <2>2. ex' = [ex EXCEPT ![e] = r]
    BY <1>1 DEF Suspends
  <2>3. /\ ex' \in [Exec -> Executor]
        /\ \A f \in Exec : ex'[f].pc = "idle" <=> ex'[f].co = NoCo
    BY <2>1, <2>2, ExecutorStep
  <2>4. /\ held' = [held EXCEPT ![c] = cells[c] + 1]
        /\ cells' = [cells EXCEPT ![c] = cells[c] + 1]
        /\ at' = [at EXCEPT ![c] = "lock"]
        /\ expected' = [expected EXCEPT ![c] = locked]
    BY <1>1 DEF Suspends
  <2>5. held' \in [Co -> Nat] /\ cells' \in [Co -> Nat]
    BY <1>0, <2>4 DEF TypeOK
  <2>6. at' \in [Co -> AtPc] /\ expected' \in [Co -> BOOLEAN]
    BY <2>4 DEF TypeOK, AtPc
  <2> QED
    BY <1>1, <2>3, <2>5, <2>6 DEF FirstCas, Suspends, TypeOK
<1>2. CASE Takes(e)
  <2>1. at' = [at EXCEPT ![c] = "cs"] /\ locked' = TRUE
    BY <1>2 DEF Takes
  <2>2. at' \in [Co -> AtPc]
    BY <1>0, <2>1 DEF TypeOK, AtPc
  <2> QED
    BY <1>2, <2>1, <2>2 DEF FirstCas, Takes, TypeOK
<1> QED
  BY <1>1, <1>2, FirstCasCases

LEMMA IdleType == IdleExecutor \in Executor /\ (IdleExecutor.pc = "idle" <=> IdleExecutor.co = NoCo)
BY DEF IdleExecutor, Executor, ExPc

LEMMA PushType == ASSUME TypeOK, NEW e \in Exec, Push(e), UNCHANGED taskCap PROVE TypeOK'
<1> DEFINE c == ex[e].co
<1>0. ex[e] \in Executor /\ c \in Co /\ ex[e].m \in Nat
  BY ExecutorType DEF Push
<1>1. CASE Len(waiters) < WaitCap
  <2> DEFINE r == [ex[e] EXCEPT !.pc = "clear"]
  <2>1. r \in Executor /\ (r.pc = "idle" <=> r.co = NoCo)
    BY <1>0, ConstantAssumption DEF Executor, ExPc
  <2>2. ex' = [ex EXCEPT ![e] = r]
    BY <1>1 DEF Push
  <2>3. /\ ex' \in [Exec -> Executor]
        /\ \A f \in Exec : ex'[f].pc = "idle" <=> ex'[f].co = NoCo
    BY <2>1, <2>2, ExecutorStep
  <2>4. waiters' \in Seq(Waiter)
    <3>1. [co |-> c, n |-> ex[e].m, tq |-> e] \in Waiter
      BY <1>0 DEF Waiter
    <3>2. waiters' = Append(waiters, [co |-> c, n |-> ex[e].m, tq |-> e])
      BY <1>1 DEF Push
    <3>3. waiters \in Seq(Waiter)
      BY DEF TypeOK
    <3> QED
      BY <3>1, <3>2, <3>3, SeqFacts
  <2> QED
    BY <1>1, <2>3, <2>4 DEF Push, TypeOK
<1>2. CASE ~(Len(waiters) < WaitCap)
  <2>1. /\ ex' \in [Exec -> Executor]
        /\ \A f \in Exec : ex'[f].pc = "idle" <=> ex'[f].co = NoCo
    BY <1>2, IdleType, ExecutorStep DEF Push
  <2>2. at' = [at EXCEPT ![c] = "lost"] /\ held' = [held EXCEPT ![c] = 0]
    BY <1>2 DEF Push
  <2>3. at' \in [Co -> AtPc] /\ held' \in [Co -> Nat]
    BY <1>0, <2>2 DEF TypeOK, AtPc
  <2> QED
    BY <1>2, <2>1, <2>3 DEF Push, TypeOK
<1> QED
  BY <1>1, <1>2

LEMMA WriteType ==
    ASSUME TypeOK, NEW e \in Exec, NEW v \in BOOLEAN, NEW r \in Executor,
           r.pc = "idle" <=> r.co = NoCo, WriteExpected(e, v, r),
           UNCHANGED <<locked, waiters, tasks, at, held, cells, rounds, taskCap>>
    PROVE  TypeOK'
<1>1. CASE FrameAlive(e) /\ fault' = fault
  <2>1. /\ ex' \in [Exec -> Executor]
        /\ \A f \in Exec : ex'[f].pc = "idle" <=> ex'[f].co = NoCo
    BY <1>1, ExecutorStep DEF WriteExpected
  <2>2. expected' \in [Co -> BOOLEAN]
    BY <1>1 DEF WriteExpected, TypeOK
  <2> QED
    BY <1>1, <2>1, <2>2 DEF TypeOK
<1>2. CASE ~FrameAlive(e)
  BY <1>2 DEF WriteExpected, TypeOK, Fault
<1> QED
  BY <1>1, <1>2 DEF WriteExpected

LEMMA ClearExpectedType ==
    ASSUME TypeOK, NEW e \in Exec, ClearExpected(e), UNCHANGED taskCap PROVE TypeOK'
<1> DEFINE r == [ex[e] EXCEPT !.pc = "cas"]
<1>1. ex[e] \in Executor /\ ex[e].co \in Co
  BY ExecutorType DEF ClearExpected
<1>2. r \in Executor /\ (r.pc = "idle" <=> r.co = NoCo)
  BY <1>1, ConstantAssumption DEF Executor, ExPc
<1> QED
  BY <1>2, WriteType DEF ClearExpected

LEMMA StoreSeenType ==
    ASSUME TypeOK, NEW e \in Exec, StoreSeen(e), UNCHANGED taskCap PROVE TypeOK'
<1>1. (ex[e].pc = "saw_set") \in BOOLEAN
  OBVIOUS
<1> QED
  BY <1>1, IdleType, WriteType DEF StoreSeen

LEMMA SecondCasType == ASSUME TypeOK, NEW e \in Exec, SecondCas(e), UNCHANGED taskCap PROVE TypeOK'
<1> SUFFICES ASSUME NEW pc \in {"check", "saw_set", "saw_free"},
                    ex' = [ex EXCEPT ![e].pc = pc], locked' \in BOOLEAN
             PROVE  TypeOK'
  BY DEF SecondCas, TypeOK
<1> DEFINE r == [ex[e] EXCEPT !.pc = pc]
<1>1. ex[e] \in Executor /\ ex[e].co \in Co
  BY ExecutorType DEF SecondCas
<1>2. r \in Executor /\ (r.pc = "idle" <=> r.co = NoCo)
  BY <1>1, ConstantAssumption DEF Executor, ExPc
<1>3. ex' = [ex EXCEPT ![e] = r]
  OBVIOUS
<1>4. /\ ex' \in [Exec -> Executor]
      /\ \A f \in Exec : ex'[f].pc = "idle" <=> ex'[f].co = NoCo
  BY <1>2, <1>3, ExecutorStep
<1> QED
  BY <1>4 DEF SecondCas, TypeOK

LEMMA CheckCallerType == ASSUME TypeOK, NEW e \in Exec, CheckCaller(e), UNCHANGED taskCap PROVE TypeOK'
<1> DEFINE r == IF held[ex[e].co] = ex[e].m THEN [ex[e] EXCEPT !.pc = "move"]
                                            ELSE IdleExecutor
<1>1. ex[e] \in Executor /\ ex[e].co \in Co
  BY ExecutorType DEF CheckCaller
<1>2. r \in Executor /\ (r.pc = "idle" <=> r.co = NoCo)
  BY <1>1, IdleType, ConstantAssumption DEF Executor, ExPc
<1>3. ex' = [ex EXCEPT ![e] = r]
  BY DEF CheckCaller
<1>4. /\ ex' \in [Exec -> Executor]
      /\ \A f \in Exec : ex'[f].pc = "idle" <=> ex'[f].co = NoCo
  BY <1>2, <1>3, ExecutorStep
<1>5. fault' \in Fault
  BY DEF CheckCaller, TypeOK, Fault
<1> QED
  BY <1>4, <1>5 DEF CheckCaller, TypeOK

LEMMA MoveCallerType == ASSUME TypeOK, NEW e \in Exec, MoveCaller(e), UNCHANGED taskCap PROVE TypeOK'
<1> DEFINE c == ex[e].co
<1>0. ex[e].n \in Nat /\ c \in Co
  BY ExecutorType DEF MoveCaller
<1>1. CASE held[c] = ex[e].m
  <2> DEFINE r == [pc |-> "run", co |-> c, n |-> ex[e].n, m |-> 0]
  <2>1. r \in Executor /\ (r.pc = "idle" <=> r.co = NoCo)
    BY <1>0, ConstantAssumption DEF Executor, ExPc
  <2>2. ex' = [ex EXCEPT ![e] = r]
    BY <1>1 DEF MoveCaller
  <2>3. /\ ex' \in [Exec -> Executor]
        /\ \A f \in Exec : ex'[f].pc = "idle" <=> ex'[f].co = NoCo
    BY <2>1, <2>2, ExecutorStep
  <2>4. held' = [held EXCEPT ![c] = 0] /\ at' = [at EXCEPT ![c] = "cs"]
    BY <1>1 DEF MoveCaller
  <2>5. held' \in [Co -> Nat] /\ at' \in [Co -> AtPc]
    BY <1>0, <2>4 DEF TypeOK, AtPc
  <2> QED
    BY <1>1, <2>3, <2>5 DEF MoveCaller, TypeOK
<1>2. CASE held[c] # ex[e].m
  BY <1>2 DEF MoveCaller, TypeOK, Fault
<1> QED
  BY <1>1, <1>2

LEMMA YieldType == ASSUME TypeOK, NEW e \in Exec, Yield(e), UNCHANGED taskCap PROVE TypeOK'
<1> DEFINE c == ex[e].co
           t == [co |-> c, n |-> ex[e].n]
<1>0. ex[e].n \in Nat /\ c \in Co
  BY ExecutorType DEF Yield, Runs
<1>1. tasks[e] \in Seq(Task) /\ t \in Task
  BY <1>0 DEF TypeOK, Task
<1>2. Append(tasks[e], t) \in Seq(Task)
  BY <1>1, SeqFacts
<1>3. tasks' \in [Exec -> Seq(Task)]
  <2>1. tasks' = [tasks EXCEPT ![e] = Append(tasks[e], t)] \/ tasks' = tasks
    BY DEF Yield
  <2> QED
    BY <1>2, <2>1 DEF TypeOK
<1>4. /\ ex' \in [Exec -> Executor]
      /\ \A f \in Exec : ex'[f].pc = "idle" <=> ex'[f].co = NoCo
  BY IdleType, ExecutorStep DEF Yield
<1>5. /\ at' = [at EXCEPT ![c] = "cs2"] \/ at' = [at EXCEPT ![c] = "orphan"]
      /\ held' = [held EXCEPT ![c] = ex[e].n]
  BY DEF Yield
<1>6. at' \in [Co -> AtPc] /\ held' \in [Co -> Nat]
  BY <1>0, <1>5 DEF TypeOK, AtPc
<1> QED
  BY <1>3, <1>4, <1>6 DEF Yield, TypeOK

LEMMA UnlockType == ASSUME TypeOK, NEW e \in Exec, Unlock(e), UNCHANGED taskCap PROVE TypeOK'
<1>1. at' = [at EXCEPT ![ex[e].co] = "wake"] /\ locked' = FALSE
  BY DEF Unlock
<1>2. at' \in [Co -> AtPc]
  BY <1>1 DEF TypeOK, AtPc
<1> QED
  BY <1>1, <1>2 DEF Unlock, TypeOK

LEMMA EndRoundType ==
    ASSUME TypeOK, NEW c \in Co, EndRound(c)
    PROVE  at' \in [Co -> AtPc] /\ rounds' \in [Co -> Nat]
BY DEF EndRound, TypeOK, AtPc

LEMMA WakeOneType == ASSUME TypeOK, NEW e \in Exec, WakeOne(e), UNCHANGED taskCap PROVE TypeOK'
<1> DEFINE c == ex[e].co
           w == Head(waiters)
           t == [co |-> w.co, n |-> w.n]
<1>0. c \in Co
  BY ExecutorType DEF WakeOne, Runs
<1>1. CASE waiters = <<>>
  <2>1. EndRound(c) /\ UNCHANGED <<waiters, tasks>>
    BY <1>1 DEF WakeOne
  <2> QED
    BY <1>0, <2>1, EndRoundType DEF WakeOne, TypeOK
<1>2. CASE waiters # <<>>
  <2>1. waiters \in Seq(Waiter)
    BY DEF TypeOK
  <2>2. w \in Waiter /\ Tail(waiters) \in Seq(Waiter)
    BY <1>2, <2>1, SeqFacts
  <2>3. waiters' = Tail(waiters)
    BY <1>2 DEF WakeOne
  <2>4. CASE Valid(w) /\ Schedule(w) /\ EndRound(c)
    <3>1. EndRound(c) /\ tasks' = [tasks EXCEPT ![w.tq] = Append(@, t)]
      BY <2>4 DEF Schedule
    <3>2. w.tq \in Exec /\ t \in Task
      BY <2>2 DEF Waiter, Task
    <3>3. tasks[w.tq] \in Seq(Task)
      BY <3>2 DEF TypeOK
    <3>4. Append(tasks[w.tq], t) \in Seq(Task)
      BY <3>2, <3>3, SeqFacts
    <3>5. tasks' \in [Exec -> Seq(Task)]
      BY <3>1, <3>4 DEF TypeOK
    <3> QED
      BY <1>0, <2>2, <2>3, <3>1, <3>5, EndRoundType DEF WakeOne, TypeOK
  <2>5. CASE ~Valid(w)
    <3>1. UNCHANGED <<tasks, at, rounds>>
      BY <1>2, <2>5 DEF WakeOne
    <3> QED
      BY <2>2, <2>3, <3>1 DEF WakeOne, TypeOK
  <2>6. CASE /\ at' = [at EXCEPT ![c] = "out", ![w.co] = "dropped"]
             /\ rounds' = [rounds EXCEPT ![c] = @ + 1] /\ UNCHANGED tasks
    <3>1. at' \in [Co -> AtPc]
      BY <2>6 DEF TypeOK, AtPc
    <3>2. rounds' \in [Co -> Nat]
      BY <1>0, <2>6 DEF TypeOK
    <3> QED
      BY <2>2, <2>3, <2>6, <3>1, <3>2 DEF WakeOne, TypeOK
  <2> QED
    BY <1>2, <2>4, <2>5, <2>6 DEF WakeOne
<1> QED
  BY <1>1, <1>2

LEMMA FinishType == ASSUME TypeOK, NEW e \in Exec, Finish(e), UNCHANGED taskCap PROVE TypeOK'
<1>1. /\ ex' \in [Exec -> Executor]
      /\ \A f \in Exec : ex'[f].pc = "idle" <=> ex'[f].co = NoCo
  BY IdleType, ExecutorStep DEF Finish
<1>2. at' \in [Co -> AtPc]
  BY DEF Finish, TypeOK, AtPc
<1> QED
  BY <1>1, <1>2 DEF Finish, TypeOK

LEMMA TypeStep == TypeOK /\ [Next]_vars => TypeOK'
<1> SUFFICES ASSUME TypeOK, [Next]_vars PROVE TypeOK'
  OBVIOUS
<1>1. CASE UNCHANGED vars
  BY <1>1 DEF TypeOK, vars
<1>2. CASE AllFinished
  BY <1>2 DEF TypeOK, vars, AllFinished
<1>3. ASSUME NEW e \in Exec, Run(e) PROVE TypeOK'
  BY <1>3, DequeueType, WorkStealType, ResumeType, DeclareType, FirstCasType, PushType,
     ClearExpectedType, SecondCasType, StoreSeenType, CheckCallerType, MoveCallerType, YieldType, UnlockType,
     WakeOneType, FinishType DEF Run, Step
<1> QED
  BY <1>1, <1>2, <1>3 DEF Next

(* Every state of every behaviour is well typed. *)
THEOREM TypeCorrect == Spec => []TypeOK
BY InitTypeOK, TypeStep, PTL DEF Spec

-----------------------------------------------------------------------------
(* Where a suspended coroutine can be found.  It is kept in one cell, and the
   cell is named by one waiter, one task or one executor at most.  A cell that
   was left is never filled again but by the executor that has it in hand. *)


(* The cell a waiter or a task names. *)
CellOf(x) == <<x.co, x.n>>
CellsOf(s) == {CellOf(s[i]) : i \in DOMAIN s}
Once(s) == \A i, j \in DOMAIN s : CellOf(s[i]) = CellOf(s[j]) => i = j

LEMMA AppendCells ==
    ASSUME NEW S, NEW s \in Seq(S), NEW x \in S
    PROVE  /\ CellsOf(Append(s, x)) = CellsOf(s) \cup {CellOf(x)}
           /\ Once(s) /\ CellOf(x) \notin CellsOf(s) => Once(Append(s, x))
<1> DEFINE t == Append(s, x)
<1>1. /\ Len(s) \in Nat
      /\ DOMAIN s = 1 .. Len(s)
      /\ DOMAIN t = 1 .. Len(s) + 1
      /\ \A i \in 1 .. Len(s) : t[i] = s[i]
      /\ t[Len(s) + 1] = x
  OBVIOUS
<1> HIDE DEF t
<1>2. CellsOf(t) = CellsOf(s) \cup {CellOf(x)}
  <2>1. \A i \in DOMAIN t : CellOf(t[i]) \in CellsOf(s) \cup {CellOf(x)}
    <3> TAKE i \in DOMAIN t
    <3>1. CASE i \in 1 .. Len(s)
      BY <1>1, <3>1 DEF CellsOf
    <3>2. CASE i = Len(s) + 1
      BY <1>1, <3>2
    <3> QED
      BY <1>1, <3>1, <3>2
  <2>2. \A i \in DOMAIN s : CellOf(s[i]) \in CellsOf(t)
    <3> TAKE i \in DOMAIN s
    <3>1. i \in DOMAIN t /\ t[i] = s[i]
      BY <1>1
    <3> QED
      BY <3>1 DEF CellsOf
  <2>3. CellOf(x) \in CellsOf(t)
    BY <1>1 DEF CellsOf
  <2> QED
    BY <2>1, <2>2, <2>3 DEF CellsOf
<1>3. ASSUME Once(s), CellOf(x) \notin CellsOf(s) PROVE Once(t)
  <2> SUFFICES ASSUME NEW i \in DOMAIN t, NEW j \in DOMAIN t, CellOf(t[i]) = CellOf(t[j])
               PROVE  i = j
    BY DEF Once
  <2>1. \A k \in 1 .. Len(s) : CellOf(t[k]) # CellOf(x)
    BY <1>1, <1>3 DEF CellsOf
  <2> QED
    BY <1>1, <1>3, <2>1 DEF Once
<1> QED
  BY <1>2, <1>3 DEF t

LEMMA TailCells ==
    ASSUME NEW S, NEW s \in Seq(S), s # <<>>, Once(s)
    PROVE  /\ CellOf(Head(s)) \in CellsOf(s)
           /\ CellsOf(Tail(s)) = CellsOf(s) \ {CellOf(Head(s))}
           /\ Once(Tail(s))
<1> DEFINE t == Tail(s)
           h == Head(s)
<1>1. /\ Len(s) \in Nat \ {0}
      /\ DOMAIN s = 1 .. Len(s)
      /\ DOMAIN t = 1 .. Len(s) - 1
      /\ \A i \in 1 .. Len(s) - 1 : t[i] = s[i + 1]
      /\ h = s[1]
  OBVIOUS
<1> HIDE DEF t, h
<1>2. CellOf(h) \in CellsOf(s)
  BY <1>1 DEF CellsOf
<1>3. ASSUME NEW i \in DOMAIN t
      PROVE  CellOf(t[i]) \in CellsOf(s) /\ CellOf(t[i]) # CellOf(h)
  <2>1. t[i] = s[i + 1] /\ i + 1 \in DOMAIN s /\ 1 \in DOMAIN s /\ i + 1 # 1
    BY <1>1
  <2> QED
    BY <1>1, <2>1 DEF CellsOf, Once
<1>4. ASSUME NEW i \in DOMAIN s, CellOf(s[i]) # CellOf(h)
      PROVE  CellOf(s[i]) \in CellsOf(t)
  <2>1. i # 1
    BY <1>1, <1>4
  <2>2. i - 1 \in DOMAIN t /\ t[i - 1] = s[(i - 1) + 1] /\ (i - 1) + 1 = i
    BY <1>1, <2>1
  <2> QED
    BY <2>2 DEF CellsOf
<1>5. CellsOf(t) = CellsOf(s) \ {CellOf(h)}
  BY <1>3, <1>4 DEF CellsOf
<1>6. Once(t)
  <2> SUFFICES ASSUME NEW i \in DOMAIN t, NEW j \in DOMAIN t, CellOf(t[i]) = CellOf(t[j])
               PROVE  i = j
    BY DEF Once
  <2>1. i + 1 \in DOMAIN s /\ j + 1 \in DOMAIN s /\ t[i] = s[i + 1] /\ t[j] = s[j + 1]
    BY <1>1
  <2>2. i + 1 = j + 1
    BY <2>1 DEF Once
  <2> QED
    BY <1>1, <2>2
<1> QED
  BY <1>2, <1>5, <1>6 DEF t, h

(* Cutting a sequence in two parts its cells. *)
LEMMA CutCells ==
    ASSUME NEW S, NEW s \in Seq(S), NEW k \in Nat, k <= Len(s), Once(s)
    PROVE  LET a == SubSeq(s, 1, k)
               b == SubSeq(s, k + 1, Len(s))
           IN  /\ Once(a) /\ Once(b)
               /\ CellsOf(a) \cup CellsOf(b) = CellsOf(s)
               /\ CellsOf(a) \cap CellsOf(b) = {}
<1> DEFINE a == SubSeq(s, 1, k)
           b == SubSeq(s, k + 1, Len(s))
<1>1. /\ Len(s) \in Nat
      /\ DOMAIN s = 1 .. Len(s)
      /\ DOMAIN a = 1 .. k
      /\ DOMAIN b = 1 .. Len(s) - k
      /\ \A i \in 1 .. k : a[i] = s[i]
      /\ \A i \in 1 .. Len(s) - k : b[i] = s[k + i]
  OBVIOUS
<1> HIDE DEF a, b
<1>2. Once(a)
  <2> SUFFICES ASSUME NEW i \in DOMAIN a, NEW j \in DOMAIN a, CellOf(a[i]) = CellOf(a[j])
               PROVE  i = j
    BY DEF Once
  <2> QED
    BY <1>1 DEF Once
<1>3. Once(b)
  <2> SUFFICES ASSUME NEW i \in DOMAIN b, NEW j \in DOMAIN b, CellOf(b[i]) = CellOf(b[j])
               PROVE  i = j
    BY DEF Once
  <2>1. k + i \in DOMAIN s /\ k + j \in DOMAIN s /\ b[i] = s[k + i] /\ b[j] = s[k + j]
    BY <1>1
  <2>2. k + i = k + j
    BY <2>1 DEF Once
  <2> QED
    BY <1>1, <2>2
<1>4. \A i \in DOMAIN a : i \in DOMAIN s /\ a[i] = s[i]
  BY <1>1
<1>5. \A i \in DOMAIN b : k + i \in DOMAIN s /\ b[i] = s[k + i]
  BY <1>1
<1>6. \A i \in DOMAIN s : CellOf(s[i]) \in CellsOf(a) \cup CellsOf(b)
  <2> TAKE i \in DOMAIN s
  <2>1. CASE i <= k
    BY <1>1, <2>1 DEF CellsOf
  <2>2. CASE i > k
    <3>1. i - k \in DOMAIN b /\ b[i - k] = s[k + (i - k)] /\ k + (i - k) = i
      BY <1>1, <2>2
    <3> QED
      BY <3>1 DEF CellsOf
  <2> QED
    BY <1>1, <2>1, <2>2
<1>7. CellsOf(a) \cup CellsOf(b) = CellsOf(s)
  BY <1>4, <1>5, <1>6 DEF CellsOf
<1>8. \A i \in DOMAIN a, j \in DOMAIN b : CellOf(a[i]) # CellOf(b[j])
  <2> TAKE i \in DOMAIN a, j \in DOMAIN b
  <2>1. i # k + j
    BY <1>1
  <2> QED
    BY <1>4, <1>5, <2>1 DEF Once
<1>9. CellsOf(a) \cap CellsOf(b) = {}
  BY <1>8 DEF CellsOf
<1> QED
  BY <1>2, <1>3, <1>7, <1>9 DEF a, b

-----------------------------------------------------------------------------
(* The cells an executor has in hand: the one of the task it executes, to
   which a yield returns, and in lock() caller_c until it is pushed. *)
InHand(e) ==
    IF ex[e].pc = "idle" THEN {}
    ELSE IF ex[e].pc = "push" THEN {<<ex[e].co, ex[e].n>>, <<ex[e].co, ex[e].m>>}
    ELSE {<<ex[e].co, ex[e].n>>}

Waiting == CellsOf(waiters)
Queued == [e \in Exec |-> CellsOf(tasks[e])]
Hands == [e \in Exec |-> InHand(e)]

\* The cells the coroutines have used so far.
Used == {<<c, k>> : c \in Co, k \in Nat \ {0}} \cap {p \in Co \X Nat : p[2] <= cells[p[1]]}

(* W, T and H name no cell twice, and only cells of U. *)
Apart(W, T, H, U) ==
    /\ W \subseteq U
    /\ \A e \in Exec : T[e] \subseteq U /\ H[e] \subseteq U
    /\ \A e \in Exec : W \cap T[e] = {} /\ W \cap H[e] = {}
    /\ \A e, f \in Exec : T[e] \cap H[f] = {}
    /\ \A e, f \in Exec : e # f => T[e] \cap T[f] = {} /\ H[e] \cap H[f] = {}

PlaceInv ==
    /\ Once(waiters)
    /\ \A e \in Exec : Once(tasks[e])
    /\ Apart(Waiting, Queued, Hands, Used)
    /\ \A e \in Exec : ex[e].pc = "push" => ex[e].m # ex[e].n

LEMMA UsedCells ==
    ASSUME TypeOK
    PROVE  \A c \in Co, k \in Nat : <<c, k>> \in Used <=> k # 0 /\ k <= cells[c]
BY DEF Used, TypeOK

(* Places that lose cells. *)
LEMMA ApartShrinks ==
    ASSUME NEW W, NEW T, NEW H, NEW U, Apart(W, T, H, U),
           NEW V, NEW S, NEW G, NEW U2,
           V \subseteq W, \A e \in Exec : S[e] \subseteq T[e] /\ G[e] \subseteq H[e],
           U \subseteq U2
    PROVE  Apart(V, S, G, U2)
BY DEF Apart

(* A cell leaves a task queue for the hands of an idle executor. *)
LEMMA ApartTaken ==
    ASSUME NEW W, NEW T, NEW H, NEW U, Apart(W, T, H, U),
           NEW e \in Exec, NEW q \in Exec, NEW p \in T[q], H[e] = {},
           NEW S, S[q] = T[q] \ {p}, \A f \in Exec : f # q => S[f] = T[f],
           NEW G, G[e] \subseteq {p}, \A f \in Exec : f # e => G[f] = H[f]
    PROVE  Apart(W, S, G, U)
BY DEF Apart

(* An executor hands a cell over to the end of a task queue. *)
LEMMA ApartYielded ==
    ASSUME NEW W, NEW T, NEW H, NEW U, Apart(W, T, H, U),
           NEW e \in Exec, NEW q \in Exec, NEW p \in H[e],
           NEW S, S[q] = T[q] \cup {p}, \A f \in Exec : f # q => S[f] = T[f],
           NEW G, G[e] \subseteq H[e] \ {p}, \A f \in Exec : f # e => G[f] = H[f]
    PROVE  Apart(W, S, G, U)
BY DEF Apart

(* An executor hands a cell over to the wait queue. *)
LEMMA ApartPushed ==
    ASSUME NEW W, NEW T, NEW H, NEW U, Apart(W, T, H, U),
           NEW e \in Exec, NEW p \in H[e],
           NEW G, G[e] \subseteq H[e] \ {p}, \A f \in Exec : f # e => G[f] = H[f]
    PROVE  Apart(W \cup {p}, T, G, U)
BY DEF Apart

(* A waiter is moved to a task queue. *)
LEMMA ApartWoken ==
    ASSUME NEW W, NEW T, NEW H, NEW U, Apart(W, T, H, U),
           NEW q \in Exec, NEW p \in W,
           NEW S, S[q] = T[q] \cup {p}, \A f \in Exec : f # q => S[f] = T[f]
    PROVE  Apart(W \ {p}, S, H, U)
BY DEF Apart

(* A cell that was never used comes into the hands of an executor. *)
LEMMA ApartNew ==
    ASSUME NEW W, NEW T, NEW H, NEW U, Apart(W, T, H, U),
           NEW e \in Exec, NEW p, p \notin U,
           NEW G, G[e] = H[e] \cup {p}, \A f \in Exec : f # e => G[f] = H[f]
    PROVE  Apart(W, T, G, U \cup {p})
BY DEF Apart

(* Half of a queue moves to an empty one. *)
LEMMA ApartStolen ==
    ASSUME NEW W, NEW T, NEW H, NEW U, Apart(W, T, H, U),
           NEW e \in Exec, NEW q \in Exec, T[e] = {},
           NEW A, NEW B, A \cup B = T[q], A \cap B = {},
           NEW S, e # q => S[e] = A, S[q] = B,
           \A f \in Exec : f # e /\ f # q => S[f] = T[f]
    PROVE  Apart(W, S, H, U)
BY DEF Apart

(* The hands of the executors when the state of one is replaced. *)
LEMMA HandsStep ==
    ASSUME TypeOK, NEW e \in Exec, NEW r, ex' = [ex EXCEPT ![e] = r]
    PROVE  /\ \A f \in Exec : f # e => Hands'[f] = Hands[f]
           /\ r.pc = "idle" => Hands'[e] = {}
           /\ r.pc = "push" => Hands'[e] = {<<r.co, r.n>>, <<r.co, r.m>>}
           /\ r.pc \notin {"idle", "push"} => Hands'[e] = {<<r.co, r.n>>}
<1>1. ex'[e] = r /\ \A f \in Exec : f # e => ex'[f] = ex[f]
  BY DEF TypeOK
<1> QED
  BY <1>1 DEF Hands, InHand

LEMMA HandsOf ==
    ASSUME NEW e \in Exec
    PROVE  /\ ex[e].pc = "idle" => Hands[e] = {}
           /\ ex[e].pc = "push" => Hands[e] = {<<ex[e].co, ex[e].n>>, <<ex[e].co, ex[e].m>>}
           /\ ex[e].pc \notin {"idle", "push"} => Hands[e] = {<<ex[e].co, ex[e].n>>}
BY DEF Hands, InHand

(* An executor goes on to another step with the coroutine and cell it has. *)
LEMMA HandsKept ==
    ASSUME NEW e \in Exec, ex[e].pc \notin {"idle", "push"}, ex'[e].pc \notin {"idle", "push"},
           ex'[e].co = ex[e].co, ex'[e].n = ex[e].n,
           \A f \in Exec : f # e => ex'[f] = ex[f]
    PROVE  \A f \in Exec : Hands'[f] = Hands[f]
BY DEF Hands, InHand

LEMMA EmptySeq == ASSUME NEW S, NEW s \in Seq(S), Len(s) = 0 PROVE s = <<>>
OBVIOUS

LEMMA QueueStep ==
    ASSUME TypeOK, NEW q \in Exec, NEW s, tasks' = [tasks EXCEPT ![q] = s]
    PROVE  Queued'[q] = CellsOf(s) /\ \A f \in Exec : f # q => Queued'[f] = Queued[f]
BY DEF Queued, TypeOK

LEMMA EmptyCells == CellsOf(<<>>) = {} /\ Once(<<>>)
BY DEF CellsOf, Once

(* Steps that move no cell, or drop some. *)
LEMMA PlaceSame ==
    ASSUME PlaceInv, UNCHANGED <<waiters, tasks, cells>>,
           \A f \in Exec : Hands'[f] \subseteq Hands[f],
           \A f \in Exec : ex'[f].pc = "push" => ex'[f] = ex[f]
    PROVE  PlaceInv'
<1>1. Apart(Waiting, Queued, Hands, Used)
  BY DEF PlaceInv
<1>2. UNCHANGED <<Waiting, Queued, Used>>
  BY DEF Waiting, Queued, Used
<1>3. Apart(Waiting', Queued', Hands', Used')
  BY <1>1, <1>2, ApartShrinks
<1> QED
  BY <1>3 DEF PlaceInv

(* Taking the head of a queue into an idle executor's hands, or dropping it. *)
LEMMA TakePlace ==
    ASSUME TypeOK, PlaceInv, NEW e \in Exec, NEW q \in Exec, tasks[q] # <<>>,
           ex[e].pc = "idle", Take(e, Head(tasks[q])),
           tasks' = [tasks EXCEPT ![q] = Tail(tasks[q])],
           UNCHANGED <<waiters, cells>>
    PROVE  PlaceInv'
<1> DEFINE t == Head(tasks[q])
           r == [pc |-> "resume", co |-> t.co, n |-> t.n, m |-> 0]
<1>1. tasks[q] \in Seq(Task) /\ Once(tasks[q])
  BY DEF TypeOK, PlaceInv
<1>2. /\ CellOf(t) \in CellsOf(tasks[q])
      /\ CellsOf(Tail(tasks[q])) = CellsOf(tasks[q]) \ {CellOf(t)}
      /\ Once(Tail(tasks[q]))
  BY <1>1, TailCells
<1> HIDE DEF t
<1>3. CellOf(t) \in Queued[q] /\ Queued'[q] = Queued[q] \ {CellOf(t)}
      /\ \A f \in Exec : f # q => Queued'[f] = Queued[f]
  BY <1>2, QueueStep DEF Queued
<1>4. Hands[e] = {}
  BY HandsOf
<1>5. Hands'[e] \subseteq {CellOf(t)} /\ \A f \in Exec : f # e => Hands'[f] = Hands[f]
  <2>1. CASE ex' = ex
    BY <2>1, <1>4 DEF Hands, InHand
  <2>2. CASE ex' = [ex EXCEPT ![e] = r]
    <3>1. r.pc = "resume" /\ <<r.co, r.n>> = CellOf(t)
      BY DEF CellOf
    <3> HIDE DEF r
    <3> QED
      BY <2>2, <3>1, HandsStep
  <2> QED
    BY <2>1, <2>2 DEF Take, t
<1>6. Apart(Waiting, Queued', Hands', Used)
  BY <1>3, <1>4, <1>5, ApartTaken DEF PlaceInv
<1>7. Waiting' = Waiting /\ Used' = Used
  BY DEF Waiting, Used
<1>8. \A f \in Exec : Once(tasks'[f])
  BY <1>2 DEF PlaceInv, TypeOK
<1>9. \A f \in Exec : ex'[f].pc = "push" => ex'[f] = ex[f]
  BY DEF Take, TypeOK
<1> QED
  BY <1>6, <1>7, <1>8, <1>9 DEF PlaceInv

LEMMA DequeuePlace ==
    ASSUME TypeOK, PlaceInv, NEW e \in Exec, Dequeue(e) PROVE PlaceInv'
BY TakePlace DEF Dequeue

LEMMA WorkStealPlace ==
    ASSUME TypeOK, PlaceInv, NEW e \in Exec, WorkSteal(e) PROVE PlaceInv'
<1> DEFINE q == (e + 1) % N
           s == tasks[q]
           k == Half(Len(s))
           a == SubSeq(s, 1, k)
           b == SubSeq(s, k + 1, Len(s))
<1>0. q \in Exec
  BY ConstantAssumption DEF Exec
<1>1. s \in Seq(Task) /\ Len(s) \in Nat /\ Once(s)
  BY <1>0 DEF TypeOK, PlaceInv
<1>2. CASE /\ Len(s) = 1
           /\ Take(e, Head(s))
           /\ tasks' = [tasks EXCEPT ![q] = <<>>]
  <2>1. Tail(s) = <<>> /\ s # <<>>
    <3>1. s \in Seq(Task) /\ Len(s) = 1
      BY <1>1, <1>2
    <3> HIDE DEF s
    <3>2. s # <<>>
      BY <3>1
    <3>3. Tail(s) \in Seq(Task) /\ Len(Tail(s)) = 0
      BY <3>1, <3>2
    <3>4. Tail(s) = <<>>
      BY <3>3, EmptySeq
    <3> QED
      BY <3>2, <3>4
  <2>2. ex[e].pc = "idle" /\ UNCHANGED <<waiters, cells>>
    BY DEF WorkSteal
  <2> QED
    BY <1>0, <1>2, <2>1, <2>2, TakePlace
<1>3. CASE /\ Len(s) > 1
           /\ tasks' = [tasks EXCEPT ![e] = a, ![q] = b]
           /\ UNCHANGED ex
  <2>1. k \in Nat /\ k <= Len(s)
    BY <1>1, <1>3, HalfFact
  <2>2. /\ Once(a) /\ Once(b)
        /\ CellsOf(a) \cup CellsOf(b) = CellsOf(s)
        /\ CellsOf(a) \cap CellsOf(b) = {}
    BY <1>1, <2>1, CutCells
  <2>3. tasks[e] = <<>>
    BY DEF WorkSteal
  <2> HIDE DEF q, a, b
  <2>4. /\ tasks'[q] = b /\ (e # q => tasks'[e] = a)
        /\ \A f \in Exec : f # e /\ f # q => tasks'[f] = tasks[f]
    BY <1>0, <1>3 DEF TypeOK
  <2>5. /\ Queued[e] = {} /\ Queued[q] = CellsOf(a) \cup CellsOf(b)
        /\ Queued'[q] = CellsOf(b) /\ (e # q => Queued'[e] = CellsOf(a))
        /\ \A f \in Exec : f # e /\ f # q => Queued'[f] = Queued[f]
    BY <1>0, <2>2, <2>3, <2>4, EmptyCells DEF Queued
  <2>6. Apart(Waiting, Queued', Hands, Used)
    <3> DEFINE A == CellsOf(a)
               B == CellsOf(b)
    <3>1. /\ Queued[e] = {} /\ A \cup B = Queued[q] /\ A \cap B = {}
          /\ Queued'[q] = B /\ (e # q => Queued'[e] = A)
      BY <2>2, <2>5
    <3>2. Apart(Waiting, Queued, Hands, Used)
      BY DEF PlaceInv
    <3> HIDE DEF A, B
    <3> QED
      BY <1>0, <2>5, <3>1, <3>2, ApartStolen
  <2>7. UNCHANGED <<Waiting, Hands, Used>>
    BY <1>3 DEF Waiting, Hands, InHand, Used, WorkSteal
  <2>8. \A f \in Exec : Once(tasks'[f])
    BY <2>2, <2>4 DEF PlaceInv
  <2> QED
    BY <1>3, <2>6, <2>7, <2>8 DEF PlaceInv, WorkSteal
<1> QED
  BY <1>2, <1>3 DEF WorkSteal

LEMMA ResumePlace ==
    ASSUME TypeOK, PlaceInv, NEW e \in Exec, Resume(e) PROVE PlaceInv'
<1>1. CASE ex' = [ex EXCEPT ![e].pc = "run"]
  <2>1. ex' = [ex EXCEPT ![e].pc = "run"]
    BY <1>1
  <2>2. \A f \in Exec : Hands'[f] = Hands[f]
    <3>1. ex[e].pc = "resume"
      BY DEF Resume
    <3>2. ex'[e].pc = "run" /\ ex'[e].co = ex[e].co /\ ex'[e].n = ex[e].n
          /\ \A f \in Exec : f # e => ex'[f] = ex[f]
      BY <2>1, ExecutorType DEF TypeOK, Executor
    <3> QED
      BY <3>1, <3>2, HandsKept
  <2>3. \A f \in Exec : ex'[f].pc = "push" => ex'[f] = ex[f]
    BY <2>1, ExecutorType DEF TypeOK, Executor
  <2> QED
    BY <2>2, <2>3, PlaceSame DEF Resume
<1>2. CASE UNCHANGED ex
  BY <1>2, PlaceSame DEF Resume, Hands, InHand
<1> QED
  BY <1>1, <1>2 DEF Resume

LEMMA FirstCasPlace ==
    ASSUME TypeOK, PlaceInv, NEW e \in Exec, FirstCas(e) PROVE PlaceInv'
<1> DEFINE c == ex[e].co
           n == ex[e].n
           m == cells[c] + 1
<1>0. c \in Co /\ n \in Nat /\ cells[c] \in Nat /\ ex[e].pc = "run"
  BY ExecutorType DEF FirstCas, Runs, TypeOK
<1>1. CASE Suspends(e)
  <2> DEFINE r == [pc |-> "push", co |-> c, n |-> n, m |-> m]
  <2>1. ex' = [ex EXCEPT ![e] = r] /\ cells' = [cells EXCEPT ![c] = m]
        /\ UNCHANGED <<waiters, tasks>>
    BY <1>1 DEF FirstCas, Suspends
  <2> HIDE DEF c, n, m
  <2>2. Hands[e] = {<<c, n>>}
    BY <1>0, HandsOf DEF c, n
  <2>3. Hands'[e] = {<<c, n>>, <<c, m>>} /\ \A f \in Exec : f # e => Hands'[f] = Hands[f]
    <3>1. r.pc = "push" /\ r.co = c /\ r.n = n /\ r.m = m
      OBVIOUS
    <3> HIDE DEF r
    <3> QED
      BY <2>1, <3>1, HandsStep
  <2>4. n <= cells[c] /\ m # n
    <3>1. <<c, n>> \in Used
      BY <2>2 DEF PlaceInv, Apart
    <3> QED
      BY <1>0, <3>1, UsedCells DEF m
  <2>5. <<c, m>> \notin Used
    BY <1>0, UsedCells DEF m
  <2>6. Used \cup {<<c, m>>} \subseteq Used'
    BY <1>0, <2>1 DEF Used, TypeOK, m
  <2>7. Apart(Waiting, Queued, Hands', Used \cup {<<c, m>>})
    BY <2>2, <2>3, <2>5, ApartNew DEF PlaceInv
  <2>8. Apart(Waiting, Queued, Hands', Used')
    BY <2>6, <2>7, ApartShrinks
  <2>9. UNCHANGED <<Waiting, Queued>>
    BY <2>1 DEF Waiting, Queued
  <2>10. \A f \in Exec : ex'[f].pc = "push" => ex'[f].m # ex'[f].n
    BY <2>1, <2>4 DEF PlaceInv, TypeOK
  <2> QED
    BY <2>1, <2>8, <2>9, <2>10 DEF PlaceInv
<1>2. CASE Takes(e)
  BY <1>2, PlaceSame DEF FirstCas, Takes, Hands, InHand
<1> QED
  BY <1>1, <1>2, FirstCasCases

LEMMA PushPlace ==
    ASSUME TypeOK, PlaceInv, NEW e \in Exec, Push(e) PROVE PlaceInv'
<1> DEFINE c == ex[e].co
           n == ex[e].n
           m == ex[e].m
<1>0. c \in Co /\ n \in Nat /\ m \in Nat /\ ex[e].pc = "push" /\ m # n
  BY ExecutorType DEF Push, PlaceInv
<1>1. CASE Len(waiters) < WaitCap
  <2> DEFINE x == [co |-> c, n |-> m, tq |-> e]
             r == [ex[e] EXCEPT !.pc = "clear"]
  <2>1. waiters' = Append(waiters, x) /\ ex' = [ex EXCEPT ![e] = r]
        /\ UNCHANGED <<tasks, cells>>
    BY <1>1 DEF Push
  <2>2. r.pc = "clear" /\ r.co = c /\ r.n = n
    BY ExecutorType DEF Executor
  <2>3. x \in Waiter /\ waiters \in Seq(Waiter) /\ CellOf(x) = <<c, m>>
    BY <1>0 DEF Waiter, TypeOK, CellOf
  <2>4. CellsOf(waiters') = CellsOf(waiters) \cup {<<c, m>>}
        /\ (<<c, m>> \notin CellsOf(waiters) => Once(waiters'))
    BY <2>1, <2>3, AppendCells DEF PlaceInv
  <2> HIDE DEF c, n, m, r
  <2>5. Hands[e] = {<<c, n>>, <<c, m>>}
    BY <1>0, HandsOf DEF c, n, m
  <2>6. Hands'[e] = {<<c, n>>} /\ \A f \in Exec : f # e => Hands'[f] = Hands[f]
    BY <2>1, <2>2, HandsStep
  <2>7. <<c, m>> \notin Waiting
    BY <2>5 DEF PlaceInv, Apart
  <2>8. Waiting' = Waiting \cup {<<c, m>>} /\ Once(waiters')
    BY <2>4, <2>7 DEF Waiting
  <2>9. <<c, n>> # <<c, m>>
    BY <1>0
  <2>10. Hands'[e] \subseteq Hands[e] \ {<<c, m>>}
    BY <2>5, <2>6, <2>9
  <2>11. Apart(Waiting', Queued, Hands', Used)
    BY <2>5, <2>6, <2>8, <2>10, ApartPushed DEF PlaceInv
  <2>12. UNCHANGED <<Queued, Used>>
    BY <2>1 DEF Queued, Used
  <2>13. \A f \in Exec : ex'[f].pc = "push" => ex'[f] = ex[f]
    BY <2>1, <2>2 DEF TypeOK
  <2> QED
    BY <2>1, <2>8, <2>11, <2>12, <2>13 DEF PlaceInv
<1>2. CASE ~(Len(waiters) < WaitCap)
  <2>1. ex' = [ex EXCEPT ![e] = IdleExecutor] /\ UNCHANGED <<waiters, tasks, cells>>
    BY <1>2 DEF Push
  <2>2. \A f \in Exec : Hands'[f] \subseteq Hands[f]
    BY <2>1, HandsStep DEF IdleExecutor
  <2>3. \A f \in Exec : ex'[f].pc = "push" => ex'[f] = ex[f]
    BY <2>1 DEF TypeOK, IdleExecutor
  <2> QED
    BY <2>1, <2>2, <2>3, PlaceSame
<1> QED
  BY <1>1, <1>2

(* An executor returns to its loop and drops what it had. *)
LEMMA IdlePlace ==
    ASSUME TypeOK, PlaceInv, NEW e \in Exec, ex' = [ex EXCEPT ![e] = IdleExecutor],
           UNCHANGED <<waiters, tasks, cells>>
    PROVE  PlaceInv'
<1>1. \A f \in Exec : Hands'[f] \subseteq Hands[f]
  BY HandsStep DEF IdleExecutor
<1>2. \A f \in Exec : ex'[f].pc = "push" => ex'[f] = ex[f]
  BY DEF TypeOK, IdleExecutor
<1> QED
  BY <1>1, <1>2, PlaceSame

(* An executor goes on with what it has. *)
LEMMA OnPlace ==
    ASSUME PlaceInv, NEW e \in Exec,
           ex[e].pc \notin {"idle", "push"}, ex'[e].pc \notin {"idle", "push"},
           ex'[e].co = ex[e].co, ex'[e].n = ex[e].n,
           \A f \in Exec : f # e => ex'[f] = ex[f],
           UNCHANGED <<waiters, tasks, cells>>
    PROVE  PlaceInv'
<1>1. \A f \in Exec : Hands'[f] = Hands[f]
  BY HandsKept
<1>2. \A f \in Exec : ex'[f].pc = "push" => ex'[f] = ex[f]
  OBVIOUS
<1> QED
  BY <1>1, <1>2, PlaceSame

(* The executor's state does not change when its write hits a dead frame. *)
LEMMA FaultPlace ==
    ASSUME PlaceInv, UNCHANGED <<waiters, tasks, cells, ex>> PROVE PlaceInv'
BY PlaceSame DEF Hands, InHand

LEMMA ClearExpectedPlace ==
    ASSUME TypeOK, PlaceInv, NEW e \in Exec, ClearExpected(e) PROVE PlaceInv'
<1>1. ex[e].pc = "clear" /\ UNCHANGED <<waiters, tasks, cells>>
  BY DEF ClearExpected
<1>2. CASE ex' = [ex EXCEPT ![e] = [ex[e] EXCEPT !.pc = "cas"]]
  <2>1. /\ ex'[e].pc = "cas" /\ ex'[e].co = ex[e].co /\ ex'[e].n = ex[e].n
        /\ \A f \in Exec : f # e => ex'[f] = ex[f]
    BY <1>2, ExecutorType DEF TypeOK, Executor
  <2> QED
    BY <1>1, <2>1, OnPlace
<1> QED
  BY <1>1, <1>2, FaultPlace DEF ClearExpected, WriteExpected

LEMMA StoreSeenPlace ==
    ASSUME TypeOK, PlaceInv, NEW e \in Exec, StoreSeen(e) PROVE PlaceInv'
BY IdlePlace, FaultPlace DEF StoreSeen, WriteExpected

LEMMA SecondCasPlace ==
    ASSUME TypeOK, PlaceInv, NEW e \in Exec, SecondCas(e) PROVE PlaceInv'
<1>1. ex[e].pc = "cas" /\ UNCHANGED <<waiters, tasks, cells>>
  BY DEF SecondCas
<1>2. \E pc \in {"check", "saw_set", "saw_free"} : ex' = [ex EXCEPT ![e].pc = pc]
  BY DEF SecondCas
<1>3. /\ ex'[e].pc \in {"check", "saw_set", "saw_free"}
      /\ ex'[e].co = ex[e].co /\ ex'[e].n = ex[e].n
      /\ \A f \in Exec : f # e => ex'[f] = ex[f]
  BY <1>2, ExecutorType DEF TypeOK, Executor
<1> QED
  BY <1>1, <1>3, OnPlace

LEMMA CheckCallerPlace ==
    ASSUME TypeOK, PlaceInv, NEW e \in Exec, CheckCaller(e) PROVE PlaceInv'
<1>1. ex[e].pc = "check" /\ UNCHANGED <<waiters, tasks, cells>>
  BY DEF CheckCaller
<1>2. CASE ex' = [ex EXCEPT ![e] = IdleExecutor]
  BY <1>1, <1>2, IdlePlace
<1>3. CASE ex' = [ex EXCEPT ![e].pc = "move"]
  <2>1. /\ ex'[e].pc = "move" /\ ex'[e].co = ex[e].co /\ ex'[e].n = ex[e].n
        /\ \A f \in Exec : f # e => ex'[f] = ex[f]
    BY <1>3, ExecutorType DEF TypeOK, Executor
  <2> QED
    BY <1>1, <2>1, OnPlace
<1> QED
  BY <1>2, <1>3 DEF CheckCaller

LEMMA MoveCallerPlace ==
    ASSUME TypeOK, PlaceInv, NEW e \in Exec, MoveCaller(e) PROVE PlaceInv'
<1> DEFINE c == ex[e].co
           r == [pc |-> "run", co |-> c, n |-> ex[e].n, m |-> 0]
<1>1. CASE held[c] = ex[e].m
  <2>1. ex' = [ex EXCEPT ![e] = r] /\ UNCHANGED <<waiters, tasks, cells>>
    BY <1>1 DEF MoveCaller
  <2>2. Hands[e] = {<<c, ex[e].n>>}
    BY HandsOf DEF MoveCaller
  <2>3. \A f \in Exec : Hands'[f] = Hands[f]
    <3>1. r.pc = "run" /\ r.co = c /\ r.n = ex[e].n
      OBVIOUS
    <3> HIDE DEF r, c
    <3> QED
      BY <2>1, <2>2, <3>1, HandsStep
  <2>4. \A f \in Exec : ex'[f].pc = "push" => ex'[f] = ex[f]
    BY <2>1 DEF TypeOK
  <2> QED
    BY <2>1, <2>3, <2>4, PlaceSame
<1>2. CASE held[c] # ex[e].m
  BY <1>2, PlaceSame DEF MoveCaller, Hands, InHand
<1> QED
  BY <1>1, <1>2

LEMMA YieldPlace ==
    ASSUME TypeOK, PlaceInv, NEW e \in Exec, Yield(e) PROVE PlaceInv'
<1> DEFINE c == ex[e].co
           t == [co |-> c, n |-> ex[e].n]
           s == Append(tasks[e], t)
<1>0. c \in Co /\ ex[e].n \in Nat /\ ex[e].pc = "run"
  BY ExecutorType DEF Yield, Runs
<1>a. ex' = [ex EXCEPT ![e] = IdleExecutor] /\ UNCHANGED <<waiters, cells>>
  BY DEF Yield
<1>b. CASE UNCHANGED tasks
  BY <1>a, <1>b, IdlePlace
<1> SUFFICES ASSUME tasks' = [tasks EXCEPT ![e] = s] PROVE PlaceInv'
  BY <1>b DEF Yield
<1>1. /\ tasks' = [tasks EXCEPT ![e] = s]
      /\ ex' = [ex EXCEPT ![e] = IdleExecutor]
      /\ UNCHANGED <<waiters, cells>>
  BY <1>a
<1>2. t \in Task /\ tasks[e] \in Seq(Task) /\ CellOf(t) = <<c, ex[e].n>>
  BY <1>0 DEF Task, TypeOK, CellOf
<1>3. /\ CellsOf(s) = CellsOf(tasks[e]) \cup {CellOf(t)}
      /\ CellOf(t) \notin CellsOf(tasks[e]) => Once(s)
  BY <1>2, AppendCells DEF PlaceInv
<1> HIDE DEF s, t
<1>4. Hands[e] = {CellOf(t)}
  BY <1>0, <1>2, HandsOf
<1>5. Hands'[e] = {} /\ \A f \in Exec : f # e => Hands'[f] = Hands[f]
  BY <1>1, HandsStep DEF IdleExecutor
<1>6. Queued'[e] = Queued[e] \cup {CellOf(t)} /\ \A f \in Exec : f # e => Queued'[f] = Queued[f]
  BY <1>1, <1>3, QueueStep DEF Queued
<1>7. Apart(Waiting, Queued', Hands', Used)
  BY <1>4, <1>5, <1>6, ApartYielded DEF PlaceInv
<1>8. UNCHANGED <<Waiting, Used>>
  BY <1>1 DEF Waiting, Used
<1>9. CellOf(t) \notin CellsOf(tasks[e])
  BY <1>4 DEF PlaceInv, Apart, Queued
<1>10. \A f \in Exec : Once(tasks'[f])
  BY <1>1, <1>3, <1>9 DEF PlaceInv, TypeOK
<1>11. \A f \in Exec : ex'[f].pc = "push" => ex'[f] = ex[f]
  BY <1>1 DEF TypeOK, IdleExecutor
<1> QED
  BY <1>1, <1>7, <1>8, <1>10, <1>11 DEF PlaceInv

LEMMA WakeOnePlace ==
    ASSUME TypeOK, PlaceInv, NEW e \in Exec, WakeOne(e) PROVE PlaceInv'
<1> DEFINE w == Head(waiters)
           t == [co |-> w.co, n |-> w.n]
           s == Append(tasks[w.tq], t)
<1>1. CASE waiters = <<>>
  BY <1>1, PlaceSame DEF WakeOne, Hands, InHand
<1>2. CASE waiters # <<>>
  <2>1. waiters' = Tail(waiters) /\ UNCHANGED <<ex, cells>>
    BY <1>2 DEF WakeOne
  <2>2. waiters \in Seq(Waiter) /\ Once(waiters)
    BY DEF TypeOK, PlaceInv
  <2>3. w \in Waiter
    BY <1>2, <2>2, SeqFacts
  <2>4. CellOf(w) \in Waiting /\ Waiting' = Waiting \ {CellOf(w)} /\ Once(waiters')
    BY <1>2, <2>1, <2>2, TailCells DEF Waiting
  <2>5. UNCHANGED <<Hands, Used>>
    BY <2>1 DEF Hands, InHand, Used
  <2>6. CASE tasks' = [tasks EXCEPT ![w.tq] = s]
    <3>1. tasks' = [tasks EXCEPT ![w.tq] = s]
      BY <2>6
    <3>2. w.tq \in Exec /\ t \in Task /\ CellOf(t) = CellOf(w)
      BY <2>3 DEF Waiter, Task, CellOf
    <3>3. tasks[w.tq] \in Seq(Task) /\ Once(tasks[w.tq])
      BY <3>2 DEF TypeOK, PlaceInv
    <3>4. /\ CellsOf(s) = CellsOf(tasks[w.tq]) \cup {CellOf(w)}
          /\ CellOf(w) \notin CellsOf(tasks[w.tq]) => Once(s)
      BY <3>2, <3>3, AppendCells
    <3> HIDE DEF s, t, w
    <3>5. Queued'[w.tq] = Queued[w.tq] \cup {CellOf(w)}
          /\ \A f \in Exec : f # w.tq => Queued'[f] = Queued[f]
      BY <3>1, <3>2, <3>4, QueueStep DEF Queued
    <3>6. Apart(Waiting', Queued', Hands', Used')
      BY <2>4, <2>5, <3>2, <3>5, ApartWoken DEF PlaceInv
    <3>7. CellOf(w) \notin CellsOf(tasks[w.tq])
      BY <2>4, <3>2 DEF PlaceInv, Apart, Queued
    <3>8. \A f \in Exec : Once(tasks'[f])
      BY <3>1, <3>2, <3>4, <3>7 DEF PlaceInv, TypeOK
    <3> QED
      BY <2>1, <2>4, <3>6, <3>8 DEF PlaceInv
  <2>7. CASE UNCHANGED tasks
    <3>1. UNCHANGED tasks
      BY <2>7
    <3>2. Queued' = Queued
      BY <3>1 DEF Queued
    <3>3. Apart(Waiting', Queued', Hands', Used')
      BY <2>4, <2>5, <3>2, ApartShrinks DEF PlaceInv
    <3> QED
      BY <2>1, <2>4, <3>1, <3>3 DEF PlaceInv
  <2> QED
    BY <1>2, <2>6, <2>7 DEF WakeOne, Schedule
<1> QED
  BY <1>1, <1>2

LEMMA PlaceInit == Init => PlaceInv
<1> SUFFICES ASSUME Init PROVE PlaceInv
  OBVIOUS
<1>1. \A e \in Exec : /\ DOMAIN tasks[e] = DOMAIN Place[e]
                      /\ \A i \in DOMAIN Place[e] : CellOf(tasks[e][i]) = <<Place[e][i], 1>>
                                                     /\ Place[e][i] \in Co
  <2> TAKE e \in Exec
  <2>1. Place[e] \in Seq(Co)
    BY ConstantAssumption
  <2>2. tasks[e] = [i \in 1 .. Len(Place[e]) |-> [co |-> Place[e][i], n |-> 1]]
    BY DEF Init
  <2> QED
    BY <2>1, <2>2 DEF CellOf
<1>2. \A e \in Exec : Once(tasks[e])
  BY <1>1, PlacedOnce DEF Once
<1>3. \A e, f \in Exec : e # f => Queued[e] \cap Queued[f] = {}
  <2> SUFFICES ASSUME NEW e \in Exec, NEW f \in Exec, e # f,
                      NEW i \in DOMAIN tasks[e], NEW j \in DOMAIN tasks[f],
                      CellOf(tasks[e][i]) = CellOf(tasks[f][j])
               PROVE  FALSE
    BY DEF Queued, CellsOf
  <2>1. Place[e][i] = Place[f][j]
    BY <1>1
  <2> QED
    BY <1>1, <2>1, PlacedOnce
<1>4. \A e \in Exec : Queued[e] \subseteq Used
  <2>1. \A c \in Co : <<c, 1>> \in Used
    <3> TAKE c \in Co
    <3>1. cells[c] = 1
      BY DEF Init
    <3> QED
      BY <3>1, InitTypeOK, UsedCells
  <2> QED
    BY <1>1, <2>1 DEF Queued, CellsOf
<1>5. waiters = <<>> /\ \A e \in Exec : ex[e].pc = "idle"
  BY DEF Init, IdleExecutor
<1>6. Waiting = {} /\ Once(waiters) /\ \A e \in Exec : Hands[e] = {}
  BY <1>5, EmptyCells, HandsOf DEF Waiting
<1> QED
  BY <1>2, <1>3, <1>4, <1>5, <1>6 DEF PlaceInv, Apart

LEMMA PlaceStep == TypeOK /\ PlaceInv /\ [Next]_vars => PlaceInv'
<1> SUFFICES ASSUME TypeOK, PlaceInv, [Next]_vars PROVE PlaceInv'
  OBVIOUS
<1>1. CASE UNCHANGED vars
  BY <1>1, PlaceSame DEF vars, Hands, InHand
<1>2. CASE AllFinished
  BY <1>2, PlaceSame DEF AllFinished, vars, Hands, InHand
<1>3. ASSUME NEW e \in Exec, Run(e) PROVE PlaceInv'
  <2>1. CASE Unlock(e) \/ Declare(e)
    BY <2>1, FaultPlace DEF Unlock, Declare
  <2>2. CASE Finish(e)
    BY <2>2, IdlePlace DEF Finish
  <2> QED
    BY <1>3, <2>1, <2>2, DequeuePlace, WorkStealPlace, ResumePlace, FirstCasPlace,
       PushPlace, ClearExpectedPlace, SecondCasPlace, StoreSeenPlace, CheckCallerPlace, MoveCallerPlace, YieldPlace,
       WakeOnePlace DEF Run, Step
<1> QED
  BY <1>1, <1>2, <1>3 DEF Next

(* A suspended coroutine is scheduled at most once: its cell is in one place. *)
LEMMA ReferencesAgree ==
    ASSUME TypeOK, PlaceInv, NEW c \in Co, NEW n \in Nat,
           NEW p \in References(c, n), NEW q \in References(c, n)
    PROVE  p = q
<1> DEFINE W == {<<"waiters", 0, i>> : i \in {j \in DOMAIN waiters :
                                    waiters[j].co = c /\ waiters[j].n = n}}
           T(e) == {<<"tasks", e, i>> : i \in {j \in DOMAIN tasks[e] :
                                    tasks[e][j].co = c /\ tasks[e][j].n = n}}
           R == {<<"resume", e, 0>> : e \in {f \in Exec : ex[f].pc = "resume"
                                    /\ ex[f].co = c /\ ex[f].n = n}}
           x == <<c, n>>
<1>1. \A r \in References(c, n) : r \in W \/ (\E e \in Exec : r \in T(e)) \/ r \in R
  <2> TAKE r \in References(c, n)
  <2>1. r \in W \cup (UNION {T(e) : e \in Exec}) \cup R
    BY DEF References
  <2>2. ASSUME r \in UNION {T(e) : e \in Exec} PROVE \E e \in Exec : r \in T(e)
    BY <2>2
  <2> DEFINE U == UNION {T(e) : e \in Exec}
  <2>3. r \in W \cup U \cup R
    BY <2>1, Zenon
  <2>4. r \in U => \E e \in Exec : r \in T(e)
    BY <2>2, Zenon
  <2> HIDE DEF W, R, U, T
  <2> QED
    BY <2>3, <2>4
<1>2. \A r \in W : x \in Waiting /\ \A s \in W : r = s
  <2>1. ASSUME NEW i \in DOMAIN waiters, waiters[i].co = c, waiters[i].n = n
        PROVE  CellOf(waiters[i]) = x /\ x \in Waiting
    BY <2>1 DEF CellOf, CellsOf, Waiting
  <2> QED
    BY <2>1 DEF PlaceInv, Once
<1>3. \A e \in Exec : \A r \in T(e) : x \in Queued[e] /\ \A s \in T(e) : r = s
  <2> TAKE e \in Exec
  <2>1. ASSUME NEW i \in DOMAIN tasks[e], tasks[e][i].co = c, tasks[e][i].n = n
        PROVE  CellOf(tasks[e][i]) = x /\ x \in Queued[e]
    BY <2>1 DEF CellOf, CellsOf, Queued
  <2> QED
    BY <2>1 DEF PlaceInv, Once
<1>4. \A r \in R : \E e \in Exec : x \in Hands[e] /\ r = <<"resume", e, 0>>
  BY HandsOf
<1> HIDE DEF W, T, R, x
<1>5. Apart(Waiting, Queued, Hands, Used)
  BY DEF PlaceInv
<1>6. CASE p \in W
  BY <1>1, <1>2, <1>3, <1>4, <1>5, <1>6 DEF Apart
<1>7. CASE p \in R
  BY <1>1, <1>2, <1>3, <1>4, <1>5, <1>7 DEF Apart
<1>8. ASSUME NEW e \in Exec, p \in T(e) PROVE p = q
  BY <1>1, <1>2, <1>3, <1>4, <1>5, <1>8 DEF Apart
<1> QED
  BY <1>1, <1>6, <1>7, <1>8

(* Every cell of a coroutine is in one place at most: the wait queue, one task
   queue or the hands of one executor. *)
THEOREM PlaceHolds == Spec => []PlaceInv
BY PlaceInit, PlaceStep, TypeCorrect, PTL DEF Spec

(* A suspended coroutine is scheduled at most once, also when executors steal
   tasks: the continuation it is kept in is resumed by one executor. *)
THEOREM ScheduledOnceHolds == Spec => []ScheduledOnce
<1>1. TypeOK /\ PlaceInv => ScheduledOnce
  BY ReferencesAgree DEF ScheduledOnce, TypeOK
<1> QED
  BY <1>1, PlaceHolds, TypeCorrect, PTL

-----------------------------------------------------------------------------
(* Who can resume a coroutine: while lock() has not pushed its caller, nobody
   can; while a coroutine runs, one executor runs it and no cell holds it. *)

SecondHalf == {"push", "clear", "cas", "saw_set", "saw_free", "check", "move"}
\* From the push on.
Late == {"clear", "cas", "saw_set", "saw_free", "check", "move"}

CallerInv ==
    /\ \A e \in Exec : ex[e].pc # "idle" => ex[e].m <= cells[ex[e].co]
    /\ \A e \in Exec : ex[e].pc \in SecondHalf => ex[e].m # 0
    /\ \A e \in Exec : ex[e].pc = "push" => held[ex[e].co] = ex[e].m
    /\ \A e, f \in Exec : e # f /\ ex[e].pc \in SecondHalf /\ ex[f].pc # "idle"
                             /\ ex[f].co = ex[e].co => ex[e].m # ex[f].m
    /\ \A e \in Exec : ex[e].pc = "run" => held[ex[e].co] = 0
    /\ \A e, f \in Exec : ex[e].pc = "run" /\ ex[f].pc = "run"
                             /\ ex[e].co = ex[f].co => e = f

\* Where a coroutine that is not running can be.
Suspended == {"out", "lock", "cs2", "dropped", "orphan"}
Unfinished == {"lock", "try", "cs", "cs2", "wake", "dropped", "orphan"}

(* A coroutine is suspended in lock() or after its yield only, and has critical
   sections left then. *)
SuspendInv ==
    /\ \A c \in Co : held[c] # 0 => at[c] \in Suspended /\ rounds[c] < Rounds
    /\ \A c \in Co : at[c] \in Unfinished => rounds[c] < Rounds
    /\ \A c \in Co : rounds[c] <= Rounds
    /\ \A e \in Exec : ex[e].pc = "push" => at[ex[e].co] = "lock"

(* A waiter that still holds its coroutine waits in lock(). *)
WaiterInv == \A c \in Co : <<c, held[c]>> \in Waiting => at[c] = "lock"

ResumeInv == CallerInv /\ SuspendInv /\ WaiterInv

LEMMA CallerSame ==
    ASSUME TypeOK, CallerInv, UNCHANGED <<held, cells>>,
           \A e \in Exec :
               \/ ex'[e] = ex[e]
               \/ ex'[e].pc = "idle"
               \/ ex'[e].pc = "resume" /\ ex'[e].m = 0 /\ ex'[e].co \in Co
               \/ /\ ex'[e].pc \in Late /\ ex[e].pc \in SecondHalf
                  /\ ex'[e].co = ex[e].co /\ ex'[e].m = ex[e].m
    PROVE  CallerInv'
<1>1. \A c \in Co : cells[c] \in Nat
  BY DEF TypeOK
<1>2. \A e \in Exec : ex'[e].pc # "idle" => ex'[e].m <= cells[ex'[e].co]
  BY <1>1 DEF CallerInv, SecondHalf, Late
<1>3. \A e \in Exec : ex'[e].pc \in SecondHalf => ex'[e].m # 0
  BY DEF CallerInv, SecondHalf, Late
<1>4. \A e \in Exec : ex'[e].pc = "push" => held[ex'[e].co] = ex'[e].m
  BY DEF CallerInv, Late
<1>5. ASSUME NEW e \in Exec, NEW f \in Exec, e # f, ex'[e].pc \in SecondHalf,
             ex'[f].pc # "idle", ex'[f].co = ex'[e].co
      PROVE  ex'[e].m # ex'[f].m
  <2>1. ex[e].pc \in SecondHalf /\ ex'[e].co = ex[e].co /\ ex'[e].m = ex[e].m /\ ex[e].m # 0
    BY <1>5 DEF CallerInv, SecondHalf
  <2> QED
    BY <1>5, <2>1 DEF CallerInv, SecondHalf
<1>6. \A e \in Exec : ex'[e].pc = "run" => ex'[e] = ex[e]
  BY DEF Late
<1> QED
  BY <1>2, <1>3, <1>4, <1>5, <1>6 DEF CallerInv

(* Replacing the state of one executor, seen from each. *)
LEMMA OneStep ==
    ASSUME TypeOK, NEW e \in Exec, NEW r, ex' = [ex EXCEPT ![e] = r]
    PROVE  ex'[e] = r /\ \A f \in Exec : f # e => ex'[f] = ex[f]
BY DEF TypeOK

LEMMA PcStep ==
    ASSUME TypeOK, NEW e \in Exec,
           \E pc \in ExPc : ex' = [ex EXCEPT ![e].pc = pc]
    PROVE  /\ ex'[e].co = ex[e].co /\ ex'[e].n = ex[e].n /\ ex'[e].m = ex[e].m
           /\ \A f \in Exec : f # e => ex'[f] = ex[f]
BY ExecutorType DEF TypeOK, Executor

LEMMA TakeCaller ==
    ASSUME TypeOK, CallerInv, NEW e \in Exec, NEW t \in Task, Take(e, t),
           UNCHANGED <<held, cells>>
    PROVE  CallerInv'
<1> DEFINE r == [pc |-> "resume", co |-> t.co, n |-> t.n, m |-> 0]
<1>1. r.pc = "resume" /\ r.m = 0 /\ r.co \in Co
  BY DEF Task
<1>2. ex' = ex \/ ex' = [ex EXCEPT ![e] = r]
  BY DEF Take
<1> HIDE DEF r
<1>3. ex' = ex \/ (ex'[e] = r /\ \A f \in Exec : f # e => ex'[f] = ex[f])
  BY <1>2, OneStep
<1> QED
  BY <1>1, <1>3, CallerSame

LEMMA IdleCaller ==
    ASSUME TypeOK, CallerInv, NEW e \in Exec, ex' = [ex EXCEPT ![e] = IdleExecutor],
           UNCHANGED <<held, cells>>
    PROVE  CallerInv'
<1>1. ex'[e].pc = "idle" /\ \A f \in Exec : f # e => ex'[f] = ex[f]
  BY DEF IdleExecutor, TypeOK
<1> QED
  BY <1>1, CallerSame

LEMMA OnCaller ==
    ASSUME TypeOK, CallerInv, NEW e \in Exec, ex[e].pc \in SecondHalf,
           \E pc \in Late : ex' = [ex EXCEPT ![e].pc = pc],
           UNCHANGED <<held, cells>>
    PROVE  CallerInv'
<1>1. ex'[e].pc \in Late /\ \A f \in Exec : f # e => ex'[f] = ex[f]
  BY DEF TypeOK
<1>2. ex'[e].co = ex[e].co /\ ex'[e].m = ex[e].m
  BY PcStep DEF ExPc, Late
<1> QED
  BY <1>1, <1>2, CallerSame

LEMMA WorkStealCaller ==
    ASSUME TypeOK, CallerInv, NEW e \in Exec, WorkSteal(e) PROVE CallerInv'
<1> DEFINE q == (e + 1) % N
<1>1. q \in Exec
  BY ConstantAssumption DEF Exec
<1>2. tasks[q] \in Seq(Task) /\ tasks[q] # <<>>
  BY <1>1 DEF TypeOK, WorkSteal
<1>3. Head(tasks[q]) \in Task
  BY <1>2, SeqFacts
<1>4. Take(e, Head(tasks[q])) \/ UNCHANGED ex
  BY DEF WorkSteal
<1>5. UNCHANGED <<held, cells>>
  BY DEF WorkSteal
<1>6. CASE UNCHANGED ex
  BY <1>5, <1>6, CallerSame
<1> QED
  BY <1>3, <1>4, <1>5, <1>6, TakeCaller

(* What the executor about to resume a coroutine excludes. *)
LEMMA ResumerAlone ==
    ASSUME TypeOK, PlaceInv, CallerInv, NEW e \in Exec,
           ex[e].pc = "resume", held[ex[e].co] = ex[e].n
    PROVE  /\ ex[e].n # 0
           /\ \A f \in Exec : ex[f].pc \in {"run", "push"} => ex[f].co # ex[e].co
<1>1. <<ex[e].co, ex[e].n>> \in Hands[e]
  BY HandsOf
<1>2. ex[e].co \in Co /\ ex[e].n \in Nat
  BY ExecutorType
<1>3. ex[e].n # 0
  BY <1>1, <1>2, UsedCells DEF PlaceInv, Apart
<1>4. ASSUME NEW f \in Exec, ex[f].pc = "push", ex[f].co = ex[e].co
      PROVE  FALSE
  <2>1. ex[f].m = ex[e].n
    BY <1>4 DEF CallerInv
  <2>2. <<ex[e].co, ex[e].n>> \in Hands[f] /\ e # f
    BY <1>4, <2>1, HandsOf
  <2> QED
    BY <1>1, <2>2 DEF PlaceInv, Apart
<1> QED
  BY <1>3, <1>4 DEF CallerInv

LEMMA ResumeCaller ==
    ASSUME TypeOK, PlaceInv, CallerInv, NEW e \in Exec, Resume(e) PROVE CallerInv'
<1> DEFINE c == ex[e].co
<1>1. CASE Valid(ex[e]) /\ fault' = fault /\ held' = [held EXCEPT ![c] = 0]
           /\ ex' = [ex EXCEPT ![e].pc = "run"]
  <2>1. ex[e].pc = "resume" /\ c \in Co /\ held[c] = ex[e].n
    BY <1>1, ExecutorType DEF Resume, Valid
  <2>2. /\ ex' = [ex EXCEPT ![e].pc = "run"] /\ held' = [held EXCEPT ![c] = 0]
        /\ UNCHANGED cells
    BY <1>1 DEF Resume
  <2>3. \A f \in Exec : ex[f].pc \in {"run", "push"} => ex[f].co # c
    BY <2>1, ResumerAlone
  <2>4. /\ ex'[e].pc = "run" /\ ex'[e].co = c /\ ex'[e].m = ex[e].m
        /\ \A f \in Exec : f # e => ex'[f] = ex[f]
    BY <2>2, ExecutorType DEF TypeOK, Executor
  <2>5. held'[c] = 0 /\ \A d \in Co : d # c => held'[d] = held[d]
    BY <2>1, <2>2 DEF TypeOK
  <2>6. \A f \in Exec : ex[f].pc # "idle" => ex[f].co \in Co
    BY ExecutorType
  <2> HIDE DEF c
  <2> QED
    BY <2>1, <2>2, <2>3, <2>4, <2>5, <2>6 DEF CallerInv, SecondHalf
<1>2. CASE UNCHANGED <<ex, held>>
  BY <1>2, CallerSame DEF Resume
<1> QED
  BY <1>1, <1>2 DEF Resume

(* What a running coroutine excludes. *)
LEMMA RunnerAlone ==
    ASSUME TypeOK, CallerInv, NEW e \in Exec, ex[e].pc = "run"
    PROVE  /\ held[ex[e].co] = 0
           /\ \A f \in Exec : f # e /\ ex[f].pc \in {"run", "push"} => ex[f].co # ex[e].co
BY DEF CallerInv, SecondHalf

LEMMA FirstCasCaller ==
    ASSUME TypeOK, CallerInv, NEW e \in Exec, FirstCas(e) PROVE CallerInv'
<1> DEFINE c == ex[e].co
           m == cells[c] + 1
<1>0. c \in Co /\ cells[c] \in Nat /\ ex[e].pc = "run"
  BY ExecutorType DEF FirstCas, Runs, TypeOK
<1>1. CASE Suspends(e)
  <2> DEFINE r == [pc |-> "push", co |-> c, n |-> ex[e].n, m |-> m]
  <2>1. /\ ex' = [ex EXCEPT ![e] = r]
        /\ cells' = [cells EXCEPT ![c] = m] /\ held' = [held EXCEPT ![c] = m]
    BY <1>1 DEF Suspends
  <2>2. /\ ex'[e].pc = "push" /\ ex'[e].co = c /\ ex'[e].m = m
        /\ \A f \in Exec : f # e => ex'[f] = ex[f]
    BY <2>1 DEF TypeOK
  <2>3. /\ held'[c] = m /\ cells'[c] = m
        /\ \A d \in Co : d # c => held'[d] = held[d] /\ cells'[d] = cells[d]
    BY <1>0, <2>1 DEF TypeOK
  <2>4. \A f \in Exec : f # e /\ ex[f].pc \in {"run", "push"} => ex[f].co # c
    BY <1>0, RunnerAlone
  <2>5. \A f \in Exec : ex[f].pc # "idle" => ex[f].co \in Co /\ ex[f].m \in Nat
    BY ExecutorType
  <2>6. \A d \in Co : cells[d] \in Nat
    BY DEF TypeOK
  <2>7. m \in Nat /\ m > cells[c] /\ m # 0
    BY <1>0
  <2> HIDE DEF c, m, r
  <2>8. \A f \in Exec : ex'[f].pc # "idle" => ex'[f].m <= cells'[ex'[f].co]
    BY <1>0, <2>2, <2>3, <2>5, <2>6, <2>7 DEF CallerInv
  <2>9. \A f \in Exec : ex'[f].pc \in SecondHalf => ex'[f].m # 0
    BY <2>2, <2>7 DEF CallerInv
  <2>10. \A f \in Exec : ex'[f].pc = "push" => held'[ex'[f].co] = ex'[f].m
    BY <2>2, <2>3, <2>4, <2>5 DEF CallerInv
  <2>11. ASSUME NEW f \in Exec, NEW g \in Exec, f # g, ex'[f].pc \in SecondHalf,
                ex'[g].pc # "idle", ex'[g].co = ex'[f].co
         PROVE  ex'[f].m # ex'[g].m
    <3>1. CASE f = e
      <4>1. ex[g].m <= cells[c]
        BY <2>2, <2>11, <3>1 DEF CallerInv
      <4> QED
        BY <1>0, <2>2, <2>5, <2>7, <2>11, <3>1, <4>1
    <3>2. CASE f # e /\ g # e
      BY <2>2, <2>11, <3>2 DEF CallerInv
    <3>3. CASE f # e /\ g = e
      <4>1. ex[f].pc # "idle" /\ ex[f].co = c /\ ex'[f].m = ex[f].m
        BY <2>2, <2>11, <3>3 DEF SecondHalf
      <4>2. ex[f].m <= cells[c]
        BY <4>1 DEF CallerInv
      <4> QED
        BY <1>0, <2>2, <2>5, <2>7, <3>3, <4>1, <4>2
    <3> QED
      BY <2>11, <3>1, <3>2, <3>3
  <2>12. \A f \in Exec : ex'[f].pc = "run" => f # e /\ ex'[f] = ex[f] /\ held'[ex[f].co] = 0
    BY <2>2, <2>3, <2>4, <2>5 DEF CallerInv
  <2> QED
    BY <2>8, <2>9, <2>10, <2>11, <2>12 DEF CallerInv
<1>2. CASE Takes(e)
  BY <1>2, CallerSame DEF Takes
<1> QED
  BY <1>1, <1>2, FirstCasCases

LEMMA PushCaller ==
    ASSUME TypeOK, CallerInv, NEW e \in Exec, Push(e) PROVE CallerInv'
<1> DEFINE c == ex[e].co
<1>0. c \in Co /\ ex[e].pc = "push"
  BY ExecutorType DEF Push
<1>1. CASE Len(waiters) < WaitCap
  <2>1. ex' = [ex EXCEPT ![e].pc = "clear"] /\ UNCHANGED <<held, cells>>
    BY <1>1 DEF Push
  <2> QED
    BY <1>0, <2>1, OnCaller DEF SecondHalf, Late
<1>2. CASE ~(Len(waiters) < WaitCap)
  <2>1. /\ ex' = [ex EXCEPT ![e] = IdleExecutor] /\ held' = [held EXCEPT ![c] = 0]
        /\ UNCHANGED cells
    BY <1>2 DEF Push
  <2>2. ex'[e].pc = "idle" /\ \A f \in Exec : f # e => ex'[f] = ex[f]
    BY <2>1 DEF IdleExecutor, TypeOK
  <2>3. held'[c] = 0 /\ \A d \in Co : d # c => held'[d] = held[d]
    BY <1>0, <2>1 DEF TypeOK
  <2>4. \A f \in Exec : f # e /\ ex[f].pc = "push" => ex[f].co # c
    BY <1>0 DEF CallerInv, SecondHalf
  <2>5. \A f \in Exec : ex[f].pc # "idle" => ex[f].co \in Co
    BY ExecutorType
  <2> HIDE DEF c
  <2> QED
    BY <2>1, <2>2, <2>3, <2>4, <2>5 DEF CallerInv, SecondHalf
<1> QED
  BY <1>1, <1>2

LEMMA SecondCasCaller ==
    ASSUME TypeOK, CallerInv, NEW e \in Exec, SecondCas(e) PROVE CallerInv'
<1>1. ex[e].pc \in SecondHalf /\ UNCHANGED <<held, cells>>
  BY DEF SecondCas, SecondHalf
<1>2. \E pc \in Late : ex' = [ex EXCEPT ![e].pc = pc]
  BY DEF SecondCas, Late
<1> QED
  BY <1>1, <1>2, OnCaller

LEMMA ClearExpectedCaller ==
    ASSUME TypeOK, CallerInv, NEW e \in Exec, ClearExpected(e) PROVE CallerInv'
<1>1. ex[e].pc \in SecondHalf /\ UNCHANGED <<held, cells>>
  BY DEF ClearExpected, SecondHalf
<1>2. UNCHANGED ex \/ ex' = [ex EXCEPT ![e].pc = "cas"]
  BY DEF ClearExpected, WriteExpected
<1> QED
  BY <1>1, <1>2, CallerSame, OnCaller DEF Late

LEMMA StoreSeenCaller ==
    ASSUME TypeOK, CallerInv, NEW e \in Exec, StoreSeen(e) PROVE CallerInv'
<1>1. UNCHANGED <<held, cells>> /\ (UNCHANGED ex \/ ex' = [ex EXCEPT ![e] = IdleExecutor])
  BY DEF StoreSeen, WriteExpected
<1> QED
  BY <1>1, CallerSame, IdleCaller

LEMMA CheckCallerCaller ==
    ASSUME TypeOK, CallerInv, NEW e \in Exec, CheckCaller(e) PROVE CallerInv'
<1>1. ex[e].pc \in SecondHalf /\ UNCHANGED <<held, cells>>
  BY DEF CheckCaller, SecondHalf
<1>2. ex' = [ex EXCEPT ![e] = IdleExecutor] \/ ex' = [ex EXCEPT ![e].pc = "move"]
  BY DEF CheckCaller
<1> QED
  BY <1>1, <1>2, IdleCaller, OnCaller DEF Late

LEMMA MoveCallerCaller ==
    ASSUME TypeOK, CallerInv, NEW e \in Exec, MoveCaller(e) PROVE CallerInv'
<1> DEFINE c == ex[e].co
           r == [pc |-> "run", co |-> c, n |-> ex[e].n, m |-> 0]
<1>0. c \in Co /\ ex[e].pc = "move" /\ cells[c] \in Nat /\ ex[e].m # 0
  BY ExecutorType DEF MoveCaller, TypeOK, CallerInv, SecondHalf
<1>1. CASE held[c] = ex[e].m
  <2>1. /\ ex' = [ex EXCEPT ![e] = r] /\ held' = [held EXCEPT ![c] = 0]
        /\ UNCHANGED cells
    BY <1>1 DEF MoveCaller
  <2>2. /\ ex'[e].pc = "run" /\ ex'[e].co = c /\ ex'[e].m = 0
        /\ \A f \in Exec : f # e => ex'[f] = ex[f]
    BY <2>1 DEF TypeOK
  <2>3. held'[c] = 0 /\ \A d \in Co : d # c => held'[d] = held[d]
    BY <1>0, <2>1 DEF TypeOK
  <2>4. \A f \in Exec : ex[f].pc \in {"run", "push"} => ex[f].co # c
    BY <1>0, <1>1 DEF CallerInv, SecondHalf
  <2>5. \A f \in Exec : ex[f].pc # "idle" => ex[f].co \in Co
    BY ExecutorType
  <2> HIDE DEF c, r
  <2>6. \A f \in Exec : ex'[f].pc # "idle" => ex'[f].m <= cells[ex'[f].co]
    BY <1>0, <2>2 DEF CallerInv
  <2>7. \A f \in Exec : ex'[f].pc \in {"run", "push"} /\ f # e => ex'[f].co # c
    BY <2>2, <2>4
  <2> QED
    BY <2>1, <2>2, <2>3, <2>4, <2>5, <2>6, <2>7 DEF CallerInv, SecondHalf
<1>2. CASE held[c] # ex[e].m
  BY <1>2, CallerSame DEF MoveCaller
<1> QED
  BY <1>1, <1>2

LEMMA YieldCaller ==
    ASSUME TypeOK, CallerInv, NEW e \in Exec, Yield(e) PROVE CallerInv'
<1> DEFINE c == ex[e].co
<1>0. c \in Co /\ ex[e].pc = "run"
  BY ExecutorType DEF Yield, Runs
<1>1. /\ ex' = [ex EXCEPT ![e] = IdleExecutor] /\ held' = [held EXCEPT ![c] = ex[e].n]
      /\ UNCHANGED cells
  BY DEF Yield
<1>2. ex'[e].pc = "idle" /\ \A f \in Exec : f # e => ex'[f] = ex[f]
  BY <1>1 DEF IdleExecutor, TypeOK
<1>3. \A d \in Co : d # c => held'[d] = held[d]
  BY <1>0, <1>1 DEF TypeOK
<1>4. \A f \in Exec : f # e /\ ex[f].pc \in {"run", "push"} => ex[f].co # c
  BY <1>0, RunnerAlone
<1>5. \A f \in Exec : ex[f].pc # "idle" => ex[f].co \in Co
  BY ExecutorType
<1> HIDE DEF c
<1> QED
  BY <1>1, <1>2, <1>3, <1>4, <1>5 DEF CallerInv, SecondHalf

LEMMA CallerStep == TypeOK /\ PlaceInv /\ CallerInv /\ [Next]_vars => CallerInv'
<1> SUFFICES ASSUME TypeOK, PlaceInv, CallerInv, [Next]_vars PROVE CallerInv'
  OBVIOUS
<1>1. CASE UNCHANGED vars
  BY <1>1, CallerSame DEF vars
<1>2. CASE AllFinished
  BY <1>2, CallerSame DEF AllFinished, vars
<1>3. ASSUME NEW e \in Exec, Run(e) PROVE CallerInv'
  <2>1. CASE Dequeue(e)
    <3>1. tasks[e] \in Seq(Task) /\ tasks[e] # <<>>
      BY <2>1 DEF TypeOK, Dequeue
    <3>2. Head(tasks[e]) \in Task
      BY <3>1, SeqFacts
    <3> QED
      BY <2>1, <3>2, TakeCaller DEF Dequeue
  <2>2. CASE Unlock(e) \/ WakeOne(e) \/ Declare(e)
    BY <2>2, CallerSame DEF Unlock, WakeOne, Declare
  <2>3. CASE Finish(e)
    BY <2>3, IdleCaller DEF Finish
  <2> QED
    BY <1>3, <2>1, <2>2, <2>3, WorkStealCaller, ResumeCaller, FirstCasCaller, PushCaller,
       ClearExpectedCaller, SecondCasCaller, StoreSeenCaller, CheckCallerCaller, MoveCallerCaller, YieldCaller DEF Run, Step
<1> QED
  BY <1>1, <1>2, <1>3 DEF Next

(* Steps after which at most fewer coroutines are suspended. *)
LEMMA SuspendSame ==
    ASSUME SuspendInv, UNCHANGED <<at, rounds>>,
           \A d \in Co : held'[d] = held[d] \/ held'[d] = 0,
           \A e \in Exec : ex'[e].pc = "push" => ex'[e] = ex[e]
    PROVE  SuspendInv'
BY DEF SuspendInv

(* A step of the coroutine c, which at most suspends it. *)
LEMMA SuspendOne ==
    ASSUME TypeOK, SuspendInv, NEW e \in Exec, NEW c \in Co,
           \A d \in Co : d # c => held'[d] = held[d] /\ at'[d] = at[d] /\ rounds'[d] = rounds[d],
           held'[c] # 0 => at'[c] \in Suspended /\ rounds'[c] < Rounds,
           at'[c] \in Unfinished => rounds'[c] < Rounds,
           rounds'[c] <= Rounds,
           \A f \in Exec : f # e => ex'[f] = ex[f],
           \A f \in Exec : f # e /\ ex[f].pc = "push" => ex[f].co # c,
           ex'[e].pc = "push" => ex'[e].co = c /\ at'[c] = "lock"
    PROVE  SuspendInv'
<1>1. \A f \in Exec : ex[f].pc # "idle" => ex[f].co \in Co
  BY ExecutorType
<1>2. \A f \in Exec : ex'[f].pc = "push" => at'[ex'[f].co] = "lock"
  BY <1>1 DEF SuspendInv
<1> QED
  BY <1>2 DEF SuspendInv

LEMMA DeclareSuspend ==
    ASSUME TypeOK, CallerInv, SuspendInv, NEW e \in Exec, Declare(e) PROVE SuspendInv'
<1> DEFINE c == ex[e].co
<1>0. c \in Co /\ ex[e].pc = "run" /\ rounds[c] < Rounds /\ rounds[c] <= Rounds
  BY ExecutorType DEF Declare, Runs, SuspendInv, Unfinished
<1>1. held[c] = 0 /\ \A f \in Exec : f # e /\ ex[f].pc = "push" => ex[f].co # c
  BY <1>0, RunnerAlone
<1>2. at' = [at EXCEPT ![c] = "try"] /\ UNCHANGED <<held, ex, rounds>>
  BY DEF Declare
<1>3. at'[c] = "try" /\ \A d \in Co : d # c => at'[d] = at[d]
  BY <1>0, <1>2 DEF TypeOK
<1> HIDE DEF c
<1> QED
  BY <1>0, <1>1, <1>2, <1>3, SuspendOne

LEMMA FirstCasSuspend ==
    ASSUME TypeOK, CallerInv, SuspendInv, NEW e \in Exec, FirstCas(e) PROVE SuspendInv'
<1> DEFINE c == ex[e].co
           m == cells[c] + 1
           r == [pc |-> "push", co |-> c, n |-> ex[e].n, m |-> m]
<1>0. c \in Co /\ ex[e].pc = "run" /\ rounds[c] < Rounds /\ rounds[c] <= Rounds
      /\ UNCHANGED rounds
  BY ExecutorType DEF FirstCas, Runs, SuspendInv, Unfinished
<1>1. held[c] = 0 /\ \A f \in Exec : f # e /\ ex[f].pc = "push" => ex[f].co # c
  BY <1>0, RunnerAlone
<1>2. CASE Suspends(e)
  <2>1. /\ ex' = [ex EXCEPT ![e] = r] /\ held' = [held EXCEPT ![c] = m]
        /\ at' = [at EXCEPT ![c] = "lock"]
    BY <1>2 DEF Suspends
  <2>2. /\ ex'[e].pc = "push" /\ ex'[e].co = c
        /\ \A f \in Exec : f # e => ex'[f] = ex[f]
    BY <2>1 DEF TypeOK
  <2>3. at'[c] = "lock" /\ \A d \in Co : d # c => held'[d] = held[d] /\ at'[d] = at[d]
    BY <1>0, <2>1 DEF TypeOK
  <2> HIDE DEF c, m, r
  <2> QED
    BY <1>0, <1>1, <2>1, <2>2, <2>3, SuspendOne DEF Suspended
<1>3. CASE Takes(e)
  <2>1. at' = [at EXCEPT ![c] = "cs"] /\ UNCHANGED <<held, ex>>
    BY <1>3 DEF Takes
  <2>2. at'[c] = "cs" /\ \A d \in Co : d # c => at'[d] = at[d]
    BY <1>0, <2>1 DEF TypeOK
  <2> HIDE DEF c
  <2> QED
    BY <1>0, <1>1, <2>1, <2>2, SuspendOne
<1> QED
  BY <1>2, <1>3, FirstCasCases

LEMMA PushSuspend ==
    ASSUME TypeOK, CallerInv, SuspendInv, NEW e \in Exec, Push(e) PROVE SuspendInv'
<1> DEFINE c == ex[e].co
<1>0. c \in Co /\ ex[e].pc = "push" /\ rounds[c] <= Rounds
  BY ExecutorType DEF Push, SuspendInv
<1>1. CASE Len(waiters) < WaitCap
  <2>1. ex' = [ex EXCEPT ![e].pc = "clear"] /\ UNCHANGED <<held, at, rounds>>
    BY <1>1 DEF Push
  <2>2. \A f \in Exec : ex'[f].pc = "push" => ex'[f] = ex[f]
    BY <2>1, ExecutorType DEF TypeOK, Executor
  <2> QED
    BY <2>1, <2>2, SuspendSame
<1>2. CASE ~(Len(waiters) < WaitCap)
  <2>1. /\ ex' = [ex EXCEPT ![e] = IdleExecutor] /\ held' = [held EXCEPT ![c] = 0]
        /\ at' = [at EXCEPT ![c] = "lost"] /\ UNCHANGED rounds
    BY <1>2 DEF Push
  <2>2. ex'[e].pc = "idle" /\ \A f \in Exec : f # e => ex'[f] = ex[f]
    BY <2>1 DEF IdleExecutor, TypeOK
  <2>3. /\ held'[c] = 0 /\ at'[c] = "lost"
        /\ \A d \in Co : d # c => held'[d] = held[d] /\ at'[d] = at[d]
    BY <1>0, <2>1 DEF TypeOK
  <2>4. \A f \in Exec : f # e /\ ex[f].pc = "push" => ex[f].co # c
    BY <1>0 DEF CallerInv, SecondHalf
  <2> HIDE DEF c
  <2> QED
    BY <1>0, <2>1, <2>2, <2>3, <2>4, SuspendOne DEF Unfinished
<1> QED
  BY <1>1, <1>2

LEMMA MoveCallerSuspend ==
    ASSUME TypeOK, CallerInv, SuspendInv, NEW e \in Exec, MoveCaller(e) PROVE SuspendInv'
<1> DEFINE c == ex[e].co
           r == [pc |-> "run", co |-> c, n |-> ex[e].n, m |-> 0]
<1>0. c \in Co /\ ex[e].pc = "move" /\ ex[e].m # 0 /\ rounds[c] <= Rounds
  BY ExecutorType DEF MoveCaller, CallerInv, SecondHalf, SuspendInv
<1>1. CASE held[c] = ex[e].m
  <2>1. /\ ex' = [ex EXCEPT ![e] = r] /\ held' = [held EXCEPT ![c] = 0]
        /\ at' = [at EXCEPT ![c] = "cs"] /\ UNCHANGED rounds
    BY <1>1 DEF MoveCaller
  <2>2. ex'[e].pc = "run" /\ \A f \in Exec : f # e => ex'[f] = ex[f]
    BY <2>1 DEF TypeOK
  <2>3. /\ held'[c] = 0 /\ at'[c] = "cs"
        /\ \A d \in Co : d # c => held'[d] = held[d] /\ at'[d] = at[d]
    BY <1>0, <2>1 DEF TypeOK
  <2>4. \A f \in Exec : ex[f].pc = "push" => ex[f].co # c
    BY <1>0, <1>1 DEF CallerInv, SecondHalf
  <2>5. rounds[c] < Rounds
    BY <1>0, <1>1 DEF SuspendInv
  <2> HIDE DEF c, r
  <2> QED
    BY <1>0, <2>1, <2>2, <2>3, <2>4, <2>5, SuspendOne
<1>2. CASE held[c] # ex[e].m
  BY <1>2, SuspendSame DEF MoveCaller
<1> QED
  BY <1>1, <1>2

LEMMA YieldSuspend ==
    ASSUME TypeOK, CallerInv, SuspendInv, NEW e \in Exec, Yield(e) PROVE SuspendInv'
<1> DEFINE c == ex[e].co
<1>0. c \in Co /\ ex[e].pc = "run" /\ at[c] = "cs"
  BY ExecutorType DEF Yield, Runs
<1>1. rounds[c] < Rounds /\ rounds[c] <= Rounds
  BY <1>0 DEF SuspendInv, Unfinished
<1>2. /\ ex' = [ex EXCEPT ![e] = IdleExecutor] /\ held' = [held EXCEPT ![c] = ex[e].n]
      /\ at' = [at EXCEPT ![c] = "cs2"] \/ at' = [at EXCEPT ![c] = "orphan"]
      /\ UNCHANGED rounds
  BY DEF Yield
<1>3. ex'[e].pc = "idle" /\ \A f \in Exec : f # e => ex'[f] = ex[f]
  BY <1>2 DEF IdleExecutor, TypeOK
<1>4. /\ at'[c] \in {"cs2", "orphan"}
      /\ \A d \in Co : d # c => held'[d] = held[d] /\ at'[d] = at[d]
  BY <1>0, <1>2 DEF TypeOK
<1>5. \A f \in Exec : f # e /\ ex[f].pc = "push" => ex[f].co # c
  BY <1>0, RunnerAlone
<1> HIDE DEF c
<1> QED
  BY <1>0, <1>1, <1>2, <1>3, <1>4, <1>5, SuspendOne DEF Suspended

LEMMA UnlockSuspend ==
    ASSUME TypeOK, CallerInv, SuspendInv, NEW e \in Exec, Unlock(e) PROVE SuspendInv'
<1> DEFINE c == ex[e].co
<1>0. c \in Co /\ ex[e].pc = "run" /\ at[c] \in {"cs", "cs2"}
  BY ExecutorType DEF Unlock, Runs
<1>1. rounds[c] < Rounds /\ rounds[c] <= Rounds
  BY <1>0 DEF SuspendInv, Unfinished
<1>2. held[c] = 0 /\ \A f \in Exec : f # e /\ ex[f].pc = "push" => ex[f].co # c
  BY <1>0, RunnerAlone
<1>3. at' = [at EXCEPT ![c] = "wake"] /\ UNCHANGED <<held, ex, rounds>>
  BY DEF Unlock
<1>4. at'[c] = "wake" /\ \A d \in Co : d # c => at'[d] = at[d]
  BY <1>0, <1>3 DEF TypeOK
<1> HIDE DEF c
<1> QED
  BY <1>0, <1>1, <1>2, <1>3, <1>4, SuspendOne

\* The waiter that unlock() pops, refused by a full task queue.
Dropped(c) ==
    LET w == Head(waiters)
    IN  /\ waiters # <<>> /\ Valid(w)
        /\ at' = [at EXCEPT ![c] = "out", ![w.co] = "dropped"]
        /\ rounds' = [rounds EXCEPT ![c] = rounds[c] + 1]

LEMMA WaiterHeld ==
    ASSUME TypeOK, PlaceInv, waiters # <<>>, Valid(Head(waiters))
    PROVE  /\ Head(waiters).co \in Co /\ held[Head(waiters).co] # 0
           /\ <<Head(waiters).co, held[Head(waiters).co]>> \in Waiting
<1> DEFINE w == Head(waiters)
<1>1. waiters \in Seq(Waiter) /\ Once(waiters)
  BY DEF TypeOK, PlaceInv
<1>2. w \in Waiter /\ CellOf(w) \in Waiting
  BY <1>1, SeqFacts, TailCells DEF Waiting
<1> HIDE DEF w
<1>3. w.co \in Co /\ w.n \in Nat /\ <<w.co, w.n>> \in Used
  BY <1>2 DEF Waiter, CellOf, PlaceInv, Apart
<1>4. w.n # 0
  BY <1>3, UsedCells
<1> QED
  BY <1>2, <1>3, <1>4 DEF w, Valid, CellOf

LEMMA DroppedSuspend ==
    ASSUME TypeOK, PlaceInv, CallerInv, SuspendInv, NEW e \in Exec, ex[e].pc = "run",
           at[ex[e].co] = "wake", Dropped(ex[e].co), UNCHANGED <<held, ex>>
    PROVE  SuspendInv'
<1> DEFINE c == ex[e].co
           d == Head(waiters).co
<1>0. c \in Co /\ d \in Co /\ held[d] # 0 /\ rounds[c] \in Nat /\ Rounds \in Nat
  BY ExecutorType, WaiterHeld, ConstantAssumption DEF Dropped, TypeOK
<1>1. held[c] = 0 /\ \A f \in Exec : f # e /\ ex[f].pc = "push" => ex[f].co # c
  BY RunnerAlone
<1>2. rounds[c] < Rounds /\ at[d] \in Suspended /\ rounds[d] < Rounds
  BY <1>0 DEF SuspendInv, Unfinished
<1>3. /\ c # d /\ at'[c] = "out" /\ at'[d] = "dropped"
      /\ \A b \in Co : b # c /\ b # d => at'[b] = at[b]
      /\ rounds'[c] = rounds[c] + 1 /\ \A b \in Co : b # c => rounds'[b] = rounds[b]
  BY <1>0, <1>1 DEF Dropped, TypeOK
<1>a. \A f \in Exec : ex[f].pc # "idle" => ex[f].co \in Co
  BY ExecutorType
<1>b. <<d, held[d]>> \in Waiting
  BY WaiterHeld DEF Dropped
<1>c. \A f \in Exec : f # e /\ ex[f].pc = "push" => ex[f].co # c
  BY <1>1
<1> HIDE DEF c, d
<1>4. rounds'[c] <= Rounds
  BY <1>0, <1>2, <1>3
<1>5. \A b \in Co : held'[b] # 0 => at'[b] \in Suspended /\ rounds'[b] < Rounds
  BY <1>0, <1>1, <1>2, <1>3 DEF SuspendInv, Suspended
<1>6. \A b \in Co : at'[b] \in Unfinished => rounds'[b] < Rounds
  BY <1>0, <1>2, <1>3 DEF SuspendInv, Unfinished
<1>7. \A b \in Co : rounds'[b] <= Rounds
  BY <1>3, <1>4 DEF SuspendInv
<1>8. \A f \in Exec : ex[f].pc = "push" => ex[f].co # d
  <2> SUFFICES ASSUME NEW f \in Exec, ex[f].pc = "push", ex[f].co = d PROVE FALSE
    OBVIOUS
  <2>1. <<d, held[d]>> \in Hands[f]
    BY HandsOf DEF CallerInv
  <2> QED
    BY <1>b, <2>1 DEF PlaceInv, Apart
<1>9. \A f \in Exec : ex'[f].pc = "push" => at'[ex'[f].co] = "lock"
  BY <1>3, <1>a, <1>c, <1>8 DEF SuspendInv
<1> QED
  BY <1>5, <1>6, <1>7, <1>9 DEF SuspendInv

LEMMA WakeOneSuspend ==
    ASSUME TypeOK, PlaceInv, CallerInv, SuspendInv, NEW e \in Exec, WakeOne(e) PROVE SuspendInv'
<1> DEFINE c == ex[e].co
<1>0. c \in Co /\ ex[e].pc = "run" /\ at[c] = "wake" /\ rounds[c] \in Nat /\ Rounds \in Nat
  BY ExecutorType, ConstantAssumption DEF WakeOne, Runs, TypeOK
<1>1. rounds[c] < Rounds
  BY <1>0 DEF SuspendInv, Unfinished
<1>2. held[c] = 0 /\ \A f \in Exec : f # e /\ ex[f].pc = "push" => ex[f].co # c
  BY <1>0, RunnerAlone
<1>3. UNCHANGED <<held, ex>> /\ (UNCHANGED <<at, rounds>> \/ EndRound(c) \/ Dropped(c))
  BY DEF WakeOne, Dropped
<1>4. CASE UNCHANGED <<at, rounds>>
  BY <1>3, <1>4, SuspendSame
<1>5. CASE EndRound(c)
  <2>1. /\ at'[c] = "out" /\ rounds'[c] = rounds[c] + 1
        /\ \A d \in Co : d # c => at'[d] = at[d] /\ rounds'[d] = rounds[d]
    BY <1>0, <1>5 DEF EndRound, TypeOK
  <2>2. rounds'[c] <= Rounds
    BY <1>0, <1>1, <2>1
  <2> HIDE DEF c
  <2> QED
    BY <1>0, <1>2, <1>3, <2>1, <2>2, SuspendOne DEF Unfinished
<1>6. CASE Dropped(c)
  BY <1>0, <1>3, <1>6, DroppedSuspend
<1> QED
  BY <1>3, <1>4, <1>5, <1>6

LEMMA FinishSuspend ==
    ASSUME TypeOK, CallerInv, SuspendInv, NEW e \in Exec, Finish(e) PROVE SuspendInv'
<1> DEFINE c == ex[e].co
<1>0. c \in Co /\ ex[e].pc = "run" /\ rounds[c] <= Rounds
  BY ExecutorType DEF Finish, Runs, SuspendInv
<1>1. held[c] = 0 /\ \A f \in Exec : f # e /\ ex[f].pc = "push" => ex[f].co # c
  BY <1>0, RunnerAlone
<1>2. /\ at' = [at EXCEPT ![c] = "done"] /\ ex' = [ex EXCEPT ![e] = IdleExecutor]
      /\ UNCHANGED <<held, rounds>>
  BY DEF Finish
<1>3. ex'[e].pc = "idle" /\ \A f \in Exec : f # e => ex'[f] = ex[f]
  BY <1>2 DEF IdleExecutor, TypeOK
<1>4. at'[c] = "done" /\ \A d \in Co : d # c => at'[d] = at[d]
  BY <1>0, <1>2 DEF TypeOK
<1> HIDE DEF c
<1> QED
  BY <1>0, <1>1, <1>2, <1>3, <1>4, SuspendOne DEF Unfinished

LEMMA TakePush ==
    ASSUME TypeOK, NEW e \in Exec, NEW t, Take(e, t)
    PROVE  \A f \in Exec : ex'[f].pc = "push" => ex'[f] = ex[f]
BY DEF Take, TypeOK

LEMMA SuspendStep ==
    TypeOK /\ PlaceInv /\ CallerInv /\ SuspendInv /\ [Next]_vars => SuspendInv'
<1> SUFFICES ASSUME TypeOK, PlaceInv, CallerInv, SuspendInv, [Next]_vars PROVE SuspendInv'
  OBVIOUS
<1>1. CASE UNCHANGED vars
  BY <1>1, SuspendSame DEF vars
<1>2. CASE AllFinished
  BY <1>2, SuspendSame DEF AllFinished, vars
<1>3. ASSUME NEW e \in Exec, Run(e) PROVE SuspendInv'
  <2>1. CASE Dequeue(e)
    <3>1. Take(e, Head(tasks[e])) /\ UNCHANGED <<at, rounds, held>>
      BY <2>1 DEF Dequeue
    <3> QED
      BY <3>1, TakePush, SuspendSame
  <2>2. CASE WorkSteal(e)
    <3> DEFINE q == (e + 1) % N
    <3>1. (Take(e, Head(tasks[q])) \/ UNCHANGED ex) /\ UNCHANGED <<at, rounds, held>>
      BY <2>2 DEF WorkSteal
    <3> QED
      BY <3>1, TakePush, SuspendSame
  <2>3. CASE Resume(e)
    <3>1. UNCHANGED <<at, rounds>>
      BY <2>3 DEF Resume
    <3>2. \A d \in Co : held'[d] = held[d] \/ held'[d] = 0
      BY <2>3 DEF Resume, TypeOK
    <3>3. \A f \in Exec : ex'[f].pc = "push" => ex'[f] = ex[f]
      BY <2>3, ExecutorType DEF Resume, TypeOK, Executor
    <3> QED
      BY <3>1, <3>2, <3>3, SuspendSame
  <2>4. CASE SecondCas(e) \/ CheckCaller(e)
    <3>1. UNCHANGED <<at, rounds, held>>
      BY <2>4 DEF SecondCas, CheckCaller
    <3>2. \A f \in Exec : ex'[f].pc = "push" => ex'[f] = ex[f]
      <4>1. CASE SecondCas(e)
        <5>1. \E pc \in {"check", "saw_set", "saw_free"} : ex' = [ex EXCEPT ![e].pc = pc]
          BY <4>1 DEF SecondCas
        <5> QED
          BY <5>1, ExecutorType DEF TypeOK, Executor
      <4>2. CASE CheckCaller(e)
        BY <4>2, ExecutorType DEF CheckCaller, TypeOK, Executor, IdleExecutor
      <4> QED
        BY <2>4, <4>1, <4>2
    <3> QED
      BY <3>1, <3>2, SuspendSame
  <2>5. CASE ClearExpected(e) \/ StoreSeen(e)
    <3>1. UNCHANGED <<at, rounds, held>>
      BY <2>5 DEF ClearExpected, StoreSeen
    <3>2. \A f \in Exec : ex'[f].pc = "push" => ex'[f] = ex[f]
      BY <2>5, ExecutorType DEF ClearExpected, StoreSeen, WriteExpected, TypeOK, Executor,
                                IdleExecutor
    <3> QED
      BY <3>1, <3>2, SuspendSame
  <2> QED
    BY <1>3, <2>1, <2>2, <2>3, <2>4, <2>5, DeclareSuspend, FirstCasSuspend, PushSuspend, MoveCallerSuspend,
       YieldSuspend, UnlockSuspend, WakeOneSuspend, FinishSuspend DEF Run, Step
<1> QED
  BY <1>1, <1>2, <1>3 DEF Next

(* A step that adds no waiter and suspends nobody in a cell that waits. *)
LEMMA WaiterSame ==
    ASSUME WaiterInv, Waiting' \subseteq Waiting,
           \A d \in Co : \/ held'[d] = held[d] /\ at'[d] = at[d]
                         \/ <<d, held'[d]>> \notin Waiting'
    PROVE  WaiterInv'
BY DEF WaiterInv

(* Cell 0 is no cell, so nobody who runs waits. *)
LEMMA RunningWaitsNot ==
    ASSUME TypeOK, PlaceInv, NEW c \in Co PROVE <<c, 0>> \notin Waiting
BY UsedCells DEF PlaceInv, Apart

LEMMA PushWaiter ==
    ASSUME TypeOK, PlaceInv, CallerInv, SuspendInv, WaiterInv, NEW e \in Exec, Push(e)
    PROVE  WaiterInv'
<1> DEFINE c == ex[e].co
           x == [co |-> c, n |-> ex[e].m, tq |-> e]
<1>0. c \in Co /\ ex[e].m \in Nat /\ at[c] = "lock"
  BY ExecutorType DEF Push, SuspendInv
<1>1. CASE Len(waiters) < WaitCap
  <2>1. waiters' = Append(waiters, x) /\ UNCHANGED <<held, at>>
    BY <1>1 DEF Push
  <2>2. x \in Waiter /\ waiters \in Seq(Waiter) /\ CellOf(x) = <<c, ex[e].m>>
    BY <1>0 DEF Waiter, TypeOK, CellOf
  <2>3. Waiting' = Waiting \cup {<<c, ex[e].m>>}
    BY <2>1, <2>2, AppendCells DEF Waiting
  <2> QED
    BY <1>0, <2>1, <2>3 DEF WaiterInv
<1>2. CASE ~(Len(waiters) < WaitCap)
  <2>1. /\ held' = [held EXCEPT ![c] = 0] /\ at' = [at EXCEPT ![c] = "lost"]
        /\ Waiting' = Waiting
    BY <1>2 DEF Push, Waiting
  <2>2. held'[c] = 0 /\ \A d \in Co : d # c => held'[d] = held[d] /\ at'[d] = at[d]
    BY <1>0, <2>1 DEF TypeOK
  <2>3. <<c, held'[c]>> \notin Waiting'
    BY <1>0, <2>1, <2>2, RunningWaitsNot
  <2> HIDE DEF c
  <2> QED
    BY <2>1, <2>2, <2>3, WaiterSame
<1> QED
  BY <1>1, <1>2

LEMMA FirstCasWaiter ==
    ASSUME TypeOK, PlaceInv, CallerInv, WaiterInv, NEW e \in Exec, FirstCas(e) PROVE WaiterInv'
<1> DEFINE c == ex[e].co
<1>0. c \in Co /\ cells[c] \in Nat /\ ex[e].pc = "run" /\ Waiting' = Waiting
  BY ExecutorType DEF FirstCas, Runs, TypeOK, Waiting
<1>1. \A d \in Co : d # c => held'[d] = held[d] /\ at'[d] = at[d]
  BY FirstCasCases DEF Takes, Suspends, TypeOK
<1>2. held'[c] = 0 \/ held'[c] = cells[c] + 1
  BY <1>0, FirstCasCases, RunnerAlone DEF Takes, Suspends, TypeOK
<1>3. <<c, 0>> \notin Waiting /\ <<c, cells[c] + 1>> \notin Waiting
  BY <1>0, UsedCells DEF PlaceInv, Apart
<1> HIDE DEF c
<1> QED
  BY <1>0, <1>1, <1>2, <1>3, WaiterSame

LEMMA YieldWaiter ==
    ASSUME TypeOK, PlaceInv, CallerInv, WaiterInv, NEW e \in Exec, Yield(e) PROVE WaiterInv'
<1> DEFINE c == ex[e].co
<1>0. c \in Co /\ ex[e].pc = "run" /\ Waiting' = Waiting
  BY ExecutorType DEF Yield, Runs, Waiting
<1>1. /\ \A d \in Co : d # c => held'[d] = held[d] /\ at'[d] = at[d]
      /\ held'[c] = ex[e].n
  BY <1>0 DEF Yield, TypeOK
<1>2. <<c, ex[e].n>> \in Hands[e]
  BY <1>0, HandsOf
<1>3. <<c, ex[e].n>> \notin Waiting
  BY <1>2 DEF PlaceInv, Apart
<1> HIDE DEF c
<1> QED
  BY <1>0, <1>1, <1>3, WaiterSame

LEMMA WakeOneWaiter ==
    ASSUME TypeOK, PlaceInv, CallerInv, WaiterInv, NEW e \in Exec, WakeOne(e) PROVE WaiterInv'
<1> DEFINE c == ex[e].co
           w == Head(waiters)
<1>0. c \in Co /\ ex[e].pc = "run" /\ held[c] = 0 /\ held' = held
  BY ExecutorType, RunnerAlone DEF WakeOne, Runs
<1>1. <<c, held'[c]>> \notin Waiting
  BY <1>0, RunningWaitsNot
<1>2. waiters' = waiters \/ (waiters # <<>> /\ waiters' = Tail(waiters))
  BY DEF WakeOne
<1>3. /\ Waiting' \subseteq Waiting
      /\ waiters # <<>> /\ waiters' = Tail(waiters) => CellOf(w) \notin Waiting'
  <2>1. waiters \in Seq(Waiter) /\ Once(waiters)
    BY DEF TypeOK, PlaceInv
  <2> HIDE DEF w
  <2> QED
    BY <1>2, <2>1, TailCells DEF Waiting, w
<1>4. CASE Dropped(c) /\ waiters' = Tail(waiters)
  <2>1. CellOf(w) = <<w.co, held[w.co]>> /\ CellOf(w) \notin Waiting'
    BY <1>3, <1>4 DEF Dropped, Valid, CellOf
  <2>2. \A d \in Co : d # c /\ d # w.co => at'[d] = at[d]
    BY <1>4 DEF Dropped, TypeOK
  <2> HIDE DEF c, w
  <2> QED
    BY <1>0, <1>1, <1>3, <2>1, <2>2, WaiterSame
<1>5. CASE UNCHANGED at \/ at' = [at EXCEPT ![c] = "out"]
  <2>1. \A d \in Co : d # c => at'[d] = at[d]
    BY <1>5 DEF TypeOK
  <2> HIDE DEF c, w
  <2> QED
    BY <1>0, <1>1, <1>3, <2>1, WaiterSame
<1> QED
  BY <1>4, <1>5 DEF WakeOne, EndRound, Dropped

LEMMA WaiterStep ==
    TypeOK /\ PlaceInv /\ CallerInv /\ SuspendInv /\ WaiterInv /\ [Next]_vars => WaiterInv'
<1> SUFFICES ASSUME TypeOK, PlaceInv, CallerInv, SuspendInv, WaiterInv, [Next]_vars
             PROVE  WaiterInv'
  OBVIOUS
<1>1. CASE UNCHANGED <<waiters, held, at>>
  BY <1>1, WaiterSame DEF Waiting
<1>2. ASSUME NEW e \in Exec, Run(e) PROVE WaiterInv'
  <2>1. CASE Declare(e) \/ Unlock(e) \/ Finish(e) \/ Resume(e) \/ MoveCaller(e)
    <3> DEFINE c == ex[e].co
    <3>1. c \in Co /\ Waiting' = Waiting
      BY <2>1, ExecutorType DEF Declare, Unlock, Finish, Resume, MoveCaller, Runs, Waiting
    <3>2. \A d \in Co : d # c => held'[d] = held[d] /\ at'[d] = at[d]
      BY <2>1 DEF Declare, Unlock, Finish, Resume, MoveCaller, TypeOK
    <3>3. held'[c] = 0 \/ (held'[c] = held[c] /\ at'[c] = at[c])
      <4>1. CASE Declare(e) \/ Unlock(e) \/ Finish(e)
        BY <4>1, RunnerAlone DEF Declare, Unlock, Finish, Runs
      <4>2. CASE Resume(e) \/ MoveCaller(e)
        BY <3>1, <4>2 DEF Resume, MoveCaller, TypeOK
      <4> QED
        BY <2>1, <4>1, <4>2
    <3>4. <<c, 0>> \notin Waiting
      BY <3>1, RunningWaitsNot
    <3> HIDE DEF c
    <3> QED
      BY <3>1, <3>2, <3>3, <3>4, WaiterSame
  <2>2. CASE \/ Dequeue(e) \/ WorkSteal(e) \/ ClearExpected(e) \/ SecondCas(e)
             \/ StoreSeen(e) \/ CheckCaller(e)
    BY <1>1, <2>2 DEF Dequeue, WorkSteal, ClearExpected, SecondCas, StoreSeen, CheckCaller
  <2> QED
    BY <1>2, <2>1, <2>2, FirstCasWaiter, PushWaiter, YieldWaiter, WakeOneWaiter DEF Run, Step
<1> QED
  BY <1>1, <1>2 DEF Next, AllFinished, vars

LEMMA ResumeInit == Init => ResumeInv
<1> SUFFICES ASSUME Init PROVE ResumeInv
  OBVIOUS
<1>1. \A e \in Exec : ex[e].pc = "idle"
  BY DEF Init, IdleExecutor
<1>2. CallerInv
  BY <1>1 DEF CallerInv, SecondHalf
<1>3. SuspendInv
  BY <1>1, ConstantAssumption DEF SuspendInv, Suspended, Unfinished, Init
<1>4. WaiterInv
  BY EmptyCells DEF WaiterInv, Waiting, Init
<1> QED
  BY <1>2, <1>3, <1>4 DEF ResumeInv

LEMMA ResumeInvHolds == Spec => []ResumeInv
<1>1. TypeOK /\ PlaceInv /\ ResumeInv /\ [Next]_vars => ResumeInv'
  BY CallerStep, SuspendStep, WaiterStep DEF ResumeInv
<1> QED
  BY <1>1, ResumeInit, PlaceHolds, TypeCorrect, PTL DEF Spec


-----------------------------------------------------------------------------
(* Without stealing.  A caller that lock() suspended can be resumed by a task
   on the queue of its own executor only, and that executor is busy with the
   second half of its lock(): nobody takes the caller away from it, and the
   frame that half writes to is there. *)

\* The cells that executor e only can resume: they are on its queue, or waiters
\* that unlock() will put there.
FromHere(e) == {CellOf(waiters[i]) : i \in {j \in DOMAIN waiters : waiters[j].tq = e}}
Home == [e \in Exec |-> Queued[e] \cup FromHere(e)]

\* Nobody but e can resume the coroutine c that it left in cell m.
Safe(e, c, m) ==
    /\ held[c] = m
    /\ at[c] \in {"lock", "dropped"}
    /\ \A f \in Exec : <<c, m>> \notin Hands[f] /\ (f # e => <<c, m>> \notin Home[f])

HomeInv ==
    /\ fault = "none"
    /\ \A e \in Exec : ex[e].pc = "resume" => held[ex[e].co] = ex[e].n
    /\ \A e \in Exec : ex[e].pc \in Late => Safe(e, ex[e].co, ex[e].m)

LEMMA HomeIs ==
    ASSUME NEW e \in Exec, NEW p
    PROVE  p \in Home[e] <=>
               \/ p \in Queued[e]
               \/ \E i \in DOMAIN waiters : CellOf(waiters[i]) = p /\ waiters[i].tq = e
BY DEF Home, FromHere

LEMMA HomeSubset ==
    ASSUME NEW e \in Exec PROVE Home[e] \subseteq Queued[e] \cup Waiting
BY DEF Home, FromHere, Waiting, CellsOf

(* A step of executor e: what it must not disturb, and what it must establish. *)
LEMMA HomeStep ==
    ASSUME TypeOK, HomeInv, fault' = "none", NEW e \in Exec,
           \A f \in Exec : f # e => ex'[f] = ex[f],
           \A f \in Exec : f # e /\ ex[f].pc = "resume" => held'[ex[f].co] = held[ex[f].co],
           \A f \in Exec : f # e /\ ex[f].pc \in Late => Safe(f, ex[f].co, ex[f].m)',
           ex'[e].pc = "resume" => held'[ex'[e].co] = ex'[e].n,
           ex'[e].pc \in Late => Safe(e, ex[e].co, ex[e].m)' /\ ex'[e].co = ex[e].co
                                                            /\ ex'[e].m = ex[e].m
    PROVE  HomeInv'
<1>1. \A f \in Exec : ex'[f].pc = "resume" => held'[ex'[f].co] = ex'[f].n
  BY DEF HomeInv
<1>2. ASSUME NEW f \in Exec, ex'[f].pc \in Late PROVE Safe(f, ex[f].co, ex[f].m)'
  BY <1>2
<1>3. ASSUME NEW f \in Exec, ex'[f].pc \in Late PROVE ex'[f].co = ex[f].co /\ ex'[f].m = ex[f].m
  BY <1>3
<1>4. ASSUME NEW f \in Exec, ex'[f].pc \in Late PROVE Safe(f, ex[f].co, ex[f].m)'
  BY <1>2, <1>4
<1> QED
  BY <1>1, <1>3, <1>4 DEF HomeInv, Safe

(* The callers of the other executors, one by one. *)
LEMMA OthersSafe ==
    ASSUME TypeOK, HomeInv, NEW e \in Exec,
           \A f \in Exec : f # e => ex'[f] = ex[f],
           \A f \in Exec : f # e /\ ex[f].pc \in Late =>
               /\ held'[ex[f].co] = held[ex[f].co]
               /\ at'[ex[f].co] = at[ex[f].co] \/ at'[ex[f].co] = "dropped"
               /\ \A g \in Exec : <<ex[f].co, ex[f].m>> \in Hands'[g] => <<ex[f].co, ex[f].m>> \in Hands[g]
               /\ \A g \in Exec : g # f /\ <<ex[f].co, ex[f].m>> \in Home'[g] => <<ex[f].co, ex[f].m>> \in Home[g]
    PROVE  \A f \in Exec : f # e /\ ex[f].pc \in Late => Safe(f, ex[f].co, ex[f].m)'
<1> TAKE f \in Exec
<1> HAVE f # e /\ ex[f].pc \in Late
<1> DEFINE c == ex[f].co
           m == ex[f].m
<1>1. Safe(f, c, m)
  BY DEF HomeInv
<1>2. /\ held'[c] = held[c]
      /\ at'[c] = at[c] \/ at'[c] = "dropped"
      /\ \A g \in Exec : <<c, m>> \in Hands'[g] => <<c, m>> \in Hands[g]
      /\ \A g \in Exec : g # f /\ <<c, m>> \in Home'[g] => <<c, m>> \in Home[g]
  OBVIOUS
<1>3. ex'[f] = ex[f] /\ c \in Co /\ m \in Nat
  BY ExecutorType DEF Late
<1>4. ASSUME NEW d \in Co, NEW k \in Nat, d = c, k = m PROVE Safe(f, d, k)'
  <2>1. Safe(f, d, k)
    BY <1>1, <1>4
  <2>2. /\ held'[d] = held[d]
        /\ at'[d] = at[d] \/ at'[d] = "dropped"
        /\ \A g \in Exec : <<d, k>> \in Hands'[g] => <<d, k>> \in Hands[g]
        /\ \A g \in Exec : g # f /\ <<d, k>> \in Home'[g] => <<d, k>> \in Home[g]
    BY <1>2, <1>4
  <2> HIDE DEF c, m
  <2> QED
    BY <2>1, <2>2 DEF Safe
<1>5. Safe(f, c, m)'
  <2>1. c' = c /\ m' = m
    BY <1>3
  <2> HIDE DEF c, m
  <2>2. \E d \in Co, k \in Nat : d = c /\ k = m
    BY <1>3
  <2> QED
    BY <1>4, <2>1, <2>2 DEF Safe
<1> QED
  BY <1>5

(* A running coroutine is about to be resumed, or waits in lock(), nowhere. *)
LEMMA RunnerNowhere ==
    ASSUME TypeOK, PlaceInv, CallerInv, HomeInv, NEW e \in Exec, ex[e].pc = "run",
           NEW f \in Exec, ex[f].pc = "resume" \/ ex[f].pc \in Late
    PROVE  ex[f].co # ex[e].co
<1>1. held[ex[e].co] = 0
  BY RunnerAlone
<1>2. ex[f].co \in Co /\ ex[f].n \in Nat
  BY ExecutorType DEF Late
<1>3. CASE ex[f].pc = "resume"
  <2>1. <<ex[f].co, ex[f].n>> \in Used
    BY <1>3, HandsOf DEF PlaceInv, Apart
  <2> QED
    BY <1>1, <1>2, <1>3, <2>1, UsedCells DEF HomeInv
<1>4. CASE ex[f].pc \in Late
  BY <1>1, <1>4 DEF HomeInv, Safe, CallerInv, SecondHalf, Late
<1> QED
  BY <1>3, <1>4

(* A step of a running coroutine c moves its own cells only. *)
LEMMA RunnerHome ==
    ASSUME TypeOK, PlaceInv, CallerInv, HomeInv, fault' = fault,
           NEW e \in Exec, ex[e].pc = "run", NEW c \in Co, c = ex[e].co,
           \A f \in Exec : f # e => ex'[f] = ex[f],
           ex'[e].pc # "resume", ex'[e].pc \notin Late,
           \A d \in Co : d # c => held'[d] = held[d] /\ (at'[d] = at[d] \/ at'[d] = "dropped"),
           \A g \in Exec : \A d \in Co : \A k \in Nat : d # c /\ <<d, k>> \in Hands'[g] => <<d, k>> \in Hands[g],
           \A g \in Exec : \A d \in Co : \A k \in Nat : d # c /\ <<d, k>> \in Home'[g] => <<d, k>> \in Home[g]
    PROVE  HomeInv'
<1>1. \A f \in Exec : f # e /\ (ex[f].pc = "resume" \/ ex[f].pc \in Late) => ex[f].co # c
  BY RunnerNowhere
<1>2. \A f \in Exec : (ex[f].pc = "resume" \/ ex[f].pc \in Late) => ex[f].co \in Co /\ ex[f].m \in Nat
  BY ExecutorType DEF Late
<1>3. \A f \in Exec : f # e /\ ex[f].pc \in Late =>
               /\ held'[ex[f].co] = held[ex[f].co]
               /\ at'[ex[f].co] = at[ex[f].co] \/ at'[ex[f].co] = "dropped"
               /\ \A g \in Exec : <<ex[f].co, ex[f].m>> \in Hands'[g] => <<ex[f].co, ex[f].m>> \in Hands[g]
               /\ \A g \in Exec : g # f /\ <<ex[f].co, ex[f].m>> \in Home'[g] => <<ex[f].co, ex[f].m>> \in Home[g]
  BY <1>1, <1>2
<1>4. \A f \in Exec : f # e /\ ex[f].pc \in Late => Safe(f, ex[f].co, ex[f].m)'
  BY <1>3, OthersSafe
<1>5. fault' = "none"
  BY DEF HomeInv
<1> QED
  BY <1>1, <1>2, <1>4, <1>5, HomeStep

LEMMA HandsSame == ASSUME ex' = ex PROVE Hands' = Hands
BY DEF Hands, InHand

LEMMA HomeUnmoved == ASSUME UNCHANGED <<waiters, tasks>> PROVE Home' = Home
BY DEF Home, FromHere, Queued

LEMMA HomeSame ==
    ASSUME HomeInv, UNCHANGED <<fault, ex, held, at, tasks, waiters>> PROVE HomeInv'
BY HandsSame, HomeUnmoved DEF HomeInv, Safe

LEMMA DeclareHome ==
    ASSUME TypeOK, PlaceInv, CallerInv, HomeInv, NEW e \in Exec, Declare(e) PROVE HomeInv'
<1>1. ex[e].co \in Co /\ ex[e].pc = "run" /\ UNCHANGED <<fault, ex, held, tasks, waiters>>
  BY ExecutorType DEF Declare, Runs
<1>2. \A d \in Co : d # ex[e].co => at'[d] = at[d]
  BY DEF Declare, TypeOK
<1> QED
  BY <1>1, <1>2, HandsSame, HomeUnmoved, RunnerHome DEF Late

LEMMA UnlockHome ==
    ASSUME TypeOK, PlaceInv, CallerInv, HomeInv, NEW e \in Exec, Unlock(e) PROVE HomeInv'
<1>1. ex[e].co \in Co /\ ex[e].pc = "run" /\ UNCHANGED <<fault, ex, held, tasks, waiters>>
  BY ExecutorType DEF Unlock, Runs
<1>2. \A d \in Co : d # ex[e].co => at'[d] = at[d]
  BY DEF Unlock, TypeOK
<1> QED
  BY <1>1, <1>2, HandsSame, HomeUnmoved, RunnerHome DEF Late

LEMMA FinishHome ==
    ASSUME TypeOK, PlaceInv, CallerInv, HomeInv, NEW e \in Exec, Finish(e) PROVE HomeInv'
<1>1. ex[e].co \in Co /\ ex[e].pc = "run" /\ UNCHANGED <<fault, held, tasks, waiters>>
  BY ExecutorType DEF Finish, Runs
<1>2. \A d \in Co : d # ex[e].co => at'[d] = at[d]
  BY DEF Finish, TypeOK
<1>3. /\ ex'[e].pc = "idle" /\ Hands'[e] = {}
      /\ \A f \in Exec : f # e => ex'[f] = ex[f] /\ Hands'[f] = Hands[f]
  BY HandsStep DEF Finish, IdleExecutor, TypeOK
<1>4. \A g \in Exec : Hands'[g] \subseteq Hands[g]
  BY <1>3
<1> QED
  BY <1>1, <1>2, <1>3, <1>4, HomeUnmoved, RunnerHome DEF Late

LEMMA FirstCasHome ==
    ASSUME TypeOK, PlaceInv, CallerInv, HomeInv, NEW e \in Exec, FirstCas(e) PROVE HomeInv'
<1> DEFINE c == ex[e].co
           m == cells[c] + 1
           r == [pc |-> "push", co |-> c, n |-> ex[e].n, m |-> m]
<1>1. c \in Co /\ ex[e].pc = "run" /\ UNCHANGED <<fault, tasks, waiters>>
  BY ExecutorType DEF FirstCas, Runs
<1>2. \A d \in Co : d # c => at'[d] = at[d] /\ held'[d] = held[d]
  BY FirstCasCases DEF Takes, Suspends, TypeOK
<1>3. CASE Suspends(e)
  <2>1. ex' = [ex EXCEPT ![e] = r] /\ r.pc = "push" /\ r.co = c /\ r.n = ex[e].n /\ r.m = m
    BY <1>3 DEF Suspends
  <2> HIDE DEF c, m, r
  <2>2. /\ ex'[e].pc = "push" /\ Hands'[e] = {<<c, ex[e].n>>, <<c, m>>}
        /\ \A f \in Exec : f # e => ex'[f] = ex[f] /\ Hands'[f] = Hands[f]
    BY <2>1, HandsStep, OneStep
  <2>3. \A g \in Exec : \A d \in Co : \A k \in Nat : d # c /\ <<d, k>> \in Hands'[g] => <<d, k>> \in Hands[g]
    BY <2>2
  <2> QED
    BY <1>1, <1>2, <2>2, <2>3, HomeUnmoved, RunnerHome DEF Late, c
<1>4. CASE Takes(e)
  <2>1. ex' = ex
    BY <1>4 DEF Takes
  <2> QED
    BY <1>1, <1>2, <2>1, HandsSame, HomeUnmoved, RunnerHome DEF Late
<1> QED
  BY <1>3, <1>4, FirstCasCases

LEMMA YieldHome ==
    ASSUME TypeOK, PlaceInv, CallerInv, HomeInv, NEW e \in Exec, Yield(e) PROVE HomeInv'
<1> DEFINE c == ex[e].co
           t == [co |-> c, n |-> ex[e].n]
<1>1. c \in Co /\ ex[e].n \in Nat /\ ex[e].pc = "run" /\ UNCHANGED <<fault, waiters>>
  BY ExecutorType DEF Yield, Runs
<1>2. \A d \in Co : d # c => at'[d] = at[d] /\ held'[d] = held[d]
  BY DEF Yield, TypeOK
<1>3. /\ ex'[e].pc = "idle" /\ Hands'[e] = {}
      /\ \A f \in Exec : f # e => ex'[f] = ex[f] /\ Hands'[f] = Hands[f]
  BY HandsStep DEF Yield, IdleExecutor, TypeOK
<1>4. \A g \in Exec : Hands'[g] \subseteq Hands[g]
  BY <1>3
<1>5. t \in Task /\ tasks[e] \in Seq(Task) /\ CellOf(t) = <<c, ex[e].n>>
  BY <1>1 DEF Task, CellOf, TypeOK
<1>6. \A g \in Exec : Queued'[g] \subseteq Queued[g] \cup {<<c, ex[e].n>>}
  <2>1. CASE UNCHANGED tasks
    BY <2>1 DEF Queued
  <2>2. CASE tasks' = [tasks EXCEPT ![e] = Append(tasks[e], t)]
    <3>1. CellsOf(Append(tasks[e], t)) = CellsOf(tasks[e]) \cup {CellOf(t)}
      BY <1>5, AppendCells
    <3> DEFINE s == Append(tasks[e], t)
    <3>2. tasks' = [tasks EXCEPT ![e] = s]
      BY <2>2
    <3> HIDE DEF s, t
    <3>3. Queued'[e] = CellsOf(s) /\ \A f \in Exec : f # e => Queued'[f] = Queued[f]
      BY <3>2, QueueStep
    <3> QED
      BY <1>5, <3>1, <3>3 DEF Queued, s
  <2> QED
    BY <2>1, <2>2 DEF Yield
<1>7. \A g \in Exec : Home'[g] \subseteq Home[g] \cup {<<c, ex[e].n>>}
  BY <1>1, <1>6 DEF Home, FromHere
<1> HIDE DEF t
<1>8. \A g \in Exec : \A d \in Co : \A k \in Nat : d # c /\ <<d, k>> \in Home'[g] => <<d, k>> \in Home[g]
  BY <1>7
<1> QED
  BY <1>1, <1>2, <1>3, <1>4, <1>8, RunnerHome DEF Late

LEMMA WakeOneHome ==
    ASSUME TypeOK, PlaceInv, CallerInv, HomeInv, NEW e \in Exec, WakeOne(e) PROVE HomeInv'
<1> DEFINE c == ex[e].co
           w == Head(waiters)
           t == [co |-> w.co, n |-> w.n]
           s == Append(tasks[w.tq], t)
<1>1. c \in Co /\ ex[e].pc = "run" /\ UNCHANGED <<fault, ex, held>>
  BY ExecutorType DEF WakeOne, Runs
<1>2. \A d \in Co : d # c => at'[d] = at[d] \/ at'[d] = "dropped"
  BY DEF WakeOne, EndRound, TypeOK
<1>3. \A g \in Exec : Home'[g] \subseteq Home[g]
  <2>1. CASE waiters = <<>>
    BY <2>1, HomeUnmoved DEF WakeOne
  <2>2. CASE waiters # <<>>
    <3>1. waiters' = Tail(waiters) /\ waiters \in Seq(Waiter)
      BY <2>2 DEF WakeOne, TypeOK
    <3>2. w \in Waiter /\ 1 \in DOMAIN waiters /\ w = waiters[1]
      <4>1. w \in Waiter
        BY <2>2, <3>1, SeqFacts
      <4> QED
        BY <2>2, <3>1, <4>1
    <3>3. \A i \in DOMAIN waiters' : i + 1 \in DOMAIN waiters /\ waiters'[i] = waiters[i + 1]
      BY <2>2, <3>1
    <3>4. \A g \in Exec : FromHere(g)' \subseteq FromHere(g)
      BY <3>3 DEF FromHere
    <3>5. w.tq \in Exec /\ t \in Task /\ CellOf(t) = CellOf(w) /\ CellOf(w) \in FromHere(w.tq)
      BY <3>2 DEF Waiter, Task, CellOf, FromHere
    <3>6. CASE UNCHANGED tasks
      BY <3>4, <3>6 DEF Home, Queued
    <3>7. CASE tasks' = [tasks EXCEPT ![w.tq] = s]
      <4>1. tasks[w.tq] \in Seq(Task)
        BY <3>5 DEF TypeOK
      <4>2. CellsOf(s) = CellsOf(tasks[w.tq]) \cup {CellOf(w)}
        BY <3>5, <4>1, AppendCells
      <4> HIDE DEF s, t, w
      <4>3. Queued'[w.tq] = CellsOf(s) /\ \A f \in Exec : f # w.tq => Queued'[f] = Queued[f]
        BY <3>5, <3>7, QueueStep
      <4>4. \A g \in Exec : Queued'[g] \subseteq Queued[g] \cup FromHere(g)
        BY <3>5, <4>2, <4>3 DEF Queued
      <4> QED
        BY <3>4, <4>4 DEF Home
    <3> QED
      BY <2>2, <3>6, <3>7 DEF WakeOne, Schedule
  <2> QED
    BY <2>1, <2>2
<1> QED
  BY <1>1, <1>2, <1>3, HandsSame, RunnerHome DEF Late

LEMMA DequeueHome ==
    ASSUME TypeOK, PlaceInv, HomeInv, NEW e \in Exec, Dequeue(e) PROVE HomeInv'
<1> DEFINE t == Head(tasks[e])
           r == [pc |-> "resume", co |-> t.co, n |-> t.n, m |-> 0]
<1>1. ex[e].pc = "idle" /\ UNCHANGED <<fault, at, held, waiters>>
  BY DEF Dequeue
<1>2. tasks[e] \in Seq(Task) /\ tasks[e] # <<>> /\ Once(tasks[e])
  BY DEF Dequeue, TypeOK, PlaceInv
<1>3. CellOf(t) \in Queued[e] /\ \A g \in Exec : Queued'[g] \subseteq Queued[g]
  <2>1. /\ CellOf(Head(tasks[e])) \in CellsOf(tasks[e])
        /\ CellsOf(Tail(tasks[e])) \subseteq CellsOf(tasks[e])
    BY <1>2, TailCells
  <2> DEFINE s == Tail(tasks[e])
  <2>2. tasks' = [tasks EXCEPT ![e] = s]
    BY DEF Dequeue
  <2> HIDE DEF s
  <2>3. Queued'[e] = CellsOf(s) /\ \A f \in Exec : f # e => Queued'[f] = Queued[f]
    BY <2>2, QueueStep
  <2> QED
    BY <2>1, <2>3 DEF Queued, s
<1> HIDE DEF t
<1>4. CellOf(t) \in Home[e] /\ \A g \in Exec : Home'[g] \subseteq Home[g]
  BY <1>1, <1>3 DEF Home, FromHere
<1>5. Hands[e] = {} /\ Hands'[e] \subseteq {CellOf(t)}
      /\ (ex'[e].pc = "resume" => held'[ex'[e].co] = ex'[e].n)
      /\ ex'[e].pc \in {"idle", "resume"}
      /\ \A f \in Exec : f # e => ex'[f] = ex[f] /\ Hands'[f] = Hands[f]
  <2>1. CASE ex' = ex
    BY <1>1, <2>1, HandsSame, HandsOf
  <2>2. CASE ex' = [ex EXCEPT ![e] = r] /\ Valid(t)
    <3>1. r.pc = "resume" /\ r.co = t.co /\ r.n = t.n
      OBVIOUS
    <3> HIDE DEF r
    <3>2. ex'[e] = r /\ \A f \in Exec : f # e => ex'[f] = ex[f]
      BY <2>2, OneStep
    <3>a. ex' = [ex EXCEPT ![e] = r]
      BY <2>2
    <3>b. /\ r.pc \notin {"idle", "push"} => Hands'[e] = {<<r.co, r.n>>}
          /\ \A f \in Exec : f # e => Hands'[f] = Hands[f]
      BY <3>a, HandsStep
    <3>3. /\ Hands'[e] = {<<t.co, t.n>>}
          /\ \A f \in Exec : f # e => Hands'[f] = Hands[f]
      BY <3>1, <3>b
    <3> QED
      BY <1>1, <2>2, <3>1, <3>2, <3>3, HandsOf DEF Valid, CellOf
  <2> QED
    BY <2>1, <2>2 DEF Dequeue, Take, t
<1>6. ASSUME NEW f \in Exec, f # e, ex[f].pc \in Late PROVE <<ex[f].co, ex[f].m>> # CellOf(t)
  <2>1. \A g \in Exec : g # f => <<ex[f].co, ex[f].m>> \notin Home[g]
    BY <1>6 DEF HomeInv, Safe
  <2> QED
    BY <1>4, <1>6, <2>1
<1>7. \A f \in Exec : f # e /\ ex[f].pc \in Late =>
               /\ \A g \in Exec : <<ex[f].co, ex[f].m>> \in Hands'[g] => <<ex[f].co, ex[f].m>> \in Hands[g]
               /\ \A g \in Exec : g # f /\ <<ex[f].co, ex[f].m>> \in Home'[g] => <<ex[f].co, ex[f].m>> \in Home[g]
  BY <1>4, <1>5, <1>6
<1>8. \A f \in Exec : f # e /\ ex[f].pc \in Late => Safe(f, ex[f].co, ex[f].m)'
  BY <1>1, <1>5, <1>7, OthersSafe
<1>9. fault' = "none"
  BY <1>1 DEF HomeInv
<1> QED
  BY <1>1, <1>5, <1>8, <1>9, HomeStep DEF Late

(* A coroutine leaves its cell, or its last reference is dropped, by an executor
   that has the cell in hand or is safe with it: no other executor is concerned. *)
LEMMA LeaveHome ==
    ASSUME TypeOK, CallerInv, HomeInv, fault' = fault, NEW e \in Exec,
           \A f \in Exec : f # e => ex'[f] = ex[f],
           ex'[e].pc # "resume", ex'[e].pc \notin Late,
           NEW c \in Co, \A d \in Co : d # c => held'[d] = held[d] /\ at'[d] = at[d],
           \A f \in Exec : f # e /\ (ex[f].pc = "resume" \/ ex[f].pc \in Late) => ex[f].co # c,
           \A g \in Exec : Hands'[g] \subseteq Hands[g],
           UNCHANGED <<waiters, tasks>>
    PROVE  HomeInv'
<1>1. \A f \in Exec : (ex[f].pc = "resume" \/ ex[f].pc \in Late) => ex[f].co \in Co
  BY ExecutorType DEF Late
<1>2. Home' = Home
  BY HomeUnmoved
<1>3. \A f \in Exec : f # e /\ ex[f].pc \in Late => Safe(f, ex[f].co, ex[f].m)'
  BY <1>1, <1>2, OthersSafe
<1>4. fault' = "none"
  BY DEF HomeInv
<1> QED
  BY <1>1, <1>3, <1>4, HomeStep

LEMMA ResumeHome ==
    ASSUME TypeOK, PlaceInv, CallerInv, HomeInv, NEW e \in Exec, Resume(e) PROVE HomeInv'
<1> DEFINE c == ex[e].co
           n == ex[e].n
<1>0. c \in Co /\ ex[e].pc = "resume" /\ held[c] = n /\ UNCHANGED <<at, tasks, waiters>>
  BY ExecutorType DEF Resume, HomeInv
<1>4. <<c, n>> \in Hands[e]
  BY <1>0, HandsOf
<1>a. ASSUME NEW f \in Exec, ex[f].pc \in Late, ex[f].co = c PROVE FALSE
  <2>1. Safe(f, ex[f].co, ex[f].m)
    BY <1>a DEF HomeInv
  <2>2. ex[f].m = n /\ <<ex[f].co, ex[f].m>> \notin Hands[e]
    BY <1>0, <1>a, <2>1 DEF Safe
  <2> QED
    BY <1>4, <1>a, <2>2
<1>b. ~Raced(e)
  <2> SUFFICES ASSUME NEW f \in Exec, ex[f].pc = "move", ex[f].co = c PROVE FALSE
    BY DEF Raced
  <2> QED
    BY <1>a DEF Late
<1>1. /\ ex' = [ex EXCEPT ![e].pc = "run"] /\ held' = [held EXCEPT ![c] = 0]
      /\ UNCHANGED fault
  BY <1>0, <1>b DEF Resume, Valid
<1>2. /\ ex'[e].pc = "run" /\ ex'[e].co = ex[e].co /\ ex'[e].n = ex[e].n
      /\ \A f \in Exec : f # e => ex'[f] = ex[f]
  BY <1>1, ExecutorType DEF TypeOK, Executor
<1>3. \A d \in Co : d # c => held'[d] = held[d]
  BY <1>1 DEF TypeOK
<1>5. \A g \in Exec : Hands'[g] = Hands[g]
  BY <1>0, <1>2, HandsKept
<1> HIDE DEF c, n
<1>6. ASSUME NEW f \in Exec, f # e, ex[f].pc = "resume", ex[f].co = c PROVE FALSE
  <2>1. ex[f].n = n
    BY <1>0, <1>6 DEF HomeInv
  <2>2. <<c, n>> \in Hands[f]
    BY <1>6, <2>1, HandsOf
  <2> QED
    BY <1>4, <1>6, <2>2 DEF PlaceInv, Apart
<1>7. \A f \in Exec : f # e /\ (ex[f].pc = "resume" \/ ex[f].pc \in Late) => ex[f].co # c
  BY <1>6, <1>a
<1> QED
  BY <1>0, <1>1, <1>2, <1>3, <1>5, <1>7, LeaveHome DEF Late

(* Two executors in the second half of lock() have different callers. *)
LEMMA OtherCaller ==
    ASSUME TypeOK, CallerInv, HomeInv, NEW e \in Exec, ex[e].pc \in SecondHalf,
           held[ex[e].co] = ex[e].m, NEW f \in Exec, f # e, ex[f].pc \in Late
    PROVE  ex[f].co # ex[e].co
<1>1. held[ex[f].co] = ex[f].m
  BY DEF HomeInv, Safe
<1> QED
  BY <1>1 DEF CallerInv, SecondHalf, Late

LEMMA PushHome ==
    ASSUME TypeOK, PlaceInv, CallerInv, SuspendInv, HomeInv, NEW e \in Exec, Push(e) PROVE HomeInv'
<1> DEFINE c == ex[e].co
           n == ex[e].n
           m == ex[e].m
<1>0. /\ c \in Co /\ ex[e].pc = "push" /\ held[c] = m /\ m \in Nat /\ n \in Nat /\ m # n
      /\ at[c] = "lock" /\ UNCHANGED <<fault, tasks>>
  BY ExecutorType DEF Push, CallerInv, PlaceInv, SuspendInv
<1>1. \A f \in Exec : f # e /\ ex[f].pc \in Late => ex[f].co # c
  BY <1>0, OtherCaller DEF SecondHalf
<1>2. Hands[e] = {<<c, n>>, <<c, m>>}
  BY <1>0, HandsOf
<1>3. \A f \in Exec : <<c, m>> \notin Queued[f] /\ (f # e => <<c, m>> \notin Hands[f]) /\ <<c, m>> \notin Waiting
  BY <1>2 DEF PlaceInv, Apart
<1>4. CASE Len(waiters) < WaitCap
  <2> DEFINE x == [co |-> c, n |-> m, tq |-> e]
             r == [ex[e] EXCEPT !.pc = "clear"]
  <2>1. /\ waiters' = Append(waiters, x) /\ ex' = [ex EXCEPT ![e] = r]
        /\ UNCHANGED <<held, at>>
    BY <1>4 DEF Push
  <2>2. r.pc = "clear" /\ r.co = c /\ r.n = n /\ r.m = m
    BY ExecutorType DEF Executor
  <2>3. waiters \in Seq(Waiter) /\ x \in Waiter /\ CellOf(x) = <<c, m>> /\ x.tq = e
    BY <1>0 DEF TypeOK, Waiter, CellOf
  <2> HIDE DEF c, n, m, x, r
  <2>4. /\ ex'[e].pc = "clear" /\ ex'[e].co = c /\ ex'[e].m = m
        /\ \A f \in Exec : f # e => ex'[f] = ex[f]
    BY <2>1, <2>2, OneStep
  <2>5. Hands'[e] = {<<c, n>>} /\ \A f \in Exec : f # e => Hands'[f] = Hands[f]
    BY <2>1, <2>2, HandsStep
  <2>6. /\ \A i \in DOMAIN waiters' : (i \in DOMAIN waiters /\ waiters'[i] = waiters[i]) \/ waiters'[i] = x
    BY <2>1, <2>3
  <2>7. /\ \A f \in Exec : Home'[f] \subseteq Home[f] \cup {<<c, m>>}
        /\ \A f \in Exec : f # e => Home'[f] \subseteq Home[f]
    <3>1. Queued' = Queued
      BY <1>0 DEF Queued
    <3> QED
      BY <2>3, <2>6, <3>1 DEF Home, FromHere
  <2>8. \A f \in Exec : f # e /\ ex[f].pc \in Late =>
               /\ \A g \in Exec : <<ex[f].co, ex[f].m>> \in Hands'[g] => <<ex[f].co, ex[f].m>> \in Hands[g]
               /\ \A g \in Exec : g # f /\ <<ex[f].co, ex[f].m>> \in Home'[g] => <<ex[f].co, ex[f].m>> \in Home[g]
    BY <1>1, <1>2, <2>5, <2>7
  <2>9. \A f \in Exec : f # e /\ ex[f].pc \in Late => Safe(f, ex[f].co, ex[f].m)'
    BY <2>1, <2>4, <2>8, OthersSafe
  <2>10. \A f \in Exec : <<c, m>> \notin Hands'[f] /\ (f # e => <<c, m>> \notin Home'[f])
    BY <1>0, <1>3, <2>5, <2>7, HomeSubset
  <2>11. held'[c] = m /\ at'[c] = "lock"
    BY <1>0, <2>1
  <2>12. Safe(e, ex[e].co, ex[e].m)'
    BY <2>4, <2>10, <2>11 DEF Safe
  <2>13. fault' = "none" /\ c = ex[e].co /\ m = ex[e].m
    BY <1>0 DEF HomeInv, c, m
  <2>14. ex'[e].pc # "resume" /\ \A f \in Exec : held'[ex[f].co] = held[ex[f].co]
    BY <2>1, <2>4
  <2> QED
    BY <2>4, <2>9, <2>12, <2>13, <2>14, HomeStep
<1>5. CASE ~(Len(waiters) < WaitCap)
  <2>1. /\ ex' = [ex EXCEPT ![e] = IdleExecutor] /\ held' = [held EXCEPT ![c] = 0]
        /\ at' = [at EXCEPT ![c] = "lost"] /\ UNCHANGED waiters
    BY <1>5 DEF Push
  <2>2. /\ ex'[e].pc = "idle" /\ Hands'[e] = {}
        /\ \A f \in Exec : f # e => ex'[f] = ex[f] /\ Hands'[f] = Hands[f]
    BY <2>1, HandsStep DEF IdleExecutor, TypeOK
  <2>3. \A d \in Co : d # c => held'[d] = held[d] /\ at'[d] = at[d]
    BY <2>1 DEF TypeOK
  <2> HIDE DEF c, n, m
  <2>4. ASSUME NEW f \in Exec, f # e, ex[f].pc = "resume", ex[f].co = c PROVE FALSE
    <3>1. <<c, m>> \in Hands[f]
      BY <1>0, <2>4, HandsOf DEF HomeInv
    <3> QED
      BY <1>3, <2>4, <3>1
  <2>5. \A f \in Exec : f # e /\ (ex[f].pc = "resume" \/ ex[f].pc \in Late) => ex[f].co # c
    BY <1>1, <2>4
  <2>6. \A g \in Exec : Hands'[g] \subseteq Hands[g]
    BY <2>2
  <2> QED
    BY <1>0, <2>1, <2>2, <2>3, <2>5, <2>6, LeaveHome DEF Late
<1> QED
  BY <1>4, <1>5

LEMMA MoveCallerHome ==
    ASSUME TypeOK, PlaceInv, CallerInv, HomeInv, NEW e \in Exec, MoveCaller(e) PROVE HomeInv'
<1> DEFINE c == ex[e].co
           m == ex[e].m
           r == [pc |-> "run", co |-> c, n |-> ex[e].n, m |-> 0]
<1>0. c \in Co /\ ex[e].pc = "move" /\ Safe(e, c, m)
  BY ExecutorType DEF MoveCaller, HomeInv, Late
<1>1. /\ ex' = [ex EXCEPT ![e] = r] /\ held' = [held EXCEPT ![c] = 0]
      /\ at' = [at EXCEPT ![c] = "cs"]
      /\ UNCHANGED <<fault, tasks, waiters>> /\ held[c] = m
  BY <1>0 DEF MoveCaller, Safe
<1>2. r.pc = "run" /\ r.co = c /\ r.n = ex[e].n
  OBVIOUS
<1>3. \A d \in Co : d # c => held'[d] = held[d] /\ at'[d] = at[d]
  BY <1>1 DEF TypeOK
<1>4. \A f \in Exec : f # e /\ ex[f].pc \in Late => ex[f].co # c
  BY <1>0, <1>1, OtherCaller DEF SecondHalf
<1>5. Hands[e] = {<<c, ex[e].n>>}
  BY <1>0, HandsOf
<1> HIDE DEF c, m, r
<1>6. /\ ex'[e].pc = "run" /\ \A f \in Exec : f # e => ex'[f] = ex[f]
  BY <1>1, <1>2, OneStep
<1>7. \A g \in Exec : Hands'[g] = Hands[g]
  BY <1>1, <1>2, <1>5, HandsStep
<1>8. ASSUME NEW f \in Exec, ex[f].pc = "resume", ex[f].co = c PROVE FALSE
  <2>1. <<c, m>> \in Hands[f]
    BY <1>1, <1>8, HandsOf DEF HomeInv
  <2> QED
    BY <1>0, <2>1 DEF Safe
<1>9. \A f \in Exec : f # e /\ (ex[f].pc = "resume" \/ ex[f].pc \in Late) => ex[f].co # c
  BY <1>4, <1>8
<1> QED
  BY <1>0, <1>1, <1>3, <1>6, <1>7, <1>9, LeaveHome DEF Late

(* A step of the second half that moves no cell. *)
LEMMA LateHome ==
    ASSUME TypeOK, HomeInv, fault' = "none", NEW e \in Exec, ex[e].pc \in Late,
           \E pc \in Late : ex' = [ex EXCEPT ![e].pc = pc],
           UNCHANGED <<held, at, tasks, waiters>>
    PROVE  HomeInv'
<1>1. /\ ex'[e].co = ex[e].co /\ ex'[e].n = ex[e].n /\ ex'[e].m = ex[e].m
      /\ \A f \in Exec : f # e => ex'[f] = ex[f]
  BY PcStep DEF ExPc, Late
<1>2. ex'[e].pc \in Late
  BY ExecutorType DEF TypeOK, Executor
<1>3. \A g \in Exec : Hands'[g] = Hands[g]
  BY <1>1, <1>2, HandsKept DEF Late
<1>4. Home' = Home
  BY HomeUnmoved
<1>5. \A f \in Exec : f # e /\ ex[f].pc \in Late => Safe(f, ex[f].co, ex[f].m)'
  BY <1>1, <1>3, <1>4, OthersSafe
<1>6. Safe(e, ex[e].co, ex[e].m)
  BY DEF HomeInv
<1>7. Safe(e, ex[e].co, ex[e].m)'
  BY <1>1, <1>3, <1>4, <1>6 DEF Safe
<1> QED
  BY <1>1, <1>2, <1>5, <1>7, HomeStep DEF Late

(* The second half ends. *)
LEMMA LateEndsHome ==
    ASSUME TypeOK, HomeInv, fault' = "none", NEW e \in Exec,
           ex' = [ex EXCEPT ![e] = IdleExecutor],
           UNCHANGED <<held, at, tasks, waiters>>
    PROVE  HomeInv'
<1>1. /\ ex'[e].pc = "idle" /\ Hands'[e] = {}
      /\ \A f \in Exec : f # e => ex'[f] = ex[f] /\ Hands'[f] = Hands[f]
  BY HandsStep DEF IdleExecutor, TypeOK
<1>2. \A g \in Exec : Hands'[g] \subseteq Hands[g]
  BY <1>1
<1>3. \A f \in Exec : f # e /\ ex[f].pc \in Late => Safe(f, ex[f].co, ex[f].m)'
  BY <1>1, <1>2, HomeUnmoved, OthersSafe
<1> QED
  BY <1>1, <1>3, HomeStep DEF Late

(* The frame that the second half writes to is there. *)
LEMMA FrameThere ==
    ASSUME HomeInv, NEW e \in Exec, ex[e].pc \in Late
    PROVE  FrameAlive(e) /\ at[ex[e].co] \in {"lock", "dropped"} /\ held[ex[e].co] = ex[e].m
BY DEF HomeInv, Safe, FrameAlive

LEMMA ClearExpectedHome ==
    ASSUME TypeOK, HomeInv, NEW e \in Exec, ClearExpected(e) PROVE HomeInv'
<1>1. ex[e].pc \in Late /\ UNCHANGED <<held, at, tasks, waiters>>
  BY DEF ClearExpected, Late
<1>2. fault' = "none" /\ ex' = [ex EXCEPT ![e].pc = "cas"]
  BY <1>1, FrameThere DEF ClearExpected, WriteExpected, HomeInv
<1> QED
  BY <1>1, <1>2, LateHome DEF Late

LEMMA StoreSeenHome ==
    ASSUME TypeOK, HomeInv, NEW e \in Exec, StoreSeen(e) PROVE HomeInv'
<1>1. ex[e].pc \in Late /\ UNCHANGED <<held, at, tasks, waiters>>
  BY DEF StoreSeen, Late
<1>2. fault' = "none" /\ ex' = [ex EXCEPT ![e] = IdleExecutor]
  BY <1>1, FrameThere DEF StoreSeen, WriteExpected, HomeInv
<1> QED
  BY <1>1, <1>2, LateEndsHome

LEMMA SecondCasHome ==
    ASSUME TypeOK, HomeInv, NEW e \in Exec, SecondCas(e) PROVE HomeInv'
<1>1. ex[e].pc \in Late /\ UNCHANGED <<fault, held, at, tasks, waiters>>
  BY DEF SecondCas, Late
<1>2. \E pc \in Late : ex' = [ex EXCEPT ![e].pc = pc]
  BY DEF SecondCas, Late
<1> QED
  BY <1>1, <1>2, LateHome DEF HomeInv

LEMMA CheckCallerHome ==
    ASSUME TypeOK, HomeInv, NEW e \in Exec, CheckCaller(e)
    PROVE  HomeInv' /\ Acquiring(e)'
<1>1. ex[e].pc \in Late /\ UNCHANGED <<held, at, tasks, waiters>>
  BY DEF CheckCaller, Late
<1>2. fault' = "none" /\ ex' = [ex EXCEPT ![e].pc = "move"]
  BY <1>1, FrameThere DEF CheckCaller, HomeInv
<1>3. HomeInv'
  BY <1>1, <1>2, LateHome DEF Late
<1>4. ex'[e].pc = "move"
  BY <1>2, ExecutorType DEF TypeOK, Executor
<1> QED
  BY <1>3, <1>4 DEF Acquiring

LEMMA HomeNext ==
    ASSUME TypeOK, PlaceInv, CallerInv, SuspendInv, ~steal, HomeInv, [Next]_vars PROVE HomeInv'
<1>1. CASE UNCHANGED vars
  BY <1>1, HomeSame DEF vars
<1>2. CASE AllFinished
  BY <1>2, HomeSame DEF AllFinished, vars
<1>3. ASSUME NEW e \in Exec, Run(e) PROVE HomeInv'
  <2>1. CASE WorkSteal(e)
    BY <2>1 DEF WorkSteal
  <2> QED
    BY <1>3, <2>1, DequeueHome, ResumeHome, DeclareHome, FirstCasHome, PushHome,
       ClearExpectedHome, SecondCasHome, StoreSeenHome, CheckCallerHome, MoveCallerHome,
       YieldHome, UnlockHome, WakeOneHome, FinishHome DEF Run, Step
<1> QED
  BY <1>1, <1>2, <1>3 DEF Next

NoStealInv == ~steal => HomeInv

LEMMA BuiltOnce == TypeOK /\ [Next]_vars => UNCHANGED steal
BY DEF Next, Run, AllFinished, vars

LEMMA NoStealHolds == Spec => []NoStealInv
<1>1. Init => NoStealInv
  BY DEF Init, NoStealInv, HomeInv, IdleExecutor, Late
<1>2. TypeOK /\ PlaceInv /\ ResumeInv /\ NoStealInv /\ [Next]_vars => NoStealInv'
  BY BuiltOnce, HomeNext DEF NoStealInv, ResumeInv
<1> QED
  BY <1>1, <1>2, PlaceHolds, ResumeInvHolds, TypeCorrect, PTL DEF Spec

(* Built without stealing, no continuation is resumed after it was moved away,
   lock() never finds that its caller has become invalid, and its second half
   never writes into a frame that is gone. *)
THEOREM NoNullResumeHolds == Spec => []NoNullResume
<1>1. NoStealInv => NoNullResume
  BY DEF NoStealInv, HomeInv, NoNullResume
<1> QED
  BY <1>1, NoStealHolds, PTL

-----------------------------------------------------------------------------
(* Without stealing, `expected` is private: both compare-and-swaps find in it the
   false that was stored just before, and succeed on a free lock only. *)

PrivateInv ==
    /\ \A c \in Co : at[c] = "try" => ~expected[c]
    /\ \A e \in Exec : ex[e].pc = "cas" => ~expected[ex[e].co]

(* A step that leaves the frames and the attempts of the others alone. *)
LEMMA PrivateSame ==
    ASSUME TypeOK, PrivateInv, UNCHANGED expected,
           \A c \in Co : at'[c] = "try" => at[c] = "try",
           \A e \in Exec : ex'[e].pc = "cas" => ex'[e] = ex[e]
    PROVE  PrivateInv'
BY DEF PrivateInv

(* A step that writes x to the frame of c. *)
LEMMA PrivateWrite ==
    ASSUME TypeOK, PrivateInv, NEW c \in Co, NEW x,
           expected' = [expected EXCEPT ![c] = x],
           \A d \in Co : d # c /\ at'[d] = "try" => at[d] = "try",
           at'[c] = "try" => x = FALSE,
           \A e \in Exec : ex'[e].pc = "cas" =>
               \/ ex'[e] = ex[e] /\ ex[e].co # c
               \/ x = FALSE /\ ex'[e].co = c
    PROVE  PrivateInv'
<1>1. expected'[c] = x /\ \A d \in Co : d # c => expected'[d] = expected[d]
  BY DEF TypeOK
<1>2. \A e \in Exec : ex[e].pc = "cas" => ex[e].co \in Co
  BY ExecutorType
<1>3. \A d \in Co : at'[d] = "try" => ~expected'[d]
  BY <1>1 DEF PrivateInv
<1>4. ASSUME NEW e \in Exec, ex'[e].pc = "cas" PROVE ~expected'[ex'[e].co]
  BY <1>1, <1>2, <1>4 DEF PrivateInv
<1> QED
  BY <1>3, <1>4 DEF PrivateInv

LEMMA DeclarePrivate ==
    ASSUME TypeOK, PrivateInv, PlaceInv, CallerInv, HomeInv, NEW e \in Exec, Declare(e)
    PROVE  PrivateInv'
<1> DEFINE c == ex[e].co
<1>1. /\ c \in Co /\ ex[e].pc = "run" /\ UNCHANGED ex
      /\ expected' = [expected EXCEPT ![c] = FALSE] /\ at' = [at EXCEPT ![c] = "try"]
  BY ExecutorType DEF Declare, Runs
<1>2. \A d \in Co : d # c => at'[d] = at[d]
  BY <1>1 DEF TypeOK
<1>3. \A f \in Exec : ex[f].pc = "cas" => ex[f].co # c
  BY <1>1, RunnerNowhere DEF Late
<1> HIDE DEF c
<1> QED
  BY <1>1, <1>2, <1>3, PrivateWrite

LEMMA FirstCasPrivate ==
    ASSUME TypeOK, PrivateInv, PlaceInv, CallerInv, HomeInv, NEW e \in Exec, FirstCas(e)
    PROVE  PrivateInv'
<1> DEFINE c == ex[e].co
           r == [pc |-> "push", co |-> c, n |-> ex[e].n, m |-> cells[c] + 1]
<1>1. c \in Co /\ ex[e].pc = "run"
  BY FirstCasCases, ExecutorType
<1>2. CASE Takes(e)
  <2>1. UNCHANGED <<ex, expected>> /\ \A d \in Co : at'[d] = "try" => at[d] = "try"
    BY <1>2 DEF Takes, TypeOK
  <2> QED
    BY <2>1, PrivateSame
<1>3. CASE Suspends(e)
  <2> DEFINE x == locked
  <2>1. /\ expected' = [expected EXCEPT ![c] = x] /\ at' = [at EXCEPT ![c] = "lock"]
        /\ ex' = [ex EXCEPT ![e] = r]
    BY <1>3 DEF Suspends
  <2>2. r.pc = "push"
    OBVIOUS
  <2>3. at'[c] = "lock" /\ \A d \in Co : d # c => at'[d] = at[d]
    BY <1>1, <2>1 DEF TypeOK
  <2>4. \A f \in Exec : ex[f].pc = "cas" => ex[f].co # c
    BY <1>1, RunnerNowhere DEF Late
  <2> HIDE DEF c, r, x
  <2>5. ex'[e] = r /\ \A f \in Exec : f # e => ex'[f] = ex[f]
    BY <2>1, OneStep
  <2>6. \A f \in Exec : ex'[f].pc = "cas" => ex'[f] = ex[f] /\ ex[f].co # c
    BY <2>2, <2>4, <2>5
  <2> QED
    <3>1. \A d \in Co : d # c /\ at'[d] = "try" => at[d] = "try"
      BY <2>3
    <3>2. at'[c] # "try"
      BY <2>3
    <3>3. c \in Co /\ expected' = [expected EXCEPT ![c] = x]
      BY <1>1, <2>1
    <3> HIDE DEF c, x
    <3> QED
      BY <2>6, <3>1, <3>2, <3>3, PrivateWrite
<1> QED
  BY <1>2, <1>3, FirstCasCases

LEMMA ClearExpectedPrivate ==
    ASSUME TypeOK, PrivateInv, CallerInv, HomeInv, NEW e \in Exec, ClearExpected(e)
    PROVE  PrivateInv'
<1> DEFINE c == ex[e].co
<1>1. c \in Co /\ ex[e].pc \in Late
  BY ExecutorType DEF ClearExpected, Late
<1>2. /\ expected' = [expected EXCEPT ![c] = FALSE]
      /\ ex' = [ex EXCEPT ![e].pc = "cas"] /\ UNCHANGED at
  BY <1>1, FrameThere DEF ClearExpected, WriteExpected
<1>3. \A f \in Exec : f # e /\ ex[f].pc = "cas" => ex[f].co # c
  BY <1>1, FrameThere, OtherCaller DEF SecondHalf, Late
<1>4. ex'[e].co = c /\ \A f \in Exec : f # e => ex'[f] = ex[f]
  BY <1>2, PcStep DEF ExPc
<1> HIDE DEF c
<1>5. \A f \in Exec : ex'[f].pc = "cas" => \/ ex'[f] = ex[f] /\ ex[f].co # c
                                           \/ ex'[f].co = c
  BY <1>3, <1>4
<1> QED
  BY <1>1, <1>2, <1>5, PrivateWrite

LEMMA StoreSeenPrivate ==
    ASSUME TypeOK, PrivateInv, CallerInv, HomeInv, NEW e \in Exec, StoreSeen(e)
    PROVE  PrivateInv'
<1> DEFINE c == ex[e].co
           x == ex[e].pc = "saw_set"
<1>1. c \in Co /\ ex[e].pc \in Late
  BY ExecutorType DEF StoreSeen, Late
<1>2. /\ expected' = [expected EXCEPT ![c] = x]
      /\ ex' = [ex EXCEPT ![e] = IdleExecutor] /\ UNCHANGED at
  BY <1>1, FrameThere DEF StoreSeen, WriteExpected
<1>3. \A f \in Exec : f # e /\ ex[f].pc = "cas" => ex[f].co # c
  BY <1>1, FrameThere, OtherCaller DEF SecondHalf, Late
<1>4. ex'[e].pc = "idle" /\ \A f \in Exec : f # e => ex'[f] = ex[f]
  BY <1>2 DEF IdleExecutor, TypeOK
<1>5. at'[c] # "try"
  BY <1>1, <1>2, FrameThere
<1> HIDE DEF c, x
<1>6. \A f \in Exec : ex'[f].pc = "cas" => ex'[f] = ex[f] /\ ex[f].co # c
  BY <1>3, <1>4
<1> QED
  BY <1>1, <1>2, <1>5, <1>6, PrivateWrite

LEMMA PrivateNext ==
    ASSUME TypeOK, PrivateInv, PlaceInv, CallerInv, HomeInv, ~steal, [Next]_vars
    PROVE  PrivateInv'
<1>1. CASE UNCHANGED vars
  BY <1>1, PrivateSame DEF vars
<1>2. CASE AllFinished
  BY <1>2, PrivateSame DEF AllFinished, vars
<1>3. ASSUME NEW e \in Exec, Run(e) PROVE PrivateInv'
  <2>1. CASE Dequeue(e)
    <3>1. UNCHANGED <<at, expected>> /\ \A f \in Exec : ex'[f].pc = "cas" => ex'[f] = ex[f]
      BY <2>1 DEF Dequeue, Take, TypeOK
    <3> QED
      BY <3>1, PrivateSame
  <2>2. CASE WorkSteal(e)
    BY <2>2 DEF WorkSteal
  <2>3. CASE Resume(e)
    <3>1. UNCHANGED <<at, expected>>
      BY <2>3 DEF Resume
    <3>2. \A f \in Exec : ex'[f].pc = "cas" => ex'[f] = ex[f]
      <4>1. UNCHANGED ex \/ ex' = [ex EXCEPT ![e].pc = "run"]
        BY <2>3 DEF Resume
      <4> QED
        BY <4>1, ExecutorType DEF TypeOK, Executor
    <3> QED
      BY <3>1, <3>2, PrivateSame
  <2>4. CASE Push(e)
    <3>1. UNCHANGED expected /\ \A d \in Co : at'[d] = "try" => at[d] = "try"
      BY <2>4 DEF Push, TypeOK
    <3>2. \A f \in Exec : ex'[f].pc = "cas" => ex'[f] = ex[f]
      <4>1. \/ ex' = [ex EXCEPT ![e].pc = "clear"]
            \/ ex' = [ex EXCEPT ![e] = IdleExecutor]
        BY <2>4 DEF Push
      <4> QED
        BY <4>1, ExecutorType DEF TypeOK, Executor, IdleExecutor
    <3> QED
      BY <3>1, <3>2, PrivateSame
  <2>5. CASE SecondCas(e)
    <3>1. UNCHANGED <<at, expected>>
      BY <2>5 DEF SecondCas
    <3>2. \A f \in Exec : ex'[f].pc = "cas" => ex'[f] = ex[f]
      <4>1. \E pc \in {"check", "saw_set", "saw_free"} : ex' = [ex EXCEPT ![e].pc = pc]
        BY <2>5 DEF SecondCas
      <4> QED
        BY <4>1, ExecutorType DEF TypeOK, Executor
    <3> QED
      BY <3>1, <3>2, PrivateSame
  <2>6. CASE CheckCaller(e) \/ MoveCaller(e)
    <3>1. UNCHANGED expected /\ \A d \in Co : at'[d] = "try" => at[d] = "try"
      BY <2>6 DEF CheckCaller, MoveCaller, TypeOK
    <3>2. \A f \in Exec : ex'[f].pc = "cas" => ex'[f] = ex[f]
      <4>1. \/ UNCHANGED ex
            \/ ex' = [ex EXCEPT ![e].pc = "move"]
            \/ ex' = [ex EXCEPT ![e] = IdleExecutor]
            \/ ex' = [ex EXCEPT ![e] = [pc |-> "run", co |-> ex[e].co, n |-> ex[e].n, m |-> 0]]
        BY <2>6 DEF CheckCaller, MoveCaller
      <4> QED
        BY <4>1, ExecutorType DEF TypeOK, Executor, IdleExecutor
    <3> QED
      BY <3>1, <3>2, PrivateSame
  <2>7. CASE Yield(e) \/ Finish(e)
    <3>1. UNCHANGED expected /\ \A d \in Co : at'[d] = "try" => at[d] = "try"
      BY <2>7 DEF Yield, Finish, TypeOK
    <3>2. ex' = [ex EXCEPT ![e] = IdleExecutor]
      BY <2>7 DEF Yield, Finish
    <3>3. \A f \in Exec : ex'[f].pc = "cas" => ex'[f] = ex[f]
      BY <3>2 DEF TypeOK, IdleExecutor
    <3> QED
      BY <3>1, <3>3, PrivateSame
  <2>8. CASE Unlock(e)
    <3>1. UNCHANGED <<ex, expected>> /\ \A d \in Co : at'[d] = "try" => at[d] = "try"
      BY <2>8 DEF Unlock, TypeOK
    <3> QED
      BY <3>1, PrivateSame
  <2>9. CASE WakeOne(e)
    <3>1. UNCHANGED <<ex, expected>>
      BY <2>9 DEF WakeOne
    <3>2. \A d \in Co : at'[d] = "try" => at[d] = "try"
      BY <2>9 DEF WakeOne, EndRound, TypeOK
    <3> QED
      BY <3>1, <3>2, PrivateSame
  <2> QED
    BY <1>3, <2>1, <2>2, <2>3, <2>4, <2>5, <2>6, <2>7, <2>8, <2>9, DeclarePrivate,
       FirstCasPrivate, ClearExpectedPrivate, StoreSeenPrivate DEF Run, Step
<1> QED
  BY <1>1, <1>2, <1>3 DEF Next

LEMMA PrivateInvHolds == Spec => [](~steal => PrivateInv)
<1>1. Init => PrivateInv
  BY DEF Init, PrivateInv, IdleExecutor
<1>2. TypeOK /\ PlaceInv /\ ResumeInv /\ NoStealInv /\ (~steal => PrivateInv) /\ [Next]_vars
        => (~steal => PrivateInv)'
  BY BuiltOnce, PrivateNext DEF NoStealInv, ResumeInv
<1> QED
  BY <1>1, <1>2, PlaceHolds, ResumeInvHolds, NoStealHolds, TypeCorrect, PTL DEF Spec

(* What the compare-and-swaps do then. *)
LEMMA FirstCasFair ==
    ASSUME TypeOK, PrivateInv, NEW e \in Exec, FirstCas(e)
    PROVE  (~locked /\ Takes(e)) \/ (locked /\ Suspends(e))
<1>1. ex[e].co \in Co /\ at[ex[e].co] = "try"
  BY FirstCasCases, ExecutorType
<1>2. Compared(ex[e].co) = {FALSE}
  BY <1>1 DEF PrivateInv, Compared, TypeOK
<1> QED
  BY <1>2 DEF FirstCas, Takes, Suspends, TypeOK

LEMMA SecondCasFair ==
    ASSUME TypeOK, PrivateInv, NEW e \in Exec, SecondCas(e)
    PROVE  \/ ~locked /\ locked' = TRUE /\ ex' = [ex EXCEPT ![e].pc = "check"]
           \/ locked /\ UNCHANGED locked /\ ex' = [ex EXCEPT ![e].pc = "saw_set"]
<1>1. ex[e].co \in Co /\ ex[e].pc = "cas"
  BY ExecutorType DEF SecondCas
<1>2. Compared(ex[e].co) = {FALSE}
  BY <1>1 DEF PrivateInv, Compared, TypeOK
<1> QED
  BY <1>2 DEF SecondCas, TypeOK

-----------------------------------------------------------------------------
(* Mutual exclusion, without stealing.  It is not inductive alone: a free lock must mean that
   nobody is inside.  The strengthening says that whoever is inside, or won
   the second compare-and-swap of lock(), keeps m_lock_acquired set. *)

\* The coroutines that won the lock and did not release it.
Inside(c) == at[c] \in {"cs", "cs2", "orphan"}

OwnerImpliesLocked ==
    /\ \A c \in Co : Inside(c) => locked
    /\ \A e \in Exec : Acquiring(e) => locked

OneOwner ==
    /\ \A c, d \in Co : Inside(c) /\ Inside(d) => c = d
    /\ \A e, f \in Exec : Acquiring(e) /\ Acquiring(f) => e = f
    /\ \A c \in Co, e \in Exec : ~(Inside(c) /\ Acquiring(e))

MutexInv == OwnerImpliesLocked /\ OneOwner

LEMMA MutexInit == Init => MutexInv
BY DEF Init, MutexInv, OwnerImpliesLocked, OneOwner, Inside, Acquiring, IdleExecutor

(* A step after which nobody is inside who was not inside before, and that does
   not release the lock, keeps the invariant. *)
LEMMA NoNewOwner ==
    ASSUME MutexInv, locked => locked',
           \A c \in Co : Inside(c)' => Inside(c),
           \A e \in Exec : Acquiring(e)' => Acquiring(e)
    PROVE  MutexInv'
BY DEF MutexInv, OwnerImpliesLocked, OneOwner

LEMMA OneExecutor ==
    ASSUME TypeOK, NEW e \in Exec, NEW r, r.pc \notin {"check", "move"},
           ex' = [ex EXCEPT ![e] = r]
    PROVE  \A f \in Exec : Acquiring(f)' => Acquiring(f)
<1>1. ex \in [Exec -> Executor]
  BY DEF TypeOK
<1>2. ex'[e] = r /\ \A f \in Exec : f # e => ex'[f] = ex[f]
  BY <1>1
<1> QED
  BY <1>2 DEF Acquiring

LEMMA TakeAcquiresNothing ==
    ASSUME TypeOK, NEW e \in Exec, NEW t, Take(e, t)
    PROVE  \A f \in Exec : Acquiring(f)' => Acquiring(f)
<1>1. \/ ex' = [ex EXCEPT ![e] = [pc |-> "resume", co |-> t.co, n |-> t.n, m |-> 0]]
      \/ ex' = ex
  BY DEF Take
<1>2. CASE ex' = ex
  BY <1>2 DEF Acquiring
<1>3. CASE ex' = [ex EXCEPT ![e] = [pc |-> "resume", co |-> t.co, n |-> t.n, m |-> 0]]
  BY <1>3, OneExecutor
<1> QED
  BY <1>1, <1>2, <1>3

LEMMA MutexStep ==
    ASSUME TypeOK, CallerInv, HomeInv, PrivateInv, MutexInv, [Next]_vars PROVE MutexInv'
<1>1. CASE UNCHANGED vars
  BY <1>1, NoNewOwner DEF vars, Inside, Acquiring
<1>2. CASE AllFinished
  BY <1>2, NoNewOwner DEF AllFinished, vars, Inside, Acquiring
<1>3. ASSUME NEW e \in Exec, Run(e) PROVE MutexInv'
  <2>1. CASE Dequeue(e)
    <3>1. \A f \in Exec : Acquiring(f)' => Acquiring(f)
      BY <2>1, TakeAcquiresNothing DEF Dequeue
    <3> QED
      BY <2>1, <3>1, NoNewOwner DEF Dequeue, Inside
  <2>2. CASE WorkSteal(e)
    <3>1. \A f \in Exec : Acquiring(f)' => Acquiring(f)
      <4> DEFINE q == (e + 1) % N
      <4>1. Take(e, Head(tasks[q])) \/ UNCHANGED ex
        BY <2>2 DEF WorkSteal
      <4> QED
        BY <4>1, TakeAcquiresNothing DEF Acquiring
    <3> QED
      BY <2>2, <3>1, NoNewOwner DEF WorkSteal, Inside
  <2>3. CASE Resume(e)
    <3> DEFINE r == [ex[e] EXCEPT !.pc = "run"]
    <3>1. r.pc = "run"
      BY ExecutorType DEF Executor
    <3>2. UNCHANGED <<at, locked>> /\ (ex' = ex \/ ex' = [ex EXCEPT ![e] = r])
      BY <2>3 DEF Resume
    <3> HIDE DEF r
    <3>3. \A f \in Exec : Acquiring(f)' => Acquiring(f)
      <4>1. CASE ex' = ex
        BY <4>1 DEF Acquiring
      <4>2. CASE ex' = [ex EXCEPT ![e] = r]
        BY <3>1, <4>2, OneExecutor
      <4> QED
        BY <3>2, <4>1, <4>2
    <3> QED
      BY <3>2, <3>3, NoNewOwner DEF Inside
  <2>4. CASE FirstCas(e)
    <3> DEFINE c == ex[e].co
    <3>1. CASE locked
      <4>1. \A f \in Exec : Acquiring(f)' => Acquiring(f)
        <5>1. ex' = [ex EXCEPT ![e] = [pc |-> "push", co |-> c, n |-> ex[e].n,
                                       m |-> cells[c] + 1]]
          BY <2>4, <3>1, FirstCasFair DEF Suspends
        <5> QED
          BY <5>1, OneExecutor
      <4> QED
        <5>1. UNCHANGED locked /\ \A d \in Co : Inside(d)' => Inside(d)
          BY <2>4, <3>1, FirstCasFair DEF Suspends, Inside, TypeOK
        <5> QED
          BY <4>1, <5>1, NoNewOwner
    <3>2. CASE ~locked
      <4>1. locked' = TRUE /\ at' = [at EXCEPT ![c] = "cs"] /\ UNCHANGED ex
        BY <2>4, <3>2, FirstCasFair DEF Takes
      <4>2. \A d \in Co : ~Inside(d)
        BY <3>2 DEF MutexInv, OwnerImpliesLocked
      <4>3. \A f \in Exec : ~Acquiring(f)
        BY <3>2 DEF MutexInv, OwnerImpliesLocked
      <4>4. \A d \in Co : Inside(d)' => d = c
        BY <4>1, <4>2 DEF Inside, TypeOK
      <4>5. \A f \in Exec : ~Acquiring(f)'
        BY <4>1, <4>3 DEF Acquiring
      <4> QED
        BY <4>1, <4>4, <4>5 DEF MutexInv, OwnerImpliesLocked, OneOwner
    <3> QED
      BY <3>1, <3>2
  <2>5. CASE Push(e)
    <3>1. \A f \in Exec : Acquiring(f)' => Acquiring(f)
      <4>1. CASE Len(waiters) < WaitCap
        <5> DEFINE r == [ex[e] EXCEPT !.pc = "clear"]
        <5>1. ex' = [ex EXCEPT ![e] = r]
          BY <2>5, <4>1 DEF Push
        <5>2. r.pc = "clear"
          BY ExecutorType DEF Executor
        <5> QED
          BY <5>1, <5>2, OneExecutor
      <4>2. CASE ~(Len(waiters) < WaitCap)
        <5>1. ex' = [ex EXCEPT ![e] = IdleExecutor]
          BY <2>5, <4>2 DEF Push
        <5> QED
          BY <5>1, OneExecutor DEF IdleExecutor
      <4> QED
        BY <4>1, <4>2
    <3>2. \A d \in Co : Inside(d)' => Inside(d)
      BY <2>5 DEF Push, Inside, TypeOK
    <3> QED
      BY <2>5, <3>1, <3>2, NoNewOwner DEF Push
  <2>6. CASE SecondCas(e)
    <3>1. CASE locked
      <4>1. \A f \in Exec : Acquiring(f)' => Acquiring(f)
        <5> DEFINE r == [ex[e] EXCEPT !.pc = "saw_set"]
        <5>1. ex' = [ex EXCEPT ![e] = r]
          BY <2>6, <3>1, SecondCasFair
        <5>2. r.pc = "saw_set"
          BY ExecutorType DEF Executor
        <5> QED
          BY <5>1, <5>2, OneExecutor
      <4> QED
        BY <2>6, <3>1, <4>1, NoNewOwner DEF SecondCas, Inside
    <3>2. CASE ~locked
      <4>1. locked' = TRUE /\ ex' = [ex EXCEPT ![e].pc = "check"] /\ UNCHANGED at
        BY <2>6, <3>2, SecondCasFair DEF SecondCas
      <4>2. \A d \in Co : ~Inside(d)
        BY <3>2 DEF MutexInv, OwnerImpliesLocked
      <4>3. \A f \in Exec : ~Acquiring(f)
        BY <3>2 DEF MutexInv, OwnerImpliesLocked
      <4>4. \A f \in Exec : Acquiring(f)' => f = e
        BY <4>1, <4>3 DEF Acquiring, TypeOK
      <4>5. \A d \in Co : ~Inside(d)'
        BY <4>1, <4>2 DEF Inside
      <4> QED
        BY <4>1, <4>4, <4>5 DEF MutexInv, OwnerImpliesLocked, OneOwner
    <3> QED
      BY <3>1, <3>2
  <2>7. CASE CheckCaller(e)
    <3>1. \A f \in Exec : Acquiring(f)' => Acquiring(f)
      BY <2>7 DEF CheckCaller, Acquiring, TypeOK, IdleExecutor
    <3> QED
      BY <2>7, <3>1, NoNewOwner DEF CheckCaller, Inside
  <2>8. CASE MoveCaller(e)
    <3> DEFINE c == ex[e].co
    <3>1. CASE held[c] = ex[e].m
      <4>1. /\ at' = [at EXCEPT ![c] = "cs"]
            /\ ex' = [ex EXCEPT ![e] = [pc |-> "run", co |-> c, n |-> ex[e].n, m |-> 0]]
            /\ UNCHANGED locked
        BY <2>8, <3>1 DEF MoveCaller
      <4>2. Acquiring(e)
        BY <2>8 DEF MoveCaller, Acquiring
      <4>3. locked /\ \A d \in Co : ~Inside(d)
        BY <4>2 DEF MutexInv, OwnerImpliesLocked, OneOwner
      <4>4. \A f \in Exec : f # e => ~Acquiring(f)
        BY <4>2 DEF MutexInv, OneOwner
      <4>5. \A d \in Co : Inside(d)' => d = c
        BY <4>1, <4>3 DEF Inside, TypeOK
      <4>6. \A f \in Exec : ~Acquiring(f)'
        BY <4>1, <4>4 DEF Acquiring, TypeOK
      <4> QED
        BY <4>1, <4>3, <4>5, <4>6 DEF MutexInv, OwnerImpliesLocked, OneOwner
    <3>2. CASE held[c] # ex[e].m
      <4>1. UNCHANGED <<locked, at, ex>>
        BY <2>8, <3>2 DEF MoveCaller
      <4> QED
        BY <4>1, NoNewOwner DEF Inside, Acquiring
    <3> QED
      BY <3>1, <3>2
  <2>9. CASE Yield(e)
    <3>1. \A f \in Exec : Acquiring(f)' => Acquiring(f)
      BY <2>9 DEF Yield, Acquiring, TypeOK, IdleExecutor
    <3>2. \A d \in Co : Inside(d)' => Inside(d)
      BY <2>9 DEF Yield, Runs, Inside, TypeOK
    <3> QED
      BY <2>9, <3>1, <3>2, NoNewOwner DEF Yield
  <2>10. CASE Unlock(e)
    <3> DEFINE c == ex[e].co
    <3>1. c \in Co
      BY <2>10, ExecutorType DEF Unlock, Runs
    <3>2. Inside(c)
      BY <2>10 DEF Unlock, Runs, Inside
    <3>3. (\A d \in Co : Inside(d) => d = c) /\ (\A f \in Exec : ~Acquiring(f))
      BY <3>1, <3>2 DEF MutexInv, OneOwner
    <3>4. at' = [at EXCEPT ![c] = "wake"] /\ UNCHANGED ex
      BY <2>10 DEF Unlock
    <3>5. (\A d \in Co : ~Inside(d)') /\ (\A f \in Exec : ~Acquiring(f)')
      BY <3>1, <3>3, <3>4 DEF Inside, Acquiring, TypeOK
    <3> QED
      BY <3>5 DEF MutexInv, OwnerImpliesLocked, OneOwner
  <2>11. CASE WakeOne(e)
    <3>1. UNCHANGED <<locked, ex>>
      BY <2>11 DEF WakeOne
    <3>2. \A d \in Co : at'[d] \in {at[d], "out", "dropped"}
      BY <2>11 DEF WakeOne, EndRound, TypeOK
    <3>3. \A d \in Co : Inside(d)' => Inside(d)
      BY <3>2 DEF Inside
    <3> QED
      BY <3>1, <3>3, NoNewOwner DEF Acquiring
  <2>12. CASE Finish(e)
    <3>1. \A f \in Exec : Acquiring(f)' => Acquiring(f)
      BY <2>12 DEF Finish, Acquiring, TypeOK, IdleExecutor
    <3>2. \A d \in Co : Inside(d)' => Inside(d)
      BY <2>12 DEF Finish, Inside, TypeOK
    <3> QED
      BY <2>12, <3>1, <3>2, NoNewOwner DEF Finish
  <2>13. CASE Declare(e)
    <3>1. UNCHANGED <<ex, locked>> /\ \A d \in Co : Inside(d)' => Inside(d)
      BY <2>13 DEF Declare, Inside, TypeOK
    <3> QED
      BY <3>1, NoNewOwner DEF Acquiring
  <2>14. CASE ClearExpected(e) \/ StoreSeen(e)
    <3>1. ex[e].pc \in Late /\ FrameAlive(e)
      BY <2>14, FrameThere DEF ClearExpected, StoreSeen, Late
    <3>2. /\ UNCHANGED <<at, locked>>
          /\ ex' = [ex EXCEPT ![e] = [ex[e] EXCEPT !.pc = "cas"]] \/ ex' = [ex EXCEPT ![e] = IdleExecutor]
      BY <2>14, <3>1 DEF ClearExpected, StoreSeen, WriteExpected
    <3>3. \A f \in Exec : Acquiring(f)' => Acquiring(f)
      <4> DEFINE r == [ex[e] EXCEPT !.pc = "cas"]
      <4>1. r.pc = "cas" /\ IdleExecutor.pc = "idle"
        BY ExecutorType DEF Executor, IdleExecutor
      <4>2. ex' = [ex EXCEPT ![e] = r] \/ ex' = [ex EXCEPT ![e] = IdleExecutor]
        BY <3>2
      <4> HIDE DEF r
      <4> QED
        BY <4>1, <4>2, OneExecutor
    <3> QED
      BY <3>2, <3>3, NoNewOwner DEF Inside
  <2> QED
    BY <1>3, <2>1, <2>2, <2>3, <2>4, <2>5, <2>6, <2>7, <2>8, <2>9, <2>10,
       <2>11, <2>12, <2>13, <2>14 DEF Run, Step
<1> QED
  BY <1>1, <1>2, <1>3 DEF Next

LEMMA MutexInvHolds == Spec => [](~steal => MutexInv)
<1>1. TypeOK /\ ResumeInv /\ NoStealInv /\ (~steal => PrivateInv) /\ (~steal => MutexInv) /\ [Next]_vars
        => (~steal => MutexInv)'
  BY BuiltOnce, MutexStep DEF NoStealInv, ResumeInv
<1> QED
  BY <1>1, MutexInit, ResumeInvHolds, NoStealHolds, PrivateInvHolds, TypeCorrect, PTL DEF Spec

(* Built without stealing, two winners of lock()'s compare-and-swaps never hold
   the mutex together, for any number of coroutines and executors and any
   capacity of the queues. *)
THEOREM MutualExclusionHolds == Spec => []MutualExclusion
<1>1. (~steal => MutexInv) => MutualExclusion
  BY DEF MutexInv, OneOwner, MutualExclusion, Inside, InCs
<1> QED
  BY <1>1, MutexInvHolds, PTL

-----------------------------------------------------------------------------
(* No lost wakeup, without stealing.  Somebody is on its way to the mutex: a
   coroutine in unlock(), an executor with a coroutine that will try the lock, or
   a task that resumes one; or a full queue has refused a waiter that was woken.
   An executor that has not pushed its caller does not count: the push may fail,
   and then nobody tries again. *)

Trying(e) ==
    \/ /\ ex[e].pc = "run"
       /\ at[ex[e].co] \in {"lock", "try"} \/ (at[ex[e].co] = "out" /\ rounds[ex[e].co] < Rounds)
    \/ ex[e].pc = "resume" /\ held[ex[e].co] = ex[e].n
    \/ ex[e].pc \in {"clear", "cas"}

SomebodyWaits == \E c \in Co : <<c, held[c]>> \in Waiting

SomebodyComes ==
    \/ \E c \in Co : at[c] \in {"wake", "dropped"}
    \/ \E e \in Exec : Trying(e)
    \/ \E c \in Co, e \in Exec : <<c, held[c]>> \in Queued[e]

WakeInv == ~locked /\ SomebodyWaits => SomebodyComes

LEMMA WakeSame ==
    ASSUME WakeInv, UNCHANGED <<locked, waiters, tasks, ex, at, held, rounds>> PROVE WakeInv'
BY DEF WakeInv, SomebodyWaits, SomebodyComes, Trying, Waiting, Queued

(* The head of a queue taken by an idle executor. *)
LEMMA TakeWakes ==
    ASSUME TypeOK, PlaceInv, WakeInv, NEW e \in Exec, NEW q \in Exec, tasks[q] # <<>>,
           ex[e].pc = "idle", Take(e, Head(tasks[q])),
           tasks' = [tasks EXCEPT ![q] = Tail(tasks[q])],
           UNCHANGED <<locked, waiters, at, held, rounds>>
    PROVE  WakeInv'
<1> DEFINE t == Head(tasks[q])
           r == [pc |-> "resume", co |-> t.co, n |-> t.n, m |-> 0]
<1>1. tasks[q] \in Seq(Task) /\ Once(tasks[q])
  BY DEF TypeOK, PlaceInv
<1>2. CellsOf(Tail(tasks[q])) = CellsOf(tasks[q]) \ {CellOf(t)} /\ t \in Task
  BY <1>1, TailCells, SeqFacts
<1>3. Queued'[q] = Queued[q] \ {CellOf(t)} /\ \A f \in Exec : f # q => Queued'[f] = Queued[f]
  BY <1>2, QueueStep DEF Queued
<1>4. Valid(t) => /\ ex'[e].pc = "resume" /\ ex'[e].co = t.co /\ ex'[e].n = t.n
                  /\ \A f \in Exec : f # e => ex'[f] = ex[f]
  BY DEF Take, TypeOK
<1>5. ~Valid(t) => ex' = ex
  BY DEF Take
<1> HIDE DEF t
<1>6. Waiting' = Waiting
  BY DEF Waiting
<1> SUFFICES ASSUME ~locked, SomebodyWaits PROVE SomebodyComes'
  BY <1>6 DEF WakeInv, SomebodyWaits
<1>7. SomebodyComes
  BY DEF WakeInv
<1>8. CASE \E c \in Co : at[c] \in {"wake", "dropped"}
  BY <1>8 DEF SomebodyComes
<1>9. ASSUME NEW f \in Exec, Trying(f) PROVE SomebodyComes'
  <2>1. f # e
    BY <1>9 DEF Trying
  <2>2. Trying(f)'
    BY <1>4, <1>5, <1>9, <2>1 DEF Trying
  <2> QED
    BY <2>2 DEF SomebodyComes
<1>10. ASSUME NEW c \in Co, NEW f \in Exec, <<c, held[c]>> \in Queued[f]
       PROVE  SomebodyComes'
  <2>1. CASE <<c, held[c]>> = CellOf(t)
    <3>1. Valid(t) /\ t.co = c /\ t.n = held[c]
      BY <2>1 DEF CellOf, Valid
    <3>2. Trying(e)'
      BY <1>4, <3>1 DEF Trying
    <3> QED
      BY <3>2 DEF SomebodyComes
  <2>2. CASE <<c, held[c]>> # CellOf(t)
    <3>1. <<c, held'[c]>> \in Queued'[f]
      BY <1>3, <1>10, <2>2
    <3> QED
      BY <3>1 DEF SomebodyComes
  <2> QED
    BY <2>1, <2>2
<1> QED
  BY <1>7, <1>8, <1>9, <1>10 DEF SomebodyComes

(* With the mutex free, a coroutine in a cell is in lock(). *)
LEMMA SuspendedTries ==
    ASSUME TypeOK, MutexInv, SuspendInv, ~locked, NEW c \in Co, held[c] # 0
    PROVE  /\ at[c] \in {"out", "lock", "dropped"}
           /\ at[c] = "out" => rounds[c] < Rounds
BY DEF MutexInv, OwnerImpliesLocked, Inside, SuspendInv, Suspended

LEMMA ResumeWakes ==
    ASSUME TypeOK, PlaceInv, MutexInv, CallerInv, SuspendInv, HomeInv, WakeInv,
           NEW e \in Exec, Resume(e)
    PROVE  WakeInv'
<1> DEFINE c == ex[e].co
<1>1. ex[e].pc = "resume" /\ c \in Co /\ held[c] = ex[e].n
  BY ExecutorType DEF Resume, HomeInv
<1>2. fault' = "none"
  <2>1. HomeInv'
    BY ResumeHome
  <2> QED
    BY <2>1 DEF HomeInv
<1>3. ex' = [ex EXCEPT ![e].pc = "run"] /\ UNCHANGED <<locked, at, rounds>>
  BY <1>2 DEF Resume
<1>4. ex'[e].pc = "run" /\ ex'[e].co = c
  BY <1>3, ExecutorType DEF TypeOK, Executor
<1>5. held[c] # 0
  BY <1>1, ResumerAlone
<1>6. ~locked => Trying(e)' \/ at'[c] = "dropped"
  BY <1>1, <1>3, <1>4, <1>5, SuspendedTries DEF Trying
<1> QED
  BY <1>1, <1>3, <1>6 DEF WakeInv, SomebodyComes

LEMMA DeclareWakes ==
    ASSUME TypeOK, WakeInv, NEW e \in Exec, Declare(e) PROVE WakeInv'
<1>1. /\ ex[e].co \in Co /\ ex[e].pc = "run" /\ UNCHANGED ex
      /\ at' = [at EXCEPT ![ex[e].co] = "try"]
  BY ExecutorType DEF Declare, Runs
<1>2. at'[ex[e].co] = "try"
  BY <1>1 DEF TypeOK
<1>3. Trying(e)'
  BY <1>1, <1>2 DEF Trying
<1> QED
  BY <1>3 DEF WakeInv, SomebodyComes

LEMMA PushWakes ==
    ASSUME TypeOK, PlaceInv, CallerInv, SuspendInv, WakeInv, NEW e \in Exec, Push(e)
    PROVE  WakeInv'
<1> DEFINE c == ex[e].co
           m == ex[e].m
<1>0. /\ c \in Co /\ ex[e].pc = "push" /\ held[c] = m /\ m # 0 /\ at[c] = "lock"
      /\ UNCHANGED <<locked, tasks, rounds>>
  BY ExecutorType DEF Push, CallerInv, SecondHalf, SuspendInv
<1>1. CASE Len(waiters) < WaitCap
  <2>1. ex' = [ex EXCEPT ![e].pc = "clear"]
    BY <1>1 DEF Push
  <2>2. ex'[e].pc = "clear"
    BY <2>1, ExecutorType DEF TypeOK, Executor
  <2>3. Trying(e)'
    BY <2>2 DEF Trying
  <2> QED
    BY <2>3 DEF WakeInv, SomebodyComes
<1>2. CASE ~(Len(waiters) < WaitCap)
  <2>1. /\ ex' = [ex EXCEPT ![e] = IdleExecutor] /\ held' = [held EXCEPT ![c] = 0]
        /\ at' = [at EXCEPT ![c] = "lost"] /\ UNCHANGED waiters
    BY <1>2 DEF Push
  <2>2. ex'[e].pc = "idle" /\ \A f \in Exec : f # e => ex'[f] = ex[f]
    BY <2>1 DEF IdleExecutor, TypeOK
  <2>3. /\ held'[c] = 0 /\ at'[c] = "lost"
        /\ \A d \in Co : d # c => held'[d] = held[d] /\ at'[d] = at[d]
    BY <1>0, <2>1 DEF TypeOK
  <2>4. Waiting' = Waiting /\ Queued' = Queued
    BY <1>0, <2>1 DEF Waiting, Queued
  <2>5. <<c, m>> \in Hands[e]
    BY <1>0, HandsOf
  <2>6. \A f \in Exec : <<c, m>> \notin Queued[f] /\ (f # e => <<c, m>> \notin Hands[f])
    BY <2>5 DEF PlaceInv, Apart
  <2>7. \A d \in Co : \A k \in Nat : <<d, k>> \in Waiting => k # 0
    BY UsedCells DEF PlaceInv, Apart
  <2>8. \A f \in Exec : ex[f].pc # "idle" => ex[f].co \in Co /\ ex[f].n \in Nat
    BY ExecutorType
  <2>10. \A f \in Exec : ex[f].pc = "run" => ex[f].co # c
    BY <1>0 DEF CallerInv
  <2>11. \A f \in Exec : f # e /\ ex[f].pc = "resume" /\ ex[f].co = c => ex[f].n # m
    BY <2>6, HandsOf
  <2> HIDE DEF c, m
  <2> SUFFICES ASSUME ~locked, SomebodyWaits' PROVE SomebodyComes'
    BY <1>0 DEF WakeInv
  <2>12. SomebodyWaits
    BY <2>3, <2>4, <2>7 DEF SomebodyWaits
  <2>13. SomebodyComes
    BY <2>12 DEF WakeInv
  <2>14. ASSUME NEW d \in Co, at[d] \in {"wake", "dropped"} PROVE SomebodyComes'
    BY <1>0, <2>3, <2>14 DEF SomebodyComes
  <2>15. ASSUME NEW f \in Exec, Trying(f) PROVE SomebodyComes'
    <3>1. f # e /\ ex'[f] = ex[f] /\ ex[f].co \in Co
      BY <1>0, <2>2, <2>8, <2>15 DEF Trying
    <3>2. ex[f].pc \in {"run", "resume"} => ex[f].co # c
      BY <1>0, <2>10, <2>11, <2>15, <3>1 DEF Trying
    <3>3. Trying(f)'
      <4>1. CASE ex[f].pc \in {"clear", "cas"}
        BY <3>1, <4>1 DEF Trying
      <4>2. CASE ex[f].pc \in {"run", "resume"}
        BY <1>0, <2>3, <2>15, <3>1, <3>2, <4>2 DEF Trying
      <4> QED
        BY <2>15, <4>1, <4>2 DEF Trying
    <3> QED
      BY <3>3 DEF SomebodyComes
  <2>16. ASSUME NEW d \in Co, NEW f \in Exec, <<d, held[d]>> \in Queued[f] PROVE SomebodyComes'
    <3>1. d # c
      BY <1>0, <2>6, <2>16
    <3>2. <<d, held'[d]>> \in Queued'[f]
      BY <2>3, <2>4, <2>16, <3>1
    <3> QED
      BY <3>2 DEF SomebodyComes
  <2> QED
    BY <2>13, <2>14, <2>15, <2>16 DEF SomebodyComes
<1> QED
  BY <1>1, <1>2

LEMMA WakeOneWakes ==
    ASSUME TypeOK, PlaceInv, WakeInv, NEW e \in Exec, WakeOne(e) PROVE WakeInv'
<1> DEFINE w == Head(waiters)
           t == [co |-> w.co, n |-> w.n]
           s == Append(tasks[w.tq], t)
<1>0. /\ ex[e].co \in Co /\ at[ex[e].co] = "wake" /\ UNCHANGED <<locked, ex, held>>
  BY ExecutorType DEF WakeOne, Runs
<1>1. CASE waiters = <<>>
  <2>1. waiters' = <<>>
    BY <1>1 DEF WakeOne
  <2>2. Waiting' = {}
    BY <2>1, EmptyCells DEF Waiting
  <2> QED
    BY <2>2 DEF WakeInv, SomebodyWaits
<1>2. CASE waiters # <<>>
  <2>1. w \in Waiter
    BY <1>2, SeqFacts DEF TypeOK
  <2>2. CASE Valid(w) /\ Schedule(w)
    <3>1. tasks' = [tasks EXCEPT ![w.tq] = s]
      BY <2>2 DEF Schedule
    <3>2. w.co \in Co /\ w.tq \in Exec /\ t \in Task /\ CellOf(t) = <<w.co, held'[w.co]>>
      BY <1>0, <2>1, <2>2 DEF Waiter, Task, CellOf, Valid
    <3>3. tasks[w.tq] \in Seq(Task)
      BY <3>2 DEF TypeOK
    <3>4. CellOf(t) \in CellsOf(s)
      BY <3>2, <3>3, AppendCells
    <3> HIDE DEF s, t, w
    <3>5. <<w.co, held'[w.co]>> \in Queued'[w.tq]
      BY <3>1, <3>2, <3>4, QueueStep
    <3> QED
      BY <3>2, <3>5 DEF WakeInv, SomebodyComes
  <2>3. CASE ~Valid(w)
    <3>1. UNCHANGED at
      BY <1>2, <2>3 DEF WakeOne
    <3> QED
      BY <1>0, <3>1 DEF WakeInv, SomebodyComes
  <2>4. CASE at' = [at EXCEPT ![ex[e].co] = "out", ![w.co] = "dropped"]
    <3>1. w.co \in Co /\ at'[w.co] = "dropped"
      BY <2>1, <2>4 DEF Waiter, TypeOK
    <3> HIDE DEF w
    <3> QED
      BY <3>1 DEF WakeInv, SomebodyComes
  <2> QED
    BY <1>2, <2>2, <2>3, <2>4 DEF WakeOne
<1> QED
  BY <1>1, <1>2

LEMMA FinishWakes ==
    ASSUME TypeOK, CallerInv, WakeInv, NEW e \in Exec, Finish(e) PROVE WakeInv'
<1> DEFINE c == ex[e].co
<1>0. /\ c \in Co /\ ex[e].pc = "run" /\ at[c] = "out" /\ ~(rounds[c] < Rounds)
      /\ UNCHANGED <<locked, waiters, tasks, held, rounds>>
  BY ExecutorType, ConstantAssumption DEF Finish, Runs
<1>1. \A f \in Exec : f # e /\ ex[f].pc = "run" => ex[f].co # c
  BY <1>0, RunnerAlone
<1>2. /\ at' = [at EXCEPT ![c] = "done"] /\ ex' = [ex EXCEPT ![e] = IdleExecutor]
  BY DEF Finish
<1>3. ex'[e].pc = "idle" /\ \A f \in Exec : f # e => ex'[f] = ex[f]
  BY <1>2 DEF IdleExecutor, TypeOK
<1>4. \A d \in Co : d # c => at'[d] = at[d]
  BY <1>0, <1>2 DEF TypeOK
<1>5. \A f \in Exec : ex[f].pc # "idle" => ex[f].co \in Co
  BY ExecutorType
<1>6. Waiting' = Waiting /\ Queued' = Queued
  BY <1>0 DEF Waiting, Queued
<1>7. \A f \in Exec : Trying(f) => f # e
  BY <1>0 DEF Trying
<1> HIDE DEF c
<1>8. \A f \in Exec : Trying(f) => Trying(f)'
  BY <1>0, <1>1, <1>3, <1>4, <1>5, <1>7 DEF Trying
<1> QED
  BY <1>0, <1>4, <1>6, <1>8 DEF WakeInv, SomebodyWaits, SomebodyComes

LEMMA StoreSeenWakes ==
    ASSUME TypeOK, HomeInv, WakeInv, NEW e \in Exec, StoreSeen(e) PROVE WakeInv'
<1>1. ex[e].pc \in {"saw_set", "saw_free"} /\ UNCHANGED <<locked, waiters, tasks, at, held, rounds>>
  BY DEF StoreSeen
<1>2. ex' = [ex EXCEPT ![e] = IdleExecutor]
  BY <1>1, FrameThere DEF StoreSeen, WriteExpected, Late
<1>3. \A f \in Exec : f # e => ex'[f] = ex[f]
  BY <1>2 DEF TypeOK
<1>4. \A f \in Exec : Trying(f) => Trying(f)'
  BY <1>1, <1>3 DEF Trying
<1>5. Waiting' = Waiting /\ Queued' = Queued
  BY <1>1 DEF Waiting, Queued
<1> QED
  BY <1>1, <1>4, <1>5 DEF WakeInv, SomebodyWaits, SomebodyComes

LEMMA ClearExpectedWakes ==
    ASSUME TypeOK, HomeInv, WakeInv, NEW e \in Exec, ClearExpected(e) PROVE WakeInv'
<1>1. ex' = [ex EXCEPT ![e].pc = "cas"]
  BY FrameThere DEF ClearExpected, WriteExpected, Late
<1>2. ex'[e].pc = "cas"
  BY <1>1, ExecutorType DEF TypeOK, Executor
<1> QED
  BY <1>2 DEF WakeInv, SomebodyComes, Trying

LEMMA WakeStep ==
    ASSUME TypeOK, PlaceInv, CallerInv, SuspendInv, HomeInv, PrivateInv, MutexInv, ~steal, WakeInv,
           [Next]_vars
    PROVE  WakeInv'
<1>1. CASE UNCHANGED vars
  BY <1>1, WakeSame DEF vars
<1>2. CASE AllFinished
  BY <1>2, WakeSame DEF AllFinished, vars
<1>3. ASSUME NEW e \in Exec, Run(e) PROVE WakeInv'
  <2>1. CASE Dequeue(e)
    BY <2>1, TakeWakes DEF Dequeue
  <2>2. CASE FirstCas(e) \/ SecondCas(e)
    <3>1. locked'
      <4>1. CASE FirstCas(e)
        <5>1. (~locked /\ Takes(e)) \/ (locked /\ Suspends(e))
          BY <4>1, FirstCasFair
        <5>2. Takes(e) => locked'
          BY DEF Takes
        <5>3. locked /\ Suspends(e) => locked'
          BY DEF Suspends
        <5> QED
          BY <5>1, <5>2, <5>3
      <4>2. CASE SecondCas(e)
        <5>1. locked' = TRUE \/ (locked /\ UNCHANGED locked)
          BY <4>2, SecondCasFair
        <5> QED
          BY <5>1
      <4> QED
        BY <2>2, <4>1, <4>2
    <3> QED
      BY <3>1 DEF WakeInv
  <2>3. CASE CheckCaller(e) \/ MoveCaller(e)
    <3>1. Acquiring(e) /\ UNCHANGED locked
      BY <2>3 DEF CheckCaller, MoveCaller, Acquiring
    <3> QED
      BY <3>1 DEF WakeInv, MutexInv, OwnerImpliesLocked
  <2>4. CASE Yield(e)
    <3>1. ex[e].co \in Co /\ Inside(ex[e].co) /\ UNCHANGED locked
      BY <2>4, ExecutorType DEF Yield, Runs, Inside
    <3> QED
      BY <3>1 DEF WakeInv, MutexInv, OwnerImpliesLocked
  <2>5. CASE Unlock(e)
    <3>1. ex[e].co \in Co /\ at' = [at EXCEPT ![ex[e].co] = "wake"]
      BY <2>5, ExecutorType DEF Unlock, Runs
    <3>2. at'[ex[e].co] = "wake"
      BY <3>1 DEF TypeOK
    <3> QED
      BY <3>1, <3>2 DEF WakeInv, SomebodyComes
  <2>6. CASE WorkSteal(e)
    BY <2>6 DEF WorkSteal
  <2> QED
    BY <1>3, <2>1, <2>2, <2>3, <2>4, <2>5, <2>6, ResumeWakes, DeclareWakes, PushWakes,
       ClearExpectedWakes, StoreSeenWakes, WakeOneWakes, FinishWakes DEF Run, Step
<1> QED
  BY <1>1, <1>2, <1>3 DEF Next

LEMMA WakeInit == Init => WakeInv
BY EmptyCells DEF Init, WakeInv, SomebodyWaits, Waiting

(* The strengthened statement gives the property. *)
LEMMA WakeMeans ==
    ASSUME TypeOK, PlaceInv, MutexInv, CallerInv, SuspendInv, HomeInv, WakeInv PROVE NoLostWakeup
<1> SUFFICES ASSUME ~locked, NEW i \in DOMAIN waiters, Valid(waiters[i]),
                    \A c \in Co : at[c] # "dropped"
             PROVE  Awake # {}
  BY DEF NoLostWakeup
<1>1. waiters[i] \in Waiter
  BY SeqFacts DEF TypeOK
<1>2. SomebodyWaits
  <2>1. waiters[i].co \in Co /\ CellOf(waiters[i]) = <<waiters[i].co, held[waiters[i].co]>>
    BY <1>1 DEF Waiter, CellOf, Valid
  <2> QED
    BY <2>1 DEF SomebodyWaits, Waiting, CellsOf
<1>3. SomebodyComes
  BY <1>2 DEF WakeInv
<1>4. CASE \E c \in Co : at[c] \in {"wake", "dropped"}
  BY <1>4 DEF Awake
<1>5. ASSUME NEW e \in Exec, Trying(e) PROVE Awake # {}
  <2>1. ex[e].co \in Co /\ ex[e].n \in Nat
    BY <1>5, ExecutorType DEF Trying
  <2>2. at[ex[e].co] \in {"out", "lock", "try"}
    <3>1. CASE ex[e].pc = "run"
      BY <1>5, <3>1 DEF Trying
    <3>2. CASE ex[e].pc = "resume"
      <4>1. held[ex[e].co] # 0
        BY <1>5, <3>2, ResumerAlone DEF Trying
      <4> QED
        BY <2>1, <4>1, SuspendedTries
    <3>3. CASE ex[e].pc \in {"clear", "cas"}
      BY <2>1, <3>3, FrameThere DEF Late
    <3> QED
      BY <1>5, <3>1, <3>2, <3>3 DEF Trying
  <2> QED
    BY <2>1, <2>2 DEF Awake
<1>6. ASSUME NEW c \in Co, NEW e \in Exec, <<c, held[c]>> \in Queued[e] PROVE Awake # {}
  <2>1. PICK j \in DOMAIN tasks[e] : <<c, held[c]>> = CellOf(tasks[e][j])
    BY <1>6 DEF Queued, CellsOf
  <2>2. tasks[e][j].co = c /\ Valid(tasks[e][j])
    BY <2>1 DEF CellOf, Valid
  <2>3. c \in Awake
    BY <2>2 DEF Awake
  <2> QED
    BY <2>3
<1> QED
  BY <1>3, <1>4, <1>5, <1>6 DEF SomebodyComes

(* Built without stealing, while the mutex is free and a coroutine waits for it,
   another is on its way to try the lock or to pop the wait queue, through stale
   entries and a wait queue that is full, unless a full task queue refused one. *)
THEOREM NoLostWakeupHolds == Spec => []NoLostWakeup
<1>1. TypeOK /\ PlaceInv /\ ResumeInv /\ NoStealInv /\ (~steal => MutexInv) /\ (~steal => WakeInv)
        => NoLostWakeup
  BY WakeMeans DEF ResumeInv, NoStealInv, NoLostWakeup
<1>2. TypeOK /\ PlaceInv /\ ResumeInv /\ NoStealInv /\ (~steal => PrivateInv) /\ (~steal => MutexInv)
        /\ (~steal => WakeInv) /\ [Next]_vars => (~steal => WakeInv)'
  BY BuiltOnce, WakeStep DEF ResumeInv, NoStealInv
<1>3. Spec => [](~steal => WakeInv)
  BY <1>2, WakeInit, PlaceHolds, MutexInvHolds, ResumeInvHolds, NoStealHolds, PrivateInvHolds,
     TypeCorrect, PTL DEF Spec
<1> QED
  BY <1>1, <1>3, PlaceHolds, MutexInvHolds, ResumeInvHolds, NoStealHolds, TypeCorrect, PTL

-----------------------------------------------------------------------------
(* The owner of the lock. *)

Owned == (\E c \in Co : Inside(c)) \/ (\E e \in Exec : Acquiring(e))

(* A step that takes nobody out of the critical section. *)
LEMMA OwnedSame ==
    ASSUME Owned, \A c \in Co : Inside(c) => Inside(c)',
           \A e \in Exec : Acquiring(e) => Acquiring(e)'
    PROVE  Owned'
BY DEF Owned

LEMMA OthersAcquire ==
    ASSUME NEW e \in Exec, \A f \in Exec : f # e => ex'[f] = ex[f], ~Acquiring(e)
    PROVE  \A f \in Exec : Acquiring(f) => Acquiring(f)'
BY DEF Acquiring

LEMMA OwnerStep ==
    ASSUME TypeOK, PlaceInv, CallerInv, SuspendInv, WaiterInv, HomeInv, PrivateInv, ~steal, locked => Owned,
           NEW e \in Exec, Run(e), locked'
    PROVE  Owned'
<1>1. CASE Dequeue(e)
  <2>1. /\ ~Acquiring(e) /\ UNCHANGED <<at, locked>>
        /\ \A f \in Exec : f # e => ex'[f] = ex[f]
    BY <1>1 DEF Dequeue, Take, Acquiring, TypeOK
  <2> QED
    BY <2>1, OthersAcquire, OwnedSame DEF Inside
<1>2. CASE WorkSteal(e)
  BY <1>2 DEF WorkSteal
<1>3. CASE Resume(e)
  <2>1. /\ ~Acquiring(e) /\ UNCHANGED <<at, locked>>
        /\ \A f \in Exec : f # e => ex'[f] = ex[f]
    BY <1>3 DEF Resume, Acquiring, TypeOK
  <2> QED
    BY <2>1, OthersAcquire, OwnedSame DEF Inside
<1>4. CASE FirstCas(e)
  <2>0. ex[e].co \in Co /\ at[ex[e].co] = "try" /\ ~Acquiring(e)
    BY <1>4, FirstCasCases, ExecutorType DEF Acquiring
  <2>1. CASE locked
    <3>1. \A c \in Co : Inside(c) => Inside(c)'
      BY <1>4, <2>0, <2>1, FirstCasFair DEF Suspends, Inside, TypeOK
    <3>2. \A f \in Exec : f # e => ex'[f] = ex[f]
      BY <1>4, <2>1, FirstCasFair DEF Suspends, TypeOK
    <3> QED
      BY <2>0, <2>1, <3>1, <3>2, OthersAcquire, OwnedSame
  <2>2. CASE ~locked
    <3>1. at' = [at EXCEPT ![ex[e].co] = "cs"] /\ UNCHANGED ex
      BY <1>4, <2>2, FirstCasFair DEF Takes
    <3>2. at'[ex[e].co] = "cs"
      BY <2>0, <3>1 DEF TypeOK
    <3>3. \E c \in Co : Inside(c)'
      BY <2>0, <3>2 DEF Inside
    <3> QED
      BY <3>3 DEF Owned
  <2> QED
    BY <2>1, <2>2
<1>5. CASE Push(e)
  <2>1. /\ ~Acquiring(e) /\ UNCHANGED locked
        /\ \A f \in Exec : f # e => ex'[f] = ex[f]
    BY <1>5 DEF Push, Acquiring, TypeOK
  <2>2. at[ex[e].co] = "lock"
    BY <1>5 DEF Push, SuspendInv
  <2>3. \A c \in Co : Inside(c) => Inside(c)'
    BY <1>5, <2>2 DEF Push, Inside, TypeOK
  <2> QED
    BY <2>1, <2>3, OthersAcquire, OwnedSame
<1>6. CASE SecondCas(e)
  <2>1. CASE locked
    <3>1. UNCHANGED at /\ ~Acquiring(e)
      BY <1>6 DEF SecondCas, Acquiring
    <3>2. \A f \in Exec : f # e => ex'[f] = ex[f]
      BY <1>6, <2>1, SecondCasFair DEF TypeOK
    <3> QED
      BY <2>1, <3>1, <3>2, OthersAcquire, OwnedSame DEF Inside
  <2>2. CASE ~locked
    <3>1. ex'[e].pc = "check"
      BY <1>6, <2>2, SecondCasFair, ExecutorType DEF TypeOK, Executor
    <3> QED
      BY <3>1 DEF Owned, Acquiring
  <2> QED
    BY <2>1, <2>2
<1>7. CASE CheckCaller(e)
  BY <1>7, CheckCallerHome DEF Owned
<1>8. CASE MoveCaller(e)
  <2>1. ex[e].co \in Co /\ held[ex[e].co] = ex[e].m
    BY <1>8, ExecutorType, FrameThere DEF MoveCaller, Late
  <2>2. at'[ex[e].co] = "cs"
    BY <1>8, <2>1 DEF MoveCaller, TypeOK
  <2>3. \E c \in Co : at'[c] = "cs"
    BY <2>1, <2>2
  <2> QED
    BY <2>3 DEF Owned, Inside
<1>9. CASE Yield(e)
  <2>1. /\ ~Acquiring(e) /\ UNCHANGED locked
        /\ \A f \in Exec : f # e => ex'[f] = ex[f]
    BY <1>9 DEF Yield, Runs, Acquiring, TypeOK
  <2>2. \A c \in Co : Inside(c) => Inside(c)'
    BY <1>9 DEF Yield, Inside, TypeOK
  <2> QED
    BY <2>1, <2>2, OthersAcquire, OwnedSame
<1>10. CASE Unlock(e)
  BY <1>10 DEF Unlock
<1>11. CASE WakeOne(e)
  <2>1. UNCHANGED <<ex, locked>> /\ at[ex[e].co] = "wake"
    BY <1>11 DEF WakeOne, Runs
  <2>2. CASE UNCHANGED at \/ at' = [at EXCEPT ![ex[e].co] = "out"]
    <3>1. \A c \in Co : Inside(c) => Inside(c)'
      BY <2>1, <2>2 DEF Inside, TypeOK
    <3> QED
      BY <2>1, <3>1, OwnedSame DEF Acquiring
  <2>3. CASE /\ waiters # <<>> /\ Valid(Head(waiters))
             /\ at' = [at EXCEPT ![ex[e].co] = "out", ![Head(waiters).co] = "dropped"]
    <3>1. at[Head(waiters).co] = "lock"
      BY <2>3, WaiterHeld DEF WaiterInv
    <3>2. \A c \in Co : Inside(c) => Inside(c)'
      BY <2>1, <2>3, <3>1 DEF Inside, TypeOK
    <3> QED
      BY <2>1, <3>2, OwnedSame DEF Acquiring
  <2> QED
    BY <1>11, <2>2, <2>3 DEF WakeOne, EndRound
<1>12. CASE Finish(e)
  <2>1. /\ ~Acquiring(e) /\ UNCHANGED locked
        /\ \A f \in Exec : f # e => ex'[f] = ex[f]
    BY <1>12 DEF Finish, Runs, Acquiring, TypeOK
  <2>2. \A c \in Co : Inside(c) => Inside(c)'
    BY <1>12 DEF Finish, Runs, Inside, TypeOK
  <2> QED
    BY <2>1, <2>2, OthersAcquire, OwnedSame
<1>13. CASE Declare(e) \/ ClearExpected(e) \/ StoreSeen(e)
  <2>1. CASE Declare(e)
    <3>1. UNCHANGED ex /\ \A c \in Co : Inside(c) => Inside(c)'
      BY <2>1 DEF Declare, Runs, Inside, TypeOK
    <3>2. UNCHANGED locked
      BY <2>1 DEF Declare
    <3> QED
      BY <3>1, <3>2, OwnedSame DEF Acquiring
  <2>2. CASE ClearExpected(e) \/ StoreSeen(e)
    <3>1. UNCHANGED <<at, locked>> /\ ~Acquiring(e)
      BY <2>2 DEF ClearExpected, StoreSeen, Acquiring
    <3>2. \A f \in Exec : f # e => ex'[f] = ex[f]
      BY <2>2 DEF ClearExpected, StoreSeen, WriteExpected, TypeOK
    <3> QED
      BY <3>1, <3>2, OthersAcquire, OwnedSame DEF Inside
  <2> QED
    BY <1>13, <2>1, <2>2
<1> QED
  BY <1>1, <1>2, <1>3, <1>4, <1>5, <1>6, <1>7, <1>8, <1>9, <1>10, <1>11, <1>12, <1>13 DEF Run, Step

(* Built without stealing, a lock that is taken has an owner that will release
   it, or had one that a full task queue refused. *)
THEOREM LockHasOwnerHolds == Spec => []LockHasOwner
<1>1. Init => LockHasOwner
  BY DEF Init, LockHasOwner
<1>2. TypeOK /\ PlaceInv /\ ResumeInv /\ NoStealInv /\ (~steal => PrivateInv) /\ LockHasOwner /\ [Next]_vars
        => LockHasOwner'
  <2> SUFFICES ASSUME TypeOK, PlaceInv, CallerInv, SuspendInv, WaiterInv, NoStealInv, ~steal => PrivateInv,
                      LockHasOwner, [Next]_vars, locked', ~steal
               PROVE  Owned'
    BY BuiltOnce DEF LockHasOwner, Owned, ResumeInv, Inside, InCs
  <2>1. locked => Owned
    BY DEF LockHasOwner, Owned, Inside, InCs
  <2>2. ASSUME NEW e \in Exec, Run(e) PROVE Owned'
    BY <2>1, <2>2, OwnerStep DEF NoStealInv
  <2>3. CASE UNCHANGED vars
    BY <2>1, <2>3 DEF Owned, vars, Inside, Acquiring
  <2>4. CASE AllFinished
    BY <2>1, <2>4 DEF Owned, AllFinished, vars, Inside, Acquiring
  <2> QED
    BY <2>2, <2>3, <2>4 DEF Next
<1> QED
  BY <1>1, <1>2, PlaceHolds, ResumeInvHolds, NoStealHolds, PrivateInvHolds, TypeCorrect, PTL DEF Spec
=============================================================================
