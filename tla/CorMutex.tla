------------------------------ MODULE CorMutex ------------------------------
(***************************************************************************)
(* cppt::cor_mutex_t (src/mod_coroutine/mod_cor_mutex.cpp), the mutex that  *)
(* suspends a coroutine instead of its thread, with the part of the         *)
(* executors (src/mod_coroutine/mod_cor.cpp) that resumes its waiters.      *)
(*                                                                         *)
(* A suspended coroutine is a boost continuation kept in a heap cell (a     *)
(* shared_ptr<continuation>); resuming it moves the continuation out and    *)
(* leaves the cell empty.  A coroutine numbers the cells it has used:       *)
(* held[c] is the cell that holds c now, 0 while c runs.  A waiter or a     *)
(* task names a cell and is stale once the coroutine has left it.           *)
(*                                                                         *)
(* lock() suspends the caller first and runs the rest of the attempt (push, *)
(* second compare-and-swap) on a fresh context of the same executor, when   *)
(* the caller is already visible to unlock() and to the other executors.    *)
(* That half captures the caller's local `expected` by reference: it writes *)
(* into a frame that a thief may be running or may already have left.       *)
(***************************************************************************)
EXTENDS Integers, Sequences

CONSTANTS Co,        \* the coroutines that use the mutex
          NoCo,      \* "no coroutine", not a member of Co
          N,         \* the number of executor threads (gs_core_num)
          Place,     \* the coroutines created on each executor's queue
          Builds,    \* FALSE: built with CPPT_COR_NO_WORKSTEAL, TRUE: without
          WaitCap,   \* capacity of m_wait_cos
          TaskCaps,  \* capacities of a task queue (np_queue_t's SIZE)
          Rounds     \* lock()/unlock() pairs per coroutine: bounds the model

Exec == 0 .. N - 1

ASSUME ConstantAssumption ==
    /\ NoCo \notin Co
    /\ N \in Nat \ {0}
    /\ Place \in [Exec -> Seq(Co)]
    /\ Builds \subseteq BOOLEAN
    /\ WaitCap \in Nat
    /\ TaskCaps \subseteq Nat
    /\ Rounds \in Nat \ {0}

\* Creating a coroutine puts one task on one queue.  Coroutines placed beyond a
\* queue's capacity count as created once the executor has made room.
ASSUME PlacedOnce ==
    \A e, f \in Exec : \A i \in DOMAIN Place[e], j \in DOMAIN Place[f] :
        Place[e][i] = Place[f][j] => e = f /\ i = j

VARIABLES
    locked,   \* m_lock_acquired
    waiters,  \* m_wait_cos, a sequence of Waiter
    tasks,    \* g_task_queues: tasks[e] is a sequence of Task
    ex,       \* ex[e]: what executor e does, an Executor
    at,       \* where coroutine c is in its program
    held,     \* the cell that holds the suspended c, 0 while it runs
    cells,    \* the number of cells c has used
    expected, \* the local of lock() in the frame of c
    rounds,   \* critical sections c has completed
    fault,    \* what went wrong in the runtime, "none" so far
    steal,    \* the build: executors steal tasks
    taskCap   \* the build: capacity of each of g_task_queues

vars == <<locked, waiters, tasks, ex, at, held, cells, expected, rounds, fault,
          steal, taskCap>>

Task == [co : Co, n : Nat]
Waiter == [co : Co, n : Nat, tq : Exec]

\* An executor is idle, is about to resume the task it checked, runs the
\* coroutine, or runs the second half of its lock() at one of its steps.
\* n is the cell of the task it executes, m the cell caller_c of lock().
ExPc == {"idle", "resume", "run", "push", "clear", "cas", "saw_set", "saw_free",
         "check", "move"}
Executor == [pc : ExPc, co : Co \cup {NoCo}, n : Nat, m : Nat]
IdleExecutor == [pc |-> "idle", co |-> NoCo, n |-> 0, m |-> 0]

\* "out": outside; "lock": at the head of lock()'s loop, or suspended in it; "try":
\* between the declaration of expected and the first compare-and-swap; "cs": holds
\* the lock; "cs2": holds it after a yield; "wake": in unlock() after the release;
\* "lost": destroyed because m_wait_cos was full.  No task refers to a coroutine
\* whose task a full task queue refused: "dropped" in lock(), "orphan" with the lock.
AtPc == {"out", "lock", "try", "cs", "cs2", "wake", "done", "lost", "dropped", "orphan"}

Fault == {"none", "caller_invalid", "null_resume", "double_resume", "dead_frame"}

\* can_resume(), and the test *(ele.c): the cell still holds the coroutine.
Valid(t) == held[t.co] = t.n

\* Where an executor is, while the process is defined: the model stops at the
\* resumption of a null continuation, at one continuation resumed twice and at
\* a write into a frame that is gone.
On(e, pc) == fault \in {"none", "caller_invalid"} /\ ex[e].pc = pc
Runs(e, pc) == On(e, "run") /\ at[ex[e].co] = pc

Init ==
    /\ locked = FALSE
    /\ waiters = <<>>
    /\ tasks = [e \in Exec |->
                  [i \in 1 .. Len(Place[e]) |-> [co |-> Place[e][i], n |-> 1]]]
    /\ ex = [e \in Exec |-> IdleExecutor]
    /\ at = [c \in Co |-> "out"]
    /\ held = [c \in Co |-> 1]
    /\ cells = [c \in Co |-> 1]
    /\ expected = [c \in Co |-> FALSE]
    /\ rounds = [c \in Co |-> 0]
    /\ fault = "none"
    /\ steal \in Builds
    /\ taskCap \in TaskCaps

-----------------------------------------------------------------------------
(* The executors *)

\* Defect: exec_co without the test of can_resume().
TakeUnchecked(e, t) ==
    ex' = [ex EXCEPT ![e] = [pc |-> "resume", co |-> t.co, n |-> t.n, m |-> 0]]

\* exec_co up to the test of can_resume(): a task whose cell is empty is dropped.
Take(e, t) ==
    ex' = IF Valid(t)
          THEN [ex EXCEPT ![e] = [pc |-> "resume", co |-> t.co, n |-> t.n, m |-> 0]]
          ELSE ex

\* The main loop dequeues from the executor's own queue.
Dequeue(e) ==
    /\ On(e, "idle")
    /\ tasks[e] # <<>>
    /\ Take(e, Head(tasks[e]))
    /\ tasks' = [tasks EXCEPT ![e] = Tail(@)]
    /\ UNCHANGED <<locked, waiters, at, held, cells, expected, rounds, fault>>

Half(n) == IF (n + 1) \div 2 < 10 THEN (n + 1) \div 2 ELSE 10

\* wait_handler of an executor that found its queue empty: it runs the single
\* task of the next queue, or moves half of a longer queue to its own.
WorkSteal(e) ==
    LET q == (e + 1) % N
        k == Half(Len(tasks[q]))
    IN  /\ steal /\ N > 1
        /\ On(e, "idle")
        /\ tasks[e] = <<>>
        /\ tasks[q] # <<>>
        /\ \/ /\ Len(tasks[q]) = 1
              /\ Take(e, Head(tasks[q]))
              /\ tasks' = [tasks EXCEPT ![q] = <<>>]
           \/ /\ Len(tasks[q]) > 1
              /\ tasks' = [tasks EXCEPT ![e] = SubSeq(tasks[q], 1, k),
                                        ![q] = SubSeq(tasks[q], k + 1, Len(tasks[q]))]
              /\ UNCHANGED ex
        /\ UNCHANGED <<locked, waiters, at, held, cells, expected, rounds, fault>>

\* An executor has tested caller_c and is about to move the continuation out of
\* the cell that e is about to resume: read and clear of a continuation are two
\* plain accesses, and both executors can read it.
Raced(e) == \E f \in Exec : /\ ex[f].pc = "move"
                            /\ ex[f].co = ex[e].co /\ ex[f].m = ex[e].n

\* resume_user_co (or the first start) moves the coroutine out of its cell.
\* If the cell was emptied since can_resume(), a null continuation is resumed.
Resume(e) ==
    /\ On(e, "resume")
    /\ \/ /\ Valid(ex[e])
          /\ held' = [held EXCEPT ![ex[e].co] = 0]
          /\ ex' = [ex EXCEPT ![e].pc = "run"]
          /\ UNCHANGED fault
       \/ /\ ~Valid(ex[e])
          /\ fault' = "null_resume"
          /\ UNCHANGED <<held, ex>>
       \/ /\ Valid(ex[e]) /\ Raced(e)
          /\ fault' = "double_resume"
          /\ UNCHANGED <<held, ex>>
    /\ UNCHANGED <<locked, waiters, tasks, at, cells, expected, rounds>>

-----------------------------------------------------------------------------
(* lock() *)

\* bool expected = false, at the head of every iteration.
Declare(e) ==
    LET c == ex[e].co
    IN  /\ (Runs(e, "out") /\ rounds[c] < Rounds) \/ Runs(e, "lock")
        /\ expected' = [expected EXCEPT ![c] = FALSE]
        /\ at' = [at EXCEPT ![c] = "try"]
        /\ UNCHANGED <<locked, waiters, tasks, ex, held, cells, rounds, fault>>

\* What compare_exchange_strong(expected, true) compares with after expected = false:
\* the constant the compiler keeps, or what the caller's frame holds by now.
Compared(c) == {FALSE, expected[c]}

\* The first compare-and-swap; when it fails, it stores what it saw in expected,
\* callcc moves the caller into the new cell caller_c and the executor goes on
\* with the callcc function.
FirstCas(e) ==
    LET c == ex[e].co
    IN  /\ Runs(e, "try")
        /\ \E x \in Compared(c) :
              \/ /\ locked = x
                 /\ locked' = TRUE
                 /\ at' = [at EXCEPT ![c] = "cs"]
                 /\ UNCHANGED <<cells, held, ex, expected>>
              \/ /\ locked # x
                 /\ expected' = [expected EXCEPT ![c] = locked]
                 /\ at' = [at EXCEPT ![c] = "lock"]
                 /\ cells' = [cells EXCEPT ![c] = @ + 1]
                 /\ held' = [held EXCEPT ![c] = cells[c] + 1]
                 /\ ex' = [ex EXCEPT ![e] = [pc |-> "push", co |-> c, n |-> ex[e].n,
                                             m |-> cells[c] + 1]]
                 /\ UNCHANGED locked
        /\ UNCHANGED <<waiters, tasks, rounds, fault>>

\* A full m_wait_cos drops the only reference to the suspended caller.
Push(e) ==
    LET c == ex[e].co
    IN  /\ On(e, "push")
        /\ IF Len(waiters) < WaitCap
           THEN /\ waiters' = Append(waiters, [co |-> c, n |-> ex[e].m, tq |-> e])
                /\ ex' = [ex EXCEPT ![e].pc = "clear"]
                /\ UNCHANGED <<at, held>>
           ELSE /\ at' = [at EXCEPT ![c] = "lost"]
                /\ held' = [held EXCEPT ![c] = 0]
                /\ ex' = [ex EXCEPT ![e] = IdleExecutor]
                /\ UNCHANGED waiters
        /\ UNCHANGED <<locked, tasks, cells, expected, rounds, fault>>

\* The caller is still in lock(), where expected lives.  A later call of the
\* same coroutine has its frame in the same place.
FrameAlive(e) ==
    LET c == ex[e].co
    IN  at[c] \in {"lock", "try"} \/ (at[c] = "dropped" /\ held[c] = ex[e].m)

\* Executor e writes v to the caller's expected and goes on as r.
WriteExpected(e, v, r) ==
    \/ /\ FrameAlive(e)
       /\ expected' = [expected EXCEPT ![ex[e].co] = v]
       /\ ex' = [ex EXCEPT ![e] = r]
       /\ UNCHANGED fault
    \/ /\ ~FrameAlive(e)
       /\ fault' = "dead_frame"
       /\ UNCHANGED <<expected, ex>>

\* expected = false, by the callcc function.
ClearExpected(e) ==
    /\ On(e, "clear")
    /\ WriteExpected(e, FALSE, [ex[e] EXCEPT !.pc = "cas"])
    /\ UNCHANGED <<locked, waiters, tasks, at, held, cells, rounds>>

\* Defect: the second attempt stores TRUE without comparing.
SecondCasStore(e) ==
    /\ On(e, "cas")
    /\ locked' = TRUE
    /\ ex' = [ex EXCEPT ![e].pc = "check"]
    /\ UNCHANGED <<waiters, tasks, at, held, cells, expected, rounds, fault>>

\* Defect: the lock is not tried again after the push.
SecondCasSkipped(e) ==
    /\ On(e, "cas")
    /\ ex' = [ex EXCEPT ![e] = IdleExecutor]
    /\ UNCHANGED <<locked, waiters, tasks, at, held, cells, expected, rounds, fault>>

\* The second compare-and-swap, up to what it saw.
SecondCas(e) ==
    /\ On(e, "cas")
    /\ \E x \in IF FrameAlive(e) THEN Compared(ex[e].co) ELSE {FALSE} :
          \/ /\ locked = x
             /\ locked' = TRUE
             /\ ex' = [ex EXCEPT ![e].pc = "check"]
          \/ /\ locked # x
             /\ ex' = [ex EXCEPT ![e].pc = IF locked THEN "saw_set" ELSE "saw_free"]
             /\ UNCHANGED locked
    /\ UNCHANGED <<waiters, tasks, at, held, cells, expected, rounds, fault>>

\* A failed compare-and-swap stores what it saw in the caller's expected; the
\* executor leaves the caller suspended.
StoreSeen(e) ==
    /\ On(e, "saw_set") \/ On(e, "saw_free")
    /\ WriteExpected(e, ex[e].pc = "saw_set", IdleExecutor)
    /\ UNCHANGED <<locked, waiters, tasks, at, held, cells, rounds>>

\* The lock is taken: is the caller still in caller_c?  If not, it is logged
\* and the executor returns to its loop without releasing the lock.
CheckCaller(e) ==
    /\ On(e, "check")
    /\ IF held[ex[e].co] = ex[e].m
       THEN /\ ex' = [ex EXCEPT ![e].pc = "move"]
            /\ UNCHANGED fault
       ELSE /\ ex' = [ex EXCEPT ![e] = IdleExecutor]
            /\ fault' = "caller_invalid"
    /\ UNCHANGED <<locked, waiters, tasks, at, held, cells, expected, rounds>>

\* Defect: the caller takes its own resumption for one by the scheduler.
MoveCallerRetries(e) ==
    LET c == ex[e].co
    IN  /\ On(e, "move")
        /\ held' = [held EXCEPT ![c] = 0]
        /\ ex' = [ex EXCEPT ![e] = [pc |-> "run", co |-> c, n |-> ex[e].n, m |-> 0]]
        /\ UNCHANGED <<locked, waiters, tasks, at, cells, expected, rounds, fault>>

\* The callcc function returns *caller_c: the caller goes on with the lock.
MoveCaller(e) ==
    LET c == ex[e].co
    IN  /\ On(e, "move")
        /\ IF held[c] = ex[e].m
           THEN /\ held' = [held EXCEPT ![c] = 0]
                /\ at' = [at EXCEPT ![c] = "cs"]
                /\ ex' = [ex EXCEPT ![e] = [pc |-> "run", co |-> c, n |-> ex[e].n, m |-> 0]]
                /\ UNCHANGED fault
           ELSE /\ fault' = "null_resume"
                /\ UNCHANGED <<held, at, ex>>
        /\ UNCHANGED <<locked, waiters, tasks, cells, expected, rounds>>

-----------------------------------------------------------------------------
(* The critical section and unlock() *)

\* Defect: the executor does not drop its task.
YieldKeepsTask(e) ==
    LET c == ex[e].co
    IN  /\ Runs(e, "cs")
        /\ at' = [at EXCEPT ![c] = "cs2"]
        /\ held' = [held EXCEPT ![c] = ex[e].n]
        /\ tasks' = [tasks EXCEPT ![e] = Append(@, [co |-> c, n |-> ex[e].n])]
        /\ ex' = [ex EXCEPT ![e].pc = "idle"]
        /\ UNCHANGED <<locked, waiters, cells, expected, rounds, fault>>

\* cor_yield() while holding the lock: back into the cell of the executed task,
\* and to the end of the executor's queue, which refuses the task when it is full.
Yield(e) ==
    LET c == ex[e].co
    IN  /\ Runs(e, "cs")
        /\ \/ /\ Len(tasks[e]) < taskCap
              /\ tasks' = [tasks EXCEPT ![e] = Append(@, [co |-> c, n |-> ex[e].n])]
              /\ at' = [at EXCEPT ![c] = "cs2"]
           \/ /\ Len(tasks[e]) >= taskCap
              /\ at' = [at EXCEPT ![c] = "orphan"]
              /\ UNCHANGED tasks
        /\ held' = [held EXCEPT ![c] = ex[e].n]
        /\ ex' = [ex EXCEPT ![e] = IdleExecutor]
        /\ UNCHANGED <<locked, waiters, cells, expected, rounds, fault>>

\* unlock() up to its compare-and-swap: a lock found free is logged and no more.
Unlock(e) ==
    /\ Runs(e, "cs") \/ Runs(e, "cs2")
    /\ locked' = FALSE
    /\ at' = [at EXCEPT ![ex[e].co] = "wake"]
    /\ UNCHANGED <<waiters, tasks, ex, held, cells, expected, rounds, fault>>

EndRound(c) ==
    /\ at' = [at EXCEPT ![c] = "out"]
    /\ rounds' = [rounds EXCEPT ![c] = @ + 1]

\* The waiter w is scheduled on the queue it waited on.
Schedule(w) ==
    /\ Len(tasks[w.tq]) < taskCap
    /\ tasks' = [tasks EXCEPT ![w.tq] = Append(@, [co |-> w.co, n |-> w.n])]

\* Defect: the waiter stays in the queue.
WakeOneKeepsWaiter(e) ==
    /\ Runs(e, "wake")
    /\ waiters # <<>> /\ Schedule(Head(waiters))
    /\ EndRound(ex[e].co)
    /\ UNCHANGED <<locked, waiters, ex, held, cells, expected, fault>>

\* Defect: the loop ends at a stale waiter.
WakeOneStopsAtStale(e) ==
    /\ Runs(e, "wake")
    /\ waiters' = IF waiters = <<>> THEN waiters ELSE Tail(waiters)
    /\ IF waiters # <<>> /\ Valid(Head(waiters)) THEN Schedule(Head(waiters))
                                                 ELSE UNCHANGED tasks
    /\ EndRound(ex[e].co)
    /\ UNCHANGED <<locked, ex, held, cells, expected, fault>>

\* One iteration of unlock()'s loop: stale waiters are popped and skipped, and
\* the loop ends with the first valid one, though a full queue refuses its task.
WakeOne(e) ==
    LET c == ex[e].co
        w == Head(waiters)
    IN  /\ Runs(e, "wake")
        /\ \/ /\ waiters = <<>>
              /\ EndRound(c)
              /\ UNCHANGED <<waiters, tasks>>
           \/ /\ waiters # <<>> /\ ~Valid(w)
              /\ waiters' = Tail(waiters)
              /\ UNCHANGED <<tasks, at, rounds>>
           \/ /\ waiters # <<>> /\ Valid(w)
              /\ waiters' = Tail(waiters)
              /\ Schedule(w)
              /\ EndRound(c)
           \/ /\ waiters # <<>> /\ Valid(w)
              /\ Len(tasks[w.tq]) >= taskCap
              /\ waiters' = Tail(waiters)
              /\ at' = [at EXCEPT ![c] = "out", ![w.co] = "dropped"]
              /\ rounds' = [rounds EXCEPT ![c] = @ + 1]
              /\ UNCHANGED tasks
        /\ UNCHANGED <<locked, ex, held, cells, expected, fault>>

\* The coroutine's function returns after its last critical section.
Finish(e) ==
    /\ Runs(e, "out")
    /\ rounds[ex[e].co] = Rounds
    /\ at' = [at EXCEPT ![ex[e].co] = "done"]
    /\ ex' = [ex EXCEPT ![e] = IdleExecutor]
    /\ UNCHANGED <<locked, waiters, tasks, held, cells, expected, rounds, fault>>

-----------------------------------------------------------------------------

Step(e) ==
    \/ Dequeue(e) \/ WorkSteal(e) \/ Resume(e)
    \/ Declare(e) \/ FirstCas(e)
    \/ Push(e) \/ ClearExpected(e) \/ SecondCas(e) \/ StoreSeen(e)
    \/ CheckCaller(e) \/ MoveCaller(e)
    \/ Yield(e) \/ Unlock(e) \/ WakeOne(e) \/ Finish(e)

\* Every coroutine has finished and the executors poll empty queues.
AllFinished ==
    /\ \A c \in Co : at[c] = "done"
    /\ \A e \in Exec : ex[e].pc = "idle" /\ tasks[e] = <<>>
    /\ UNCHANGED vars

\* A process is built once.
Run(e) == Step(e) /\ UNCHANGED <<steal, taskCap>>

Next == (\E e \in Exec : Run(e)) \/ AllFinished

\* The operating system runs every executor's thread.
Fairness == \A e \in Exec : WF_vars(Run(e))

Spec == Init /\ [][Next]_vars
FairSpec == Spec /\ Fairness

-----------------------------------------------------------------------------
(* Properties *)

TypeOK ==
    /\ locked \in BOOLEAN
    /\ waiters \in Seq(Waiter)
    /\ tasks \in [Exec -> Seq(Task)]
    /\ ex \in [Exec -> Executor]
    /\ \A e \in Exec : (ex[e].pc = "idle") <=> (ex[e].co = NoCo)
    /\ at \in [Co -> AtPc]
    /\ held \in [Co -> Nat]
    /\ cells \in [Co -> Nat]
    /\ expected \in [Co -> BOOLEAN]
    /\ rounds \in [Co -> Nat]
    /\ fault \in Fault
    /\ taskCap \in Nat

\* The coroutines, and the executors in the second half of lock() on behalf of
\* one, that have the lock.
InCs(c) == at[c] \in {"cs", "cs2"}
Acquiring(e) == ex[e].pc \in {"check", "move"}

(* Mutual exclusion: without stealing, two winners of lock()'s compare-and-swaps
   never hold the mutex together, whichever half of lock() each of them won it
   in.  (With stealing they can: a thief runs the caller while the second half
   still writes to the caller's expected, and a compare-and-swap that finds true
   there succeeds on a lock that is held.) *)
MutualExclusion == ~steal =>
    /\ \A c, d \in Co : InCs(c) /\ InCs(d) => c = d
    /\ \A e, f \in Exec : Acquiring(e) /\ Acquiring(f) => e = f
    /\ \A c \in Co, e \in Exec : ~(InCs(c) /\ Acquiring(e))

(* Without stealing the lock is never orphaned: a set m_lock_acquired has an
   owner that will release it, or had one whose task a full queue refused. *)
LockHasOwner ==
    locked /\ ~steal => \/ \E c \in Co : InCs(c) \/ at[c] = "orphan"
                        \/ \E e \in Exec : Acquiring(e)

(* lock() logs "caller_c wrongly became invalid!" when the caller it suspended
   has been resumed by somebody else when it takes the lock for it, and leaves
   the lock taken: that never happens. *)
CallerStaysValid == fault # "caller_invalid"

(* Without stealing no continuation is resumed after it was moved away: between
   can_resume() and resume_user_co(), or between the test of caller_c and its
   return, nobody else resumes the coroutine, and lock() never finds that its
   caller has become invalid. *)
NoNullResume == ~steal => fault = "none"

\* The places that refer to cell n of coroutine c.
References(c, n) ==
      {<<"waiters", 0, i>> : i \in {j \in DOMAIN waiters :
                                    waiters[j].co = c /\ waiters[j].n = n}}
      \cup (UNION {{<<"tasks", e, i>> : i \in {j \in DOMAIN tasks[e] :
                                    tasks[e][j].co = c /\ tasks[e][j].n = n}} : e \in Exec})
      \cup {<<"resume", e, 0>> : e \in {f \in Exec : ex[f].pc = "resume"
                                    /\ ex[f].co = c /\ ex[f].n = n}}

(* A suspended coroutine is scheduled at most once: its cell is in one place,
   the wait queue, a task queue or the hands of an executor. *)
ScheduledOnce ==
    \A c \in Co : held[c] # 0 =>
        \A p, q \in References(c, held[c]) : p = q

\* Coroutines that will try the lock without being woken, or wake somebody.
Awake == {c \in Co : \/ at[c] = "wake"
                     \/ \E e \in Exec : ex[e].co = c /\ at[c] \in {"out", "lock", "try"}
                     \/ \E e \in Exec : \E i \in DOMAIN tasks[e] :
                            tasks[e][i].co = c /\ Valid(tasks[e][i])}

(* No lost wakeup: without stealing, while the mutex is free and a coroutine
   waits in m_wait_cos, some other coroutine is on its way to try the lock or to
   pop the queue, unless a full task queue refused the waiter that was woken. *)
NoLostWakeup ==
    (~steal /\ ~locked /\ \E i \in DOMAIN waiters : Valid(waiters[i])) =>
        Awake # {} \/ \E c \in Co : at[c] = "dropped"

(* Without stealing, and with a bounded number of critical sections, every call
   of lock() returns and every coroutine finishes, while no task queue is full.
   A coroutine refused by a full m_wait_cos is destroyed, but takes no other with
   it. *)
EveryLockEnds ==
    \A c \in Co : <>(\/ steal
                     \/ at[c] \in {"done", "lost"}
                     \/ \E d \in Co : at[d] \in {"dropped", "orphan"})
=============================================================================
