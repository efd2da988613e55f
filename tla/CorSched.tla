------------------------------ MODULE CorSched ------------------------------
(***************************************************************************)
(* The coroutine scheduler (src/mod_coroutine/mod_cor.cpp): coroutines on   *)
(* the task queues of executor threads, creation, yield, join and end of a  *)
(* coroutine, work stealing, and the monitor of co_run_impl that replaces   *)
(* an executor whose coroutine blocks the thread.                           *)
(*                                                                         *)
(* As in CorMutex, held[c] numbers the cell (a heap continuation) that      *)
(* holds the suspended coroutine c and is 0 while c runs; tasks and joiners *)
(* name a cell and are stale once c has left it.  Cell 1 is the m_c of the  *)
(* object that create made.  A user's coroutine is a program, Prog[c].      *)
(***************************************************************************)
EXTENDS Integers, Sequences

CONSTANTS Co,       \* the coroutines
          NoCo,     \* "no coroutine"
          N,        \* the number of task queues (gs_core_num)
          MaxExec,  \* executors ever started: bounds the monitor
          Confs     \* the builds and programs, of which a process is one

Queue == 0 .. N - 1
Exec == 1 .. MaxExec

Op == [op : {"yield", "block"}, co : {NoCo}] \cup [op : {"create", "join"}, co : Co]

\* steal is FALSE when built with CPPT_COR_NO_WORKSTEAL; qcap is the capacity
\* of a task queue (2048) and waitcap that of m_wait_cos (128); initial are the
\* coroutines created before co_run_impl, when there is one queue; prog[c] is
\* the sequence of operations of c, for every c that is ever created.  slow
\* bounds the executors started while one is replaced that is only slow.
IsConf(k) ==
    /\ k.steal \in BOOLEAN
    /\ k.qcap \in Nat \ {0} /\ k.waitcap \in Nat /\ k.slow \in Nat
    /\ k.initial \in Seq(DOMAIN k.prog) /\ Len(k.initial) <= k.qcap
    /\ \A i, j \in DOMAIN k.initial : k.initial[i] = k.initial[j] => i = j
    /\ DOMAIN k.prog \subseteq Co
    /\ \A c \in DOMAIN k.prog :
          /\ k.prog[c] \in Seq(Op)
          /\ \A i \in DOMAIN k.prog[c] :
                k.prog[c][i].op = "create" => k.prog[c][i].co \in DOMAIN k.prog

ASSUME SchedAssumption ==
    /\ NoCo \notin Co
    /\ N \in Nat \ {0} /\ MaxExec \in Nat /\ MaxExec >= N
    /\ \A k \in Confs : IsConf(k)

VARIABLES
    queue,    \* g_task_queues: queue[q] is a sequence of Task
    ex,       \* the executors, in the order in which they were started
    current,  \* g_executors: the executor of each queue
    alive,    \* the number of executors started
    made,     \* the coroutines created
    started,  \* m_co_started
    stopped,  \* m_co_stopped
    lost,     \* coroutines dropped because a queue was full
    joiners,  \* m_wait_cos of each coroutine, a sequence of Joiner
    step,     \* the operation each coroutine is at
    waitsFor, \* the coroutine in whose join() c is suspended, or NoCo
    held,     \* the cell that holds the suspended c
    cells,    \* the number of cells c has used
    crashed,  \* a null continuation was resumed, or an executor's was lost
    conf      \* the build and the programs of this process

vars == <<queue, ex, current, alive, made, started, stopped, lost, joiners,
          step, waitsFor, held, cells, crashed, conf>>
monitorVars == <<current, alive>>
lifeVars == <<made, started, stopped>>
joinVars == <<joiners, waitsFor>>
cellVars == <<held, cells>>

Task == [co : Co, n : Nat]
Joiner == [co : Co, n : Nat, tq : Queue]

\* n is the cell of the task an executor executes, m the cell caller_c of
\* join() or the number of tasks still to steal; in exec_co below wait_handler
\* an executor is stolen; blocking is m_is_blocking.
ExPc == {"none", "idle", "resume", "run", "blocked", "push", "check", "move",
         "wake", "steal", "gone"}
Executor == [pc : ExPc, tq : Queue, on : BOOLEAN, co : Co \cup {NoCo},
             n : Nat, m : Nat, stolen : BOOLEAN, blocking : BOOLEAN]

NewExecutor(q) == [pc |-> "idle", tq |-> q, on |-> TRUE, co |-> NoCo, n |-> 0,
                   m |-> 0, stolen |-> FALSE, blocking |-> FALSE]
NoExecutor == [NewExecutor(0) EXCEPT !.pc = "none"]

Init ==
    /\ conf \in Confs
    /\ queue = [q \in Queue |->
                  IF q = 0 THEN [i \in DOMAIN conf.initial |-> [co |-> conf.initial[i], n |-> 1]]
                           ELSE <<>>]
    /\ ex = [x \in Exec |-> IF x <= N THEN NewExecutor(x - 1) ELSE NoExecutor]
    /\ current = [q \in Queue |-> q + 1]
    /\ alive = N
    /\ made = {conf.initial[i] : i \in DOMAIN conf.initial}
    /\ started = {} /\ stopped = {} /\ lost = {}
    /\ joiners = [c \in Co |-> <<>>]
    /\ step = [c \in Co |-> 1]
    /\ waitsFor = [c \in Co |-> NoCo]
    /\ held = [c \in Co |-> 1]
    /\ cells = [c \in Co |-> 1]
    /\ crashed = FALSE

-----------------------------------------------------------------------------
(* The executors *)

Prog == conf.prog
On(x, pc) == ~crashed /\ ex[x].pc = pc
Runs(x, op) == /\ On(x, "run")
               /\ step[ex[x].co] <= Len(Prog[ex[x].co])
               /\ Prog[ex[x].co][step[ex[x].co]].op = op
Arg(x) == Prog[ex[x].co][step[ex[x].co]].co

Goto(x, pc) == ex' = [ex EXCEPT ![x].pc = pc]
Advance(c) == step' = [step EXCEPT ![c] = @ + 1]

\* can_resume(), and the tests of *(ele.c) and *caller_c.
Valid(t) == held[t.co] = t.n

\* The end of exec_co.  A replaced executor leaves its loop when it returns to
\* it; below wait_handler it returns to dequeue instead.
Return(e, blocking) ==
    [pc |-> IF e.on \/ e.stolen THEN "idle" ELSE "gone", tq |-> e.tq, on |-> e.on,
     co |-> NoCo, n |-> 0, m |-> 0, stolen |-> FALSE, blocking |-> blocking]
EndExec(x) == ex' = [ex EXCEPT ![x] = Return(ex[x], FALSE)]

\* Defect: a stale task is resumed.
BeginUnchecked(x, t, stolen) ==
    ex' = [ex EXCEPT ![x] = [pc |-> "resume", tq |-> ex[x].tq, on |-> ex[x].on, co |-> t.co,
              n |-> t.n, m |-> 0, stolen |-> stolen, blocking |-> ex[x].blocking]]

\* exec_co up to can_resume(): a stale task is dropped, and m_is_blocking stays.
Begin(x, t, stolen) ==
    LET e == [pc |-> "resume", tq |-> ex[x].tq, on |-> ex[x].on, co |-> t.co,
              n |-> t.n, m |-> 0, stolen |-> stolen, blocking |-> ex[x].blocking]
    IN  ex' = [ex EXCEPT ![x] = IF Valid(t) THEN e ELSE Return(e, e.blocking)]

\* try_enqueue: a full queue drops the task, and with it the coroutine.
HasRoom(q) == Len(queue[q]) < conf.qcap
Enqueue(q, t) ==
    /\ queue' = IF HasRoom(q) THEN [queue EXCEPT ![q] = Append(@, t)] ELSE queue
    /\ lost' = IF HasRoom(q) THEN lost ELSE lost \cup {t.co}

Dequeue(x) ==
    LET q == ex[x].tq
    IN  /\ On(x, "idle")
        /\ queue[q] # <<>>
        /\ Begin(x, Head(queue[q]), FALSE)
        /\ queue' = [queue EXCEPT ![q] = Tail(@)]
        /\ UNCHANGED <<monitorVars, lifeVars, lost, joinVars, step, cellVars, crashed>>

\* wait_handler of an executor with an empty queue: it executes the single task
\* of the next queue ...
StealSingle(x) ==
    LET q == (ex[x].tq + 1) % N
    IN  /\ conf.steal /\ N > 1
        /\ On(x, "idle")
        /\ queue[ex[x].tq] = <<>>
        /\ Len(queue[q]) = 1
        /\ Begin(x, Head(queue[q]), TRUE)
        /\ queue' = [queue EXCEPT ![q] = <<>>]
        /\ UNCHANGED <<monitorVars, lifeVars, lost, joinVars, step, cellVars, crashed>>

Half(n) == IF (n + 1) \div 2 < 10 THEN (n + 1) \div 2 ELSE 10

\* ... or sets out to move half of a longer queue to its own ...
StealHalf(x) ==
    LET q == (ex[x].tq + 1) % N
    IN  /\ conf.steal /\ N > 1
        /\ On(x, "idle")
        /\ queue[ex[x].tq] = <<>>
        /\ Len(queue[q]) > 1
        /\ ex' = [ex EXCEPT ![x] = [NewExecutor(ex[x].tq) EXCEPT
                     !.pc = "steal", !.m = Half(Len(queue[q])),
                     !.on = ex[x].on, !.blocking = ex[x].blocking]]
        /\ UNCHANGED <<queue, monitorVars, lifeVars, lost, joinVars, step, cellVars, crashed>>

\* ... one by one, while others use both queues.
StealOne(x) ==
    LET q == (ex[x].tq + 1) % N
        mine == ex[x].tq
        t == Head(queue[q])
    IN  /\ On(x, "steal")
        /\ \/ /\ ex[x].m = 0 \/ queue[q] = <<>>
              /\ Goto(x, "idle")
              /\ UNCHANGED <<queue, lost>>
           \/ /\ ex[x].m > 0 /\ queue[q] # <<>> /\ HasRoom(mine)
              /\ queue' = [queue EXCEPT ![mine] = Append(@, t), ![q] = Tail(@)]
              /\ ex' = [ex EXCEPT ![x].m = @ - 1]
              /\ UNCHANGED lost
           \/ /\ ex[x].m > 0 /\ queue[q] # <<>> /\ ~HasRoom(mine)
              /\ queue' = [queue EXCEPT ![q] = Tail(@)]
              /\ lost' = IF Valid(t) THEN lost \cup {t.co} ELSE lost
              /\ Goto(x, "idle")
        /\ UNCHANGED <<monitorVars, lifeVars, joinVars, step, cellVars, crashed>>

\* start_user_co, or resume_user_co, which returns from join() if c was in it.
\* A cell that was emptied since can_resume() is a null continuation.
Resume(x) ==
    LET c == ex[x].co
    IN  /\ On(x, "resume")
        /\ \/ /\ Valid(ex[x])
              /\ started' = started \cup {c}
              /\ held' = [held EXCEPT ![c] = 0]
              /\ step' = IF waitsFor[c] = NoCo THEN step ELSE [step EXCEPT ![c] = @ + 1]
              /\ waitsFor' = [waitsFor EXCEPT ![c] = NoCo]
              /\ Goto(x, "run")
              /\ UNCHANGED crashed
           \/ /\ ~Valid(ex[x])
              /\ crashed' = TRUE
              /\ UNCHANGED <<started, held, step, waitsFor, ex>>
        /\ UNCHANGED <<queue, monitorVars, made, stopped, lost, joiners, cells>>

-----------------------------------------------------------------------------
(* What a coroutine does *)

\* Defect: the coroutine is queued before it has left the executor.
YieldEarly(x) ==
    LET c == ex[x].co
    IN  /\ Runs(x, "yield")
        /\ Enqueue(ex[x].tq, [co |-> c, n |-> ex[x].n])
        /\ held' = [held EXCEPT ![c] = ex[x].n]
        /\ Advance(c)
        /\ Goto(x, "resume")
        /\ UNCHANGED <<monitorVars, lifeVars, joinVars, cells, crashed>>

\* cor_yield: into the cell of the executed task and to the end of the queue.
Yield(x) ==
    LET c == ex[x].co
    IN  /\ Runs(x, "yield")
        /\ held' = [held EXCEPT ![c] = ex[x].n]
        /\ Enqueue(ex[x].tq, [co |-> c, n |-> ex[x].n])
        /\ Advance(c)
        /\ EndExec(x)
        /\ UNCHANGED <<monitorVars, lifeVars, joinVars, cells, crashed>>

\* A call that blocks the thread, for more than a second or for ever.
Block(x) ==
    /\ Runs(x, "block")
    /\ Goto(x, "blocked")
    /\ UNCHANGED <<queue, monitorVars, lifeVars, lost, joinVars, step, cellVars, crashed>>

Unblock(x) ==
    /\ On(x, "blocked")
    /\ Goto(x, "run")
    /\ Advance(ex[x].co)
    /\ UNCHANGED <<queue, monitorVars, lifeVars, lost, joinVars, cellVars, crashed>>

\* The counter gs_use_core is shared without synchronization: any queue can be
\* the next, and of two creators at a time one can miss the queue with room.
NoRoom(x) == IF \E y \in Exec \ {x} : Runs(y, "create")
             THEN \E q \in Queue : ~HasRoom(q)
             ELSE \A q \in Queue : ~HasRoom(q)

\* cor_create: on the next queue with room.
Create(x) ==
    LET d == Arg(x)
    IN  /\ Runs(x, "create") /\ d \notin made
        /\ made' = made \cup {d}
        /\ \/ \E q \in Queue :
                 /\ HasRoom(q)
                 /\ queue' = [queue EXCEPT ![q] = Append(@, [co |-> d, n |-> 1])]
                 /\ UNCHANGED lost
           \/ /\ NoRoom(x)
              /\ lost' = lost \cup {d}
              /\ UNCHANGED queue
        /\ Advance(ex[x].co)
        /\ UNCHANGED <<ex, monitorVars, started, stopped, joinVars, cellVars, crashed>>

\* join() of a coroutine that has not started, or has stopped, returns at once.
JoinReturns(x) ==
    /\ Runs(x, "join")
    /\ Arg(x) \notin started \/ Arg(x) \in stopped
    /\ Advance(ex[x].co)
    /\ UNCHANGED <<queue, ex, monitorVars, lifeVars, lost, joinVars, cellVars, crashed>>

\* Otherwise callcc moves the caller into a new cell, caller_c, ...
Join(x) ==
    LET c == ex[x].co
    IN  /\ Runs(x, "join")
        /\ Arg(x) \in started \ stopped
        /\ waitsFor' = [waitsFor EXCEPT ![c] = Arg(x)]
        /\ cells' = [cells EXCEPT ![c] = @ + 1]
        /\ held' = [held EXCEPT ![c] = cells[c] + 1]
        /\ ex' = [ex EXCEPT ![x].pc = "push", ![x].m = cells[c] + 1]
        /\ UNCHANGED <<queue, monitorVars, lifeVars, lost, joiners, step, crashed>>

\* ... which is queued at the other coroutine, or dropped if there is no room.
Push(x) ==
    LET c == ex[x].co
        t == waitsFor[c]
    IN  /\ On(x, "push")
        /\ \/ /\ Len(joiners[t]) < conf.waitcap
              /\ joiners' = [joiners EXCEPT ![t] = Append(@, [co |-> c, n |-> ex[x].m, tq |-> ex[x].tq])]
              /\ Goto(x, "check")
              /\ UNCHANGED <<held, lost>>
           \/ /\ Len(joiners[t]) >= conf.waitcap
              /\ held' = [held EXCEPT ![c] = 0]
              /\ lost' = lost \cup {c}
              /\ EndExec(x)
              /\ UNCHANGED joiners
        /\ UNCHANGED <<queue, monitorVars, lifeVars, waitsFor, step, cells, crashed>>

\* Defect: m_co_stopped is not tested again after the push.
CheckSkipped(x) ==
    /\ On(x, "check")
    /\ EndExec(x)
    /\ UNCHANGED <<queue, monitorVars, lifeVars, lost, joinVars, step, cellVars, crashed>>

\* Defect: the caller goes on as soon as it is queued.
CheckAlways(x) ==
    /\ On(x, "check")
    /\ Goto(x, "move")
    /\ UNCHANGED <<queue, monitorVars, lifeVars, lost, joinVars, step, cellVars, crashed>>

\* If the other has stopped since and the caller is in caller_c, the caller goes
\* on.  It is there in its join(), or, woken by the other's end, taken by a thief
\* and back in the same cell, in a later yield.
Check(x) ==
    LET c == ex[x].co
    IN  /\ On(x, "check")
        /\ IF waitsFor[c] \in stopped \cup {NoCo} /\ held[c] = ex[x].m
           THEN Goto(x, "move") ELSE EndExec(x)
        /\ UNCHANGED <<queue, monitorVars, lifeVars, lost, joinVars, step, cellVars, crashed>>

\* join() returns to the caller.  In a yield the return leaves it no continuation
\* of the executor, and there is none to resume in an emptied cell.
Move(x) ==
    LET c == ex[x].co
    IN  /\ On(x, "move")
        /\ \/ /\ held[c] = ex[x].m /\ waitsFor[c] # NoCo
              /\ held' = [held EXCEPT ![c] = 0]
              /\ waitsFor' = [waitsFor EXCEPT ![c] = NoCo]
              /\ Advance(c)
              /\ Goto(x, "run")
              /\ UNCHANGED crashed
           \/ /\ held[c] # ex[x].m \/ waitsFor[c] = NoCo
              /\ crashed' = TRUE
              /\ UNCHANGED <<held, waitsFor, step, ex>>
        /\ UNCHANGED <<queue, monitorVars, lifeVars, lost, joiners, cells>>

\* m_user_co() has returned.
End(x) ==
    LET c == ex[x].co
    IN  /\ On(x, "run") /\ step[c] > Len(Prog[c])
        /\ stopped' = stopped \cup {c}
        /\ Goto(x, "wake")
        /\ UNCHANGED <<queue, monitorVars, made, started, lost, joinVars, step, cellVars, crashed>>

\* Its joiners are popped and those still suspended there are scheduled.
Wake(x) ==
    LET c == ex[x].co
        w == Head(joiners[c])
    IN  /\ On(x, "wake")
        /\ \/ /\ joiners[c] = <<>>
              /\ EndExec(x)
              /\ UNCHANGED <<queue, lost, joiners>>
           \/ /\ joiners[c] # <<>>
              /\ joiners' = [joiners EXCEPT ![c] = Tail(@)]
              /\ IF Valid(w) THEN Enqueue(w.tq, [co |-> w.co, n |-> w.n])
                             ELSE UNCHANGED <<queue, lost>>
              /\ UNCHANGED ex
        /\ UNCHANGED <<monitorVars, lifeVars, waitsFor, step, cellVars, crashed>>

-----------------------------------------------------------------------------
(* The monitor *)

Executing(x) == ex[x].pc \notin {"none", "idle", "steal", "gone"}

\* Every second the monitor marks an executing executor as blocking, ...
Mark(q) ==
    LET x == current[q]
    IN  /\ conf.steal /\ ~crashed
        /\ Executing(x) /\ ~ex[x].blocking
        /\ ex' = [ex EXCEPT ![x].blocking = TRUE]
        /\ UNCHANGED <<queue, monitorVars, lifeVars, lost, joinVars, step, cellVars, crashed>>

\* Defect: the start of the blocking is taken anew each second.
ReplaceRestarts(q) ==
    /\ conf.steal /\ ~crashed
    /\ Executing(current[q]) /\ ex[current[q]].blocking
    /\ UNCHANGED <<queue, ex, monitorVars, lifeVars, lost, joinVars, step, cellVars, crashed>>

\* ... and replaces it when it is executing and marked after more than a second:
\* a blocked thread, a slow one, or one that executes the next task and kept
\* the mark.
Replace(q) ==
    LET x == current[q]
    IN  /\ conf.steal /\ ~crashed
        /\ Executing(x) /\ ex[x].blocking
        /\ alive < IF ex[x].pc = "blocked" THEN MaxExec ELSE N + conf.slow
        /\ alive < MaxExec
        /\ alive' = alive + 1
        /\ current' = [current EXCEPT ![q] = alive + 1]
        /\ ex' = [ex EXCEPT ![x].on = FALSE, ![alive + 1] = NewExecutor(q)]
        /\ UNCHANGED <<queue, lifeVars, lost, joinVars, step, cellVars, crashed>>

-----------------------------------------------------------------------------

WorkOf(x) ==
    \/ Dequeue(x) \/ StealSingle(x) \/ StealHalf(x) \/ StealOne(x) \/ Resume(x)
    \/ Yield(x) \/ Block(x) \/ Create(x)
    \/ JoinReturns(x) \/ Join(x) \/ Push(x) \/ Check(x) \/ Move(x)
    \/ End(x) \/ Wake(x)

Work(x) == WorkOf(x) /\ UNCHANGED conf
Monitor(q) == (Mark(q) \/ Replace(q)) /\ UNCHANGED conf

\* The executors poll empty queues.
AllQuiet ==
    /\ \A x \in Exec : ex[x].pc \in {"none", "idle", "gone"}
    /\ \A q \in Queue : queue[q] = <<>>
    /\ UNCHANGED vars

Next == \/ \E x \in Exec : Work(x) \/ (Unblock(x) /\ UNCHANGED conf)
        \/ \E q \in Queue : Monitor(q)
        \/ AllQuiet

\* The operating system runs the threads; a blocking call need not return.
Fairness == /\ \A x \in Exec : WF_vars(Work(x))
            /\ \A q \in Queue : WF_vars(Monitor(q))

Spec == Init /\ [][Next]_vars
FairSpec == Spec /\ Fairness

-----------------------------------------------------------------------------
(* Properties *)

TypeOK ==
    /\ queue \in [Queue -> Seq(Task)]
    /\ ex \in [Exec -> Executor]
    /\ \A x \in Exec : ex[x].pc \in {"none", "idle", "steal", "gone"} <=> ex[x].co = NoCo
    /\ current \in [Queue -> Exec]
    /\ alive \in Exec
    /\ made \subseteq Co /\ started \subseteq Co /\ stopped \subseteq Co /\ lost \subseteq Co
    /\ joiners \in [Co -> Seq(Joiner)]
    /\ step \in [Co -> Nat \ {0}]
    /\ waitsFor \in [Co -> Co \cup {NoCo}]
    /\ held \in [Co -> Nat]
    /\ cells \in [Co -> Nat]
    /\ crashed \in BOOLEAN

Hosted(c) == {x \in Exec : ex[x].co = c /\ ex[x].pc \in {"run", "blocked", "wake"}}
Names(p, c) == /\ p[2] \in DOMAIN queue[p[1]]
               /\ queue[p[1]][p[2]].co = c /\ Valid(queue[p[1]][p[2]])
Queued(c) == {p \in Queue \X (1 .. conf.qcap) : Names(p, c)}
About(c) == {x \in Exec : ex[x].co = c /\ ex[x].pc = "resume" /\ Valid(ex[x])}

(* A coroutine is on at most one executor, and a suspended one is due to be
   resumed at most once, through creation, yields, joins and thefts. *)
RunsOnce ==
    \A c \in Co :
        /\ \A x, y \in Hosted(c) : x = y
        /\ \A a, b \in Queued(c) : a = b
        /\ \A x, y \in About(c) : x = y
        /\ Queued(c) = {} \/ About(c) = {}

\* A joiner that the coroutine it waits for will still find.
Awaited(c) ==
    \E t \in Co : /\ \E i \in DOMAIN joiners[t] : joiners[t][i].co = c /\ Valid(joiners[t][i])
                  /\ t \notin stopped \/ \E x \in Exec : ex[x].pc = "wake" /\ ex[x].co = t

(* No coroutine is forgotten: one that has not ended, and was not dropped by a
   full queue, is on an executor, queued, or among the joiners of a coroutine
   that will still wake them, however join() and the other's end interleave. *)
NoneForgotten ==
    \A c \in made \ (stopped \cup lost) :
        \/ \E x \in Exec : ex[x].co = c
        \/ Queued(c) # {}
        \/ Awaited(c)

(* Without stealing no null continuation is resumed: a joiner that goes on by
   itself leaves the task by which the other woke it stale, and it is dropped. *)
NoNullResume == ~conf.steal => ~crashed

(* join() of a coroutine that has started returns after it has stopped.  (That
   of one that has not started returns at once, JoinReturns.) *)
JoinOutlastsStarted ==
    [][\A c \in Co : waitsFor[c] # NoCo /\ waitsFor'[c] = NoCo => waitsFor[c] \in stopped]_vars

\* c runs a program in which it blocks its thread; nobody joins such a c.
Blocks(c) == \E i \in DOMAIN Prog[c] : Prog[c][i].op = "block"

(* Every coroutine that does not block its thread itself ends, even when others
   block their threads for ever, as long as no full queue has dropped one and
   no null continuation is resumed. *)
OthersEnd ==
    \A c \in Co : <>(\/ c \in stopped
                     \/ c \notin DOMAIN Prog \/ (c \in DOMAIN Prog /\ Blocks(c))
                     \/ lost # {} \/ crashed)
=============================================================================
