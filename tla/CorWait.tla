------------------------------ MODULE CorWait ------------------------------
(***************************************************************************)
(* A coroutine's wait with a timeout (co_yield_impl of mod_cor.cpp) and the *)
(* time wheel behind it (mod_time_wheel.cpp).  A wait starts an operation,  *)
(* then adds a timer to the wheel; the operation's end and the timer each   *)
(* queue a task that resumes the coroutine, and the executors take tasks in *)
(* any order (CorSched: queues and stealing).  An executor's queue may be   *)
(* full, and the task is dropped: with it, maybe, the coroutine's wake-up.  *)
(*                                                                         *)
(* The operation, the timer and the tasks hold references to variables of   *)
(* the call of co_yield_impl, its frame.  A use of a frame after the call   *)
(* has returned is undefined behaviour: the model sets undefined and stops. *)
(* A frame is named by its coroutine and the number of the wait.            *)
(***************************************************************************)
EXTENDS Integers, FiniteSets

CONSTANTS Co,        \* the coroutines
          Slots,     \* slots of the wheel (60)
          Interval,  \* ticks of a timeout: timeout_ms/1000 (3)
          PoolSize,  \* timers of gs_tw_task_pool (4096)
          Drops      \* a bound: how many tasks find their queue full

ASSUME WaitAssumption ==
    /\ {Slots, PoolSize} \subseteq Nat \ {0}
    /\ Interval \in 0 .. Slots - 1
    /\ Drops \in Nat

VARIABLES
    prog,       \* the function each coroutine runs, and the client a "conn" serves
    pc,         \* where the coroutine is: "none" (not created), "new", its wait, "ended"
    suspended,  \* coroutines suspended in co_yield_impl
    wait,       \* the number of waits of each coroutine so far
    result,     \* result of the wait each coroutine is in, -1 at its start
    tasks,      \* tasks queued for the executors
    dropped,    \* tasks that found their queue full
    timers,     \* timers of the pool in use
    slot,       \* m_current_slot
    undefined   \* a dead frame was used

waitVars == <<prog, pc, suspended, wait, result, tasks, dropped, timers, slot, undefined>>

\* The slot of a timer that is not on the wheel: not yet, taken off it by a tick, or
\* called back and not yet released.
Unarmed == Slots
Taken == Slots + 1
Called == Slots + 2

\* A task is named by its coroutine, the wait it ends, and why it was queued; a timer by
\* its coroutine and wait.
NewTask(c) == [co |-> c, n |-> 0, why |-> "new"]

WaitInit(started) ==
    /\ pc = [c \in Co |-> IF c \in started THEN "new" ELSE "none"]
    /\ suspended = {}
    /\ wait = [c \in Co |-> 0]
    /\ result = [c \in Co |-> -1]
    /\ tasks = {NewTask(c) : c \in started}
    /\ dropped = {}
    /\ timers = {} /\ slot = 0
    /\ undefined = FALSE

-----------------------------------------------------------------------------
(* The wait *)

Frame(c, n) == c \in suspended /\ wait[c] = n
Of(x, c, n) == x.co = c /\ x.n = n
PoolFull == Cardinality(timers) >= PoolSize
UseDeadFrame ==
    /\ undefined' = TRUE
    /\ UNCHANGED <<prog, suspended, wait, result, tasks, dropped, timers, slot>>

\* What the wait that t ends returns.
Returned(t) == IF t.why = "timeout" THEN 1 ELSE result[t.co]

\* A wait's task goes to the queue of the executor that the coroutine ran on, or is
\* dropped when that is full.
Queue(t) ==
    \/ tasks' = tasks \cup {t} /\ UNCHANGED dropped
    \/ /\ Cardinality(dropped) < Drops
       /\ dropped' = dropped \cup {t} /\ UNCHANGED tasks

\* resume_f(r), called when the operation that wait n of c started has ended.  It may
\* be called where a coroutine runs, and leaves pc to its caller.
Resume(c, n, r) ==
    IF Frame(c, n)
    THEN /\ result' = [result EXCEPT ![c] = r]
         /\ Queue([co |-> c, n |-> n, why |-> "done"])
         /\ UNCHANGED <<prog, suspended, wait, timers, slot, undefined>>
    ELSE UseDeadFrame

\* f_before_execution of an operation's end stops the timer.
Canceled(t) ==
    {IF t.why = "done" /\ Of(x, t.co, t.n) THEN [x EXCEPT !.canceled = TRUE] ELSE x : x \in timers}

NewTimer(c) == [co |-> c, n |-> wait[c] + 1, slot |-> Unarmed, canceled |-> FALSE, age |-> 0]

\* An executor takes t and runs its coroutine up to the place at, where it
\* suspends with or without a timer or, when how is "run", just goes on.
Execute(t, at, how, news) ==
    /\ t \in tasks /\ (t.why = "new" \/ Frame(t.co, t.n))
    /\ tasks' = (tasks \ {t}) \cup {NewTask(c) : c \in news}
    /\ timers' = Canceled(t) \cup (IF how = "timed" THEN {NewTimer(t.co)} ELSE {})
    /\ pc' = [c \in Co |-> IF c = t.co THEN at ELSE IF c \in news THEN "new" ELSE pc[c]]
    /\ suspended' = IF how = "run" THEN suspended \ {t.co} ELSE suspended \cup {t.co}
    /\ wait' = [wait EXCEPT ![t.co] = IF how = "run" THEN @ ELSE @ + 1]
    /\ result' = [result EXCEPT ![t.co] = -1]
    /\ UNCHANGED <<prog, dropped, slot, undefined>>

\* A running coroutine suspends in a wait at place at.
Suspend(c, at, how) ==
    /\ pc' = [pc EXCEPT ![c] = at]
    /\ suspended' = suspended \cup {c}
    /\ wait' = [wait EXCEPT ![c] = @ + 1]
    /\ timers' = timers \cup (IF how = "timed" THEN {NewTimer(c)} ELSE {})
    /\ UNCHANGED <<prog, result, tasks, dropped, slot, undefined>>

\* A running coroutine goes on to place at.
GoTo(c, at) ==
    /\ pc' = [pc EXCEPT ![c] = at]
    /\ UNCHANGED <<prog, suspended, wait, result, tasks, dropped, timers, slot, undefined>>

\* A second task of a wait: dropped unless the coroutine is in a later wait, whose
\* f_before_execution uses the frame of the earlier one.
Leftover(t) ==
    /\ t \in tasks /\ t.why # "new" /\ ~Frame(t.co, t.n)
    /\ UNCHANGED pc
    /\ IF t.co \in suspended
       THEN UseDeadFrame
       ELSE /\ tasks' = tasks \ {t}
            /\ UNCHANGED <<prog, suspended, wait, result, dropped, timers, slot, undefined>>

-----------------------------------------------------------------------------
(* The wheel *)

\* Defects: the slot counts the current one; it does not wrap around.
SlotAfter(interval) == (slot + interval + 1) % Slots
SlotUnwrapped(interval) == slot + interval
SlotFor(interval) == (slot + interval) % Slots

\* wrap_func, after the operation was started: set_cb and add_tw_task.
Arm(x) ==
    /\ x \in timers /\ x.slot = Unarmed
    /\ UNCHANGED pc
    /\ IF Frame(x.co, x.n)
       THEN /\ timers' = (timers \ {x}) \cup {[x EXCEPT !.slot = SlotFor(Interval)]}
            /\ UNCHANGED <<prog, suspended, wait, result, tasks, dropped, slot, undefined>>
       ELSE UseDeadFrame

\* What a tick makes of a timer: it takes those of the current slot off the wheel.
Turned(x) ==
    IF x.slot = slot THEN [x EXCEPT !.slot = Taken]
    ELSE IF x.slot = Unarmed THEN x ELSE [x EXCEPT !.age = @ + 1]

\* tick(), when it has dealt with those it took before: one after the other, it calls
\* each that is not canceled and releases it through the frame that allocated it.
Tick ==
    /\ \A x \in timers : x.slot \notin {Taken, Called}
    /\ slot' = (slot + 1) % Slots
    /\ timers' = {Turned(x) : x \in timers}
    /\ UNCHANGED <<prog, pc, suspended, wait, result, tasks, dropped, undefined>>
TimeoutTask(c, n) == [co |-> c, n |-> n, why |-> "timeout"]
Fire(x) ==
    /\ x \in timers /\ x.slot = Taken
    /\ \A y \in timers : y.slot # Called
    /\ timers' = (timers \ {x}) \cup {[x EXCEPT !.slot = Called]}
    /\ IF x.canceled THEN UNCHANGED <<tasks, dropped>> ELSE Queue(TimeoutTask(x.co, x.n))
    /\ UNCHANGED <<prog, pc, suspended, wait, result, slot, undefined>>
Release(x) ==
    /\ x \in timers /\ x.slot = Called
    /\ UNCHANGED pc
    /\ IF Frame(x.co, x.n)
       THEN /\ timers' = timers \ {x}
            /\ UNCHANGED <<prog, suspended, wait, result, tasks, dropped, slot, undefined>>
       ELSE UseDeadFrame

-----------------------------------------------------------------------------
(* Properties *)

\* The slot that a timer armed age ticks ago is in.
OnTime(x) == ((x.slot - slot) % Slots) + x.age = Interval
WillFire(x) ==
    \/ x.slot = Unarmed
    \/ x.slot \in 0 .. Slots - 1 /\ OnTime(x)
    \/ x.slot = Taken /\ x.age = Interval

\* A coroutine in a wait with a timer is resumed: a task is queued for it, or its
\* timer, which is not canceled, will be or is on the wheel, where it fires exactly
\* Interval ticks after it was added, a lap neither earlier nor later, or is about to
\* be called.  Only the loss of the timeout's task to a full queue ends that, not the
\* loss of the operation's (co_yield_impl, time_wheel_t).
ResumeIsDue(timed(_)) ==
    ~undefined => \A c \in suspended : timed(c) =>
        \/ \E t \in tasks : Of(t, c, wait[c])
        \/ \E x \in timers : Of(x, c, wait[c]) /\ ~x.canceled /\ WillFire(x)
        \/ TimeoutTask(c, wait[c]) \in dropped
=============================================================================
