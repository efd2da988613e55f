------------------------------ MODULE ImOpQueue ------------------------------
(***************************************************************************)
(* The operation queue of the IM server's main module                      *)
(* (src/app_prod_im/prod_im_server_mod_main.cpp): API threads call the main *)
(* module synchronously, each with a message from a bounded pool; one       *)
(* coroutine reads the queue and serves the operations.                     *)
(*                                                                         *)
(* A writer that sees m_op_msg_notification_on pushes under op_writer_lock  *)
(* and calls the reader's resume function if one is registered; a writer    *)
(* that does not see it pushes without the lock and tells nobody.           *)
(***************************************************************************)
EXTENDS Integers, Sequences, FiniteSets

CONSTANTS Threads,    \* the API threads
          Reader,     \* the coroutine of prod_im_s_mod_main::run, as lock owner
          NoOne,      \* no owner of the lock, no message
          QueueCap,   \* capacity of m_op_queue (4096)
          PoolCap,    \* m_max_ele_num of m_op_mpool (4096)
          Calls       \* calls per thread: bounds the model

ASSUME QueueAssumption ==
    /\ IsFiniteSet(Threads)
    /\ Reader \notin Threads /\ NoOne \notin Threads /\ Reader # NoOne
    /\ QueueCap \in Nat \ {0} /\ PoolCap \in Nat \ {0}
    /\ Calls \in Nat

VARIABLES
    pc,         \* where thread t is in its call
    calls,      \* calls thread t has finished
    free,       \* messages in the pool
    total,      \* m_total_ele_num: messages created within the limit
    leaked,     \* messages created beyond it and never deleted
    queue,      \* m_op_queue; a message stands for the thread that waits for it
    notif,      \* m_op_msg_notification_on
    lock,       \* owner of op_writer_lock
    notify,     \* is notify_to_read_op_func set?
    rpc,        \* where the reader is
    cur,        \* the message the reader serves
    scheduled,  \* tasks in the executors' queues that resume the reader
    dropped,    \* has a full task queue refused the task that resumes the reader?
    answered    \* has the promise of thread t's call been set?

vars == <<pc, calls, free, total, leaked, queue, notif, lock, notify, rpc, cur,
          scheduled, dropped, answered>>
pool == <<free, total, leaked>>
wakeup == <<notif, lock, notify, scheduled, dropped>>
reader == <<rpc, cur>>

ThreadPc == {"idle", "pop", "grow", "check", "push", "store", "lock", "locked",
             "lockedStore", "notify", "wait", "fail"}
ReaderPc == {"begin", "drain", "reply", "free", "arm", "lock", "locked", "asleep"}

Init ==
    /\ pc = [t \in Threads |-> "idle"]
    /\ calls = [t \in Threads |-> 0]
    /\ free = 0 /\ total = 0 /\ leaked = 0
    /\ queue = <<>>
    /\ notif = FALSE /\ lock = NoOne /\ notify = FALSE
    /\ scheduled = 0 /\ dropped = FALSE
    /\ rpc = "begin" /\ cur = NoOne
    /\ answered = [t \in Threads |-> FALSE]

-----------------------------------------------------------------------------
(* A call of an API thread *)

Goto(t, l) == pc' = [pc EXCEPT ![t] = l]

\* mempool::alloc tests was_empty() first.
Alloc(t) ==
    /\ pc[t] = "idle" /\ calls[t] < Calls
    /\ Goto(t, IF free > 0 THEN "pop" ELSE "grow")
    /\ UNCHANGED <<calls, pool, queue, wakeup, reader, answered>>

\* Defect: the pop does not wait for a message.
PoolPopUnchecked(t) ==
    /\ pc[t] = "pop"
    /\ free' = free - 1
    /\ Goto(t, "check")
    /\ UNCHANGED <<calls, total, leaked, queue, wakeup, reader, answered>>

\* ... and then pops with the blocking pop(), which spins while another thread
\* has taken the last message.
PoolPop(t) ==
    /\ pc[t] = "pop" /\ free > 0
    /\ free' = free - 1
    /\ Goto(t, "check")
    /\ UNCHANGED <<calls, total, leaked, queue, wakeup, reader, answered>>

\* A new message, counted while fewer than m_max_ele_num exist.  Otherwise the
\* call fails, and nobody deletes what it has allocated.
Grow(t) ==
    /\ pc[t] = "grow"
    /\ \/ /\ total < PoolCap
          /\ total' = total + 1
          /\ Goto(t, "check")
          /\ UNCHANGED <<calls, leaked>>
       \/ /\ total >= PoolCap
          /\ leaked' = leaked + 1
          /\ calls' = [calls EXCEPT ![t] = @ + 1]
          /\ Goto(t, "idle")
          /\ UNCHANGED total
    /\ UNCHANGED <<free, queue, wakeup, reader, answered>>

\* write_operation reads the flag once.
ReadFlag(t) ==
    /\ pc[t] = "check"
    /\ Goto(t, IF notif THEN "lock" ELSE "push")
    /\ UNCHANGED <<calls, pool, queue, wakeup, reader, answered>>

\* The branch without the lock.  ring_queue::push tests full() ...
Push(t) ==
    /\ pc[t] = "push"
    /\ Goto(t, IF Len(queue) < QueueCap THEN "store" ELSE "fail")
    /\ UNCHANGED <<calls, pool, queue, wakeup, reader, answered>>

\* ... and then appends, whatever others have appended since.
Store(t) ==
    /\ pc[t] = "store"
    /\ queue' = Append(queue, t)
    /\ Goto(t, "wait")
    /\ UNCHANGED <<calls, pool, wakeup, reader, answered>>

Lock(t) ==
    /\ pc[t] = "lock" /\ lock = NoOne
    /\ lock' = t
    /\ Goto(t, "locked")
    /\ UNCHANGED <<calls, pool, queue, notif, notify, scheduled, dropped, reader, answered>>

PushLocked(t) ==
    /\ pc[t] = "locked"
    /\ \/ /\ Len(queue) < QueueCap
          /\ Goto(t, "lockedStore")
          /\ UNCHANGED lock
       \/ /\ Len(queue) >= QueueCap
          /\ lock' = NoOne
          /\ Goto(t, "fail")
    /\ UNCHANGED <<calls, pool, queue, notif, notify, scheduled, dropped, reader, answered>>

StoreLocked(t) ==
    /\ pc[t] = "lockedStore"
    /\ queue' = Append(queue, t)
    /\ Goto(t, "notify")
    /\ UNCHANGED <<calls, pool, wakeup, reader, answered>>

\* The resume function schedules the reader, on a task queue that may be full:
\* then the task is dropped, and the caller is not told.
Wake ==
    \/ scheduled' = scheduled + 1 /\ UNCHANGED dropped
    \/ dropped' = TRUE /\ UNCHANGED scheduled

\* Defect: the registered function stays registered.
NotifyKeeps(t) ==
    /\ pc[t] = "notify"
    /\ IF notify THEN Wake ELSE UNCHANGED <<scheduled, dropped>>
    /\ lock' = NoOne
    /\ Goto(t, "wait")
    /\ UNCHANGED <<calls, pool, queue, notif, notify, reader, answered>>

\* Defect: the "else" before the push without the lock is missing.
NotifyFallsThrough(t) ==
    /\ pc[t] = "notify"
    /\ IF notify THEN Wake ELSE UNCHANGED <<scheduled, dropped>>
    /\ notify' = FALSE
    /\ lock' = NoOne
    /\ Goto(t, "push")
    /\ UNCHANGED <<calls, pool, queue, notif, reader, answered>>

\* The registered function is moved away before it is called.  The lock is
\* released at the end of the block.
Notify(t) ==
    /\ pc[t] = "notify"
    /\ IF notify THEN Wake ELSE UNCHANGED <<scheduled, dropped>>
    /\ notify' = FALSE
    /\ lock' = NoOne
    /\ Goto(t, "wait")
    /\ UNCHANGED <<calls, pool, queue, notif, reader, answered>>

\* The API frees the message of an operation it could not write.
Fail(t) ==
    /\ pc[t] = "fail"
    /\ free' = free + 1
    /\ calls' = [calls EXCEPT ![t] = @ + 1]
    /\ Goto(t, "idle")
    /\ UNCHANGED <<total, leaked, queue, wakeup, reader, answered>>

\* fut.get() returns.
Return(t) ==
    /\ pc[t] = "wait" /\ answered[t]
    /\ answered' = [answered EXCEPT ![t] = FALSE]
    /\ calls' = [calls EXCEPT ![t] = @ + 1]
    /\ Goto(t, "idle")
    /\ UNCHANGED <<pool, queue, wakeup, reader>>

ThreadStep(t) ==
    \/ Alloc(t) \/ PoolPop(t) \/ Grow(t) \/ ReadFlag(t)
    \/ Push(t) \/ Store(t)
    \/ Lock(t) \/ PushLocked(t) \/ StoreLocked(t) \/ Notify(t)
    \/ Fail(t) \/ Return(t)

-----------------------------------------------------------------------------
(* The reader: read_operation and process_operation *)

Begin ==
    /\ rpc = "begin"
    /\ notif' = FALSE
    /\ rpc' = "drain"
    /\ UNCHANGED <<pc, calls, pool, queue, lock, notify, scheduled, dropped, cur, answered>>

\* Defect: the operation is read but stays in the queue.
PopFront ==
    /\ rpc = "drain" /\ queue # <<>>
    /\ cur' = Head(queue)
    /\ rpc' = "reply"
    /\ UNCHANGED <<pc, calls, pool, queue, wakeup, answered>>

Pop ==
    /\ rpc = "drain" /\ queue # <<>>
    /\ cur' = Head(queue)
    /\ queue' = Tail(queue)
    /\ rpc' = "reply"
    /\ UNCHANGED <<pc, calls, pool, wakeup, answered>>

\* The operation's callback sets the promise of the waiting API thread ...
Reply ==
    /\ rpc = "reply"
    /\ answered' = [answered EXCEPT ![cur] = TRUE]
    /\ rpc' = "free"
    /\ UNCHANGED <<pc, calls, pool, queue, wakeup, cur>>

\* Defect: a served message is not freed.
FreeMsgLeaks ==
    /\ rpc = "free"
    /\ cur' = NoOne
    /\ rpc' = "drain"
    /\ UNCHANGED <<pc, calls, pool, queue, wakeup, answered>>

\* ... before the message goes back to the pool.
FreeMsg ==
    /\ rpc = "free"
    /\ free' = free + 1
    /\ cur' = NoOne
    /\ rpc' = "drain"
    /\ UNCHANGED <<pc, calls, total, leaked, queue, wakeup, answered>>

\* The queue was seen empty: the coroutine is suspended and the executor runs
\* the function that arranges its resumption.
Suspend ==
    /\ rpc = "drain" /\ queue = <<>>
    /\ rpc' = "arm"
    /\ UNCHANGED <<pc, calls, pool, queue, wakeup, cur, answered>>

Arm ==
    /\ rpc = "arm"
    /\ notif' = TRUE
    /\ rpc' = "lock"
    /\ UNCHANGED <<pc, calls, pool, queue, lock, notify, scheduled, dropped, cur, answered>>

ReaderLock ==
    /\ rpc = "lock" /\ lock = NoOne
    /\ lock' = Reader
    /\ rpc' = "locked"
    /\ UNCHANGED <<pc, calls, pool, queue, notif, notify, scheduled, dropped, cur, answered>>

\* Defect: the function is registered without looking at the queue again.
RegisterUnchecked ==
    /\ rpc = "locked"
    /\ notify' = TRUE
    /\ lock' = NoOne
    /\ rpc' = "asleep"
    /\ UNCHANGED <<pc, calls, pool, queue, notif, scheduled, dropped, cur, answered>>

Register ==
    /\ rpc = "locked"
    /\ \/ /\ queue # <<>>
          /\ Wake
          /\ UNCHANGED notify
       \/ /\ queue = <<>>
          /\ notify' = TRUE
          /\ UNCHANGED <<scheduled, dropped>>
    /\ lock' = NoOne
    /\ rpc' = "asleep"
    /\ UNCHANGED <<pc, calls, pool, queue, notif, cur, answered>>

\* An executor runs the task that resumes the reader; read_operation returns
\* and is called again.
Resume ==
    /\ rpc = "asleep" /\ scheduled > 0
    /\ scheduled' = scheduled - 1
    /\ rpc' = "begin"
    /\ UNCHANGED <<pc, calls, pool, queue, notif, lock, notify, dropped, cur, answered>>

ReaderStep ==
    \/ Begin \/ Pop \/ Reply \/ FreeMsg
    \/ Suspend \/ Arm \/ ReaderLock \/ Register \/ Resume

-----------------------------------------------------------------------------

Next == ReaderStep \/ \E t \in Threads : ThreadStep(t)

\* The operating system runs every API thread and the executors.
Fairness ==
    /\ WF_vars(ReaderStep)
    /\ \A t \in Threads : WF_vars(ThreadStep(t))

Spec == Init /\ [][Next]_vars
FairSpec == Spec /\ Fairness

-----------------------------------------------------------------------------
(* Properties *)

TypeOK ==
    /\ pc \in [Threads -> ThreadPc]
    /\ calls \in [Threads -> Nat]
    /\ free \in Nat /\ total \in Nat /\ leaked \in Nat
    /\ queue \in Seq(Threads)
    /\ notif \in BOOLEAN /\ notify \in BOOLEAN
    /\ lock \in Threads \cup {Reader, NoOne}
    /\ rpc \in ReaderPc
    /\ cur \in Threads \cup {NoOne}
    /\ (rpc \in {"reply", "free"}) <=> (cur # NoOne)
    /\ scheduled \in Nat /\ dropped \in BOOLEAN
    /\ answered \in [Threads -> BOOLEAN]

(* The reader is resumed at most once for each time it suspends itself: its
   resume function is either registered or called, never both and never twice,
   and only while the reader is suspended.  A second resumption would continue the
   coroutine at a later suspension, in the middle of something else; once its task
   was refused, nothing resumes it any more. *)
OneWakeup ==
    /\ scheduled <= 1
    /\ notify => scheduled = 0 /\ ~dropped /\ rpc = "asleep"
    /\ scheduled = 1 => ~dropped /\ rpc = "asleep"
    /\ dropped => rpc = "asleep"

\* Messages a thread has allocated and not yet queued.
InHand == {t \in Threads : pc[t] \in {"check", "push", "store", "lock", "locked",
                                      "lockedStore", "fail"}}

(* No message of the pool is lost or freed twice: those in the pool, in the hands
   of writers, in the queue and with the reader are all that were counted.  Memory
   leaks at the limit only: what a refused call has allocated is deleted by nobody,
   and no call is refused before the pool has reached m_max_ele_num. *)
PoolConserved ==
    /\ total <= PoolCap
    /\ leaked > 0 => total = PoolCap
    /\ total = free + Cardinality(InHand) + Len(queue) + (IF cur = NoOne THEN 0 ELSE 1)

(* An answer belongs to the call its thread is in: no promise is set twice or
   set before its operation was submitted. *)
AnswersMatchCalls ==
    \A t \in Threads : answered[t] => /\ pc[t] \in {"notify", "wait"}
                                      /\ \A i \in DOMAIN queue : queue[i] # t

(* A call that finds the reader's notification on returns, together with what
   was stuck in the queue before it, unless a full task queue refused the task that
   resumes the reader: then no call returns with an answer any more. *)
NotifiedCallReturns == \A t \in Threads : pc[t] = "lock" ~> pc[t] = "idle" \/ dropped

(* Every call of an API thread returns, while no full task queue refuses the
   reader. *)
EveryCallReturns == \A t \in Threads : pc[t] = "check" ~> pc[t] = "idle" \/ dropped

(* The main module serves operations in the order they were queued, each of
   them once: it implements OpService. *)
Service == INSTANCE OpService WITH
    pending <- (IF rpc = "reply" THEN <<cur>> ELSE <<>>) \o queue

ServiceSpec == Service!Spec
=============================================================================
