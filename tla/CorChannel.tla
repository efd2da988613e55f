----------------------------- MODULE CorChannel -----------------------------
(***************************************************************************)
(* The channel between coroutines: cor_channel over np_queue_cor_t over     *)
(* np_queue_t (mod_cor_channel.hpp, mod_np_queue.hpp).  One reader polls    *)
(* and then suspends, with or without a timeout; writers push, and notify   *)
(* a reader that has said it waits.  The queue can also have a thread at    *)
(* one end: writers that are threads, or a reader that is one and waits at  *)
(* a condition variable.  m_cor_mutex is CorMutex's promise: one holder;    *)
(* the queue is AtomicQueue's.                                              *)
(***************************************************************************)
EXTENDS CorWait, Sequences

CONSTANTS QCap,    \* capacity of the queue (10240)
          NoFrame  \* "m_resume_f is null"

ASSUME ChannelAssumption == QCap \in Nat /\ NoFrame \notin [co : Co, n : Nat]

VARIABLES
    queue,     \* the messages not yet read
    mode,      \* m_is_notify_mode
    notified,  \* m_notified of np_queue_cor_t
    holder,    \* who holds m_cor_mutex or m_thr_mutex, as a set
    resumeF,   \* m_resume_f: the wait it resumes
    starting   \* readers suspended whose wrap_func has not run yet

chanVars == <<queue, mode, notified, holder, resumeF, starting>>

ReaderKinds == {"reader", "timed reader", "thread reader"}
Readers == {c \in Co : prog[c].kind \in ReaderKinds}
Writers == {c \in Co : prog[c].kind \in {"writer", "thread writer"}}
TimedReader(c) == prog[c].kind = "timed reader"

\* The handlers of the queue: set_thr_nw_handlers_thr_r_cor_w, when the reader is a
\* thread, set_thr_nw_handlers_cor_r_thr_w, when the writers are, under which the
\* reader suspends without a lock and wrap_func takes it, or those of coroutines.
ThreadReads == \E c \in Co : prog[c].kind = "thread reader"
LocksFirst == \A c \in Co : prog[c].kind # "thread writer"

ChanInit ==
    /\ queue = <<>> /\ mode = TRUE /\ notified = FALSE
    /\ holder = {} /\ resumeF = NoFrame /\ starting = {}

-----------------------------------------------------------------------------
(* dequeue *)

\* The reader starts, or its wait ends: m_notified is reset.
ReaderRuns(t) ==
    LET starts == t.why = "new"
        gives_up == ~starts /\ Returned(t) = 1
    IN  /\ t.co \in Readers
        /\ Execute(t, CASE starts -> "pop" [] gives_up -> "expired" [] OTHER -> "poll", "run", {})
        /\ notified' = (starts /\ notified)
        /\ UNCHANGED <<queue, mode, holder, resumeF, starting>>
\* After a timeout dequeue returns false, and the reader ends.
GiveUp(c) ==
    /\ c \in Readers /\ pc[c] = "expired"
    /\ mode' = FALSE
    /\ GoTo(c, "ended")
    /\ UNCHANGED <<queue, notified, holder, resumeF, starting>>

\* The first try_pop; the reader reads on as long as there are messages.
Pop(c) ==
    /\ c \in Readers /\ pc[c] = "pop"
    /\ IF queue # <<>>
       THEN queue' = Tail(queue) /\ GoTo(c, "pop")
       ELSE GoTo(c, "missed") /\ UNCHANGED queue
    /\ UNCHANGED <<mode, notified, holder, resumeF, starting>>
\* Defect: it waits without a second look.
AskNotifyAndWait(c) ==
    /\ c \in Readers /\ pc[c] = "missed"
    /\ mode' = TRUE
    /\ GoTo(c, "lock")
    /\ UNCHANGED <<queue, notified, holder, resumeF, starting>>
\* It asks to be notified.
AskNotify(c) ==
    /\ c \in Readers /\ pc[c] = "missed"
    /\ mode' = TRUE
    /\ GoTo(c, "poll")
    /\ UNCHANGED <<queue, notified, holder, resumeF, starting>>
\* The second try_pop, after which the reader waits.
Poll(c) ==
    /\ c \in Readers /\ pc[c] = "poll"
    /\ IF queue # <<>>
       THEN queue' = Tail(queue) /\ GoTo(c, "found")
       ELSE GoTo(c, "lock") /\ UNCHANGED queue
    /\ UNCHANGED <<mode, notified, holder, resumeF, starting>>
Found(c) ==
    /\ c \in Readers /\ pc[c] = "found"
    /\ mode' = FALSE
    /\ GoTo(c, "pop")
    /\ UNCHANGED <<queue, notified, holder, resumeF, starting>>

\* The wait handler locks the mutex for wrap_func to unlock.  When the pool is empty
\* cor_yield returns -1 without calling wrap_func.
ReaderLocks(c) ==
    /\ c \in Readers /\ pc[c] = "lock" /\ ~ThreadReads
    /\ LocksFirst => holder = {}
    /\ holder' = IF LocksFirst THEN {c} ELSE holder
    /\ IF TimedReader(c) /\ PoolFull
       THEN GoTo(c, "poll") /\ notified' = FALSE /\ UNCHANGED starting
       ELSE /\ Suspend(c, "asleep", IF TimedReader(c) THEN "timed" ELSE "untimed")
            /\ starting' = starting \cup {c}
            /\ UNCHANGED notified
    /\ UNCHANGED <<queue, mode, resumeF>>

\* wrap_func, when the reader is suspended.
WrapFunc(c) ==
    /\ c \in starting
    /\ LocksFirst \/ holder = {}
    /\ starting' = starting \ {c}
    /\ holder' = {}
    /\ IF notified
       THEN Resume(c, wait[c], 0) /\ UNCHANGED pc /\ resumeF' = NoFrame
       ELSE resumeF' = [co |-> c, n |-> wait[c]] /\ UNCHANGED waitVars
    /\ UNCHANGED <<queue, mode, notified>>

\* A reader that is a thread waits at the condition variable, until it is notified or
\* its time is over (three seconds when none was given), and reads on in either case.
Park(c) ==
    /\ ThreadReads /\ c \in Readers /\ pc[c] = "lock"
    /\ notified' = FALSE
    /\ GoTo(c, IF notified THEN "poll" ELSE "parked")
    /\ UNCHANGED <<queue, mode, holder, resumeF, starting>>
Unpark(c) ==
    /\ pc[c] = "parked"
    /\ notified' = FALSE
    /\ GoTo(c, "poll")
    /\ UNCHANGED <<queue, mode, holder, resumeF, starting>>

-----------------------------------------------------------------------------
(* try_enqueue and notify *)

WriterStarts(t) ==
    /\ t.co \in Writers
    /\ Execute(t, "push", "run", {})
    /\ UNCHANGED chanVars
Push(c) ==
    /\ c \in Writers /\ pc[c] = "push"
    /\ IF Len(queue) < QCap
       THEN queue' = Append(queue, c) /\ GoTo(c, "mode")
       ELSE GoTo(c, "ended") /\ UNCHANGED queue
    /\ UNCHANGED <<mode, notified, holder, resumeF, starting>>
TestMode(c) ==
    /\ c \in Writers /\ pc[c] = "mode"
    /\ GoTo(c, IF mode THEN "notify" ELSE "ended")
    /\ UNCHANGED chanVars
\* The notify handler: m_notified, the lock, resume_f.
Notify(c) ==
    /\ c \in Writers /\ pc[c] = "notify" /\ ~ThreadReads
    /\ notified' = TRUE
    /\ GoTo(c, "wlock")
    /\ UNCHANGED <<queue, mode, holder, resumeF, starting>>
\* That of a thread that reads: m_notified and the condition variable.
NotifyThread(c) ==
    /\ c \in Writers /\ pc[c] = "notify" /\ ThreadReads
    /\ notified' = TRUE
    /\ GoTo(c, "ended")
    /\ UNCHANGED <<queue, mode, holder, resumeF, starting>>
WriterLocks(c) ==
    /\ c \in Writers /\ pc[c] = "wlock" /\ holder = {}
    /\ holder' = {c}
    /\ GoTo(c, "call")
    /\ UNCHANGED <<queue, mode, notified, resumeF, starting>>
CallResume(c) ==
    /\ c \in Writers /\ pc[c] = "call"
    /\ pc' = [pc EXCEPT ![c] = "ended"]
    /\ holder' = {}
    /\ IF resumeF # NoFrame
       THEN Resume(resumeF.co, resumeF.n, 0) /\ resumeF' = NoFrame
       ELSE /\ UNCHANGED <<prog, suspended, wait, result, tasks, dropped, timers, slot, undefined>>
            /\ UNCHANGED resumeF
    /\ UNCHANGED <<queue, mode, notified, starting>>

ChanNext ==
    \/ \E t \in tasks : ReaderRuns(t) \/ WriterStarts(t)
    \/ \E c \in Co : \/ Pop(c) \/ AskNotify(c) \/ Poll(c) \/ Found(c) \/ GiveUp(c) \/ ReaderLocks(c) \/ WrapFunc(c)
                     \/ Park(c) \/ Unpark(c)
                     \/ Push(c) \/ TestMode(c) \/ Notify(c) \/ NotifyThread(c)
                     \/ WriterLocks(c) \/ CallResume(c)

-----------------------------------------------------------------------------
Waits(c) == c \in suspended \/ pc[c] = "parked"

\* No message is missed: when the reader is suspended, or a thread that waits, and
\* there is a message, a writer is still on its way to wake it, its resumption is
\* queued, or was until it found its queue full, or it will find itself notified
\* (np_queue_t::dequeue against try_enqueue).
NoMissedMessage ==
    ~undefined => \A c \in Readers : Waits(c) /\ queue # <<>> =>
        \/ \E t \in tasks \cup dropped : Of(t, c, wait[c])
        \/ (c \in starting \/ pc[c] = "parked") /\ notified
        \/ \E w \in Writers : pc[w] \in {"mode", "notify", "wlock", "call"}
=============================================================================
