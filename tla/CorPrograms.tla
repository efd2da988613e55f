---------------------------- MODULE CorPrograms ----------------------------
(***************************************************************************)
(* A process of coroutines: the programs of CorNet and CorChannel on the    *)
(* executors, the time wheel and the timer pool that they share (CorWait).  *)
(***************************************************************************)
EXTENDS CorNet, CorChannel

CONSTANT Setups   \* the functions its coroutines run, one of which a process has

\* The queue has many writers and one reader (mod_np_queue.hpp).
ASSUME ProgramAssumption ==
    \A s \in Setups, c, d \in Co : {s[c].kind, s[d].kind} \subseteq ReaderKinds => c = d

vars == <<waitVars, netVars, chanVars>>

Init ==
    /\ prog \in Setups
    /\ WaitInit({c \in Co : Kind(c) \notin {"conn", "none"}})
    /\ NetInit
    /\ ChanInit

NetStep == NetNext /\ UNCHANGED chanVars
ChanStep == ChanNext /\ UNCHANGED netVars
TaskLeft == (\E t \in tasks : Leftover(t)) /\ UNCHANGED <<netVars, chanVars>>
\* wrap_func starts the operation before it arms the timer.
ArmTimer == /\ \E x \in timers : x.co \notin starting /\ Arm(x)
            /\ UNCHANGED <<netVars, chanVars>>
TurnWheel == /\ Tick \/ \E x \in timers : Fire(x) \/ Release(x)
             /\ UNCHANGED <<netVars, chanVars>>

Next == ~undefined /\ (NetStep \/ ChanStep \/ TaskLeft \/ ArmTimer \/ TurnWheel)

\* The asio thread ticks every second; an executor that started an operation goes on
\* to arm its timer, and a writer that has the lock lets it go; the executors take the
\* tasks of every coroutine.
Continues(c) == (\E t \in tasks : t.co = c /\ Continue(t)) /\ UNCHANGED chanVars
WriterEnds == (\E c \in Co : CallResume(c)) /\ UNCHANGED netVars
ReaderWakes(c) == (\E t \in tasks : t.co = c /\ ReaderRuns(t)) /\ UNCHANGED netVars
Fairness ==
    /\ WF_vars(~undefined /\ TurnWheel)
    /\ WF_vars(~undefined /\ ArmTimer)
    /\ WF_vars(~undefined /\ (\E c \in Co : WrapFunc(c)) /\ UNCHANGED netVars)
    /\ WF_vars(~undefined /\ WriterEnds)
    /\ \A c \in Co : WF_vars(~undefined /\ Continues(c))
    /\ \A c \in Co : WF_vars(~undefined /\ ReaderWakes(c))

Spec == Init /\ [][Next]_vars /\ Fairness

-----------------------------------------------------------------------------
(* Properties *)

InTimedWait(c) == TimedNet(pc[c]) \/ (pc[c] = "asleep" /\ TimedReader(c))

\* ResumeIsDue of the programs' timed waits.
TimeoutIsDue == ResumeIsDue(InTimedWait)

\* Every wait with a timeout ends, whatever becomes of its operation and of its
\* operation's task, unless the timeout's task found its queue full (co_yield_impl).
TimedWaitsEnd ==
    \A c \in Co : []<>(\/ undefined \/ c \notin suspended \/ ~InTimedWait(c)
                       \/ TimeoutTask(c, wait[c]) \in dropped)
=============================================================================
