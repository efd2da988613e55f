------------------------------ MODULE TimerSet ------------------------------
(* What a timing wheel promises: a timeout that was set for a time is due until
   that time is reached and expired from then on, no earlier and no later,
   however far the time goes in one step. *)
EXTENDS Integers

CONSTANTS Timeout, NoTime
VARIABLES now, due, expired

Free(to) == due[to] = NoTime /\ to \notin expired

\* The time goes to n, forwards or back, for a timeout that nobody touches.
Passes(to, n) ==
    LET over == due[to] # NoTime /\ n >= due[to]
    IN  /\ due'[to] = IF over THEN NoTime ELSE due[to]
        /\ (to \in expired') <=> (to \in expired \/ over)

\* Nobody touches any.
Pass(n) == \A to \in Timeout : Passes(to, n)

\* One timeout is set, taken back, or handed out.
SetOne(n, to) ==
    /\ \A u \in Timeout \ {to} : Passes(u, n)
    /\ due'[to] # NoTime => due'[to] > n /\ to \notin expired'

\* All that have expired are handed out.
Drain(n) ==
    \A to \in Timeout :
        LET over == to \in expired \/ (due[to] # NoTime /\ n >= due[to])
        IN  /\ due'[to] = IF over THEN NoTime ELSE due[to]
            /\ to \notin expired'

\* All are taken back.
Close(n) == n = now /\ \A to \in Timeout : due'[to] = NoTime /\ to \notin expired'

Init == expired = {} /\ \A to \in Timeout : Free(to)
Next == Pass(now') \/ Drain(now') \/ Close(now') \/ \E to \in Timeout : SetOne(now', to)
Spec == Init /\ [][Next]_<<now, due, expired>>
=============================================================================
