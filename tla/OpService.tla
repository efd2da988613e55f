------------------------------ MODULE OpService ------------------------------
(***************************************************************************)
(* What the main module of the IM server promises to the API threads:      *)
(* an operation is served after the ones submitted before it, is answered  *)
(* exactly once, and its caller returns after the answer.                  *)
(***************************************************************************)
EXTENDS Sequences

CONSTANT Threads      \* the API threads; each has at most one call in progress

VARIABLES pending,    \* submitted operations, by thread, oldest first
          answered    \* answered[t]: the answer waits for its caller

vars == <<pending, answered>>

Init == /\ pending = <<>>
        /\ answered = [t \in Threads |-> FALSE]

Submit(t) ==
    /\ ~answered[t]
    /\ \A i \in DOMAIN pending : pending[i] # t
    /\ pending' = Append(pending, t)
    /\ UNCHANGED answered

Answer ==
    /\ pending # <<>>
    /\ pending' = Tail(pending)
    /\ answered' = [answered EXCEPT ![Head(pending)] = TRUE]

Return(t) ==
    /\ answered[t]
    /\ answered' = [answered EXCEPT ![t] = FALSE]
    /\ UNCHANGED pending

Next == Answer \/ \E t \in Threads : Submit(t) \/ Return(t)

Spec == Init /\ [][Next]_vars
=============================================================================
