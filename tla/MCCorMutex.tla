---------------------------- MODULE MCCorMutex -----------------------------
(* Three coroutines on two executors, two of them on the same one. *)
EXTENDS CorMutex, TLC
CONSTANTS c1, c2, c3
MCCo == {c1, c2, c3}
MCPlace == (0 :> <<c1, c3>>) @@ (1 :> <<c2>>)
=============================================================================
