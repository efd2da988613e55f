----------------------------- MODULE MCImWorks -----------------------------
(* The messenger on works: instance for TLC.  One client alone makes three  *)
(* requests over a connection that may break at any time, its writes split; *)
(* two clients make one request each, and the connection of one may break.  *)
EXTENDS ImWorks
CONSTANTS c1, c2
MCSetups == {[on |-> {c1}, rounds |-> 3, body |-> 2, fragile |-> {c1}],
             [on |-> {c1, c2}, rounds |-> 1, body |-> 1, fragile |-> {c2}]}
=============================================================================
