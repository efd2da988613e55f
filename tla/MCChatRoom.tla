----------------------------- MODULE MCChatRoom -----------------------------
(* The chat room: instance for TLC.  One client types two lines, of which one *)
(* is recent, and leaves; two clients type a line each; a client's connection *)
(* breaks while the other leaves.                                             *)
EXTENDS ChatRoom
CONSTANTS c1, c2
Types(n, m) == [c \in {c1, c2} |-> IF c = c1 THEN n ELSE m]
MCSetups == {[lines |-> Types(2, 0), ending |-> {c1}, fragile |-> {}],
             [lines |-> Types(1, 1), ending |-> {}, fragile |-> {}],
             [lines |-> Types(1, 0), ending |-> {c2}, fragile |-> {c1}]}
=============================================================================
