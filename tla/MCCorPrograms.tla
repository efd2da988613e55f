--------------------------- MODULE MCCorPrograms ---------------------------
(* Coroutine programs: instance for TLC.  HTTP: one client, the acceptor and *)
(* a connection; two clients at one pool of contexts and of timers.  UDP:    *)
(* two clients and the server.  Two sleepers.  A channel with three writers, *)
(* one that is read with a timeout, one that threads write to, and one that  *)
(* a thread reads.                                                           *)
EXTENDS CorPrograms
CONSTANTS c1, c2, c3, c4
Is(k) == [kind |-> k, of |-> {}]
Setup(k1, k2, k3, k4) ==
    [c \in Co |-> CASE c = c1 -> Is(k1) [] c = c2 -> Is(k2) [] c = c3 -> Is(k3) [] OTHER -> k4]
MCSetups == {Setup("client", "acceptor", "none", [kind |-> "conn", of |-> {c1}]),
             Setup("client", "client", "none", Is("none")),
             Setup("udpclient", "udpclient", "udpserver", Is("none")),
             Setup("sleeper", "sleeper", "none", Is("none")),
             Setup("reader", "writer", "writer", Is("writer")),
             Setup("timed reader", "writer", "writer", Is("none")),
             Setup("timed reader", "thread writer", "thread writer", Is("none")),
             Setup("thread reader", "writer", "writer", Is("writer"))}
=============================================================================
