------------------------------- MODULE CorNet -------------------------------
(***************************************************************************)
(* The coroutine sockets (mod_cor_net.hpp) and the programs that use them:  *)
(* the HTTP client (app_test_http_client.cpp), the HTTP server              *)
(* (app_coroutine.cpp), the UDP client and server (app_test_udp.cpp), and   *)
(* the sleeps of exec_test.cpp.  An io thread ends an operation and calls   *)
(* resume_f with its result: 0 or -1, or, of a transfer, its size or -1.    *)
(*                                                                         *)
(* cor_yield returns what resume_f was given, so that the timed read_some   *)
(* and write_some take every transfer for a failure (Transfer): the places  *)
(* behind a transfer are in the model, and are not reached.                 *)
(***************************************************************************)
EXTENDS CorWait, Sequences

CONSTANT Contexts   \* io contexts of the client's pool (4)
ASSUME NetAssumption == Contexts \in Nat \ {0}

VARIABLES
    ops,        \* operations under way: their wait and place
    next,       \* next_io_context_
    index,      \* what a client that is taking a context has read of it
    backlog,    \* clients connected and not yet accepted
    requests,   \* clients whose request has arrived and is not read
    toServer,   \* UDP clients whose datagram is on its way
    toClient,   \* UDP clients to which a datagram is on its way
    peer        \* m_peer_endpoint of the UDP server's socket

netVars == <<ops, next, index, backlog, requests, toServer, toClient, peer>>
socketVars == <<backlog, requests, toServer, toClient, peer>>

NetKinds == {"client", "acceptor", "conn", "udpclient", "udpserver", "sleeper"}
Kind(c) == prog[c].kind

NetInit ==
    /\ ops = {} /\ next = 0 /\ index = [c \in Co |-> 0]
    /\ backlog = <<>> /\ requests = {}
    /\ toServer = {} /\ toClient = {} /\ peer = {}

Size == 2   \* a transfer's size: any but 0 and 1

-----------------------------------------------------------------------------
(* What the programs do between two waits *)

TimedNet(at) == at \in {"connect", "write", "read", "respond", "sleep", "sleep again"}

\* write_some and read_some of a TCP socket, when cor_yield returned r.
Transfer(r) == IF r # 0 THEN -1 ELSE r

\* Where a coroutine starts, and where it goes from place at when the wait
\* there returned r.
First(c) ==
    CASE Kind(c) = "acceptor"  -> "accept"
      [] Kind(c) = "conn"      -> "read"
      [] Kind(c) = "udpclient" -> "send"
      [] Kind(c) = "udpserver" -> "receive"
      [] Kind(c) = "sleeper"   -> "sleep"
      [] OTHER                 -> "pick"

\* my_co_net: connect, write all of the request, read_some.
ClientAfter(at, r) ==
    CASE at = "connect" /\ r = 0         -> "write"
      [] at = "write" /\ Transfer(r) = 0 -> "write"
      [] at = "write" /\ Transfer(r) > 0 -> "read"
      [] OTHER                           -> "ended"
\* co_http_server_process_request: a request, a response, and again.
ConnectionAfter(at, r) ==
    CASE at = "respond"                 -> "read"
      [] at = "read" /\ Transfer(r) > 0 -> "respond"
      [] OTHER                          -> "ended"
\* co_http_server_main2.
AcceptorAfter(r) == IF r = 0 THEN "accept" ELSE "ended"
\* cor_test_udp_client: it sends once and receives once.
UdpClientAfter(at) == IF at = "send" THEN "receive" ELSE "ended"
\* cor_startReceive: whether the echo was sent is not looked at.
UdpServerAfter(at, r) ==
    IF at = "send" THEN "receive" ELSE IF r > 0 THEN "send" ELSE "ended"
\* my_co1: two sleeps, whose results are not looked at.
SleeperAfter(at) == IF at = "sleep" THEN "sleep again" ELSE "ended"

After(c, at, r) ==
    CASE Kind(c) = "conn"      -> ConnectionAfter(at, r)
      [] Kind(c) = "acceptor"  -> AcceptorAfter(r)
      [] Kind(c) = "udpclient" -> UdpClientAfter(at)
      [] Kind(c) = "udpserver" -> UdpServerAfter(at, r)
      [] Kind(c) = "sleeper"   -> SleeperAfter(at)
      [] OTHER                 -> ClientAfter(at, r)

\* Without a timer in the pool a timed wait returns -1 at once.
Passed(c, at) == IF TimedNet(at) /\ PoolFull THEN After(c, at, -1) ELSE at
Reached(c, at) == Passed(c, Passed(c, at))
How(at) == IF at \in {"ended", "picked", "pick"} THEN "run" ELSE IF TimedNet(at) THEN "timed" ELSE "untimed"
Started(c, at, n) == IF How(at) = "run" THEN {} ELSE {[co |-> c, n |-> n, at |-> at]}

\* The coroutine that co_http_server_main2 creates for the connection it accepted,
\* unless every queue is full.
Served(c) == {k \in Co : Kind(k) = "conn" /\ c \in prog[k].of}

\* A coroutine starts, or its wait ends.
Continue(t) ==
    LET c == t.co
        from == pc[c]
        at == Reached(c, IF from = "new" THEN First(c) ELSE After(c, from, Returned(t)))
        accepts == from = "accept" /\ Returned(t) = 0
    IN  /\ Kind(c) \in NetKinds \ {"client"} \/ from # "new"
        /\ Kind(c) \in NetKinds
        /\ \E news \in IF accepts THEN {Served(Head(backlog)), {}} ELSE {{}} :
              Execute(t, at, How(at), news)
        /\ ops' = ops \cup Started(c, at, wait[c] + 1)
        /\ backlog' = IF accepts THEN Tail(backlog) ELSE backlog
        /\ UNCHANGED <<next, index, requests, toServer, toClient, peer>>

\* The HTTP client: get_io_context() of io_context_pool.cpp takes a context, steps
\* next_io_context_, and wraps it around, with no lock: the step adds one to what it
\* reads, or has read when it took the context.
PickContext(t) ==
    /\ Kind(t.co) = "client" /\ t.why = "new"
    /\ IF next < Contexts
       THEN Execute(t, "picked", "run", {}) /\ index' = [index EXCEPT ![t.co] = next]
       ELSE t \in tasks /\ UseDeadFrame /\ UNCHANGED <<pc, index>>
    /\ UNCHANGED <<ops, next, socketVars>>
PickSteps(c) ==
    /\ pc[c] = "picked"
    /\ next' \in {next + 1, index[c] + 1}
    /\ index' = [index EXCEPT ![c] = 0]
    /\ GoTo(c, "pick")
    /\ UNCHANGED <<ops, socketVars>>
PickWraps(c) ==
    LET at == Reached(c, "connect")
    IN  /\ pc[c] = "pick"
        /\ next' = IF next = Contexts THEN 0 ELSE next
        /\ IF How(at) = "run" THEN GoTo(c, at) ELSE Suspend(c, at, How(at))
        /\ ops' = ops \cup Started(c, at, wait[c] + 1)
        /\ UNCHANGED <<index, socketVars>>

-----------------------------------------------------------------------------
(* The io threads *)

\* The operation o ends with result r.
Ends(o, r) ==
    /\ o \in ops /\ ops' = ops \ {o}
    /\ Resume(o.co, o.n, r)
    /\ UNCHANGED <<pc, next, index>>

Connected(o) ==
    /\ o.at = "connect" /\ \E c \in Co : Kind(c) = "acceptor" /\ pc[c] = "accept"
    /\ Ends(o, 0)
    /\ backlog' = Append(backlog, o.co)
    /\ UNCHANGED <<requests, toServer, toClient, peer>>
Accepted(o) ==
    /\ o.at = "accept" /\ backlog # <<>>
    /\ Ends(o, 0)
    /\ UNCHANGED socketVars
Wrote(o) ==
    /\ o.at = "write"
    /\ Ends(o, Size)
    /\ requests' = requests \cup {o.co}
    /\ UNCHANGED <<backlog, toServer, toClient, peer>>
HasRead(o) ==
    /\ o.at = "read" /\ prog[o.co].of \cap requests # {}
    /\ Ends(o, Size)
    /\ requests' = requests \ prog[o.co].of
    /\ UNCHANGED <<backlog, toServer, toClient, peer>>
Sent(o) ==
    /\ o.at = "send"
    /\ Ends(o, Size)
    /\ IF Kind(o.co) = "udpclient"
       THEN toServer' = toServer \cup {o.co} /\ UNCHANGED toClient
       ELSE toClient' = toClient \cup peer /\ UNCHANGED toServer
    /\ UNCHANGED <<backlog, requests, peer>>
Received(o) ==
    /\ o.at = "receive"
    /\ Ends(o, Size)
    /\ \/ /\ Kind(o.co) = "udpserver"
          /\ \E c \in toServer : peer' = {c} /\ toServer' = toServer \ {c}
          /\ UNCHANGED toClient
       \/ /\ o.co \in toClient /\ toClient' = toClient \ {o.co}
          /\ UNCHANGED <<toServer, peer>>
    /\ UNCHANGED <<backlog, requests>>
\* async_sleep: the result is some number, at which no program looks.
Slept(o) ==
    /\ o.at \in {"sleep", "sleep again"}
    /\ Ends(o, Size)
    /\ UNCHANGED socketVars
\* The socket was closed, or the network failed.
Failed(o) ==
    /\ o.at \notin {"sleep", "sleep again"}
    /\ Ends(o, -1)
    /\ UNCHANGED socketVars
\* The network drops a datagram.
Dropped ==
    /\ \/ \E c \in toServer : toServer' = toServer \ {c} /\ UNCHANGED toClient
       \/ \E c \in toClient : toClient' = toClient \ {c} /\ UNCHANGED toServer
    /\ UNCHANGED <<ops, next, index, backlog, requests, peer, waitVars>>

NetNext ==
    \/ \E t \in tasks : Continue(t) \/ PickContext(t)
    \/ \E c \in Co : PickSteps(c) \/ PickWraps(c)
    \/ \E o \in ops : \/ Connected(o) \/ Accepted(o) \/ Wrote(o) \/ HasRead(o)
                      \/ Sent(o) \/ Received(o) \/ Slept(o) \/ Failed(o)
    \/ Dropped
=============================================================================
