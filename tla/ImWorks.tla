------------------------------ MODULE ImWorks ------------------------------
(***************************************************************************)
(* The messenger on works (app_im, "im2"): a client and a server, each     *)
(* with one Worker that runs its works one at a time until they suspend,   *)
(* and one io thread that completes their socket and timer operations      *)
(* (mod_worker, mod_workutils.hpp, app_im).  A connection carries light    *)
(* channels: the client's request work sends a request and waits for the   *)
(* response in its light channel, the receive work of either side hands    *)
(* what it reads to the light channel, whose handler wakes the work that   *)
(* waits.  The handler is never removed, and Worker::do_cur_work resumes a *)
(* work whatever it waits for.                                             *)
(*                                                                         *)
(* A unit stands for some bytes: a message is HdrLen units of its size and *)
(* some of its body, which write_some may split; read_some takes what is   *)
(* there.                                                                  *)
(* A write puts its units on the wire before its completion queues the     *)
(* work: asio tries it at once, in the worker's thread.  Every other       *)
(* operation ends where the work is queued, in the one io thread.          *)
(***************************************************************************)
EXTENDS Integers, Sequences, SequencesExt, FiniteSets

CONSTANTS Clients,    \* client processes
          Server,     \* the server process
          HdrLen,     \* units of a message's size
          QCap,       \* capacity of works_q
          Setups      \* which clients run, how many requests each makes at most
                      \* (bound), units of a body, whose connection may break
None == "none"
ASSUME WorksAssumption ==
  /\ {Server, None} \cap Clients = {} /\ {HdrLen, QCap} \subseteq Nat \ {0}
  /\ \A s \in Setups : /\ s.on \cup s.fragile \subseteq Clients
                       /\ s.rounds \in Nat /\ s.body \in Nat \ {0}

Procs == Clients \cup {Server}
\* The works: the client's, and per connection the server's.
Works == {"client", "request", "recv", "srecv", "serve"} \X Clients
         \cup {<<"accept", Server>>}
Home(w) == IF w[1] \in {"client", "request", "recv"} THEN w[2] ELSE Server
LightWorks == {"request", "serve"} \X Clients
Unset == -2      \* no result yet

VARIABLES
  setup,     \* the setup, chosen at the start
  pc,        \* where do_work is: "none" (no such work), "new", the wait it is in, "done"
  rem,       \* units that the write or read in progress still has to move
  got,       \* units read of the message in progress (serve: the request it answers)
  ret,       \* result of the operation the work waits for, Unset until it is there,
             \* or what is on the wire of a write whose completion is not queued yet
  works_q,   \* per process: works to run
  up, down,  \* per client: units on the way to the server, to the client
  alive,     \* connections that are not broken
  backlog,   \* connections not yet accepted
  peer,      \* the connection the accepting work reads its first message from
  msg_q,     \* per light channel end: messages not taken
  handler,   \* light channel ends whose recv_msg_handler is set
  round,     \* per client: requests begun
  answered,  \* per client: the request whose response it took last
  strays,    \* works resumed, or to be resumed, by something they do not wait for
  crashed    \* processes that have dereferenced a null channel
wvars == <<pc, rem, got, ret>>
nvars == <<up, down, alive, backlog>>
lvars == <<msg_q, handler>>
state == <<wvars, works_q, nvars, peer, lvars, round, answered, strays, crashed>>
vars == <<setup, state>>

Init ==
  /\ setup \in Setups
  /\ pc = [w \in Works |-> IF w[1] \in {"client", "accept"} THEN "new" ELSE "none"]
  /\ rem = [w \in Works |-> 0]
  /\ got = [w \in Works |-> <<>>]
  /\ ret = [w \in Works |-> Unset]
  /\ works_q = [p \in Procs |->
                  CASE p = Server -> <<<<"accept", Server>>>>
                    [] p \in setup.on -> <<<<"client", p>>>>
                    [] OTHER -> <<>>]
  /\ up = [c \in Clients |-> <<>>] /\ down = [c \in Clients |-> <<>>]
  /\ alive = {} /\ backlog = <<>> /\ peer = None
  /\ msg_q = [w \in LightWorks |-> <<>>] /\ handler = {}
  /\ round = [c \in Clients |-> 0] /\ answered = [c \in Clients |-> 0]
  /\ strays = {} /\ crashed = {}

-----------------------------------------------------------------------------
(* Worker *)

\* works_q.push fails when the queue is full, and nobody looks at the result.
Pushed(q, news) ==
  LET all == q \o news IN IF Len(all) <= QCap THEN all ELSE SubSeq(all, 1, QCap)
\* The worker takes w from its queue, and puts back the works of news while it runs it.
Taken(w, news) ==
  /\ works_q[Home(w)] # <<>> /\ Head(works_q[Home(w)]) = w
  /\ Home(w) \notin crashed
  /\ works_q' = [works_q EXCEPT ![Home(w)] = Pushed(Tail(@), news)]
\* The io thread queues w again.
AddSelfBack(w) ==
  /\ Home(w) \notin crashed
  /\ works_q' = [works_q EXCEPT ![Home(w)] = Pushed(@, <<w>>)]

\* The work suspends in an operation; a message is written and read size first.
SuspendIn(w, at, n) ==
  /\ pc' = [pc EXCEPT ![w] = at] /\ rem' = [rem EXCEPT ![w] = n]
  /\ ret' = [ret EXCEPT ![w] = Unset]
Suspend(w, at, n) == SuspendIn(w, at, n) /\ UNCHANGED got
Write(w) == Suspend(w, "whdr", HdrLen)
Read(w) == SuspendIn(w, "rhdr", HdrLen) /\ got' = [got EXCEPT ![w] = <<>>]
Finish(w) == Suspend(w, "done", 0)

-----------------------------------------------------------------------------
(* Sockets *)

\* The connection a work writes to or reads from, and what it writes.
Conn(w) == IF w[1] = "accept" THEN peer ELSE w[2]
Writing(w) == pc[w] \in {"whdr", "wbody"}
Reading(w) == pc[w] \in {"rhdr", "rbody"}
UnitsOf(m) == [u \in 1 .. HdrLen + setup.body |-> <<m, u>>]
Outgoing(w) ==
  UnitsOf(CASE w[1] = "client"  -> <<"hello", 0>>
            [] w[1] = "request" -> <<"req", round[w[2]]>>
            [] w[1] = "serve"   -> <<"res", got[w][1]>>)
\* Defect: a write that goes on starts from the beginning of the buffer.
NextUnitRestart(w) == IF pc[w] = "whdr" THEN 1 ELSE HdrLen + 1
NextUnit(w) == IF pc[w] = "whdr" THEN HdrLen - rem[w] + 1
               ELSE HdrLen + setup.body - rem[w] + 1

OnWire(k) == Unset - k
Sending(w) == Writing(w) /\ ret[w] < Unset

IoWrite(w) ==
  /\ Writing(w) /\ ret[w] = Unset
  /\ \/ /\ Conn(w) \in alive /\ Home(w) \notin crashed /\ UNCHANGED works_q
        /\ \E k \in 1 .. rem[w] :
             LET units == SubSeq(Outgoing(w), NextUnit(w), NextUnit(w) + k - 1)
             IN /\ ret' = [ret EXCEPT ![w] = OnWire(k)]
                /\ IF w[1] = "serve"
                   THEN down' = [down EXCEPT ![w[2]] = @ \o units] /\ UNCHANGED up
                   ELSE up' = [up EXCEPT ![w[2]] = @ \o units] /\ UNCHANGED down
     \/ /\ Conn(w) \notin alive /\ ret' = [ret EXCEPT ![w] = -1] /\ AddSelfBack(w)
        /\ UNCHANGED <<up, down>>
  /\ UNCHANGED <<pc, rem, got, alive, backlog, peer, lvars, round, answered, strays, crashed>>
IoWritten(w) ==
  /\ Sending(w) /\ ret' = [ret EXCEPT ![w] = Unset - @]
  /\ AddSelfBack(w)
  /\ UNCHANGED <<pc, rem, got, nvars, peer, lvars, round, answered, strays, crashed>>

\* asio works on a socket's operations one at a time, its descriptor locked.
Busy(w) == \E v \in Works : Home(v) = Home(w) /\ Conn(v) = Conn(w) /\ Sending(v)
IoRead(w) ==
  /\ Reading(w) /\ ret[w] = Unset /\ ~Busy(w)
  /\ LET c == Conn(w)
         stream == IF w[1] = "recv" THEN down[c] ELSE up[c]
         k == IF rem[w] < Len(stream) THEN rem[w] ELSE Len(stream)
         left == SubSeq(stream, k + 1, Len(stream))
     IN \/ /\ c \in alive /\ stream # <<>>
           /\ ret' = [ret EXCEPT ![w] = k]
           /\ got' = [got EXCEPT ![w] = @ \o SubSeq(stream, 1, k)]
           /\ IF w[1] = "recv" THEN down' = [down EXCEPT ![c] = left] /\ UNCHANGED up
              ELSE up' = [up EXCEPT ![c] = left] /\ UNCHANGED down
        \/ /\ c \notin alive /\ ret' = [ret EXCEPT ![w] = -1]
           /\ UNCHANGED <<got, up, down>>
  /\ AddSelfBack(w)
  /\ UNCHANGED <<pc, rem, alive, backlog, peer, lvars, round, answered, strays, crashed>>

IoConnect(c) ==
  LET w == <<"client", c>>
  IN /\ pc[w] = "connect" /\ ret[w] = Unset
     /\ \/ /\ pc[<<"accept", Server>>] \notin {"new", "done"}
           /\ ret' = [ret EXCEPT ![w] = 0]
           /\ alive' = alive \cup {c} /\ backlog' = Append(backlog, c)
        \/ ret' = [ret EXCEPT ![w] = -1] /\ UNCHANGED <<alive, backlog>>
     /\ AddSelfBack(w)
     /\ UNCHANGED <<pc, rem, got, up, down, peer, lvars, round, answered, strays, crashed>>

IoAccept ==
  LET w == <<"accept", Server>>
  IN /\ pc[w] = "accept" /\ ret[w] = Unset /\ backlog # <<>>
     /\ peer' = Head(backlog) /\ backlog' = Tail(backlog)
     /\ ret' = [ret EXCEPT ![w] = 0]
     /\ AddSelfBack(w)
     /\ UNCHANGED <<pc, rem, got, up, down, alive, lvars, round, answered, strays, crashed>>

IoTimer(w) ==
  /\ pc[w] = "timer" /\ ret[w] = Unset
  /\ ret' = [ret EXCEPT ![w] = 0]
  /\ AddSelfBack(w)
  /\ UNCHANGED <<pc, rem, got, nvars, peer, lvars, round, answered, strays, crashed>>

\* The connection is reset: what was under way is gone.
Break(c) ==
  /\ c \in setup.fragile \cap alive /\ alive' = alive \ {c}
  /\ up' = [up EXCEPT ![c] = <<>>] /\ down' = [down EXCEPT ![c] = <<>>]
  /\ UNCHANGED <<wvars, works_q, backlog, peer, lvars, round, answered, strays, crashed>>

\* TcpSocket::write, TcpSocket::read: the rest of a part, then the message's body.
GoOn(w) ==
  /\ Writing(w) \/ Reading(w)
  /\ ret[w] > 0
  /\ \/ ret[w] < rem[w] /\ Suspend(w, pc[w], rem[w] - ret[w])
     \/ /\ ret[w] = rem[w] /\ pc[w] \in {"whdr", "rhdr"}
        /\ Suspend(w, IF pc[w] = "whdr" THEN "wbody" ELSE "rbody", setup.body)
  /\ Taken(w, <<>>)
  /\ UNCHANGED <<nvars, peer, lvars, round, answered, strays, crashed>>
\* The message, of which deal_with_msg passes the light channel's part on.
Message(w) == Head(got[w])[1]
\* The message is complete, or the connection has failed.
Ended(w) == ret[w] = -1 \/ (ret[w] = rem[w] /\ pc[w] \in {"wbody", "rbody"})

-----------------------------------------------------------------------------
(* Light channels *)

\* deal_with_light_channel_msg: the handler, once set, wakes the work at every message.
Deal(w, m) ==
  /\ msg_q' = [msg_q EXCEPT ![w] = Append(@, m)]
  /\ strays' = IF w \in handler /\ (pc[w] # "wait" \/ ret[w] # Unset)
               THEN strays \cup {w} ELSE strays
  /\ UNCHANGED handler
Woken(w) == IF w \in handler THEN <<w>> ELSE <<>>

\* The work goes on with message m: the client's sleeps, the server's answers it.
UseMsg(w, m) ==
  \/ /\ w[1] = "request" /\ answered' = [answered EXCEPT ![w[2]] = m[2]]
     /\ Suspend(w, "timer", 0)
  \/ /\ w[1] = "serve" /\ UNCHANGED answered
     /\ SuspendIn(w, "whdr", HdrLen) /\ got' = [got EXCEPT ![w] = <<m[2]>>]
\* Defect: the message stays in the queue.
TakeMsgKeeps(w) == UNCHANGED lvars /\ UseMsg(w, Head(msg_q[w]))
\* get_light_channel_msg
TakeMsg(w) ==
  /\ msg_q' = [msg_q EXCEPT ![w] = Tail(@)] /\ UNCHANGED handler
  /\ UseMsg(w, Head(msg_q[w]))
\* Defect: the handler is set although a message is there.
LightRecvBlind(w) ==
  handler' = handler \cup {w} /\ Suspend(w, "wait", 0) /\ UNCHANGED <<msg_q, answered>>
\* Defect: a request work that finds no response goes to sleep with its handler set.
LightRecvNoYield(w) ==
  \/ msg_q[w] # <<>> /\ TakeMsg(w)
  \/ /\ msg_q[w] = <<>> /\ handler' = handler \cup {w}
     /\ Suspend(w, IF w[1] = "request" THEN "timer" ELSE "wait", 0)
     /\ UNCHANGED <<msg_q, answered>>
\* light_channel_ab::recv_msg up to its wait.
LightRecv(w) ==
  \/ msg_q[w] # <<>> /\ TakeMsg(w)
  \/ /\ msg_q[w] = <<>> /\ handler' = handler \cup {w} /\ Suspend(w, "wait", 0)
     /\ UNCHANGED <<msg_q, answered>>

-----------------------------------------------------------------------------
(* The works *)

\* im2_channel_builder::connect: the connection, then a message that says who it is.
Connect(w) ==
  \/ pc[w] = "new" /\ Suspend(w, "connect", 0)
  \/ pc[w] = "connect" /\ ret[w] = 0 /\ Write(w)
\* im2_client_work: add the two works of the connection, there is one or not.
ClientWork(c) ==
  LET w == <<"client", c>>
      works == <<<<"request", c>>, <<"recv", c>>>>
  IN \/ Connect(w) /\ Taken(w, <<>>) /\ UNCHANGED crashed
     \/ /\ pc[w] = "connect" /\ ret[w] = -1 /\ Finish(w) /\ Taken(w, works)
        /\ crashed' = crashed \cup {c}
     \/ /\ Writing(w) /\ Ended(w) /\ Taken(w, works)
        /\ pc' = [pc EXCEPT ![w] = "done", ![works[1]] = "new", ![works[2]] = "new"]
        /\ UNCHANGED <<rem, got, ret, crashed>>

\* im2_client_request_work: a request, its response, five seconds, and again.
Request(c) == round' = [round EXCEPT ![c] = @ + 1] /\ Write(<<"request", c>>)
RequestWork(c) ==
  LET w == <<"request", c>>
  IN /\ Taken(w, <<>>)
     /\ \/ pc[w] = "new" /\ Request(c) /\ UNCHANGED <<lvars, answered>>
        \/ Writing(w) /\ ret[w] = -1 /\ Finish(w) /\ UNCHANGED <<lvars, round, answered>>
        \/ Writing(w) /\ ret[w] # -1 /\ Ended(w) /\ LightRecv(w) /\ UNCHANGED round
        \/ /\ pc[w] = "wait" /\ ret[w] = 0 /\ UNCHANGED round
           /\ IF msg_q[w] # <<>> THEN TakeMsg(w)
              ELSE Suspend(w, "timer", 0) /\ UNCHANGED <<lvars, answered>>
        \/ /\ pc[w] = "timer" /\ ret[w] = 0 /\ round[c] < setup.rounds
           /\ Request(c) /\ UNCHANGED <<lvars, answered>>

\* im2_channel_recv_work at the client: a response goes to the request work.
RecvWork(c) ==
  LET w == <<"recv", c>>
      to == <<"request", c>>
  IN \/ pc[w] = "new" /\ Read(w) /\ Taken(w, <<>>) /\ UNCHANGED <<lvars, strays>>
     \/ Reading(w) /\ ret[w] = -1 /\ Finish(w) /\ Taken(w, <<>>) /\ UNCHANGED <<lvars, strays>>
     \/ /\ Reading(w) /\ ret[w] # -1 /\ Ended(w)
        /\ Deal(to, Message(w)) /\ Taken(w, Woken(to))
        /\ pc' = [pc EXCEPT ![w] = "rhdr"] /\ rem' = [rem EXCEPT ![w] = HdrLen]
        /\ got' = [got EXCEPT ![w] = <<>>]
        /\ ret' = [ret EXCEPT ![w] = Unset, ![to] = IF to \in handler THEN 0 ELSE @]

\* TcpSocketBuilder_Asio::listen
Listen(w) == pc[w] = "new" /\ (Suspend(w, "accept", 0) \/ Finish(w))
\* im2_channel_builder::accept: it reads the peer's first message too, so that
\* connections are set up one after the other.
Accept(w) == pc[w] = "accept" /\ ret[w] = 0 /\ peer \in alive /\ Read(w)
\* im2_server_work.  A connection that has broken by then has no remote_endpoint:
\* accept() returns null, which is dereferenced.
ServerWork ==
  LET w == <<"accept", Server>>
  IN \/ (Listen(w) \/ Accept(w)) /\ Taken(w, <<>>) /\ UNCHANGED <<nvars, peer, crashed>>
     \/ /\ pc[w] = "accept" /\ ret[w] = 0 /\ peer \notin alive
        /\ Finish(w) /\ Taken(w, <<>>)
        /\ crashed' = crashed \cup {Server} /\ alive' = {}
        /\ UNCHANGED <<up, down, backlog, peer>>
     \/ /\ Reading(w) /\ Ended(w) /\ Taken(w, <<<<"srecv", peer>>>>)
        /\ pc' = [pc EXCEPT ![w] = "accept", ![<<"srecv", peer>>] = "new"]
        /\ ret' = [ret EXCEPT ![w] = Unset] /\ got' = [got EXCEPT ![w] = <<>>]
        /\ peer' = None /\ UNCHANGED <<rem, nvars, crashed>>

\* get_light_channel_from_msg: the first message of the peer's light channel makes it.
NewLightChannel(c) == pc[<<"serve", c>>] = "none"
\* im2_channel_recv_work at the server: a new light channel gets a work that serves it.
ServerRecvWork(c) ==
  LET w == <<"srecv", c>>
      to == <<"serve", c>>
      fresh == NewLightChannel(c)
  IN \/ pc[w] = "new" /\ Read(w) /\ Taken(w, <<>>) /\ UNCHANGED <<lvars, strays>>
     \/ Reading(w) /\ ret[w] = -1 /\ Finish(w) /\ Taken(w, <<>>) /\ UNCHANGED <<lvars, strays>>
     \/ /\ Reading(w) /\ ret[w] # -1 /\ Ended(w)
        /\ Deal(to, Message(w))
        /\ Taken(w, (IF fresh THEN <<to>> ELSE <<>>) \o Woken(to))
        /\ pc' = [pc EXCEPT ![w] = "rhdr", ![to] = IF fresh THEN "new" ELSE @]
        /\ rem' = [rem EXCEPT ![w] = HdrLen] /\ got' = [got EXCEPT ![w] = <<>>]
        /\ ret' = [ret EXCEPT ![w] = Unset, ![to] = IF to \in handler THEN 0 ELSE @]

\* im2_light_channel_server_work: it answers every request, whether or not the
\* response can be sent, and ends only when a wait yields no message.
ServeWork(c) ==
  LET w == <<"serve", c>>
  IN /\ Taken(w, <<>>)
     /\ \/ (pc[w] = "new" \/ (Writing(w) /\ Ended(w))) /\ LightRecv(w)
        \/ /\ pc[w] = "wait" /\ ret[w] = 0
           /\ IF msg_q[w] # <<>> THEN TakeMsg(w)
              ELSE Finish(w) /\ UNCHANGED <<lvars, answered>>

-----------------------------------------------------------------------------
(* Specification *)

RunWork(w) ==
  \/ GoOn(w)
  \/ w[1] = "client" /\ ClientWork(w[2])
     /\ UNCHANGED <<nvars, peer, lvars, round, answered, strays>>
  \/ w[1] = "request" /\ RequestWork(w[2]) /\ UNCHANGED <<nvars, peer, strays, crashed>>
  \/ w[1] = "recv" /\ RecvWork(w[2]) /\ UNCHANGED <<nvars, peer, round, answered, crashed>>
  \/ w[1] = "accept" /\ ServerWork /\ UNCHANGED <<lvars, round, answered, strays>>
  \/ w[1] = "srecv" /\ ServerRecvWork(w[2])
     /\ UNCHANGED <<nvars, peer, round, answered, crashed>>
  \/ w[1] = "serve" /\ ServeWork(w[2])
     /\ UNCHANGED <<nvars, peer, round, strays, crashed>>
Io(w) == IoWrite(w) \/ IoWritten(w) \/ IoRead(w) \/ IoTimer(w)

Step ==
  \/ \E w \in Works : RunWork(w) \/ Io(w)
  \/ IoAccept
  \/ \E c \in Clients : IoConnect(c) \/ Break(c)
Next == Step /\ UNCHANGED setup

\* Worker::run and io_context::run loop forever; nothing makes a connection break.
Fairness ==
  /\ \A w \in Works : WF_state(RunWork(w)) /\ WF_state(Io(w))
  /\ WF_state(IoAccept)
  /\ \A c \in Clients : WF_state(IoConnect(c))
Spec == Init /\ [][Next]_vars /\ Fairness

-----------------------------------------------------------------------------
(* Properties *)

\* A work is resumed by the operation or the message it waits for and by
\* nothing else, although its light channel's handler stays set when the wait
\* is over and a resume carries no identity (mod_worker.cpp:31): no message
\* comes for a light channel whose work is in a write or a timer.
NoStrayWake == strays = {}

\* What a read has of a message is the beginning of one message, whatever the
\* works that share the socket write and however writes and reads are split.
Framed ==
  \A w \in Works : Reading(w) /\ got[w] # <<>> =>
    IsPrefix(got[w], UnitsOf(Message(w)))

\* A client takes the response to the request it has just sent: none is
\* missed, taken twice or taken for another's.
OwnResponse == \A c \in Clients : answered[c] \in {round[c], round[c] - 1}

\* A request is answered, unless its connection breaks or the server dies of
\* another that broke before it was accepted, and its connections with it.
EveryRequestAnswered ==
  \A c \in Clients :
    answered[c] < round[c] ~> answered[c] = round[c] \/ c \notin alive
=============================================================================
