------------------------------ MODULE ChatRoom ------------------------------
(***************************************************************************)
(* The chat room (app_chat): clients that read lines, and a server, one io   *)
(* thread, whose room delivers every message to every participant and to    *)
(* who joins later the recent ones.                                         *)
(*                                                                         *)
(* Both ends of a connection queue messages, write one at a time, and read  *)
(* a header, then a body.  A message is written as two units, which other   *)
(* steps may come between.  An end is <<"client", c>> or <<"session", c>>.   *)
(* The messages come from this client, whose headers decode.  A client's    *)
(* main thread posts to its io thread and sees nothing of it: a line counts *)
(* as typed when the io thread takes it.                                    *)
(***************************************************************************)
EXTENDS Integers, Sequences, SequencesExt

CONSTANTS Clients,
          MaxRecent,  \* max_recent_msgs (100)
          Setups      \* how many lines each client types at most (bound), whose input
                      \* ends, and whose connection may break
ASSUME RoomAssumption ==
    /\ MaxRecent \in Nat
    /\ \A s \in Setups : s.lines \in [Clients -> Nat] /\ s.ending \cup s.fragile \subseteq Clients

VARIABLES
    setup,         \* the setup, chosen at the start
    conn,          \* each connection: "new", "connected" (not accepted), "reset" (broken
                   \* before it was accepted), "up", "refused" or "broken"
    open,          \* clients whose socket is not closed
    typed,         \* lines each client has typed
    eof,           \* clients whose input has ended
    reading,       \* what each end reads: "off", "header" or "body"
    header,        \* the header each end has read
    write_msgs,    \* write_msgs_ of each end
    busy,          \* ends with an async_write under way
    moved,         \* units of it that are written
    pipe,          \* units that each end has written and the other not read
    participants,  \* participants_, by client
    recent,        \* recent_msgs_
    shown,         \* what each client has printed
    log,           \* all that was delivered in the room
    first          \* the place in the log of the first message each participant was given

mainVars == <<typed, eof>>
readVars == <<reading, header>>
writeVars == <<write_msgs, busy, moved>>
roomVars == <<participants, recent, log, first>>
state == <<conn, open, mainVars, readVars, writeVars, pipe, roomVars, shown>>
vars == <<setup, state>>

Client(c) == <<"client", c>>
Session(c) == <<"session", c>>
End == {"client", "session"} \X Clients
IsClient(e) == e[1] = "client"
Peer(e) == IF IsClient(e) THEN Session(e[2]) ELSE Client(e[2])
NoHeader == <<>>
Garbled == <<>>    \* a header followed by another message's body

Init ==
    /\ setup \in Setups
    /\ conn = [c \in Clients |-> "new"] /\ open = Clients
    /\ typed = [c \in Clients |-> 0] /\ eof = {}
    /\ reading = [e \in End |-> "off"] /\ header = [e \in End |-> NoHeader]
    /\ write_msgs = [e \in End |-> <<>>] /\ busy = {}
    /\ moved = [e \in End |-> 0] /\ pipe = [e \in End |-> <<>>]
    /\ participants = {} /\ recent = <<>>
    /\ shown = [c \in Clients |-> <<>>]
    /\ log = <<>> /\ first = [c \in Clients |-> 1]

-----------------------------------------------------------------------------
(* Writing *)

\* The session keeps its socket while an operation holds it.
SocketOpen(e) == IF IsClient(e) THEN e[2] \in open ELSE reading[e] # "off" \/ e \in busy
Alive(e) == SocketOpen(e) /\ conn[e[2]] \in {"connected", "up"}

\* An end of an accepted connection has closed its socket.
Closed(e) == conn[e[2]] = "up" /\ ~SocketOpen(e)

\* Defect: a write starts though one is in progress.
QueuedAnyway(sends) ==
    /\ write_msgs' = [e \in End |-> write_msgs[e] \o sends[e]]
    /\ busy' = busy \cup {e \in End : sends[e] # <<>>}
    /\ moved' = [e \in End |-> IF sends[e] # <<>> THEN 0 ELSE moved[e]]

\* Each end e queues the messages sends[e], and starts to write if it had none.
Queued(sends) ==
    /\ write_msgs' = [e \in End |-> write_msgs[e] \o sends[e]]
    /\ busy' = busy \cup {e \in End : write_msgs[e] = <<>> /\ sends[e] # <<>>}
    /\ UNCHANGED moved
Sends(S, msgs) == [e \in End |-> IF e \in S THEN msgs ELSE <<>>]

\* async_write moves the next unit of the message in front.
MoveUnit(e) ==
    /\ e \in busy /\ moved[e] < 2 /\ Alive(e)
    /\ moved' = [moved EXCEPT ![e] = @ + 1]
    /\ pipe' = [pipe EXCEPT ![e] = Append(@, <<Head(write_msgs[e]), moved'[e]>>)]
    /\ UNCHANGED <<conn, open, mainVars, readVars, write_msgs, busy, roomVars, shown>>

\* Defect: the next message is left in the queue.
WrittenOnce(e) ==
    /\ e \in busy /\ moved[e] = 2
    /\ write_msgs' = [write_msgs EXCEPT ![e] = Tail(@)]
    /\ moved' = [moved EXCEPT ![e] = 0] /\ busy' = busy \ {e}
    /\ UNCHANGED <<conn, open, mainVars, readVars, pipe, roomVars, shown>>

\* The handler of do_write.
Written(e) ==
    /\ e \in busy /\ moved[e] = 2
    /\ write_msgs' = [write_msgs EXCEPT ![e] = Tail(@)]
    /\ moved' = [moved EXCEPT ![e] = 0]
    /\ busy' = IF Len(write_msgs[e]) > 1 THEN busy ELSE busy \ {e}
    /\ UNCHANGED <<conn, open, mainVars, readVars, pipe, roomVars, shown>>

\* The end closes its socket, or leaves the room.
GivesUp(e) ==
    /\ open' = IF IsClient(e) THEN open \ {e[2]} ELSE open
    /\ participants' = IF IsClient(e) THEN participants ELSE participants \ {e[2]}
    /\ UNCHANGED <<recent, log, first>>
\* do_write fails, also where the client is not connected yet; the message stays.
WriteFails(e) ==
    /\ e \in busy /\ (~Alive(e) \/ Closed(Peer(e)))
    /\ busy' = busy \ {e} /\ moved' = [moved EXCEPT ![e] = 0]
    /\ GivesUp(e)
    /\ UNCHANGED <<conn, mainVars, readVars, write_msgs, pipe, shown>>

-----------------------------------------------------------------------------
(* Reading, and the room *)

\* do_read_header.
ReadHeader(e) ==
    /\ reading[e] = "header" /\ Alive(e) /\ pipe[Peer(e)] # <<>>
    /\ header' = [header EXCEPT ![e] = Head(pipe[Peer(e)])]
    /\ reading' = [reading EXCEPT ![e] = "body"]
    /\ pipe' = [pipe EXCEPT ![Peer(e)] = Tail(@)]
    /\ UNCHANGED <<conn, open, mainVars, writeVars, roomVars, shown>>

Message(h, b) == IF h[2] = 1 /\ b = <<h[1], 2>> THEN h[1] ELSE Garbled
Trimmed(s) == SubSeq(s, Len(s) - (IF Len(s) < MaxRecent THEN Len(s) ELSE MaxRecent) + 1, Len(s))

\* chat_room::deliver.
Deliver(m) ==
    /\ recent' = Trimmed(Append(recent, m))
    /\ log' = Append(log, m)
    /\ Queued(Sends({Session(c) : c \in participants}, <<m>>))
    /\ UNCHANGED <<participants, first>>

\* What do_read_body does at both ends when a body has come, and the next read.
BodyRead(e) ==
    /\ reading[e] = "body" /\ Alive(e) /\ pipe[Peer(e)] # <<>>
    /\ reading' = [reading EXCEPT ![e] = "header"]
    /\ header' = [header EXCEPT ![e] = NoHeader]
    /\ pipe' = [pipe EXCEPT ![Peer(e)] = Tail(@)]
    /\ UNCHANGED <<conn, open, mainVars>>
Body(e) == Message(header[e], Head(pipe[Peer(e)]))

\* The client prints it, the session has the room deliver it.
ShowBody(c) ==
    /\ BodyRead(Client(c))
    /\ shown' = [shown EXCEPT ![c] = Append(@, Body(Client(c)))]
    /\ UNCHANGED <<writeVars, roomVars>>
Receive(c) ==
    /\ BodyRead(Session(c))
    /\ Deliver(Body(Session(c)))
    /\ UNCHANGED shown

\* Either read fails.
ReadFails(e) ==
    /\ reading[e] # "off"
    /\ ~Alive(e) \/ (Closed(Peer(e)) /\ pipe[Peer(e)] = <<>>)
    /\ reading' = [reading EXCEPT ![e] = "off"]
    /\ header' = [header EXCEPT ![e] = NoHeader]
    /\ GivesUp(e)
    /\ UNCHANGED <<conn, mainVars, writeVars, pipe, shown>>

\* chat_room::join.
Join(c) ==
    /\ participants' = participants \cup {c}
    /\ first' = [first EXCEPT ![c] = Len(log) - Len(recent) + 1]
    /\ Queued(Sends({Session(c)}, recent))
\* do_accept and chat_session::start, which do not notice a connection that has
\* been reset.
Accept(c) ==
    /\ conn[c] \in {"connected", "reset"}
    /\ conn' = [conn EXCEPT ![c] = IF @ = "reset" THEN "broken" ELSE "up"]
    /\ Join(c)
    /\ reading' = [reading EXCEPT ![Session(c)] = "header"]
    /\ UNCHANGED <<open, mainVars, header, pipe, recent, log, shown>>

-----------------------------------------------------------------------------
(* The client *)

\* do_connect, which a closed socket aborts.
Connect(c) ==
    /\ conn[c] = "new"
    /\ \/ /\ c \in open
          /\ conn' = [conn EXCEPT ![c] = "connected"]
          /\ reading' = [reading EXCEPT ![Client(c)] = "header"]
       \/ /\ conn' = [conn EXCEPT ![c] = "refused"]
          /\ UNCHANGED reading
    /\ UNCHANGED <<open, mainVars, header, writeVars, pipe, roomVars, shown>>

\* write(), for the next line of the loop, and close() after it.
HasLine(c) == c \notin eof /\ typed[c] < setup.lines[c]
Write(c) ==
    /\ HasLine(c)
    /\ typed' = [typed EXCEPT ![c] = @ + 1]
    /\ Queued(Sends({Client(c)}, <<<<c, typed'[c]>>>>))
    /\ UNCHANGED <<conn, open, eof, readVars, pipe, roomVars, shown>>
Close(c) ==
    /\ c \in setup.ending \ eof
    /\ eof' = eof \cup {c}
    /\ open' = open \ {c}
    /\ UNCHANGED <<conn, typed, readVars, writeVars, pipe, roomVars, shown>>

\* The network breaks a connection, with what is on its way; or an end does that
\* was closed with data for it unread.
Break(c) ==
    /\ conn[c] \in {"connected", "up"}
    /\ c \in setup.fragile
       \/ \E e \in {Client(c), Session(c)} : Closed(e) /\ pipe[Peer(e)] # <<>>
    /\ conn' = [conn EXCEPT ![c] = IF @ = "connected" THEN "reset" ELSE "broken"]
    /\ pipe' = [pipe EXCEPT ![Client(c)] = <<>>, ![Session(c)] = <<>>]
    /\ UNCHANGED <<open, mainVars, readVars, writeVars, roomVars, shown>>

Handler(e) == \/ MoveUnit(e) \/ Written(e) \/ WriteFails(e) \/ ReadHeader(e) \/ ReadFails(e)
              \/ (IsClient(e) /\ ShowBody(e[2])) \/ (~IsClient(e) /\ Receive(e[2]))
Next ==
    /\ UNCHANGED setup
    /\ \/ \E e \in End : Handler(e)
       \/ \E c \in Clients : \/ Accept(c) \/ Connect(c) \/ Write(c) \/ Close(c) \/ Break(c)

\* Both io threads run the handlers that are ready.
Fairness == \A e \in End : WF_state(Handler(e))
Spec == Init /\ [][Next]_vars /\ Fairness

-----------------------------------------------------------------------------
(* Properties *)

\* A client prints the room's messages whole, in the room's order, without a gap or a
\* repetition, from the oldest one that was recent when it joined; and the room has a
\* client's lines each once, in the order in which they were typed and none without the
\* one before it (chat_room, do_write, do_read_body).
HeardAsDelivered ==
    /\ \A c \in Clients : shown[c] = SubSeq(log, first[c], first[c] + Len(shown[c]) - 1)
    /\ \A i \in DOMAIN log : log[i] # Garbled
    /\ \A i \in DOMAIN log :
        /\ \A j \in 1 .. i - 1 : log[j][1] = log[i][1] => log[j][2] < log[i][2]
        /\ log[i][2] = 1 \/ \E j \in 1 .. i - 1 : log[j] = <<log[i][1], log[i][2] - 1>>

\* What was delivered reaches every participant that stays (deliver, do_write).
DeliveredIsHeard ==
    \A c \in Clients, i \in 1 .. MaxRecent + 1 :
        (c \in participants /\ i \in first[c] .. Len(log)) ~>
            (Len(shown[c]) > i - first[c] \/ c \notin participants \/ c \notin open)
=============================================================================
