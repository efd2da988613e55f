--------------------------- MODULE ChatRoom_proofs ---------------------------
(***************************************************************************)
(* What the clients of a room print is what the room delivered, for any     *)
(* clients, lines typed, order of the reads and writes and ways to end.     *)
(*                                                                         *)
(*   TypeInv    types; an end writes the message in front of its queue, and *)
(*              one that reads a body has read a header                     *)
(*   RoomInv    for each direction of each connection, the messages queued, *)
(*              being written, in the pipe, half read and taken by the peer *)
(*              are stretches, one after the other, of one sequence: the    *)
(*              lines of a client (ClientInv) or the room's log from the    *)
(*              place on at which the session joined (SessionInv).  The log *)
(*              has the lines of each client in order (LogInv)              *)
(* A step queues for some ends (Queued), ends a write, moves a unit into    *)
(* the pipe or takes one out of it; the lemmas on Stream say what each does *)
(* to the end at hand, and Kept what an end must keep to be out of it.      *)
(***************************************************************************)
EXTENDS ChatRoom, SequenceTheorems, TLAPS

-----------------------------------------------------------------------------
(* Types *)

Messages == (Clients \X Nat) \cup {Garbled}
Units == Messages \X {1, 2}

\* An end writes the message in front of its queue.
Sending == \A e \in End : /\ e \in busy => write_msgs[e] # <<>>
                          /\ e \notin busy => moved[e] = 0
\* An end that reads a body has read a header.
Headed == \A e \in End : reading[e] = "body" => header[e] \in Units

TypeInv ==
    /\ setup \in Setups
    /\ conn \in [Clients -> {"new", "connected", "reset", "up", "refused", "broken"}]
    /\ open \subseteq Clients /\ eof \subseteq Clients /\ participants \subseteq Clients
    /\ typed \in [Clients -> Nat] /\ first \in [Clients -> Int]
    /\ reading \in [End -> {"off", "header", "body"}]
    /\ header \in [End -> Units \cup {NoHeader}]
    /\ Headed
    /\ write_msgs \in [End -> Seq(Messages)]
    /\ busy \subseteq End /\ moved \in [End -> 0 .. 2]
    /\ Sending
    /\ pipe \in [End -> Seq(Units)]
    /\ recent \in Seq(Messages) /\ log \in Seq(Messages)
    /\ shown \in [Clients -> Seq(Messages)]

LEMMA EndFacts ==
    ASSUME NEW e \in End
    PROVE  /\ e[2] \in Clients /\ Peer(e) \in End /\ Peer(Peer(e)) = e /\ Peer(e) # e
           /\ Peer(e)[2] = e[2]
           /\ IsClient(e) => e = Client(e[2]) /\ Peer(e) = Session(e[2]) /\ ~IsClient(Peer(e))
           /\ ~IsClient(e) => e = Session(e[2]) /\ Peer(e) = Client(e[2]) /\ IsClient(Peer(e))
BY DEF End, Peer, IsClient, Client, Session

LEMMA ClientFacts ==
    ASSUME NEW c \in Clients
    PROVE  /\ Client(c) \in End /\ Session(c) \in End
           /\ Client(c)[2] = c /\ Session(c)[2] = c
           /\ IsClient(Client(c)) /\ ~IsClient(Session(c))
           /\ Peer(Client(c)) = Session(c) /\ Peer(Session(c)) = Client(c)
           /\ \A d \in Clients : /\ Client(c) # Session(d)
                                 /\ (Client(c) = Client(d) \/ Session(c) = Session(d)) => c = d
BY DEF End, Peer, IsClient, Client, Session

LEMMA MessageType ==
    ASSUME NEW h \in Units, NEW b \in Units
    PROVE  Message(h, b) \in Messages
BY DEF Message, Units, Messages

LEMMA TrimmedType ==
    ASSUME NEW s \in Seq(Messages)
    PROVE  /\ Trimmed(s) \in Seq(Messages) /\ Len(Trimmed(s)) <= Len(s)
           /\ \A i \in 1 .. Len(Trimmed(s)) : Trimmed(s)[i] = s[Len(s) - Len(Trimmed(s)) + i]
<1> DEFINE k == IF Len(s) < MaxRecent THEN Len(s) ELSE MaxRecent
<1>1. k \in 0 .. Len(s)
  BY RoomAssumption
<1>2. Trimmed(s) = SubSeq(s, Len(s) - k + 1, Len(s))
  BY DEF Trimmed
<1> HIDE DEF k
<1>3. Trimmed(s) \in Seq(Messages) /\ Len(Trimmed(s)) = k
  BY <1>1, <1>2
<1>4. ASSUME NEW i \in 1 .. k
      PROVE  Trimmed(s)[i] = s[Len(s) - k + i]
  BY <1>1, <1>2, <1>4
<1> QED
  BY <1>1, <1>3, <1>4

LEMMA QueuedType ==
    ASSUME TypeInv, NEW S \in SUBSET End, NEW msgs \in Seq(Messages), Queued(Sends(S, msgs))
    PROVE  /\ write_msgs' \in [End -> Seq(Messages)]
           /\ busy' \subseteq End /\ moved' \in [End -> 0 .. 2]
           /\ Sending'
           /\ \A e \in End : /\ e \notin S => write_msgs'[e] = write_msgs[e] /\ (e \in busy' <=> e \in busy)
                             /\ e \in S => write_msgs'[e] = write_msgs[e] \o msgs
                             /\ moved'[e] = moved[e]
                             /\ e \in busy' <=> (e \in busy \/ (e \in S /\ msgs # <<>> /\ write_msgs[e] = <<>>))
<1> DEFINE sends == Sends(S, msgs)
<1>1. \A e \in End : sends[e] = IF e \in S THEN msgs ELSE <<>>
  BY DEF Sends
<1>2. \A e \in End : sends[e] \in Seq(Messages)
  <2>1. <<>> \in Seq(Messages)
    OBVIOUS
  <2> QED
    BY <1>1, <2>1
<1>3. /\ write_msgs' = [e \in End |-> write_msgs[e] \o sends[e]]
      /\ busy' = busy \cup {e \in End : write_msgs[e] = <<>> /\ sends[e] # <<>>}
      /\ moved' = moved
  BY DEF Queued
<1> HIDE DEF sends
<1>4. ASSUME NEW e \in End
      PROVE  /\ write_msgs'[e] = write_msgs[e] \o sends[e]
             /\ write_msgs'[e] \in Seq(Messages)
             /\ sends[e] = <<>> => write_msgs'[e] = write_msgs[e]
             /\ write_msgs[e] # <<>> \/ sends[e] # <<>> => write_msgs'[e] # <<>>
  <2>1. write_msgs[e] \in Seq(Messages) /\ sends[e] \in Seq(Messages)
    BY <1>2 DEF TypeInv
  <2>2. write_msgs'[e] = write_msgs[e] \o sends[e]
    BY <1>3
  <2>3. Len(write_msgs[e] \o sends[e]) = Len(write_msgs[e]) + Len(sends[e])
    BY <2>1
  <2>4. write_msgs[e] \o sends[e] \in Seq(Messages)
    BY <2>1
  <2>5. sends[e] = <<>> => write_msgs[e] \o sends[e] = write_msgs[e]
    BY <2>1
  <2>6. \A s \in Seq(Messages) : s = <<>> <=> Len(s) = 0
    OBVIOUS
  <2>7. Len(write_msgs[e]) \in Nat /\ Len(sends[e]) \in Nat
    BY <2>1
  <2>8. write_msgs[e] # <<>> \/ sends[e] # <<>> => write_msgs[e] \o sends[e] # <<>>
    BY <2>1, <2>3, <2>4, <2>6, <2>7
  <2> QED
    BY <2>2, <2>4, <2>5, <2>8
<1>5. write_msgs' \in [End -> Seq(Messages)]
  BY <1>3, <1>4
<1>6. busy' \subseteq End /\ moved' \in [End -> 0 .. 2]
  BY <1>3 DEF TypeInv
<1>7. ASSUME NEW e \in End
      PROVE  /\ e \in busy' => write_msgs'[e] # <<>>
             /\ e \notin busy' => moved'[e] = 0
  BY <1>3, <1>4 DEF TypeInv, Sending
<1>8. ASSUME NEW e \in End
      PROVE  /\ e \notin S => write_msgs'[e] = write_msgs[e] /\ (e \in busy' <=> e \in busy)
             /\ e \in S => write_msgs'[e] = write_msgs[e] \o msgs
             /\ moved'[e] = moved[e]
             /\ e \in busy' <=> (e \in busy \/ (e \in S /\ msgs # <<>> /\ write_msgs[e] = <<>>))
  BY <1>1, <1>3, <1>4
<1> QED
  BY <1>5, <1>6, <1>7, <1>8 DEF Sending

LEMMA TypeInit == Init => TypeInv
<1> SUFFICES ASSUME Init PROVE TypeInv
  OBVIOUS
<1>1. /\ conn \in [Clients -> {"new", "connected", "reset", "up", "refused", "broken"}]
      /\ typed \in [Clients -> Nat] /\ first \in [Clients -> Int]
      /\ reading \in [End -> {"off", "header", "body"}]
      /\ header \in [End -> Units \cup {NoHeader}]
      /\ moved \in [End -> 0 .. 2]
      /\ open \subseteq Clients /\ eof \subseteq Clients /\ participants \subseteq Clients
      /\ busy \subseteq End /\ setup \in Setups
  BY DEF Init
<1>2. <<>> \in Seq(Messages) /\ <<>> \in Seq(Units)
  OBVIOUS
<1>3. /\ write_msgs \in [End -> Seq(Messages)] /\ pipe \in [End -> Seq(Units)]
      /\ recent \in Seq(Messages) /\ log \in Seq(Messages) /\ shown \in [Clients -> Seq(Messages)]
  BY <1>2 DEF Init
<1>4. Sending /\ Headed
  BY DEF Init, Sending, Headed
<1> QED
  BY <1>1, <1>3, <1>4 DEF TypeInv

\* What the head and the rest of a pipe that is read are.
LEMMA ReadFacts ==
    ASSUME TypeInv, NEW e \in End, pipe[Peer(e)] # <<>>
    PROVE  Head(pipe[Peer(e)]) \in Units /\ Tail(pipe[Peer(e)]) \in Seq(Units)
<1>1. pipe[Peer(e)] \in Seq(Units)
  BY EndFacts DEF TypeInv
<1> QED
  BY <1>1

LEMMA MoveType ==
    ASSUME TypeInv, NEW e \in End, MoveUnit(e)
    PROVE  moved' \in [End -> 0 .. 2] /\ pipe' \in [End -> Seq(Units)] /\ Sending'
<1>1. write_msgs[e] \in Seq(Messages) /\ write_msgs[e] # <<>> /\ moved[e] \in {0, 1}
  BY DEF TypeInv, Sending, MoveUnit
<1>2. moved' \in [End -> 0 .. 2] /\ moved'[e] \in {1, 2}
  BY <1>1 DEF TypeInv, MoveUnit
<1>3. <<Head(write_msgs[e]), moved'[e]>> \in Units
  BY <1>1, <1>2 DEF Units
<1>4. pipe[e] \in Seq(Units)
  BY DEF TypeInv
<1>5. Append(pipe[e], <<Head(write_msgs[e]), moved'[e]>>) \in Seq(Units)
  BY <1>3, <1>4
<1>6. pipe' \in [End -> Seq(Units)]
  BY <1>5 DEF MoveUnit, TypeInv
<1>7. Sending'
  BY DEF MoveUnit, Sending, writeVars, TypeInv
<1> QED
  BY <1>2, <1>6, <1>7

LEMMA LongTail ==
    ASSUME NEW S, NEW s \in Seq(S), Len(s) > 1
    PROVE  Tail(s) # <<>>
<1>1. Tail(s) \in Seq(S) /\ Len(Tail(s)) = Len(s) - 1 /\ Len(s) \in Nat
  OBVIOUS
<1>2. Tail(s) = <<>> <=> Len(Tail(s)) = 0
  BY <1>1, EmptySeq, Zenon
<1> QED
  BY <1>1, <1>2

LEMMA WrittenType ==
    ASSUME TypeInv, NEW e \in End, Written(e)
    PROVE  /\ write_msgs' \in [End -> Seq(Messages)] /\ moved' \in [End -> 0 .. 2]
           /\ busy' \subseteq End /\ Sending'
<1>1. write_msgs[e] \in Seq(Messages) /\ write_msgs[e] # <<>>
  BY DEF TypeInv, Sending, Written
<1>2. Tail(write_msgs[e]) \in Seq(Messages) /\ Len(Tail(write_msgs[e])) = Len(write_msgs[e]) - 1
  BY <1>1
<1>3. write_msgs' \in [End -> Seq(Messages)] /\ moved' \in [End -> 0 .. 2] /\ busy' \subseteq End
  BY <1>2 DEF TypeInv, Written
<1>4. Len(write_msgs[e]) > 1 => Tail(write_msgs[e]) # <<>>
  BY <1>1, LongTail
<1>5. Sending'
  BY <1>4 DEF TypeInv, Sending, Written
<1> QED
  BY <1>3, <1>5

LEMMA FailsType ==
    ASSUME TypeInv, NEW e \in End, WriteFails(e)
    PROVE  moved' \in [End -> 0 .. 2] /\ busy' \subseteq End /\ Sending'
BY DEF TypeInv, Sending, WriteFails

LEMMA GivesUpType ==
    ASSUME TypeInv, NEW e \in End, GivesUp(e)
    PROVE  open' \subseteq Clients /\ participants' \subseteq Clients
BY DEF TypeInv, GivesUp

LEMMA BodyReadType ==
    ASSUME TypeInv, NEW e \in End, BodyRead(e)
    PROVE  /\ reading' \in [End -> {"off", "header", "body"}]
           /\ header' \in [End -> Units \cup {NoHeader}]
           /\ pipe' \in [End -> Seq(Units)] /\ Headed' /\ Body(e) \in Messages
<1>1. Tail(pipe[Peer(e)]) \in Seq(Units) /\ Head(pipe[Peer(e)]) \in Units
  BY ReadFacts DEF BodyRead
<1>2. pipe' \in [End -> Seq(Units)]
  BY <1>1 DEF BodyRead, TypeInv
<1>3. reading' \in [End -> {"off", "header", "body"}] /\ header' \in [End -> Units \cup {NoHeader}]
  BY DEF BodyRead, TypeInv
<1>4. Headed'
  BY DEF BodyRead, TypeInv, Headed
<1>5. Body(e) \in Messages
  BY <1>1, MessageType DEF Body, BodyRead, TypeInv, Headed
<1> QED
  BY <1>2, <1>3, <1>4, <1>5

LEMMA ReadHeaderType ==
    ASSUME TypeInv, NEW e \in End, ReadHeader(e)
    PROVE  /\ reading' \in [End -> {"off", "header", "body"}]
           /\ header' \in [End -> Units \cup {NoHeader}]
           /\ pipe' \in [End -> Seq(Units)] /\ Headed'
<1>1. Tail(pipe[Peer(e)]) \in Seq(Units) /\ Head(pipe[Peer(e)]) \in Units
  BY ReadFacts DEF ReadHeader
<1>2. pipe' \in [End -> Seq(Units)]
  BY <1>1 DEF ReadHeader, TypeInv
<1>3. reading' \in [End -> {"off", "header", "body"}] /\ header' \in [End -> Units \cup {NoHeader}]
  BY <1>1 DEF ReadHeader, TypeInv
<1>4. Headed'
  BY <1>1 DEF ReadHeader, TypeInv, Headed
<1> QED
  BY <1>2, <1>3, <1>4

LEMMA DeliverType ==
    ASSUME TypeInv, NEW m \in Messages, Deliver(m)
    PROVE  /\ recent' \in Seq(Messages) /\ log' \in Seq(Messages)
           /\ write_msgs' \in [End -> Seq(Messages)]
           /\ busy' \subseteq End /\ moved' \in [End -> 0 .. 2] /\ Sending'
<1>1. Append(recent, m) \in Seq(Messages) /\ Append(log, m) \in Seq(Messages) /\ <<m>> \in Seq(Messages)
  BY DEF TypeInv
<1>2. {Session(c) : c \in participants} \in SUBSET End
  BY ClientFacts DEF TypeInv
<1>3. Queued(Sends({Session(c) : c \in participants}, <<m>>))
  BY DEF Deliver
<1>4. recent' \in Seq(Messages) /\ log' \in Seq(Messages)
  BY <1>1, TrimmedType DEF Deliver
<1> QED
  BY <1>1, <1>2, <1>3, <1>4, QueuedType

LEMMA TypeStep ==
    ASSUME TypeInv, Next
    PROVE  TypeInv'
<1>1. setup' \in Setups
  BY DEF TypeInv, Next
<1>2. ASSUME NEW e \in End, MoveUnit(e)
      PROVE  TypeInv'
  BY <1>1, <1>2, MoveType DEF MoveUnit, TypeInv, mainVars, readVars, roomVars, Headed
<1>3. ASSUME NEW e \in End, Written(e)
      PROVE  TypeInv'
  BY <1>1, <1>3, WrittenType DEF Written, TypeInv, mainVars, readVars, roomVars, Headed
<1>4. ASSUME NEW e \in End, WriteFails(e)
      PROVE  TypeInv'
  <2>1. GivesUp(e)
    BY <1>4 DEF WriteFails
  <2> QED
    BY <1>1, <1>4, <2>1, FailsType, GivesUpType DEF WriteFails, GivesUp, TypeInv, mainVars, readVars, Headed
<1>5. ASSUME NEW e \in End, ReadHeader(e)
      PROVE  TypeInv'
  BY <1>1, <1>5, ReadHeaderType DEF ReadHeader, TypeInv, mainVars, writeVars, roomVars, Sending
<1>6. ASSUME NEW e \in End, ReadFails(e)
      PROVE  TypeInv'
  <2>1. GivesUp(e)
    BY <1>6 DEF ReadFails
  <2>2. Headed'
    BY <1>6 DEF ReadFails, Headed, TypeInv
  <2> QED
    BY <1>1, <1>6, <2>1, <2>2, GivesUpType DEF ReadFails, GivesUp, TypeInv, mainVars, writeVars, Sending
<1>7. ASSUME NEW c \in Clients, ShowBody(c)
      PROVE  TypeInv'
  <2>1. BodyRead(Client(c)) /\ Client(c) \in End
    BY <1>7, ClientFacts DEF ShowBody
  <2>2. Body(Client(c)) \in Messages
    BY <2>1, BodyReadType
  <2>3. Append(shown[c], Body(Client(c))) \in Seq(Messages)
    BY <2>2 DEF TypeInv
  <2>4. shown' \in [Clients -> Seq(Messages)]
    BY <1>7, <2>3 DEF ShowBody, TypeInv
  <2> QED
    BY <1>1, <1>7, <2>1, <2>4, BodyReadType DEF ShowBody, BodyRead, TypeInv, mainVars, writeVars, roomVars, Sending
<1>8. ASSUME NEW c \in Clients, Receive(c)
      PROVE  TypeInv'
  <2>1. BodyRead(Session(c)) /\ Session(c) \in End
    BY <1>8, ClientFacts DEF Receive
  <2>2. Body(Session(c)) \in Messages /\ Deliver(Body(Session(c)))
    BY <1>8, <2>1, BodyReadType DEF Receive
  <2> QED
    BY <1>1, <1>8, <2>1, <2>2, BodyReadType, DeliverType DEF Receive, BodyRead, Deliver, TypeInv, mainVars
<1>9. ASSUME NEW c \in Clients, Accept(c)
      PROVE  TypeInv'
  <2>1. Session(c) \in End /\ {Session(c)} \in SUBSET End
    BY ClientFacts
  <2>2. Queued(Sends({Session(c)}, recent)) /\ recent \in Seq(Messages)
    BY <1>9 DEF Accept, Join, TypeInv
  <2>3. first' \in [Clients -> Int]
    BY <1>9 DEF Accept, Join, TypeInv
  <2>4. Headed'
    BY <1>9 DEF Accept, TypeInv, Headed
  <2> QED
    BY <1>1, <1>9, <2>1, <2>2, <2>3, <2>4, QueuedType DEF Accept, Join, TypeInv, mainVars
<1>10. ASSUME NEW c \in Clients, Connect(c)
       PROVE  TypeInv'
  <2>1. /\ conn' \in [Clients -> {"new", "connected", "reset", "up", "refused", "broken"}]
        /\ reading' \in [End -> {"off", "header", "body"}]
    BY <1>10 DEF Connect, TypeInv
  <2>2. Headed'
    BY <1>10 DEF Connect, TypeInv, Headed
  <2> QED
    BY <1>1, <1>10, <2>1, <2>2 DEF Connect, TypeInv, mainVars, writeVars, roomVars, Sending
<1>11. ASSUME NEW c \in Clients, Write(c)
       PROVE  TypeInv'
  <2>1. Client(c) \in End /\ {Client(c)} \in SUBSET End
    BY ClientFacts
  <2>2. typed' \in [Clients -> Nat] /\ typed'[c] \in Nat
    BY <1>11 DEF Write, TypeInv
  <2>3. <<c, typed'[c]>> \in Messages
    BY <2>2 DEF Messages
  <2>4. <<<<c, typed'[c]>>>> \in Seq(Messages)
    BY <2>3
  <2>5. Queued(Sends({Client(c)}, <<<<c, typed'[c]>>>>))
    BY <1>11 DEF Write
  <2> QED
    BY <1>1, <1>11, <2>1, <2>2, <2>4, <2>5, QueuedType DEF Write, TypeInv, readVars, roomVars, Headed
<1>12. ASSUME NEW c \in Clients, Close(c)
       PROVE  TypeInv'
  BY <1>1, <1>12 DEF Close, TypeInv, readVars, writeVars, roomVars, Sending, Headed
<1>13. ASSUME NEW c \in Clients, Break(c)
       PROVE  TypeInv'
  <2>1. pipe' \in [End -> Seq(Units)]
    <3>1. <<>> \in Seq(Units)
      OBVIOUS
    <3> QED
      BY <1>13, <3>1 DEF Break, TypeInv
  <2>2. conn' \in [Clients -> {"new", "connected", "reset", "up", "refused", "broken"}]
    BY <1>13 DEF Break, TypeInv
  <2> QED
    BY <1>1, <1>13, <2>1, <2>2 DEF Break, TypeInv, mainVars, readVars, writeVars, roomVars, Sending, Headed
<1>14. ASSUME NEW e \in End, Handler(e)
       PROVE  TypeInv'
  BY <1>2, <1>3, <1>4, <1>5, <1>6, <1>7, <1>8, <1>14, EndFacts DEF Handler
<1> QED
  BY <1>9, <1>10, <1>11, <1>12, <1>13, <1>14 DEF Next

(* The state of the ends and of the room keeps its type: an end writes the message in
   front of its queue, and one that reads a body has read a header. *)
THEOREM TypeCorrect == Spec => []TypeInv
<1>1. Init => TypeInv
  BY TypeInit
<1>2. TypeInv /\ [Next]_vars => TypeInv'
  <2>1. TypeInv /\ UNCHANGED vars => TypeInv'
    BY DEF vars, state, mainVars, readVars, writeVars, roomVars, TypeInv, Sending, Headed
  <2> QED
    BY <2>1, TypeStep
<1> QED
  BY <1>1, <1>2, PTL DEF Spec

-----------------------------------------------------------------------------
(* The messages between two ends *)

\* What is between two ends.  M are the messages that one queues for the other,
\* t of them so far, of which the other has read r; p is the pipe, rd what the
\* other reads and h the header that it has.  Message k is written as two units.
Half(rd) == IF rd = "body" THEN 1 ELSE 0
Link(M, r, t, p, rd, h) ==
    /\ 2 * r + Half(rd) + Len(p) <= 2 * t
    /\ \A j \in DOMAIN p, k \in 1 .. t, q \in {1, 2} :
          2 * r + Half(rd) + j = 2 * (k - 1) + q => p[j] = <<M[k], q>>
    /\ rd = "body" => h = <<M[r + 1], 1>>

LEMMA LinkSame ==
    ASSUME NEW M, NEW M2, NEW r \in Nat, NEW t \in Nat, NEW t2 \in Nat,
           NEW p \in Seq(Units), NEW rd, NEW h,
           Link(M, r, t, p, rd, h), t <= t2, \A k \in 1 .. t : M2[k] = M[k]
    PROVE  Link(M2, r, t2, p, rd, h)
<1>1. Half(rd) \in {0, 1} /\ Len(p) \in Nat /\ DOMAIN p = 1 .. Len(p)
  BY DEF Half
<1>2. 2 * r + Half(rd) + Len(p) <= 2 * t
  BY DEF Link
<1>3. ASSUME NEW j \in DOMAIN p, NEW k \in 1 .. t2, NEW q \in {1, 2},
             2 * r + Half(rd) + j = 2 * (k - 1) + q
      PROVE  p[j] = <<M2[k], q>>
  <2>2. k \in 1 .. t
    BY <1>1, <1>2, <1>3
  <2>1. p[j] = <<M[k], q>>
    BY <1>3, <2>2, Zenon DEF Link
  <2> QED
    BY <2>1, <2>2
<1>4. ASSUME rd = "body"
      PROVE  h = <<M2[r + 1], 1>>
  <2>1. r + 1 \in 1 .. t
    BY <1>1, <1>2, <1>4 DEF Half
  <2>2. h = <<M[r + 1], 1>>
    BY <1>4 DEF Link
  <2> QED
    BY <2>1, <2>2
<1>5. 2 * r + Half(rd) + Len(p) <= 2 * t2
  BY <1>1, <1>2
<1> QED
  BY <1>3, <1>4, <1>5, Zenon DEF Link

LEMMA LinkMove ==
    ASSUME NEW M, NEW r \in Nat, NEW t \in Nat, NEW p \in Seq(Units), NEW rd, NEW h,
           Link(M, r, t, p, rd, h),
           NEW k0 \in Nat, NEW m \in {0, 1}, k0 < t,
           2 * r + Half(rd) + Len(p) = 2 * k0 + m,
           NEW u \in Units, u = <<M[k0 + 1], m + 1>>
    PROVE  Link(M, r, t, Append(p, u), rd, h)
<1>1. Half(rd) \in {0, 1} /\ Len(p) \in Nat /\ DOMAIN p = 1 .. Len(p)
  BY DEF Half
<1>2. /\ Len(Append(p, u)) = Len(p) + 1 /\ DOMAIN Append(p, u) = 1 .. Len(p) + 1
      /\ Append(p, u)[Len(p) + 1] = u /\ \A j \in 1 .. Len(p) : Append(p, u)[j] = p[j]
  OBVIOUS
<1>3. 2 * r + Half(rd) + Len(Append(p, u)) <= 2 * t
  BY <1>1, <1>2
<1>4. ASSUME NEW j \in DOMAIN Append(p, u), NEW k \in 1 .. t, NEW q \in {1, 2},
             2 * r + Half(rd) + j = 2 * (k - 1) + q
      PROVE  Append(p, u)[j] = <<M[k], q>>
  <2>1. CASE j \in 1 .. Len(p)
    BY <1>1, <1>2, <1>4, <2>1 DEF Link
  <2>2. CASE j = Len(p) + 1
    <3>1. 2 * k0 + m + 1 = 2 * (k - 1) + q
      BY <1>1, <1>4, <2>2
    <3>2. k = k0 + 1 /\ q = m + 1
      BY <3>1
    <3> QED
      BY <1>2, <2>2, <3>2
  <2> QED
    BY <1>2, <2>1, <2>2
<1> QED
  BY <1>3, <1>4 DEF Link

LEMMA LinkHeader ==
    ASSUME NEW M, NEW r \in Nat, NEW t \in Nat, NEW p \in Seq(Units), NEW h,
           Link(M, r, t, p, "header", h), p # <<>>
    PROVE  Link(M, r, t, Tail(p), "body", Head(p))
<1>1. /\ Len(p) \in Nat \ {0} /\ DOMAIN p = 1 .. Len(p) /\ Len(Tail(p)) = Len(p) - 1
      /\ DOMAIN Tail(p) = 1 .. Len(p) - 1 /\ Head(p) = p[1]
      /\ \A j \in 1 .. Len(p) - 1 : Tail(p)[j] = p[j + 1]
  OBVIOUS
<1>2. Half("body") = 1 /\ Half("header") = 0
  BY DEF Half
<1>3. ASSUME NEW j \in DOMAIN p, NEW k \in 1 .. t, NEW q \in {1, 2}, 2 * r + j = 2 * (k - 1) + q
      PROVE  p[j] = <<M[k], q>>
  <2>1. 2 * r + Half("header") + j = 2 * (k - 1) + q
    BY <1>1, <1>2, <1>3
  <2> QED
    BY <2>1, Zenon DEF Link
<1>4. 2 * r + 1 + Len(Tail(p)) <= 2 * t
  BY <1>1, <1>2 DEF Link
<1>5. p[1] = <<M[r + 1], 1>>
  <2>1. 2 * r + 1 = 2 * ((r + 1) - 1) + 1 /\ r + 1 \in 1 .. t /\ 1 \in DOMAIN p /\ 1 \in {1, 2}
    BY <1>1, <1>4
  <2> QED
    BY <1>3, <2>1, Zenon
<1>6. ASSUME NEW j \in DOMAIN Tail(p), NEW k \in 1 .. t, NEW q \in {1, 2},
             2 * r + 1 + j = 2 * (k - 1) + q
      PROVE  Tail(p)[j] = <<M[k], q>>
  <2>1. j + 1 \in DOMAIN p /\ 2 * r + (j + 1) = 2 * (k - 1) + q /\ Tail(p)[j] = p[j + 1]
    BY <1>1, <1>6
  <2> QED
    BY <1>3, <2>1
<1>7. 2 * r + Half("body") + Len(Tail(p)) <= 2 * t
  BY <1>1, <1>2, <1>4
<1>8. ASSUME NEW j \in DOMAIN Tail(p), NEW k \in 1 .. t, NEW q \in {1, 2},
             2 * r + Half("body") + j = 2 * (k - 1) + q
      PROVE  Tail(p)[j] = <<M[k], q>>
  <2>1. 2 * r + 1 + j = 2 * (k - 1) + q
    BY <1>2, <1>8
  <2> QED
    BY <1>6, <2>1, Zenon
<1>9. Head(p) = <<M[r + 1], 1>>
  BY <1>1, <1>5
<1> QED
  BY <1>7, <1>8, <1>9, Zenon DEF Link

LEMMA LinkBody ==
    ASSUME NEW M, NEW r \in Nat, NEW t \in Nat, NEW p \in Seq(Units), NEW h,
           Link(M, r, t, p, "body", h), p # <<>>
    PROVE  /\ Message(h, Head(p)) = M[r + 1] /\ r + 1 <= t
           /\ \A h2 : Link(M, r + 1, t, Tail(p), "header", h2)
<1>1. /\ Len(p) \in Nat \ {0} /\ DOMAIN p = 1 .. Len(p) /\ Len(Tail(p)) = Len(p) - 1
      /\ DOMAIN Tail(p) = 1 .. Len(p) - 1 /\ Head(p) = p[1]
      /\ \A j \in 1 .. Len(p) - 1 : Tail(p)[j] = p[j + 1]
  OBVIOUS
<1>2. Half("body") = 1 /\ Half("header") = 0
  BY DEF Half
<1>3. ASSUME NEW j \in DOMAIN p, NEW k \in 1 .. t, NEW q \in {1, 2}, 2 * r + 1 + j = 2 * (k - 1) + q
      PROVE  p[j] = <<M[k], q>>
  <2>1. 2 * r + Half("body") + j = 2 * (k - 1) + q
    BY <1>1, <1>2, <1>3
  <2> QED
    BY <2>1, Zenon DEF Link
<1>4. 2 * (r + 1) + Len(Tail(p)) <= 2 * t /\ r + 1 <= t
  BY <1>1, <1>2 DEF Link
<1>5. p[1] = <<M[r + 1], 2>>
  <2>1. 2 * r + 1 + 1 = 2 * ((r + 1) - 1) + 2 /\ r + 1 \in 1 .. t /\ 1 \in DOMAIN p /\ 2 \in {1, 2}
    BY <1>1, <1>4
  <2> QED
    BY <1>3, <2>1, Zenon
<1>6. Message(h, Head(p)) = M[r + 1]
  BY <1>1, <1>5 DEF Link, Message
<1>7. ASSUME NEW j \in DOMAIN Tail(p), NEW k \in 1 .. t, NEW q \in {1, 2},
             2 * (r + 1) + j = 2 * (k - 1) + q
      PROVE  Tail(p)[j] = <<M[k], q>>
  <2>1. j + 1 \in DOMAIN p /\ 2 * r + 1 + (j + 1) = 2 * (k - 1) + q /\ Tail(p)[j] = p[j + 1]
    BY <1>1, <1>7
  <2> QED
    BY <1>3, <2>1
<1>8. ASSUME NEW h2
      PROVE  Link(M, r + 1, t, Tail(p), "header", h2)
  <2>1. 2 * (r + 1) + Half("header") + Len(Tail(p)) <= 2 * t
    BY <1>1, <1>2, <1>4
  <2>2. ASSUME NEW j \in DOMAIN Tail(p), NEW k \in 1 .. t, NEW q \in {1, 2},
               2 * (r + 1) + Half("header") + j = 2 * (k - 1) + q
        PROVE  Tail(p)[j] = <<M[k], q>>
    <3>1. 2 * (r + 1) + j = 2 * (k - 1) + q
      BY <1>1, <1>2, <2>2
    <3> QED
      BY <1>7, <3>1, Zenon
  <2>3. "header" # "body"
    OBVIOUS
  <2> QED
    BY <2>1, <2>2, <2>3, Zenon DEF Link
<1> QED
  BY <1>4, <1>6, <1>8

LEMMA LinkEmpty ==
    ASSUME NEW M, NEW t \in Nat, NEW rd, NEW h, rd # "body"
    PROVE  Link(M, 0, t, <<>>, rd, h)
BY DEF Link, Half

-----------------------------------------------------------------------------
(* What an end has queued, written and had read *)

\* End e still reads, or will when the connection is made.
Hears(e) == /\ conn[e[2]] \notin {"broken", "reset"}
            /\ \/ reading[e] # "off" \/ conn[e[2]] = "new"
               \/ (~IsClient(e) /\ conn[e[2]] = "connected")

\* e was given the first t messages of M, of which its peer has read r.
Stream(e, M, r, t) ==
    /\ Len(write_msgs[e]) <= t
    /\ \A i \in DOMAIN write_msgs[e] : write_msgs[e][i] = M[t - Len(write_msgs[e]) + i]
    /\ Hears(Peer(e)) =>
         /\ Link(M, r, t, pipe[e], reading[Peer(e)], header[Peer(e)])
         /\ (e \in busy \/ write_msgs[e] = <<>>) =>
               2 * r + Half(reading[Peer(e)]) + Len(pipe[e]) = 2 * (t - Len(write_msgs[e])) + moved[e]

\* A client is given its lines.
Lines(c, n) == [k \in 1 .. n |-> <<c, k>>]
Delivered(c, r) == /\ \A i \in DOMAIN log : log[i][1] = c => log[i][2] <= r
                   /\ r > 0 => \E i \in DOMAIN log : log[i] = <<c, r>>
ClientInv(c) == \E r \in 0 .. Len(log), t \in {typed[c]} :
                   Delivered(c, r) /\ Stream(Client(c), Lines(c, t), r, t)

\* A session is given the log from the first message on, until its client leaves.
Given(c) == Len(log) + 1 - first[c]
Heard == [c \in Clients |-> [k \in 1 .. Given(c) |-> log[first[c] + k - 1]]]
SessionInv(c) == \E t \in 0 .. Given(c), r \in {Len(shown[c])}, M \in {Heard[c]} :
                   (c \in participants => t = Given(c)) /\ Stream(Session(c), M, r, t)

Unaccepted == {"new", "connected", "reset", "refused"}

\* Nothing happens to a session before it is accepted.
StartInv(c) ==
    conn[c] \in Unaccepted =>
        /\ c \notin participants /\ shown[c] = <<>>
        /\ write_msgs[Session(c)] = <<>> /\ Session(c) \notin busy /\ pipe[Session(c)] = <<>>
        /\ reading[Session(c)] = "off" /\ reading[Client(c)] # "body"
        /\ conn[c] \notin {"connected", "reset"} => reading[Client(c)] = "off"

ShownInv(c) == /\ first[c] >= 1 /\ Len(shown[c]) <= Given(c)
               /\ \A i \in DOMAIN shown[c] : shown[c][i] = Heard[c][i]

RecentInv == /\ Len(recent) <= Len(log)
             /\ \A i \in DOMAIN recent : recent[i] = log[Len(log) - Len(recent) + i]

LogInv == \A i \in DOMAIN log :
            /\ log[i] \in Clients \X (Nat \ {0})
            /\ \A j \in 1 .. i - 1 : log[j][1] = log[i][1] => log[j][2] < log[i][2]
            /\ log[i][2] = 1 \/ \E j \in 1 .. i - 1 : log[j] = <<log[i][1], log[i][2] - 1>>

RoomInv == /\ RecentInv /\ LogInv
           /\ \A c \in Clients : StartInv(c) /\ ShownInv(c) /\ ClientInv(c) /\ SessionInv(c)

-----------------------------------------------------------------------------
(* What a step does to a link *)

LEMMA LinkIdle ==
    ASSUME NEW M, NEW r \in Nat, NEW t \in Nat, NEW p \in Seq(Units), NEW rd, NEW rd2, NEW h, NEW h2,
           rd # "body", rd2 # "body", Link(M, r, t, p, rd, h)
    PROVE  Link(M, r, t, p, rd2, h2)
<1>1. Half(rd2) = Half(rd)
  BY DEF Half
<1>2. 2 * r + Half(rd2) + Len(p) <= 2 * t
  BY <1>1 DEF Link
<1>3. ASSUME NEW j \in DOMAIN p, NEW k \in 1 .. t, NEW q \in {1, 2},
             2 * r + Half(rd2) + j = 2 * (k - 1) + q
      PROVE  p[j] = <<M[k], q>>
  <2>1. 2 * r + Half(rd) + j = 2 * (k - 1) + q
    BY <1>1, <1>3
  <2> QED
    BY <2>1, Zenon DEF Link
<1> QED
  BY <1>2, <1>3, Zenon DEF Link

LEMMA StreamTypes ==
    ASSUME TypeInv, NEW e \in End
    PROVE  /\ Peer(e) \in End /\ write_msgs[e] \in Seq(Messages) /\ Len(write_msgs[e]) \in Nat
           /\ DOMAIN write_msgs[e] = 1 .. Len(write_msgs[e])
           /\ write_msgs[e] = <<>> <=> Len(write_msgs[e]) = 0
           /\ pipe[e] \in Seq(Units) /\ Len(pipe[e]) \in Nat
           /\ reading[Peer(e)] \in {"off", "header", "body"} /\ Half(reading[Peer(e)]) \in {0, 1}
           /\ moved[e] \in 0 .. 2 /\ (e \in busy => Len(write_msgs[e]) > 0)
           /\ e \notin busy => moved[e] = 0
<1>1. Peer(e) \in End
  BY EndFacts
<1>2. write_msgs[e] \in Seq(Messages) /\ pipe[e] \in Seq(Units)
  BY DEF TypeInv
<1>3. /\ Len(write_msgs[e]) \in Nat /\ DOMAIN write_msgs[e] = 1 .. Len(write_msgs[e]) /\ Len(pipe[e]) \in Nat
  BY <1>2
<1>4. write_msgs[e] = <<>> <=> Len(write_msgs[e]) = 0
  BY <1>2, EmptySeq, <1>3
<1>5. reading[Peer(e)] \in {"off", "header", "body"} /\ Half(reading[Peer(e)]) \in {0, 1}
  BY <1>1 DEF TypeInv, Half
<1>6. moved[e] \in 0 .. 2 /\ (e \in busy => write_msgs[e] # <<>>) /\ (e \notin busy => moved[e] = 0)
  BY DEF TypeInv, Sending
<1>7. e \in busy => Len(write_msgs[e]) > 0
  BY <1>3, <1>4, <1>6
<1> QED
  BY <1>1, <1>2, <1>3, <1>4, <1>5, <1>6, <1>7

\* A step leaves what e has queued and written as it is, or nobody will read it.
Kept(e) ==
    /\ write_msgs'[e] = write_msgs[e]
    /\ (e \in busy' \/ write_msgs[e] = <<>>) =>
          (e \in busy \/ write_msgs[e] = <<>>) /\ moved'[e] = moved[e]
    /\ Hears(Peer(e))' => /\ Hears(Peer(e)) /\ pipe'[e] = pipe[e]
                          /\ \/ /\ reading'[Peer(e)] = reading[Peer(e)]
                                /\ header'[Peer(e)] = header[Peer(e)]
                             \/ reading'[Peer(e)] # "body" /\ reading[Peer(e)] # "body"

LEMMA StreamSame ==
    ASSUME TypeInv, NEW e \in End, NEW M, NEW M2, NEW r \in Nat, NEW t \in Nat,
           Stream(e, M, r, t), \A k \in 1 .. t : M2[k] = M[k], Kept(e)
    PROVE  Stream(e, M2, r, t)'
<1> USE DEF Kept
<1>1. \A i \in DOMAIN write_msgs[e] : t - Len(write_msgs[e]) + i \in 1 .. t
  BY StreamTypes DEF Stream
<1>2. \A i \in DOMAIN write_msgs'[e] : write_msgs'[e][i] = M2[t - Len(write_msgs'[e]) + i]
  BY <1>1 DEF Stream
<1>3. ASSUME Hears(Peer(e))'
      PROVE  /\ Link(M2, r, t, pipe'[e], reading'[Peer(e)], header'[Peer(e)])
             /\ (e \in busy' \/ write_msgs'[e] = <<>>) =>
                   2 * r + Half(reading'[Peer(e)]) + Len(pipe'[e]) = 2 * (t - Len(write_msgs'[e])) + moved'[e]
  <2>1. Link(M, r, t, pipe[e], reading[Peer(e)], header[Peer(e)])
    BY <1>3 DEF Stream
  <2>2. Link(M2, r, t, pipe[e], reading[Peer(e)], header[Peer(e)])
    <3>1. t <= t /\ pipe[e] \in Seq(Units)
      BY StreamTypes
    <3> QED
      BY <2>1, <3>1, LinkSame, Zenon
  <2>3. Link(M2, r, t, pipe'[e], reading'[Peer(e)], header'[Peer(e)])
    BY <1>3, <2>2, StreamTypes, LinkIdle
  <2>4. Half(reading'[Peer(e)]) = Half(reading[Peer(e)])
    BY <1>3 DEF Half
  <2> QED
    BY <1>3, <2>3, <2>4 DEF Stream
<1> QED
  BY <1>2, <1>3 DEF Stream

LEMMA StreamMore ==
    ASSUME TypeInv, NEW e \in End, NEW M, NEW M2, NEW r \in Nat, NEW t \in Nat, NEW t2 \in Nat,
           NEW msgs \in Seq(Messages), t2 = t + Len(msgs),
           Stream(e, M, r, t), \A k \in 1 .. t : M2[k] = M[k],
           \A i \in 1 .. Len(msgs) : M2[t + i] = msgs[i],
           write_msgs'[e] = write_msgs[e] \o msgs, moved'[e] = moved[e],
           e \in busy' => e \in busy \/ write_msgs[e] = <<>>,
           Hears(Peer(e))' => /\ Hears(Peer(e)) /\ pipe'[e] = pipe[e]
                              /\ reading'[Peer(e)] = reading[Peer(e)]
                              /\ header'[Peer(e)] = header[Peer(e)]
    PROVE  Stream(e, M2, r, t2)'
<1> DEFINE w == write_msgs[e]
           n == Len(msgs)
<1>1. w \in Seq(Messages) /\ Len(w) \in Nat /\ n \in Nat /\ DOMAIN w = 1 .. Len(w)
  BY StreamTypes
<1>2. /\ Len(w \o msgs) = Len(w) + n /\ DOMAIN (w \o msgs) = 1 .. Len(w) + n
      /\ \A i \in 1 .. Len(w) + n : (w \o msgs)[i] = IF i <= Len(w) THEN w[i] ELSE msgs[i - Len(w)]
  BY <1>1
<1>3. /\ Len(w) <= t /\ \A i \in 1 .. Len(w) : w[i] = M[t - Len(w) + i]
  BY <1>1 DEF Stream
<1>9. write_msgs'[e] = w \o msgs
  OBVIOUS
<1>10. /\ e \in busy => Len(w) > 0
       /\ w = <<>> <=> Len(w) = 0
  BY StreamTypes
<1> HIDE DEF w, n
<1>4. ASSUME NEW i \in 1 .. Len(w) + n
      PROVE  (w \o msgs)[i] = M2[t2 - (Len(w) + n) + i]
  <2>1. t2 - (Len(w) + n) + i = t - Len(w) + i
    BY <1>1 DEF n
  <2>2. CASE i <= Len(w)
    <3>1. t - Len(w) + i \in 1 .. t
      BY <1>1, <1>3, <2>2
    <3> QED
      BY <1>2, <1>3, <2>1, <2>2, <3>1
  <2>3. CASE i > Len(w)
    <3>1. i - Len(w) \in 1 .. n /\ t + (i - Len(w)) = t - Len(w) + i
      BY <1>1, <2>3
    <3> QED
      BY <1>1, <1>2, <2>1, <2>3, <3>1 DEF n
  <2>4. i <= Len(w) \/ i > Len(w)
    BY <1>1
  <2> QED
    BY <2>2, <2>3, <2>4, Zenon
<1>5. Len(write_msgs'[e]) = Len(w) + n /\ DOMAIN write_msgs'[e] = 1 .. Len(w) + n
  BY <1>2, <1>9
<1>6. t2 - (Len(w) + n) = t - Len(w) /\ Len(w) + n <= t2 /\ t <= t2
  BY <1>1, <1>3 DEF n
<1>7. ASSUME Hears(Peer(e))'
      PROVE  Link(M2, r, t2, pipe'[e], reading'[Peer(e)], header'[Peer(e)])
  <2>1. Link(M, r, t, pipe[e], reading[Peer(e)], header[Peer(e)])
    BY <1>7 DEF Stream
  <2>2. Link(M2, r, t2, pipe[e], reading[Peer(e)], header[Peer(e)])
    <3>1. t <= t2 /\ pipe[e] \in Seq(Units)
      BY <1>6, StreamTypes
    <3> QED
      BY <2>1, <3>1, LinkSame, Zenon
  <2> QED
    BY <1>7, <2>2
<1>8. ASSUME Hears(Peer(e))', e \in busy' \/ write_msgs'[e] = <<>>
      PROVE  2 * r + Half(reading'[Peer(e)]) + Len(pipe'[e]) = 2 * (t2 - Len(write_msgs'[e])) + moved'[e]
  <2>1. Len(<<>>) = 0
    OBVIOUS
  <2>2. write_msgs'[e] = <<>> => Len(w) = 0
    BY <1>1, <1>5, <2>1
  <2>3. e \in busy \/ w = <<>>
    BY <1>8, <1>10, <2>2 DEF w
  <2>4. 2 * r + Half(reading[Peer(e)]) + Len(pipe[e]) = 2 * (t - Len(w)) + moved[e]
    BY <1>8, <2>3 DEF Stream, w
  <2> QED
    BY <1>5, <1>6, <1>8, <2>4
<1> QED
  BY <1>4, <1>5, <1>6, <1>7, <1>8, <1>9 DEF Stream

\* The end writes a unit.
LEMMA StreamMoved ==
    ASSUME TypeInv, NEW e \in End, NEW M, NEW r \in Nat, NEW t \in Nat,
           Stream(e, M, r, t), MoveUnit(e)
    PROVE  Stream(e, M, r, t)'
<1>1. /\ e \in busy /\ moved[e] \in {0, 1} /\ Len(write_msgs[e]) > 0
      /\ moved'[e] = moved[e] + 1 /\ write_msgs' = write_msgs /\ busy' = busy
      /\ pipe'[e] = Append(pipe[e], <<Head(write_msgs[e]), moved[e] + 1>>)
      /\ reading' = reading /\ header' = header /\ conn' = conn
  <2>1. e \in busy /\ moved[e] \in {0, 1} /\ Len(write_msgs[e]) > 0
    BY StreamTypes DEF MoveUnit
  <2>2. moved \in [End -> 0 .. 2] /\ DOMAIN pipe = End
    BY DEF TypeInv
  <2>3. /\ moved' = [moved EXCEPT ![e] = @ + 1]
        /\ pipe' = [pipe EXCEPT ![e] = Append(@, <<Head(write_msgs[e]), moved'[e]>>)]
        /\ write_msgs' = write_msgs /\ busy' = busy
        /\ reading' = reading /\ header' = header /\ conn' = conn
    BY DEF MoveUnit, readVars
  <2>4. moved'[e] = moved[e] + 1
    BY <2>2, <2>3
  <2>5. pipe'[e] = Append(pipe[e], <<Head(write_msgs[e]), moved[e] + 1>>)
    BY <2>2, <2>3, <2>4
  <2> QED
    BY <2>1, <2>3, <2>4, <2>5, Zenon
<1>2. Hears(Peer(e))' <=> Hears(Peer(e))
  BY <1>1 DEF Hears
<1>3. ASSUME Hears(Peer(e))
      PROVE  /\ Link(M, r, t, pipe'[e], reading[Peer(e)], header[Peer(e)])
             /\ 2 * r + Half(reading[Peer(e)]) + Len(pipe'[e]) = 2 * (t - Len(write_msgs[e])) + moved'[e]
  <2>1. /\ Link(M, r, t, pipe[e], reading[Peer(e)], header[Peer(e)])
        /\ 2 * r + Half(reading[Peer(e)]) + Len(pipe[e]) = 2 * (t - Len(write_msgs[e])) + moved[e]
    BY <1>1, <1>3 DEF Stream
  <2>2. /\ t - Len(write_msgs[e]) \in Nat /\ t - Len(write_msgs[e]) < t
        /\ Head(write_msgs[e]) = M[t - Len(write_msgs[e]) + 1]
    <3>1. 1 \in DOMAIN write_msgs[e] /\ Head(write_msgs[e]) = write_msgs[e][1] /\ Len(write_msgs[e]) <= t
      BY <1>1, StreamTypes DEF Stream
    <3>2. write_msgs[e][1] = M[t - Len(write_msgs[e]) + 1]
      BY <3>1, Zenon DEF Stream
    <3>3. Len(write_msgs[e]) \in Nat
      BY StreamTypes
    <3>4. t - Len(write_msgs[e]) \in Nat /\ t - Len(write_msgs[e]) < t
      BY <1>1, <3>1, <3>3
    <3> QED
      BY <3>1, <3>2, <3>4, Zenon
  <2>3. <<Head(write_msgs[e]), moved[e] + 1>> \in Units
    <3>1. Head(write_msgs[e]) \in Messages
      BY <1>1, StreamTypes
    <3> QED
      BY <1>1, <3>1 DEF Units
  <2>4. Link(M, r, t, Append(pipe[e], <<Head(write_msgs[e]), moved[e] + 1>>), reading[Peer(e)], header[Peer(e)])
    <3> DEFINE u == <<Head(write_msgs[e]), moved[e] + 1>>
               k0 == t - Len(write_msgs[e])
    <3>1. /\ 2 * r + Half(reading[Peer(e)]) + Len(pipe[e]) = 2 * k0 + moved[e]
          /\ k0 \in Nat /\ k0 < t /\ u \in Units /\ u = <<M[k0 + 1], moved[e] + 1>>
          /\ pipe[e] \in Seq(Units) /\ moved[e] \in {0, 1}
      BY <1>1, <2>1, <2>2, <2>3, StreamTypes
    <3> HIDE DEF u, k0
    <3>2. Link(M, r, t, Append(pipe[e], u), reading[Peer(e)], header[Peer(e)])
      BY <2>1, <3>1, LinkMove, Zenon
    <3> QED
      BY <3>2 DEF u
  <2>5. Len(pipe'[e]) = Len(pipe[e]) + 1
    BY <1>1, <2>3, StreamTypes
  <2>6. 2 * r + Half(reading[Peer(e)]) + Len(pipe'[e]) = 2 * (t - Len(write_msgs[e])) + moved'[e]
    <3>1. Half(reading[Peer(e)]) \in {0, 1} /\ Len(pipe[e]) \in Nat /\ Len(write_msgs[e]) \in Nat
      BY StreamTypes
    <3>2. moved'[e] = moved[e] + 1 /\ moved[e] \in Int
      BY <1>1
    <3>3. 2 * r + Half(reading[Peer(e)]) + Len(pipe[e]) = 2 * (t - Len(write_msgs[e])) + moved[e]
      BY <2>1
    <3> DEFINE h == 2 * r + Half(reading[Peer(e)])
               c == 2 * (t - Len(write_msgs[e]))
    <3>4. h \in Int /\ c \in Int /\ Len(pipe[e]) \in Int
      BY <3>1
    <3>5. h + Len(pipe[e]) = c + moved[e]
      BY <3>3
    <3> HIDE DEF h, c
    <3>6. ASSUME NEW a2, a2 = Len(pipe[e]) + 1, NEW m2, m2 = moved[e] + 1
          PROVE  h + a2 = c + m2
      <4>1. ASSUME NEW a \in Int, a = Len(pipe[e]), NEW m \in Int, m = moved[e]
            PROVE  h + a2 = c + m2
        <5>1. h + a = c + m /\ a2 = a + 1 /\ m2 = m + 1
          BY <3>5, <3>6, <4>1, Zenon
        <5> QED
          BY <3>4, <5>1
      <4> QED
        BY <3>2, <3>4, <4>1, Zenon
    <3>8. moved'[e] = moved[e] + 1
      BY <3>2
    <3>7. h + Len(pipe'[e]) = c + moved'[e]
      BY <2>5, <3>6, <3>8, Zenon
    <3> QED
      BY <3>7, Zenon DEF h, c
  <2> QED
    BY <1>1, <2>4, <2>6
<1> QED
  BY <1>1, <1>2, <1>3 DEF Stream

-----------------------------------------------------------------------------
(* The ends of a write and of a read *)

\* The write ends.
LEMMA StreamWritten ==
    ASSUME TypeInv, NEW e \in End, NEW M, NEW r \in Nat, NEW t \in Nat,
           Stream(e, M, r, t), Written(e)
    PROVE  Stream(e, M, r, t)'
<1>1. /\ e \in busy /\ moved[e] = 2 /\ Len(write_msgs[e]) > 0
      /\ write_msgs'[e] = Tail(write_msgs[e]) /\ moved'[e] = 0
      /\ pipe' = pipe /\ reading' = reading /\ header' = header /\ conn' = conn
  BY StreamTypes DEF Written, TypeInv, readVars
<1>2. Hears(Peer(e))' <=> Hears(Peer(e))
  BY <1>1 DEF Hears
<1>3. write_msgs[e] \in Seq(Messages) /\ Len(write_msgs[e]) \in Nat /\ Len(write_msgs[e]) <= t
  BY StreamTypes DEF Stream
<1>4. /\ Len(write_msgs'[e]) = Len(write_msgs[e]) - 1 /\ DOMAIN write_msgs'[e] = 1 .. Len(write_msgs[e]) - 1
      /\ \A i \in 1 .. Len(write_msgs[e]) - 1 : write_msgs'[e][i] = write_msgs[e][i + 1]
  BY <1>1, <1>3
<1>5. ASSUME NEW i \in 1 .. Len(write_msgs[e]) - 1
      PROVE  write_msgs'[e][i] = M[t - Len(write_msgs'[e]) + i]
  <2>1. i + 1 \in DOMAIN write_msgs[e]
    BY <1>3, <1>5
  <2>2. write_msgs[e][i + 1] = M[t - Len(write_msgs[e]) + (i + 1)]
    BY <2>1, Zenon DEF Stream
  <2>3. t - Len(write_msgs[e]) + (i + 1) = t - Len(write_msgs'[e]) + i
    BY <1>3, <1>4
  <2> QED
    BY <1>4, <2>2, <2>3
<1>6. ASSUME Hears(Peer(e))
      PROVE  2 * r + Half(reading[Peer(e)]) + Len(pipe[e]) = 2 * (t - Len(write_msgs'[e])) + moved'[e]
  <2>1. 2 * r + Half(reading[Peer(e)]) + Len(pipe[e]) = 2 * (t - Len(write_msgs[e])) + moved[e]
    BY <1>1, <1>6 DEF Stream
  <2> QED
    BY <1>1, <1>3, <1>4, <2>1
<1>7. Len(write_msgs'[e]) <= t
  BY <1>3, <1>4
<1>8. Hears(Peer(e)) => Link(M, r, t, pipe[e], reading[Peer(e)], header[Peer(e)])
  BY DEF Stream
<1> QED
  BY <1>1, <1>2, <1>4, <1>5, <1>6, <1>7, <1>8 DEF Stream

\* The peer reads a header.
LEMMA StreamHeader ==
    ASSUME TypeInv, NEW e \in End, NEW M, NEW r \in Nat, NEW t \in Nat,
           Stream(Peer(e), M, r, t), ReadHeader(e)
    PROVE  Stream(Peer(e), M, r, t)'
<1> DEFINE d == Peer(e)
<1>1. d \in End /\ Peer(d) = e
  BY EndFacts
<1>2. /\ reading[e] = "header" /\ pipe[d] # <<>> /\ conn' = conn
      /\ reading'[e] = "body" /\ header'[e] = Head(pipe[d]) /\ pipe'[d] = Tail(pipe[d])
      /\ write_msgs' = write_msgs /\ busy' = busy /\ moved' = moved
  BY <1>1 DEF ReadHeader, TypeInv, writeVars
<1>3. conn[e[2]] \notin {"broken", "reset"} /\ Hears(e) /\ Hears(e)'
  BY <1>2 DEF ReadHeader, Alive, Hears
<1>4. pipe[d] \in Seq(Units) /\ Len(pipe[d]) \in Nat /\ Len(write_msgs[d]) \in Nat /\ moved[d] \in Int
  BY <1>1, StreamTypes
<1> HIDE DEF d
<1>5. Stream(d, M, r, t)
  BY DEF d
<1>6. Link(M, r, t, pipe[d], "header", header[e])
  BY <1>1, <1>2, <1>3, <1>5, Zenon DEF Stream
<1>7. Link(M, r, t, Tail(pipe[d]), "body", Head(pipe[d]))
  BY <1>2, <1>4, <1>6, LinkHeader, Zenon
<1>8. Len(pipe'[d]) = Len(pipe[d]) - 1
  BY <1>2, <1>4
<1>9. Half("body") = 1 /\ Half("header") = 0
  BY DEF Half
<1>10. ASSUME d \in busy \/ write_msgs[d] = <<>>
       PROVE  2 * r + 1 + Len(pipe'[d]) = 2 * (t - Len(write_msgs[d])) + moved[d]
  <2>1. 2 * r + Half(reading[Peer(d)]) + Len(pipe[d]) = 2 * (t - Len(write_msgs[d])) + moved[d]
    BY <1>1, <1>3, <1>5, <1>10 DEF Stream
  <2>2. 2 * r + 0 + Len(pipe[d]) = 2 * (t - Len(write_msgs[d])) + moved[d]
    BY <1>1, <1>2, <1>9, <2>1
  <2> DEFINE c == 2 * (t - Len(write_msgs[d])) + moved[d]
  <2>3. 2 * r + 0 + Len(pipe[d]) = c
    BY <2>2, Zenon
  <2>6. Len(pipe[d]) \in Int
    BY <1>4
  <2> HIDE DEF c
  <2>4. ASSUME NEW a \in Int, NEW a2, a2 = a - 1, 2 * r + 0 + a = c
        PROVE  2 * r + 1 + a2 = c
    BY <2>4
  <2>5. 2 * r + 1 + Len(pipe'[d]) = c
    BY <1>8, <2>3, <2>4, <2>6, Zenon
  <2> QED
    BY <2>5, Zenon DEF c
<1>11. Link(M, r, t, pipe'[d], reading'[e], header'[e])
  BY <1>2, <1>7
<1>12. d \in busy' \/ write_msgs'[d] = <<>> =>
          2 * r + Half(reading'[e]) + Len(pipe'[d]) = 2 * (t - Len(write_msgs'[d])) + moved'[d]
  BY <1>2, <1>9, <1>10
<1>13. /\ Len(write_msgs'[d]) <= t
       /\ \A i \in DOMAIN write_msgs'[d] : write_msgs'[d][i] = M[t - Len(write_msgs'[d]) + i]
  BY <1>2, <1>5, Zenon DEF Stream
<1>14. Stream(d, M, r, t)'
  BY <1>1, <1>11, <1>12, <1>13, Zenon DEF Stream
<1> QED
  BY <1>14 DEF d

\* The peer reads a body: the next message.
LEMMA StreamBody ==
    ASSUME TypeInv, NEW e \in End, NEW M, NEW r \in Nat, NEW t \in Nat,
           Stream(Peer(e), M, r, t), BodyRead(e),
           write_msgs'[Peer(e)] = write_msgs[Peer(e)], moved'[Peer(e)] = moved[Peer(e)],
           Peer(e) \in busy' <=> Peer(e) \in busy
    PROVE  /\ Body(e) = M[r + 1] /\ r + 1 <= t
           /\ Stream(Peer(e), M, r + 1, t)'
<1> DEFINE d == Peer(e)
<1>1. d \in End /\ Peer(d) = e
  BY EndFacts
<1>2. /\ reading[e] = "body" /\ pipe[d] # <<>> /\ conn' = conn
      /\ reading'[e] = "header" /\ pipe'[d] = Tail(pipe[d])
  BY <1>1 DEF BodyRead, TypeInv
<1>3. conn[e[2]] \notin {"broken", "reset"} /\ Hears(e) /\ Hears(e)'
  BY <1>2 DEF BodyRead, Alive, Hears
<1>4. pipe[d] \in Seq(Units) /\ Len(pipe[d]) \in Nat /\ Len(write_msgs[d]) \in Nat /\ moved[d] \in Int
  BY <1>1, StreamTypes
<1>15. /\ write_msgs'[d] = write_msgs[d] /\ moved'[d] = moved[d] /\ (d \in busy' <=> d \in busy)
       /\ Body(e) = Message(header[e], Head(pipe[d]))
  BY DEF Body
<1> HIDE DEF d
<1>5. Stream(d, M, r, t)
  BY DEF d
<1>6. Link(M, r, t, pipe[d], "body", header[e])
  BY <1>1, <1>2, <1>3, <1>5, Zenon DEF Stream
<1>7. /\ Message(header[e], Head(pipe[d])) = M[r + 1] /\ r + 1 <= t
      /\ \A h2 : Link(M, r + 1, t, Tail(pipe[d]), "header", h2)
  BY <1>2, <1>4, <1>6, LinkBody, Zenon
<1>8. Len(pipe'[d]) = Len(pipe[d]) - 1
  BY <1>2, <1>4
<1>9. Half("body") = 1 /\ Half("header") = 0
  BY DEF Half
<1>10. ASSUME d \in busy \/ write_msgs[d] = <<>>
       PROVE  2 * (r + 1) + 0 + Len(pipe'[d]) = 2 * (t - Len(write_msgs[d])) + moved[d]
  <2>1. 2 * r + Half(reading[Peer(d)]) + Len(pipe[d]) = 2 * (t - Len(write_msgs[d])) + moved[d]
    BY <1>1, <1>3, <1>5, <1>10 DEF Stream
  <2>2. 2 * r + 1 + Len(pipe[d]) = 2 * (t - Len(write_msgs[d])) + moved[d]
    BY <1>1, <1>2, <1>9, <2>1
  <2> DEFINE c == 2 * (t - Len(write_msgs[d])) + moved[d]
  <2>3. 2 * r + 1 + Len(pipe[d]) = c
    BY <2>2, Zenon
  <2>4. Len(pipe[d]) \in Int
    BY <1>4
  <2> HIDE DEF c
  <2>5. ASSUME NEW a \in Int, NEW a2, a2 = a - 1, 2 * r + 1 + a = c
        PROVE  2 * (r + 1) + 0 + a2 = c
    BY <2>5
  <2>6. 2 * (r + 1) + 0 + Len(pipe'[d]) = c
    BY <1>8, <2>3, <2>4, <2>5, Zenon
  <2> QED
    BY <2>6, Zenon DEF c
<1>11. Link(M, r + 1, t, pipe'[d], reading'[e], header'[e])
  BY <1>2, <1>7
<1>12. d \in busy' \/ write_msgs'[d] = <<>> =>
          2 * (r + 1) + Half(reading'[e]) + Len(pipe'[d]) = 2 * (t - Len(write_msgs'[d])) + moved'[d]
  BY <1>2, <1>9, <1>10, <1>15
<1>13. /\ Len(write_msgs'[d]) <= t
       /\ \A i \in DOMAIN write_msgs'[d] : write_msgs'[d][i] = M[t - Len(write_msgs'[d]) + i]
  BY <1>5, <1>15, Zenon DEF Stream
<1>14. Stream(d, M, r + 1, t)'
  BY <1>1, <1>11, <1>12, <1>13, Zenon DEF Stream
<1> QED
  BY <1>7, <1>14, <1>15 DEF d

-----------------------------------------------------------------------------
(* Ends that a step does not touch *)

Streams == \A M : \A d \in End, r \in Nat, t \in Nat : Stream(d, M, r, t) => Stream(d, M, r, t)'

LEMMA KeptStream ==
    ASSUME TypeInv, NEW d \in End, Kept(d)
    PROVE  \A M : \A r \in Nat, t \in Nat : Stream(d, M, r, t) => Stream(d, M, r, t)'
<1> SUFFICES ASSUME NEW M, NEW r \in Nat, NEW t \in Nat, Stream(d, M, r, t)
             PROVE  Stream(d, M, r, t)'
  OBVIOUS
<1>1. \A k \in 1 .. t : M[k] = M[k]
  OBVIOUS
<1> QED
  BY <1>1, StreamSame, Zenon

LEMMA LogFacts ==
    ASSUME TypeInv, NEW c \in Clients, ShownInv(c)
    PROVE  /\ Len(log) \in Nat /\ DOMAIN log = 1 .. Len(log) /\ Given(c) \in Nat /\ first[c] \in Int
           /\ Len(shown[c]) \in Nat /\ DOMAIN shown[c] = 1 .. Len(shown[c])
           /\ \A k \in 1 .. Given(c) : Heard[c][k] = log[first[c] + k - 1]
<1>1. log \in Seq(Messages) /\ shown[c] \in Seq(Messages) /\ first[c] \in Int
  BY DEF TypeInv
<1>2. Len(log) \in Nat /\ DOMAIN log = 1 .. Len(log)
  BY <1>1
<1>3. Len(shown[c]) \in Nat /\ DOMAIN shown[c] = 1 .. Len(shown[c])
  BY <1>1
<1>4. Given(c) \in Nat
  BY <1>1, <1>2, <1>3 DEF ShownInv, Given
<1>5. \A k \in 1 .. Given(c) : Heard[c][k] = log[first[c] + k - 1]
  BY DEF Heard
<1> QED
  BY <1>1, <1>2, <1>3, <1>4, <1>5

\* A step of which neither the room nor what the clients type or print shows anything.
LEMMA Calm ==
    ASSUME TypeInv, RoomInv, Streams, \A c \in Clients : StartInv(c)',
           log' = log, recent' = recent, first' = first, typed' = typed, shown' = shown,
           participants' \subseteq participants
    PROVE  RoomInv'
<1>1. RecentInv' /\ LogInv'
  BY DEF RoomInv, RecentInv, LogInv
<1>2. ASSUME NEW c \in Clients
      PROVE  ShownInv(c)' /\ ClientInv(c)' /\ SessionInv(c)'
  <2>1. Client(c) \in End /\ Session(c) \in End
    BY ClientFacts
  <2>2. ShownInv(c)'
    BY DEF RoomInv, ShownInv, Given, Heard
  <2>3. ClientInv(c)'
    <3>1. PICK r \in 0 .. Len(log) : Delivered(c, r) /\ Stream(Client(c), Lines(c, typed[c]), r, typed[c])
      BY DEF RoomInv, ClientInv
    <3>2. r \in Nat /\ typed[c] \in Nat
      BY LogFacts DEF TypeInv, RoomInv
    <3>3. PICK t \in {typed[c]} : t \in Nat /\ Stream(Client(c), Lines(c, t), r, t)
      BY <3>1, <3>2
    <3>4. Stream(Client(c), Lines(c, t), r, t)'
      BY <2>1, <3>2, <3>3, Zenon DEF Streams
    <3>5. Delivered(c, r)'
      BY <3>1 DEF Delivered
    <3> QED
      BY <3>1, <3>4, <3>5 DEF ClientInv
  <2>4. SessionInv(c)'
    <3>1. PICK t \in 0 .. Given(c) : /\ c \in participants => t = Given(c)
                                     /\ Stream(Session(c), Heard[c], Len(shown[c]), t)
      BY DEF RoomInv, SessionInv
    <3>2. t \in Nat /\ Len(shown[c]) \in Nat
      BY LogFacts DEF RoomInv
    <3>3. PICK r \in {Len(shown[c])}, M \in {Heard[c]} : r \in Nat /\ Stream(Session(c), M, r, t)
      BY <3>1, <3>2
    <3>4. Stream(Session(c), M, r, t)'
      BY <2>1, <3>2, <3>3, Zenon DEF Streams
    <3>5. Given(c)' = Given(c) /\ Heard'[c] = Heard[c] /\ shown'[c] = shown[c]
      BY DEF Given, Heard
    <3> QED
      BY <3>1, <3>4, <3>5 DEF SessionInv
  <2> QED
    BY <2>2, <2>3, <2>4
<1> QED
  BY <1>1, <1>2 DEF RoomInv

\* Ends are only heard of through their connection and their reads.
LEMMA HearsSame ==
    ASSUME NEW e \in End, conn'[e[2]] = conn[e[2]], reading'[e] = reading[e]
    PROVE  Hears(e)' <=> Hears(e)
BY DEF Hears

LEMMA MoveStep ==
    ASSUME TypeInv, RoomInv, NEW e \in End, MoveUnit(e)
    PROVE  RoomInv'
<1>1. /\ conn' = conn /\ reading' = reading /\ header' = header /\ write_msgs' = write_msgs /\ busy' = busy
      /\ log' = log /\ recent' = recent /\ first' = first /\ typed' = typed /\ shown' = shown
      /\ participants' = participants
      /\ \A d \in End \ {e} : pipe'[d] = pipe[d] /\ moved'[d] = moved[d]
  BY DEF MoveUnit, readVars, roomVars, mainVars, TypeInv
<1>2. ASSUME NEW d \in End, d # e
      PROVE  Kept(d)
  BY <1>1, <1>2, HearsSame, EndFacts DEF Kept
<1>3. Streams
  BY <1>2, KeptStream, StreamMoved DEF Streams
<1>4. ASSUME NEW c \in Clients
      PROVE  StartInv(c)'
  <2>1. e = Session(c) => Session(c) \in busy
    BY DEF MoveUnit
  <2>2. StartInv(c) /\ Session(c) \in End
    BY ClientFacts DEF RoomInv
  <2> QED
    BY <1>1, <2>1, <2>2 DEF StartInv, Unaccepted
<1> QED
  BY <1>1, <1>3, <1>4, Calm

LEMMA WrittenStep ==
    ASSUME TypeInv, RoomInv, NEW e \in End, Written(e)
    PROVE  RoomInv'
<1>1. /\ conn' = conn /\ reading' = reading /\ header' = header /\ pipe' = pipe
      /\ log' = log /\ recent' = recent /\ first' = first /\ typed' = typed /\ shown' = shown
      /\ participants' = participants /\ busy' \subseteq busy
      /\ \A d \in End \ {e} : /\ write_msgs'[d] = write_msgs[d] /\ moved'[d] = moved[d]
                              /\ d \in busy' <=> d \in busy
  BY DEF Written, readVars, roomVars, mainVars, TypeInv
<1>2. ASSUME NEW d \in End, d # e
      PROVE  Kept(d)
  BY <1>1, <1>2, HearsSame, EndFacts DEF Kept
<1>3. Streams
  BY <1>2, KeptStream, StreamWritten DEF Streams
<1>4. ASSUME NEW c \in Clients
      PROVE  StartInv(c)'
  <2>1. e = Session(c) => Session(c) \in busy
    BY DEF Written
  <2>2. StartInv(c) /\ Session(c) \in End
    BY ClientFacts DEF RoomInv
  <2> QED
    BY <1>1, <2>1, <2>2 DEF StartInv, Unaccepted
<1> QED
  BY <1>1, <1>3, <1>4, Calm

LEMMA FailsStep ==
    ASSUME TypeInv, RoomInv, NEW e \in End, WriteFails(e)
    PROVE  RoomInv'
<1>1. /\ conn' = conn /\ reading' = reading /\ header' = header /\ pipe' = pipe
      /\ log' = log /\ recent' = recent /\ first' = first /\ typed' = typed /\ shown' = shown
      /\ participants' \subseteq participants /\ busy' = busy \ {e} /\ write_msgs' = write_msgs
      /\ \A d \in End \ {e} : moved'[d] = moved[d]
      /\ write_msgs[e] # <<>>
  BY DEF WriteFails, GivesUp, readVars, mainVars, TypeInv, Sending
<1>2. ASSUME NEW d \in End
      PROVE  Kept(d)
  BY <1>1, HearsSame, EndFacts DEF Kept
<1>3. Streams
  BY <1>2, KeptStream DEF Streams
<1>4. ASSUME NEW c \in Clients
      PROVE  StartInv(c)'
  <2>1. StartInv(c)
    BY DEF RoomInv
  <2> QED
    BY <1>1, <2>1 DEF StartInv, Unaccepted
<1> QED
  BY <1>1, <1>3, <1>4, Calm

LEMMA ReadHeaderStep ==
    ASSUME TypeInv, RoomInv, NEW e \in End, ReadHeader(e)
    PROVE  RoomInv'
<1>1. /\ conn' = conn /\ write_msgs' = write_msgs /\ busy' = busy /\ moved' = moved
      /\ log' = log /\ recent' = recent /\ first' = first /\ typed' = typed /\ shown' = shown
      /\ participants' = participants /\ Peer(e) \in End
      /\ \A d \in End \ {e} : reading'[d] = reading[d] /\ header'[d] = header[d]
      /\ \A d \in End \ {Peer(e)} : pipe'[d] = pipe[d]
  BY EndFacts DEF ReadHeader, roomVars, mainVars, writeVars, TypeInv
<1>2. ASSUME NEW d \in End, d # Peer(e)
      PROVE  Kept(d)
  <2>1. Peer(d) \in End /\ Peer(d) # e
    BY <1>2, EndFacts
  <2> QED
    BY <1>1, <1>2, <2>1, HearsSame DEF Kept
<1>3. Streams
  BY <1>1, <1>2, KeptStream, StreamHeader DEF Streams
<1>4. ASSUME NEW c \in Clients
      PROVE  StartInv(c)'
  <2>1. StartInv(c) /\ Session(c) \in End /\ Client(c) \in End
    BY ClientFacts DEF RoomInv
  <2>2. reading[e] = "header" /\ pipe[Peer(e)] # <<>>
    BY DEF ReadHeader
  <2>3. e = Client(c) => Peer(e) = Session(c)
    BY ClientFacts
  <2>4. CASE conn[c] \in Unaccepted
    <3>1. e # Client(c) /\ e # Session(c)
      BY <2>1, <2>2, <2>3, <2>4 DEF StartInv, Unaccepted
    <3>2. pipe'[Session(c)] = <<>>
      <4>1. Session(c) # Peer(e)
        BY <2>1, <2>2, <2>4 DEF StartInv, Unaccepted
      <4> QED
        BY <1>1, <2>1, <2>4, <4>1 DEF StartInv, Unaccepted
    <3> QED
      BY <1>1, <2>1, <3>1, <3>2 DEF StartInv, Unaccepted
  <2>5. CASE conn[c] \notin Unaccepted
    BY <1>1, <2>5 DEF StartInv, Unaccepted
  <2> QED
    BY <2>4, <2>5
<1> QED
  BY <1>1, <1>3, <1>4, Calm

LEMMA ReadFailsStep ==
    ASSUME TypeInv, RoomInv, NEW e \in End, ReadFails(e)
    PROVE  RoomInv'
<1>1. /\ conn' = conn /\ write_msgs' = write_msgs /\ busy' = busy /\ moved' = moved /\ pipe' = pipe
      /\ log' = log /\ recent' = recent /\ first' = first /\ typed' = typed /\ shown' = shown
      /\ participants' \subseteq participants
      /\ \A d \in End \ {e} : reading'[d] = reading[d] /\ header'[d] = header[d]
      /\ reading[e] # "off" /\ reading'[e] = "off"
  BY DEF ReadFails, GivesUp, roomVars, mainVars, writeVars, TypeInv
<1>2. ~Hears(e)'
  <2>1. StartInv(e[2]) /\ e[2] \in Clients
    BY EndFacts DEF RoomInv
  <2> QED
    BY <1>1, <2>1, EndFacts DEF Hears, StartInv, Unaccepted
<1>3. ASSUME NEW d \in End
      PROVE  Kept(d)
  <2>1. CASE Peer(d) = e
    BY <1>1, <1>2, <2>1 DEF Kept
  <2>2. CASE Peer(d) # e
    <3>1. Peer(d) \in End
      BY EndFacts
    <3> QED
      BY <1>1, <2>2, <3>1, HearsSame DEF Kept
  <2> QED
    BY <2>1, <2>2
<1>4. Streams
  BY <1>3, KeptStream DEF Streams
<1>5. ASSUME NEW c \in Clients
      PROVE  StartInv(c)'
  <2>1. StartInv(c) /\ Session(c) \in End /\ Client(c) \in End
    BY ClientFacts DEF RoomInv
  <2> QED
    BY <1>1, <2>1 DEF StartInv, Unaccepted
<1> QED
  BY <1>1, <1>4, <1>5, Calm

-----------------------------------------------------------------------------
(* Connections that are made, lines that are typed *)

LEMMA ConnectStep ==
    ASSUME TypeInv, RoomInv, NEW c \in Clients, Connect(c)
    PROVE  RoomInv'
<1>1. /\ write_msgs' = write_msgs /\ busy' = busy /\ moved' = moved /\ pipe' = pipe /\ header' = header
      /\ log' = log /\ recent' = recent /\ first' = first /\ typed' = typed /\ shown' = shown
      /\ participants' = participants /\ conn[c] = "new"
      /\ \A d \in Clients \ {c} : conn'[d] = conn[d]
      /\ \A d \in End \ {Client(c)} : reading'[d] = reading[d]
      /\ \/ conn'[c] = "connected" /\ reading'[Client(c)] = "header"
         \/ conn'[c] = "refused" /\ reading' = reading
  BY ClientFacts DEF Connect, roomVars, mainVars, writeVars, TypeInv
<1>2. reading[Client(c)] = "off" /\ reading[Session(c)] = "off"
  BY <1>1 DEF RoomInv, StartInv, Unaccepted
<1>3. ASSUME NEW d \in End
      PROVE  Kept(d)
  <2>1. Peer(d) \in End /\ Peer(d)[2] \in Clients
    BY EndFacts
  <2>2. CASE Peer(d)[2] # c
    <3>1. Peer(d) # Client(c)
      BY <2>2, ClientFacts
    <3> QED
      BY <1>1, <2>1, <2>2, <3>1, HearsSame DEF Kept
  <2>3. CASE Peer(d)[2] = c
    <3>1. Peer(d) \in {Client(c), Session(c)}
      BY <2>1, <2>3, EndFacts
    <3>2. Hears(Peer(d))
      BY <1>1, <2>3 DEF Hears
    <3>3. reading[Peer(d)] = "off" /\ reading'[Peer(d)] \in {"off", "header"}
      BY <1>1, <1>2, <2>1, <3>1, ClientFacts
    <3> QED
      BY <1>1, <3>2, <3>3 DEF Kept
  <2> QED
    BY <2>2, <2>3
<1>4. Streams
  BY <1>3, KeptStream DEF Streams
<1>5. ASSUME NEW d \in Clients
      PROVE  StartInv(d)'
  <2>1. /\ StartInv(d) /\ Session(d) \in End /\ Session(d) # Client(c)
        /\ d # c => Client(d) # Client(c) /\ Client(d) \in End
    BY ClientFacts DEF RoomInv
  <2>2. reading'[Session(d)] = reading[Session(d)]
    BY <1>1, <2>1
  <2>3. CASE d # c
    BY <1>1, <2>1, <2>2, <2>3 DEF StartInv, Unaccepted
  <2>4. CASE d = c
    BY <1>1, <1>2, <2>1, <2>2, <2>4 DEF StartInv, Unaccepted
  <2> QED
    BY <2>3, <2>4
<1> QED
  BY <1>1, <1>4, <1>5, Calm

LEMMA BreakStep ==
    ASSUME TypeInv, RoomInv, NEW c \in Clients, Break(c)
    PROVE  RoomInv'
<1>1. /\ write_msgs' = write_msgs /\ busy' = busy /\ moved' = moved
      /\ reading' = reading /\ header' = header
      /\ log' = log /\ recent' = recent /\ first' = first /\ typed' = typed /\ shown' = shown
      /\ participants' = participants /\ conn'[c] \in {"broken", "reset"}
      /\ conn'[c] = "reset" => conn[c] = "connected"
      /\ pipe'[Session(c)] = <<>>
      /\ \A d \in Clients \ {c} : conn'[d] = conn[d]
      /\ \A d \in End : d[2] # c => pipe'[d] = pipe[d]
  BY ClientFacts DEF Break, roomVars, mainVars, writeVars, readVars, TypeInv
<1>2. ASSUME NEW d \in End
      PROVE  Kept(d)
  <2>1. Peer(d) \in End /\ Peer(d)[2] = d[2] /\ d[2] \in Clients
    BY EndFacts
  <2>2. CASE d[2] # c
    BY <1>1, <2>1, <2>2, HearsSame DEF Kept
  <2>3. CASE d[2] = c
    <3>1. ~Hears(Peer(d))'
      BY <1>1, <2>1, <2>3 DEF Hears
    <3> QED
      BY <1>1, <3>1 DEF Kept
  <2> QED
    BY <2>2, <2>3
<1>3. Streams
  BY <1>2, KeptStream DEF Streams
<1>4. ASSUME NEW d \in Clients
      PROVE  StartInv(d)'
  <2>1. StartInv(d) /\ Session(d) \in End /\ Session(d)[2] = d
    BY ClientFacts DEF RoomInv
  <2> QED
    BY <1>1, <2>1 DEF StartInv, Unaccepted
<1> QED
  BY <1>1, <1>3, <1>4, Calm

LEMMA CloseStep ==
    ASSUME TypeInv, RoomInv,
           UNCHANGED <<conn, typed, readVars, writeVars, pipe, roomVars, shown>>
    PROVE  RoomInv'
<1>1. /\ write_msgs' = write_msgs /\ busy' = busy /\ moved' = moved /\ pipe' = pipe /\ conn' = conn
      /\ reading' = reading /\ header' = header
      /\ log' = log /\ recent' = recent /\ first' = first /\ typed' = typed /\ shown' = shown
      /\ participants' = participants
  BY DEF roomVars, writeVars, readVars
<1>2. ASSUME NEW d \in End
      PROVE  Kept(d)
  BY <1>1, HearsSame, EndFacts DEF Kept
<1>3. Streams
  BY <1>2, KeptStream DEF Streams
<1>4. ASSUME NEW d \in Clients
      PROVE  StartInv(d)'
  <2>1. StartInv(d)
    BY DEF RoomInv
  <2> QED
    BY <1>1, <2>1 DEF StartInv, Unaccepted
<1> QED
  BY <1>1, <1>3, <1>4, Calm

\* One client's stream, or one session's, when only that stream changed.
LEMMA ClientStays ==
    ASSUME TypeInv, RoomInv, NEW c \in Clients, Kept(Client(c)),
           typed'[c] = typed[c], Len(log) <= Len(log'), Len(log') \in Nat,
           \A r \in Nat : Delivered(c, r) => Delivered(c, r)'
    PROVE  ClientInv(c)'
<1>1. PICK r \in 0 .. Len(log) : Delivered(c, r) /\ Stream(Client(c), Lines(c, typed[c]), r, typed[c])
  BY DEF RoomInv, ClientInv
<1>2. r \in Nat /\ typed[c] \in Nat /\ Client(c) \in End
  BY LogFacts, ClientFacts DEF TypeInv, RoomInv
<1>3. PICK t \in {typed[c]} : t \in Nat /\ Stream(Client(c), Lines(c, t), r, t)
  BY <1>1, <1>2
<1>4. Stream(Client(c), Lines(c, t), r, t)'
  BY <1>2, <1>3, KeptStream, Zenon
<1>5. Delivered(c, r)'
  BY <1>1, <1>2
<1>6. r \in 0 .. Len(log')
  <2>1. Len(log) \in Nat
    BY LogFacts DEF RoomInv
  <2> QED
    BY <2>1
<1> QED
  BY <1>4, <1>5, <1>6 DEF ClientInv

LEMMA SessionStays ==
    ASSUME TypeInv, RoomInv, NEW c \in Clients, Kept(Session(c)),
           first'[c] = first[c], shown'[c] = shown[c],
           c \in participants' => c \in participants, Given(c)' \in Nat,
           \/ log' = log
           \/ /\ c \notin participants' /\ Given(c) <= Given(c)'
              /\ \A i \in 1 .. Given(c) : Heard'[c][i] = Heard[c][i]
    PROVE  SessionInv(c)'
<1>1. PICK t \in 0 .. Given(c) : /\ c \in participants => t = Given(c)
                                 /\ Stream(Session(c), Heard[c], Len(shown[c]), t)
  BY DEF RoomInv, SessionInv
<1>2. t \in Nat /\ Len(shown[c]) \in Nat /\ Session(c) \in End /\ Given(c) \in Nat
  BY LogFacts, ClientFacts DEF RoomInv
<1>3. /\ t \in 0 .. Given(c)' /\ (c \in participants' => t = Given(c)')
      /\ \A i \in 1 .. t : Heard'[c][i] = Heard[c][i]
  <2>1. CASE log' = log
    <3>1. Given(c)' = Given(c) /\ Heard'[c] = Heard[c]
      BY <2>1 DEF Given, Heard
    <3> QED
      BY <1>1, <3>1
  <2>2. CASE /\ c \notin participants' /\ Given(c) <= Given(c)'
             /\ \A i \in 1 .. Given(c) : Heard'[c][i] = Heard[c][i]
    BY <1>1, <1>2, <2>2
  <2> QED
    BY <2>1, <2>2
<1>4. PICK r \in {Len(shown[c])}, M \in {Heard[c]} : r \in Nat /\ Stream(Session(c), M, r, t)
  BY <1>1, <1>2
<1>5. PICK M2 \in {Heard'[c]} : TRUE
  OBVIOUS
<1>6. \A k \in 1 .. t : M2[k] = M[k]
  BY <1>3, <1>4, <1>5
<1>7. Stream(Session(c), M2, r, t)'
  BY <1>2, <1>4, <1>6, StreamSame, Zenon
<1> QED
  BY <1>3, <1>4, <1>5, <1>7 DEF SessionInv

-----------------------------------------------------------------------------
(* Steps that leave the log as it is *)

LEMMA LogSame ==
    ASSUME TypeInv, log' = log
    PROVE  /\ Len(log) <= Len(log') /\ Len(log') \in Nat
           /\ \A c \in Clients, r \in Nat : Delivered(c, r) => Delivered(c, r)'
<1>1. Len(log) \in Nat
  BY DEF TypeInv
<1> QED
  BY <1>1 DEF Delivered

LEMMA WriteStep ==
    ASSUME TypeInv, RoomInv, NEW c \in Clients, Write(c)
    PROVE  RoomInv'
<1> DEFINE n == typed[c]
           msgs == <<<<c, n + 1>>>>
<1>1. /\ conn' = conn /\ reading' = reading /\ header' = header /\ pipe' = pipe
      /\ log' = log /\ recent' = recent /\ first' = first /\ shown' = shown
      /\ participants' = participants /\ typed'[c] = n + 1 /\ n \in Nat
      /\ \A d \in Clients \ {c} : typed'[d] = typed[d]
      /\ Queued(Sends({Client(c)}, msgs))
  BY DEF Write, roomVars, readVars, TypeInv
<1>2. {Client(c)} \in SUBSET End /\ Client(c) \in End
  BY ClientFacts
<1>3. msgs \in Seq(Messages) /\ Len(msgs) = 1 /\ msgs[1] = <<c, n + 1>>
  <2>1. <<c, n + 1>> \in Messages
    BY <1>1 DEF Messages
  <2> QED
    BY <2>1
<1> HIDE DEF msgs
<1>4. \A e \in End : /\ e \notin {Client(c)} => write_msgs'[e] = write_msgs[e] /\ (e \in busy' <=> e \in busy)
                     /\ e \in {Client(c)} => write_msgs'[e] = write_msgs[e] \o msgs
                     /\ moved'[e] = moved[e]
                     /\ e \in busy' <=> (e \in busy \/ (e \in {Client(c)} /\ msgs # <<>> /\ write_msgs[e] = <<>>))
  BY <1>1, <1>2, <1>3, QueuedType, Zenon
<1>5. ASSUME NEW d \in End, d # Client(c)
      PROVE  Kept(d)
  BY <1>1, <1>4, <1>5, HearsSame, EndFacts DEF Kept
<1>6. RecentInv' /\ LogInv'
  BY <1>1 DEF RoomInv, RecentInv, LogInv
<1>7. ASSUME NEW d \in Clients
      PROVE  StartInv(d)' /\ ShownInv(d)' /\ SessionInv(d)'
  <2>1. /\ StartInv(d) /\ ShownInv(d) /\ Session(d) \in End /\ Session(d) # Client(c)
    BY ClientFacts DEF RoomInv
  <2>2. ShownInv(d)' /\ Given(d)' \in Nat
    <3>1. Given(d)' = Given(d) /\ Heard'[d] = Heard[d]
      BY <1>1 DEF Given, Heard
    <3>2. Given(d) \in Nat
      BY <2>1, LogFacts
    <3> QED
      BY <1>1, <2>1, <3>1, <3>2 DEF ShownInv
  <2>3. SessionInv(d)'
    BY <1>1, <1>5, <2>1, <2>2, SessionStays
  <2>4. StartInv(d)'
    BY <1>1, <1>4, <2>1 DEF StartInv, Unaccepted
  <2> QED
    BY <2>2, <2>3, <2>4
<1>8. ASSUME NEW d \in Clients, d # c
      PROVE  ClientInv(d)'
  <2>1. Client(d) \in End /\ Client(d) # Client(c)
    BY <1>8, ClientFacts
  <2> QED
    BY <1>1, <1>5, <1>8, <2>1, ClientStays, LogSame
<1>9. ClientInv(c)'
  <2>1. PICK r \in 0 .. Len(log) : Delivered(c, r) /\ Stream(Client(c), Lines(c, n), r, n)
    BY DEF RoomInv, ClientInv
  <2>2. r \in Nat
    BY LogFacts DEF RoomInv
  <2>3. /\ \A k \in 1 .. n : Lines(c, n + 1)[k] = Lines(c, n)[k]
        /\ \A i \in 1 .. Len(msgs) : Lines(c, n + 1)[n + i] = msgs[i]
    BY <1>1, <1>3 DEF Lines
  <2>4. PICK M : M = Lines(c, n)
    OBVIOUS
  <2>5. PICK M2 : M2 = Lines(c, n + 1)
    OBVIOUS
  <2>6. PICK e \in End : e = Client(c)
    BY <1>2
  <2>7. PICK t \in Nat : t = n
    BY <1>1
  <2>8. Hears(Peer(e))' <=> Hears(Peer(e))
    BY <1>1, <2>6, EndFacts, HearsSame
  <2>9. Stream(e, M2, r, t + 1)'
    <3>1. Stream(e, M, r, t)
      BY <2>1, <2>4, <2>6, <2>7
    <3>2. /\ \A k \in 1 .. t : M2[k] = M[k]
          /\ \A i \in 1 .. Len(msgs) : M2[t + i] = msgs[i]
      BY <2>3, <2>4, <2>5, <2>7
    <3>3. t + 1 \in Nat /\ t + 1 = t + Len(msgs)
      BY <1>3
    <3>4. /\ write_msgs'[e] = write_msgs[e] \o msgs /\ moved'[e] = moved[e]
          /\ e \in busy' => e \in busy \/ write_msgs[e] = <<>>
      BY <1>4, <2>6
    <3>5. pipe'[e] = pipe[e] /\ reading'[Peer(e)] = reading[Peer(e)] /\ header'[Peer(e)] = header[Peer(e)]
      BY <1>1
    <3> QED
      BY <1>3, <2>2, <2>8, <3>1, <3>2, <3>3, <3>4, <3>5, StreamMore, Zenon
  <2>10. Delivered(c, r)' /\ r \in 0 .. Len(log')
    BY <1>1, <2>1 DEF Delivered
  <2>11. PICK t2 \in {typed'[c]} : t2 = t + 1
    BY <1>1, <2>7
  <2>12. M2 = Lines(c, t2)
    BY <2>5, <2>7, <2>11
  <2>13. Stream(Client(c), Lines(c, t2), r, t2)'
    BY <2>6, <2>9, <2>11, <2>12
  <2> QED
    BY <2>10, <2>11, <2>13 DEF ClientInv
<1> QED
  BY <1>6, <1>7, <1>8, <1>9 DEF RoomInv

LEMMA ShowStep ==
    ASSUME TypeInv, TypeInv', RoomInv, NEW c \in Clients, ShowBody(c)
    PROVE  RoomInv'
<1> DEFINE e == Client(c)
           b == Body(Client(c))
<1>1. /\ conn' = conn /\ write_msgs' = write_msgs /\ busy' = busy /\ moved' = moved
      /\ log' = log /\ recent' = recent /\ first' = first /\ typed' = typed
      /\ participants' = participants
      /\ \A d \in End \ {Client(c)} : reading'[d] = reading[d] /\ header'[d] = header[d]
      /\ \A d \in End \ {Session(c)} : pipe'[d] = pipe[d]
      /\ shown'[c] = Append(shown[c], b)
      /\ \A d \in Clients \ {c} : shown'[d] = shown[d]
      /\ BodyRead(e) /\ pipe[Session(c)] # <<>> /\ reading'[Client(c)] = "header"
  BY ClientFacts DEF ShowBody, BodyRead, roomVars, mainVars, writeVars, TypeInv
<1> HIDE DEF b
<1>2. ASSUME NEW d \in End, d # Session(c)
      PROVE  Kept(d)
  <2>1. Peer(d) \in End /\ Peer(d) # Client(c)
    BY <1>2, EndFacts, ClientFacts
  <2> QED
    BY <1>1, <1>2, <2>1, HearsSame DEF Kept
<1>3. RecentInv' /\ LogInv'
  BY <1>1 DEF RoomInv, RecentInv, LogInv
<1>4. ASSUME NEW d \in Clients
      PROVE  ClientInv(d)'
  <2>1. Client(d) \in End /\ Client(d) # Session(c)
    BY ClientFacts
  <2> QED
    BY <1>1, <1>2, <2>1, ClientStays, LogSame
<1>5. ASSUME NEW d \in Clients
      PROVE  StartInv(d)'
  <2>1. StartInv(d) /\ Session(d) \in End /\ Client(d) \in End /\ Session(d) # Client(c)
    BY ClientFacts DEF RoomInv
  <2>2. conn[c] \notin Unaccepted
    BY <1>1 DEF RoomInv, StartInv, Unaccepted
  <2>3. d # c => Client(d) # Client(c) /\ Session(d) # Session(c)
    BY ClientFacts
  <2>4. CASE d = c
    BY <1>1, <2>2, <2>4 DEF StartInv, Unaccepted
  <2>5. CASE d # c
    BY <1>1, <2>1, <2>3, <2>5 DEF StartInv, Unaccepted
  <2> QED
    BY <2>4, <2>5
<1>6. ASSUME NEW d \in Clients, d # c
      PROVE  ShownInv(d)' /\ SessionInv(d)'
  <2>1. Session(d) \in End /\ Session(d) # Session(c) /\ ShownInv(d)
    BY <1>6, ClientFacts DEF RoomInv
  <2>2. ShownInv(d)' /\ Given(d)' \in Nat
    <3>1. Given(d)' = Given(d) /\ Heard'[d] = Heard[d]
      BY <1>1 DEF Given, Heard
    <3>2. Given(d) \in Nat
      BY <2>1, LogFacts
    <3> QED
      BY <1>1, <1>6, <2>1, <3>1, <3>2 DEF ShownInv
  <2>3. SessionInv(d)'
    BY <1>1, <1>2, <1>6, <2>1, <2>2, SessionStays
  <2> QED
    BY <2>2, <2>3
<1>7. PICK t \in 0 .. Given(c) : /\ c \in participants => t = Given(c)
                                 /\ Stream(Session(c), Heard[c], Len(shown[c]), t)
  BY DEF RoomInv, SessionInv
<1>8. PICK r \in Nat, M \in {Heard[c]} : r = Len(shown[c]) /\ M = Heard[c]
  BY LogFacts DEF RoomInv
<1>9. /\ b = M[r + 1] /\ r + 1 <= t
      /\ Stream(Session(c), M, r + 1, t)'
  <2>1. e \in End /\ Peer(e) = Session(c)
    BY ClientFacts
  <2>2. t \in Nat
    BY <1>7, LogFacts DEF RoomInv
  <2>3. Stream(Peer(e), M, r, t)
    BY <1>7, <1>8, <2>1
  <2>4. PICK x \in End : x = e
    BY <2>1
  <2>5. BodyRead(x) /\ Stream(Peer(x), M, r, t) /\ Body(x) = b /\ Peer(x) = Session(c)
    BY <1>1, <2>1, <2>3, <2>4 DEF b
  <2>6. /\ Body(x) = M[r + 1] /\ r + 1 <= t
        /\ Stream(Peer(x), M, r + 1, t)'
    BY <1>1, <2>2, <2>5, StreamBody
  <2>7. PICK y \in End : y = Session(c)
    BY ClientFacts
  <2>8. Stream(y, M, r + 1, t)'
    BY <2>5, <2>6, <2>7
  <2> QED
    BY <2>5, <2>6, <2>7, <2>8
<1>10. /\ Len(shown'[c]) = r + 1 /\ shown'[c][r + 1] = b /\ DOMAIN shown'[c] = 1 .. r + 1
       /\ \A i \in 1 .. r : shown'[c][i] = shown[c][i]
  <2>1. shown[c] \in Seq(Messages) /\ b \in Messages
    BY <1>1, BodyReadType, ClientFacts DEF TypeInv, b
  <2> QED
    BY <1>1, <1>8, <2>1
<1>11. Given(c)' = Given(c) /\ Heard'[c] = Heard[c]
  BY <1>1 DEF Given, Heard
<1>12. ShownInv(c)'
  <2>1. r + 1 <= Given(c)
    BY <1>7, <1>8, <1>9, LogFacts DEF RoomInv
  <2>2. \A i \in 1 .. r + 1 : shown'[c][i] = Heard[c][i]
    <3>1. \A i \in 1 .. r : shown[c][i] = Heard[c][i]
      BY <1>8, LogFacts DEF RoomInv, ShownInv
    <3> QED
      BY <1>8, <1>9, <1>10, <3>1
  <2>3. first'[c] >= 1
    BY <1>1 DEF RoomInv, ShownInv
  <2> QED
    BY <1>10, <1>11, <2>1, <2>2, <2>3 DEF ShownInv
<1>13. SessionInv(c)'
  <2>1. PICK r2 \in {Len(shown'[c])} : r2 = r + 1
    BY <1>10
  <2>2. M \in {Heard'[c]} /\ t \in 0 .. Given(c)' /\ (c \in participants' => t = Given(c)')
    BY <1>1, <1>7, <1>8, <1>11
  <2>3. Stream(Session(c), M, r2, t)'
    BY <1>9, <2>1
  <2> QED
    BY <2>1, <2>2, <2>3 DEF SessionInv
<1> QED
  BY <1>3, <1>4, <1>5, <1>6, <1>12, <1>13 DEF RoomInv

-----------------------------------------------------------------------------
(* A session is accepted, a client prints *)

LEMMA AcceptStep ==
    ASSUME TypeInv, TypeInv', RoomInv, NEW c \in Clients, Accept(c)
    PROVE  RoomInv'
<1>1. /\ \/ conn[c] = "connected" /\ conn'[c] = "up"
         \/ conn[c] = "reset" /\ conn'[c] = "broken"
      /\ \A d \in Clients \ {c} : conn'[d] = conn[d]
      /\ header' = header /\ pipe' = pipe
      /\ log' = log /\ recent' = recent /\ shown' = shown /\ typed' = typed
      /\ participants' = participants \cup {c}
      /\ first'[c] = Len(log) - Len(recent) + 1 /\ \A d \in Clients \ {c} : first'[d] = first[d]
      /\ reading'[Session(c)] = "header" /\ \A d \in End \ {Session(c)} : reading'[d] = reading[d]
      /\ Queued(Sends({Session(c)}, recent))
  BY ClientFacts DEF Accept, Join, mainVars, TypeInv
<1>2. {Session(c)} \in SUBSET End /\ Session(c) \in End /\ recent \in Seq(Messages)
  BY ClientFacts DEF TypeInv
<1>3. \A e \in End : /\ e \notin {Session(c)} => write_msgs'[e] = write_msgs[e] /\ (e \in busy' <=> e \in busy)
                     /\ e \in {Session(c)} => write_msgs'[e] = write_msgs[e] \o recent
                     /\ moved'[e] = moved[e]
                     /\ e \in busy' <=> (e \in busy \/ (e \in {Session(c)} /\ recent # <<>> /\ write_msgs[e] = <<>>))
  BY <1>1, <1>2, QueuedType, Zenon
<1>4. /\ c \notin participants /\ shown[c] = <<>> /\ write_msgs[Session(c)] = <<>>
      /\ Session(c) \notin busy /\ pipe[Session(c)] = <<>>
      /\ reading[Session(c)] = "off" /\ reading[Client(c)] # "body"
  BY <1>1 DEF RoomInv, StartInv, Unaccepted
<1>5. ASSUME NEW d \in End, d # Session(c)
      PROVE  Kept(d)
  <2>1. Peer(d) \in End /\ Peer(d)[2] \in Clients
    BY EndFacts
  <2>2. CASE Peer(d) = Session(c)
    <3>1. Hears(Peer(d))' => Hears(Peer(d))
      BY <1>1, <2>2, ClientFacts DEF Hears
    <3> QED
      BY <1>1, <1>3, <1>4, <1>5, <2>2, <3>1 DEF Kept
  <2>3. CASE Peer(d) # Session(c)
    <3>1. Peer(d)[2] # c
      BY <1>5, <2>1, <2>3, EndFacts, ClientFacts
    <3> QED
      BY <1>1, <1>3, <1>5, <2>1, <2>3, <3>1, HearsSame DEF Kept
  <2> QED
    BY <2>2, <2>3
<1>6. RecentInv' /\ LogInv'
  BY <1>1 DEF RoomInv, RecentInv, LogInv
<1>7. ASSUME NEW d \in Clients
      PROVE  ClientInv(d)'
  <2>1. Client(d) \in End /\ Client(d) # Session(c)
    BY ClientFacts
  <2> QED
    BY <1>1, <1>5, <2>1, ClientStays, LogSame
<1>8. ASSUME NEW d \in Clients
      PROVE  StartInv(d)'
  <2>1. StartInv(d) /\ Session(d) \in End /\ Client(d) \in End /\ Client(d) # Session(c)
    BY ClientFacts DEF RoomInv
  <2>2. CASE d = c
    BY <1>1, <2>2 DEF StartInv, Unaccepted
  <2>3. CASE d # c
    <3>1. Session(d) # Session(c)
      BY <2>3, ClientFacts
    <3> QED
      BY <1>1, <1>3, <2>1, <2>3, <3>1 DEF StartInv, Unaccepted
  <2> QED
    BY <2>2, <2>3
<1>9. ASSUME NEW d \in Clients, d # c
      PROVE  ShownInv(d)' /\ SessionInv(d)'
  <2>1. Session(d) \in End /\ Session(d) # Session(c) /\ ShownInv(d)
    BY <1>9, ClientFacts DEF RoomInv
  <2>2. ShownInv(d)' /\ Given(d)' \in Nat
    <3>1. Given(d)' = Given(d) /\ Heard'[d] = Heard[d]
      BY <1>1, <1>9 DEF Given, Heard
    <3>2. Given(d) \in Nat
      BY <2>1, LogFacts
    <3> QED
      BY <1>1, <1>9, <2>1, <3>1, <3>2 DEF ShownInv
  <2>3. SessionInv(d)'
    BY <1>1, <1>5, <1>9, <2>1, <2>2, SessionStays
  <2> QED
    BY <2>2, <2>3
<1>10. /\ Len(recent) \in Nat /\ Len(recent) <= Len(log) /\ Len(log) \in Nat /\ DOMAIN recent = 1 .. Len(recent)
       /\ \A i \in 1 .. Len(recent) : recent[i] = log[Len(log) - Len(recent) + i]
  BY DEF RoomInv, RecentInv, TypeInv
<1>11. Given(c)' = Len(recent) /\ first'[c] >= 1
  BY <1>1, <1>10 DEF Given
<1>12. Len(shown'[c]) = 0 /\ DOMAIN shown'[c] = {}
  BY <1>1, <1>4
<1>13. ShownInv(c)'
  BY <1>10, <1>11, <1>12 DEF ShownInv
<1>14. PICK M : M = Heard'[c]
  OBVIOUS
<1>15. \A k \in 1 .. Len(recent) : M[k] = recent[k]
  <2>1. SUFFICES ASSUME NEW k \in 1 .. Len(recent)
                 PROVE  M[k] = recent[k]
    OBVIOUS
  <2>2. M[k] = log'[first'[c] + k - 1]
    BY <1>11, <1>14 DEF Heard
  <2>3. first'[c] + k - 1 = Len(log) - Len(recent) + k
    BY <1>1, <1>10
  <2> QED
    BY <1>1, <1>10, <2>2, <2>3
<1>16. /\ write_msgs'[Session(c)] = recent /\ moved'[Session(c)] = 0
  <2>1. moved[Session(c)] = 0
    BY <1>2, <1>4 DEF TypeInv, Sending
  <2>2. <<>> \o recent = recent
    BY <1>2
  <2> QED
    BY <1>2, <1>3, <1>4, <2>1, <2>2
<1>17. PICK t \in Nat : t = Len(recent)
  BY <1>10
<1>18. PICK e \in End : e = Session(c)
  BY <1>2
<1>19. Peer(e) = Client(c) /\ reading'[Peer(e)] = reading[Client(c)]
  <2>1. Client(c) \in End /\ Client(c) # Session(c) /\ Peer(Session(c)) = Client(c)
    BY ClientFacts
  <2> QED
    BY <1>1, <1>18, <2>1
<1>20. Stream(e, M, 0, t)'
  <2>1. Len(write_msgs'[e]) = t /\ DOMAIN write_msgs'[e] = 1 .. t
    BY <1>10, <1>16, <1>17, <1>18
  <2>2. \A i \in DOMAIN write_msgs'[e] : write_msgs'[e][i] = M[t - Len(write_msgs'[e]) + i]
    <3>1. \A i \in 1 .. t : t - t + i = i
      OBVIOUS
    <3> QED
      BY <1>15, <1>16, <1>17, <1>18, <2>1, <3>1
  <2>3. Link(M, 0, t, pipe'[e], reading'[Peer(e)], header'[Peer(e)])
    <3>1. pipe'[e] = <<>> /\ reading'[Peer(e)] # "body"
      BY <1>1, <1>4, <1>18, <1>19
    <3> QED
      BY <3>1, LinkEmpty, Zenon
  <2>4. 2 * 0 + Half(reading'[Peer(e)]) + Len(pipe'[e]) = 2 * (t - Len(write_msgs'[e])) + moved'[e]
    <3>1. pipe'[e] = <<>> /\ Half(reading'[Peer(e)]) = 0 /\ moved'[e] = 0
      BY <1>1, <1>4, <1>16, <1>18, <1>19 DEF Half
    <3>2. Len(<<>>) = 0 /\ 2 * 0 + 0 + 0 = 2 * (t - t) + 0
      OBVIOUS
    <3> QED
      BY <2>1, <3>1, <3>2
  <2>5. Len(write_msgs'[e]) <= t
    BY <2>1
  <2> QED
    BY <2>2, <2>3, <2>4, <2>5, Zenon DEF Stream
<1>21. SessionInv(c)'
  <2>1. PICK r \in {Len(shown'[c])} : r = 0
    BY <1>12
  <2>2. M \in {Heard'[c]} /\ t \in 0 .. Given(c)' /\ t = Given(c)'
    BY <1>11, <1>14, <1>17
  <2>3. Stream(Session(c), M, r, t)'
    BY <1>18, <1>20, <2>1
  <2> QED
    BY <2>1, <2>2, <2>3 DEF SessionInv
<1> QED
  BY <1>6, <1>7, <1>8, <1>9, <1>13, <1>21 DEF RoomInv

-----------------------------------------------------------------------------
(* The log grows *)

\* The log grows by one message.
LEMMA LogGrows ==
    ASSUME TypeInv, NEW m \in Messages, log' = Append(log, m)
    PROVE  /\ Len(log) \in Nat /\ Len(log') = Len(log) + 1
           /\ DOMAIN log = 1 .. Len(log) /\ DOMAIN log' = 1 .. Len(log) + 1
           /\ log'[Len(log) + 1] = m /\ \A i \in 1 .. Len(log) : log'[i] = log[i]
BY DEF TypeInv

LEMMA RecentStep ==
    ASSUME TypeInv, RecentInv, NEW m \in Messages, log' = Append(log, m),
           recent' = Trimmed(Append(recent, m))
    PROVE  RecentInv'
<1> DEFINE s == Append(recent, m)
<1>1. /\ Len(recent) \in Nat /\ s \in Seq(Messages) /\ Len(s) = Len(recent) + 1
      /\ s[Len(recent) + 1] = m /\ \A i \in 1 .. Len(recent) : s[i] = recent[i]
      /\ DOMAIN recent = 1 .. Len(recent)
  BY DEF TypeInv
<1>2. recent' = Trimmed(s)
  OBVIOUS
<1> HIDE DEF s
<1>3. /\ recent' \in Seq(Messages) /\ Len(recent') <= Len(s)
      /\ \A i \in 1 .. Len(recent') : recent'[i] = s[Len(s) - Len(recent') + i]
  <2>1. s \in Seq(Messages)
    BY <1>1
  <2>2. /\ Trimmed(s) \in Seq(Messages) /\ Len(Trimmed(s)) <= Len(s)
        /\ \A i \in 1 .. Len(Trimmed(s)) : Trimmed(s)[i] = s[Len(s) - Len(Trimmed(s)) + i]
    BY <2>1, TrimmedType, Zenon
  <2> QED
    BY <1>2, <2>2, Zenon
<1>4. Len(recent') \in Nat /\ DOMAIN recent' = 1 .. Len(recent')
  BY <1>3
<1>5. Len(recent') <= Len(log')
  BY <1>1, <1>3, <1>4, LogGrows DEF RecentInv
<1>6. ASSUME NEW i \in 1 .. Len(recent')
      PROVE  recent'[i] = log'[Len(log') - Len(recent') + i]
  <2> DEFINE k == Len(s) - Len(recent') + i
  <2>1. recent'[i] = s[k] /\ k \in 1 .. Len(recent) + 1
    BY <1>1, <1>3, <1>4
  <2>2. k = Len(recent) + 1 - Len(recent') + i
    BY <1>1
  <2> HIDE DEF k
  <2>3. CASE k = Len(recent) + 1
    <3>1. Len(log') - Len(recent') + i = Len(log) + 1
      BY <1>1, <1>4, <2>2, <2>3, LogGrows
    <3> QED
      BY <1>1, <2>1, <2>3, <3>1, LogGrows
  <2>4. CASE k \in 1 .. Len(recent)
    <3>1. Len(log') - Len(recent') + i = Len(log) - Len(recent) + k
      BY <1>1, <1>4, <2>2, LogGrows
    <3>2. Len(log) - Len(recent) + k \in 1 .. Len(log)
      BY <1>1, <2>4, LogGrows DEF RecentInv
    <3>3. recent[k] = log[Len(log) - Len(recent) + k]
      BY <1>1, <2>4 DEF RecentInv
    <3>4. s[k] = recent[k]
      BY <1>1, <2>4
    <3>5. log'[Len(log) - Len(recent) + k] = log[Len(log) - Len(recent) + k]
      BY <3>2, LogGrows
    <3> QED
      BY <2>1, <3>1, <3>3, <3>4, <3>5
  <2>5. k = Len(recent) + 1 \/ k \in 1 .. Len(recent)
    BY <1>1, <2>1
  <2> QED
    BY <2>3, <2>4, <2>5, Zenon
<1> QED
  BY <1>4, <1>5, <1>6 DEF RecentInv

\* The next line of a client comes into the log.
LEMMA LogExtended ==
    ASSUME LogInv, NEW c \in Clients, NEW r \in Nat, Delivered(c, r),
           NEW L \in Nat, NEW m, m = <<c, r + 1>>,
           DOMAIN log = 1 .. L, DOMAIN log' = 1 .. L + 1,
           log'[L + 1] = m, \A i \in 1 .. L : log'[i] = log[i]
    PROVE  /\ LogInv' /\ Delivered(c, r + 1)'
           /\ \A d \in Clients \ {c}, n \in Nat : Delivered(d, n) => Delivered(d, n)'
<1>1. m[1] = c /\ m[2] = r + 1 /\ m \in Clients \X (Nat \ {0})
  OBVIOUS
<1>2. \A i \in 1 .. L : log[i] \in Clients \X (Nat \ {0}) /\ log[i][2] \in Nat
  <2>1. ASSUME NEW i \in 1 .. L
        PROVE  log[i] \in Clients \X (Nat \ {0})
    <3>1. i \in DOMAIN log
      OBVIOUS
    <3> QED
      BY <3>1, Zenon DEF LogInv
  <2>2. \A x \in Clients \X (Nat \ {0}) : x[2] \in Nat
    OBVIOUS
  <2> QED
    BY <2>1, <2>2
<1>3. \A i \in 1 .. L : log[i][1] = c => log[i][2] < r + 1
  BY <1>2 DEF Delivered
<1>4. r + 1 = 1 \/ \E j \in 1 .. L : log[j] = <<c, r>>
  <2>1. r > 0 => \E i \in DOMAIN log : log[i] = <<c, r>>
    BY Zenon DEF Delivered
  <2>2. r = 0 \/ r > 0
    OBVIOUS
  <2> QED
    BY <2>1, <2>2
<1>5. ASSUME NEW i \in 1 .. L
      PROVE  /\ log'[i] \in Clients \X (Nat \ {0})
             /\ \A j \in 1 .. i - 1 : log'[j][1] = log'[i][1] => log'[j][2] < log'[i][2]
             /\ log'[i][2] = 1 \/ \E j \in 1 .. i - 1 : log'[j] = <<log'[i][1], log'[i][2] - 1>>
  <2>1. log'[i] = log[i] /\ \A j \in 1 .. i - 1 : j \in 1 .. L /\ log'[j] = log[j]
    OBVIOUS
  <2>2. i \in DOMAIN log
    OBVIOUS
  <2>3. /\ log[i] \in Clients \X (Nat \ {0})
        /\ \A j \in 1 .. i - 1 : log[j][1] = log[i][1] => log[j][2] < log[i][2]
        /\ log[i][2] = 1 \/ \E j \in 1 .. i - 1 : log[j] = <<log[i][1], log[i][2] - 1>>
    BY <2>2, Zenon DEF LogInv
  <2> QED
    BY <2>1, <2>3
<1>6. /\ log'[L + 1] \in Clients \X (Nat \ {0})
      /\ \A j \in 1 .. L : log'[j][1] = log'[L + 1][1] => log'[j][2] < log'[L + 1][2]
      /\ log'[L + 1][2] = 1 \/ \E j \in 1 .. L : log'[j] = <<log'[L + 1][1], log'[L + 1][2] - 1>>
  <2>1. log'[L + 1] = m
    OBVIOUS
  <2>2. \A j \in 1 .. L : log'[j][1] = c => log'[j][2] < r + 1
    BY <1>3
  <2>3. r + 1 = 1 \/ \E j \in 1 .. L : log'[j] = <<c, (r + 1) - 1>>
    BY <1>4
  <2> QED
    BY <1>1, <2>1, <2>2, <2>3
<1>7. LogInv'
  <2> SUFFICES ASSUME NEW i \in DOMAIN log'
               PROVE  /\ log'[i] \in Clients \X (Nat \ {0})
                      /\ \A j \in 1 .. i - 1 : log'[j][1] = log'[i][1] => log'[j][2] < log'[i][2]
                      /\ log'[i][2] = 1 \/ \E j \in 1 .. i - 1 : log'[j] = <<log'[i][1], log'[i][2] - 1>>
    BY DEF LogInv
  <2>1. CASE i \in 1 .. L
    BY <1>5, <2>1
  <2>2. CASE i = L + 1
    <3>1. i - 1 = L
      BY <2>2
    <3> QED
      BY <1>6, <2>2, <3>1
  <2>3. i \in 1 .. L \/ i = L + 1
    OBVIOUS
  <2> QED
    BY <2>1, <2>2, <2>3, Zenon
<1>8. Delivered(c, r + 1)'
  <2>1. ASSUME NEW i \in DOMAIN log', log'[i][1] = c
        PROVE  log'[i][2] <= r + 1
    <3>1. CASE i \in 1 .. L
      BY <1>2, <1>3, <2>1, <3>1
    <3>2. CASE i = L + 1
      BY <1>1, <3>2
    <3> QED
      BY <3>1, <3>2
  <2>2. \E i \in DOMAIN log' : log'[i] = <<c, r + 1>>
    OBVIOUS
  <2> QED
    BY <2>1, <2>2 DEF Delivered
<1>9. ASSUME NEW d \in Clients \ {c}, NEW n \in Nat, Delivered(d, n)
      PROVE  Delivered(d, n)'
  <2>1. ASSUME NEW i \in DOMAIN log', log'[i][1] = d
        PROVE  log'[i][2] <= n
    <3>1. i \in 1 .. L
      BY <1>1, <2>1
    <3> QED
      BY <1>9, <2>1, <3>1 DEF Delivered
  <2>2. n > 0 => \E i \in DOMAIN log' : log'[i] = <<d, n>>
    <3> SUFFICES ASSUME n > 0 PROVE \E i \in DOMAIN log' : log'[i] = <<d, n>>
      OBVIOUS
    <3>1. PICK i \in DOMAIN log : log[i] = <<d, n>>
      BY <1>9 DEF Delivered
    <3>2. i \in DOMAIN log' /\ log'[i] = <<d, n>>
      BY <3>1
    <3> QED
      BY <3>2
  <2> QED
    BY <2>1, <2>2 DEF Delivered
<1> QED
  BY <1>7, <1>8, <1>9

LEMMA LogStep ==
    ASSUME TypeInv, LogInv, NEW c \in Clients, NEW r \in Nat, Delivered(c, r),
           NEW m \in Messages, m = <<c, r + 1>>, log' = Append(log, m)
    PROVE  /\ LogInv' /\ Delivered(c, r + 1)'
           /\ \A d \in Clients \ {c}, n \in Nat : Delivered(d, n) => Delivered(d, n)'
<1>1. PICK L \in Nat : L = Len(log)
  BY LogGrows
<1>2. /\ DOMAIN log = 1 .. L /\ DOMAIN log' = 1 .. L + 1
      /\ log'[L + 1] = m /\ \A i \in 1 .. L : log'[i] = log[i]
  BY <1>1, LogGrows
<1> QED
  BY <1>1, <1>2, LogExtended, Zenon

-----------------------------------------------------------------------------
(* A session receives a message *)

LEMMA ReceiveStep ==
    ASSUME TypeInv, TypeInv', RoomInv, NEW c \in Clients, Receive(c)
    PROVE  RoomInv'
<1> DEFINE b == Body(Session(c))
           S == {Session(d) : d \in participants}
<1>1. /\ conn' = conn /\ shown' = shown /\ typed' = typed
      /\ participants' = participants /\ first' = first
      /\ \A d \in End \ {Session(c)} : reading'[d] = reading[d] /\ header'[d] = header[d]
      /\ \A d \in End \ {Client(c)} : pipe'[d] = pipe[d]
      /\ reading[Session(c)] = "body" /\ BodyRead(Session(c))
      /\ log' = Append(log, b) /\ recent' = Trimmed(Append(recent, b))
      /\ Queued(Sends(S, <<b>>))
  BY ClientFacts DEF Receive, Deliver, BodyRead, mainVars, TypeInv
<1>2. /\ S \in SUBSET End /\ Client(c) \in End /\ Session(c) \in End /\ Client(c) \notin S
      /\ Peer(Session(c)) = Client(c)
      /\ \A d \in Clients : Session(d) \in S <=> d \in participants
      /\ \A d \in Clients : Client(d) \notin S
  <2>1. participants \subseteq Clients
    BY DEF TypeInv
  <2>2. /\ Client(c) \in End /\ Session(c) \in End /\ Peer(Session(c)) = Client(c)
        /\ \A d \in Clients : Session(d) \in End
        /\ \A d1, d2 \in Clients : /\ Client(d1) # Session(d2)
                                   /\ Session(d1) = Session(d2) => d1 = d2
    BY ClientFacts
  <2>3. S \in SUBSET End
    BY <2>1, <2>2
  <2>4. \A d \in Clients : (Session(d) \in S <=> d \in participants) /\ Client(d) \notin S
    BY <2>1, <2>2
  <2> QED
    BY <2>2, <2>3, <2>4
<1>3. b \in Messages /\ <<b>> \in Seq(Messages) /\ Len(<<b>>) = 1 /\ <<b>>[1] = b
  <2>1. b \in Messages
    BY <1>1, <1>2, BodyReadType
  <2> QED
    BY <2>1
<1> HIDE DEF b, S
<1>4. \A e \in End : /\ e \notin S => write_msgs'[e] = write_msgs[e] /\ (e \in busy' <=> e \in busy)
                     /\ e \in S => write_msgs'[e] = write_msgs[e] \o <<b>>
                     /\ moved'[e] = moved[e]
                     /\ e \in busy' <=> (e \in busy \/ (e \in S /\ <<b>> # <<>> /\ write_msgs[e] = <<>>))
  BY <1>1, <1>2, <1>3, QueuedType, Zenon
<1>5. PICK r \in 0 .. Len(log) : Delivered(c, r) /\ Stream(Client(c), Lines(c, typed[c]), r, typed[c])
  BY DEF RoomInv, ClientInv
<1>6. r \in Nat /\ typed[c] \in Nat
  BY LogFacts DEF RoomInv, TypeInv
<1>7. PICK t \in Nat, M \in {Lines(c, typed[c])} : t = typed[c] /\ M = Lines(c, typed[c])
  BY <1>6
<1>8. /\ b = M[r + 1] /\ r + 1 <= t
      /\ Stream(Client(c), M, r + 1, t)'
  <2>1. PICK x \in End, y \in End : x = Session(c) /\ y = Client(c)
    BY <1>2
  <2>2. /\ BodyRead(x) /\ Peer(x) = y /\ Stream(Peer(x), M, r, t) /\ Body(x) = b
    BY <1>1, <1>2, <1>5, <1>7, <2>1 DEF b
  <2>3. /\ write_msgs'[Peer(x)] = write_msgs[Peer(x)] /\ moved'[Peer(x)] = moved[Peer(x)]
        /\ Peer(x) \in busy' <=> Peer(x) \in busy
    BY <1>2, <1>4, <2>1, <2>2
  <2>4. /\ Body(x) = M[r + 1] /\ r + 1 <= t
        /\ Stream(Peer(x), M, r + 1, t)'
    BY <1>6, <2>2, <2>3, StreamBody
  <2>5. Stream(y, M, r + 1, t)'
    BY <2>2, <2>4
  <2> QED
    BY <2>1, <2>2, <2>4, <2>5
<1>9. b = <<c, r + 1>>
  BY <1>6, <1>7, <1>8 DEF Lines
<1>10. /\ LogInv' /\ Delivered(c, r + 1)'
       /\ \A d \in Clients \ {c}, n \in Nat : Delivered(d, n) => Delivered(d, n)'
  BY <1>1, <1>3, <1>5, <1>6, <1>9, LogStep DEF RoomInv
<1>11. RecentInv'
  BY <1>1, <1>3, RecentStep DEF RoomInv
<1>12. /\ Len(log) \in Nat /\ Len(log') = Len(log) + 1
       /\ log'[Len(log) + 1] = b /\ \A i \in 1 .. Len(log) : log'[i] = log[i]
  BY <1>1, <1>3, LogGrows
<1>13. ASSUME NEW d \in End, d \notin S, d # Client(c)
       PROVE  Kept(d)
  <2>1. Peer(d) \in End /\ Peer(d) # Session(c)
    BY <1>13, EndFacts, ClientFacts
  <2> QED
    BY <1>1, <1>4, <1>13, <2>1, HearsSame DEF Kept
<1>14. ClientInv(c)'
  <2>1. r + 1 \in 0 .. Len(log')
    BY <1>6, <1>12
  <2>2. t \in {typed'[c]} /\ M = Lines(c, t)
    BY <1>1, <1>7
  <2>3. Stream(Client(c), Lines(c, t), r + 1, t)'
    BY <1>8, <2>2
  <2> QED
    BY <1>10, <2>1, <2>2, <2>3 DEF ClientInv
<1>15. ASSUME NEW d \in Clients, d # c
       PROVE  ClientInv(d)'
  <2>1. Client(d) \in End /\ Client(d) \notin S /\ Client(d) # Client(c)
    BY <1>2, <1>15, ClientFacts
  <2>2. Kept(Client(d))
    BY <1>13, <2>1
  <2>3. Len(log) <= Len(log') /\ Len(log') \in Nat
    BY <1>12
  <2> QED
    BY <1>1, <1>10, <1>15, <2>2, <2>3, ClientStays
<1>16. ASSUME NEW d \in Clients
       PROVE  StartInv(d)'
  <2>1. /\ StartInv(d) /\ Session(d) \in End /\ Client(d) \in End
        /\ Client(d) # Session(c) /\ Session(d) # Client(c)
    BY ClientFacts DEF RoomInv
  <2>2. CASE conn[d] \in Unaccepted
    <3>1. d # c
      BY <1>1, <2>1, <2>2 DEF StartInv, Unaccepted
    <3>2. Session(d) # Session(c) /\ Session(d) \notin S
      BY <1>2, <2>1, <2>2, <3>1, ClientFacts DEF StartInv, Unaccepted
    <3> QED
      BY <1>1, <1>4, <2>1, <2>2, <3>2 DEF StartInv, Unaccepted
  <2>3. CASE conn[d] \notin Unaccepted
    BY <1>1, <2>3 DEF StartInv, Unaccepted
  <2> QED
    BY <2>2, <2>3
<1>17. ASSUME NEW d \in Clients
       PROVE  ShownInv(d)' /\ SessionInv(d)'
  <2>1. /\ ShownInv(d) /\ Session(d) \in End /\ Session(d) # Client(c)
        /\ Peer(Session(d)) = Client(d) /\ Client(d) \in End /\ Client(d) # Session(c)
    BY ClientFacts DEF RoomInv
  <2>2. /\ Given(d) \in Nat /\ Given(d)' = Given(d) + 1 /\ first[d] \in Int /\ first[d] >= 1
        /\ \A i \in 1 .. Given(d) + 1 : Heard'[d][i] = log'[first[d] + i - 1]
        /\ \A i \in 1 .. Given(d) : Heard[d][i] = log[first[d] + i - 1]
    <3>1. Given(d) \in Nat /\ first[d] \in Int /\ first[d] >= 1
      BY <2>1, LogFacts DEF ShownInv
    <3>2. Given(d)' = Given(d) + 1
      BY <1>1, <1>12, <3>1 DEF Given
    <3>3. Heard'[d] = [k \in 1 .. Given(d)' |-> log'[first'[d] + k - 1]]
      BY DEF Heard
    <3>4. \A i \in 1 .. Given(d) + 1 : Heard'[d][i] = log'[first[d] + i - 1]
      BY <1>1, <3>2, <3>3
    <3> QED
      BY <2>1, <3>1, <3>2, <3>4, LogFacts
  <2>3. /\ \A i \in 1 .. Given(d) : Heard'[d][i] = Heard[d][i]
        /\ Heard'[d][Given(d) + 1] = b
    <3>1. ASSUME NEW i \in 1 .. Given(d)
          PROVE  Heard'[d][i] = Heard[d][i]
      <4>1. first[d] + i - 1 \in 1 .. Len(log)
        BY <1>12, <2>2 DEF Given
      <4>2. i \in 1 .. Given(d) + 1
        BY <2>2
      <4>3. Heard'[d][i] = log'[first[d] + i - 1] /\ Heard[d][i] = log[first[d] + i - 1]
        BY <2>2, <4>2, Zenon
      <4>4. log'[first[d] + i - 1] = log[first[d] + i - 1]
        BY <1>12, <4>1, Zenon
      <4> QED
        BY <4>3, <4>4, Zenon
    <3>2. first[d] + (Given(d) + 1) - 1 = Len(log) + 1 /\ Given(d) + 1 \in 1 .. Given(d) + 1
      BY <1>12, <2>2 DEF Given
    <3>3. Heard'[d][Given(d) + 1] = log'[first[d] + (Given(d) + 1) - 1]
      BY <2>2, <3>2
    <3> QED
      BY <1>12, <3>1, <3>2, <3>3
  <2>4. ShownInv(d)'
    <3>1. Len(shown[d]) \in Nat /\ DOMAIN shown[d] = 1 .. Len(shown[d])
      BY <2>1, LogFacts
    <3>2. Len(shown[d]) <= Given(d) /\ \A i \in 1 .. Len(shown[d]) : shown[d][i] = Heard[d][i]
      BY <2>1, <3>1 DEF ShownInv
    <3>3. \A i \in 1 .. Len(shown[d]) : shown[d][i] = Heard'[d][i]
      BY <2>2, <2>3, <3>1, <3>2
    <3>4. Len(shown[d]) <= Given(d)'
      BY <2>2, <3>1, <3>2
    <3> QED
      BY <1>1, <2>2, <3>1, <3>3, <3>4 DEF ShownInv
  <2>5. CASE d \notin participants
    <3>1. Kept(Session(d))
      BY <1>2, <1>13, <2>1, <2>5
    <3>2. /\ first'[d] = first[d] /\ shown'[d] = shown[d] /\ (d \in participants' => d \in participants)
          /\ Given(d)' \in Nat /\ d \notin participants' /\ Given(d) <= Given(d)'
          /\ \A i \in 1 .. Given(d) : Heard'[d][i] = Heard[d][i]
      BY <1>1, <2>2, <2>3, <2>5
    <3>3. \/ log' = log
          \/ /\ d \notin participants' /\ Given(d) <= Given(d)'
             /\ \A i \in 1 .. Given(d) : Heard'[d][i] = Heard[d][i]
      BY <3>2
    <3>4. first'[d] = first[d] /\ shown'[d] = shown[d] /\ (d \in participants' => d \in participants)
      BY <1>1
    <3>5. SessionInv(d)'
      BY <3>1, <3>2, <3>3, <3>4, SessionStays, Zenon
    <3> QED
      BY <2>4, <3>5
  <2>6. CASE d \in participants
    <3>1. PICK n \in Nat, H \in {Heard[d]} :
                                 /\ n = Given(d) /\ H = Heard[d]
                                 /\ Stream(Session(d), H, Len(shown[d]), n)
      BY <2>2, <2>6 DEF RoomInv, SessionInv
    <3>2. PICK H2 : H2 = Heard'[d]
      OBVIOUS
    <3>3. PICK x \in End : x = Session(d)
      BY <2>1
    <3>4. PICK k \in Nat : k = Len(shown[d])
      BY <2>1, LogFacts
    <3>5. /\ Stream(x, H, k, n) /\ n + 1 = n + Len(<<b>>) /\ n + 1 \in Nat
          /\ \A i \in 1 .. n : H2[i] = H[i]
          /\ \A i \in 1 .. Len(<<b>>) : H2[n + i] = <<b>>[i]
      BY <1>3, <2>3, <3>1, <3>2, <3>3, <3>4
    <3>6. /\ write_msgs'[x] = write_msgs[x] \o <<b>> /\ moved'[x] = moved[x]
          /\ x \in busy' => x \in busy \/ write_msgs[x] = <<>>
      BY <1>2, <1>4, <2>1, <2>6, <3>3
    <3>7. /\ Peer(x) = Client(d) /\ pipe'[x] = pipe[x]
          /\ reading'[Peer(x)] = reading[Peer(x)] /\ header'[Peer(x)] = header[Peer(x)]
      BY <1>1, <2>1, <3>3
    <3>8. Hears(Peer(x))' <=> Hears(Peer(x))
      BY <1>1, <3>7, EndFacts, HearsSame
    <3>9. Stream(x, H2, k, n + 1)'
      BY <1>3, <3>5, <3>6, <3>7, <3>8, StreamMore, Zenon
    <3>10. PICK t2 \in 0 .. Given(d)' : t2 = n + 1 /\ t2 = Given(d)'
      BY <2>2, <3>1
    <3>11. PICK k2 \in {Len(shown'[d])} : k2 = k
      BY <1>1, <3>4
    <3>12. Stream(Session(d), H2, k2, t2)'
      BY <3>3, <3>9, <3>10, <3>11
    <3>13. SessionInv(d)'
      BY <3>2, <3>10, <3>11, <3>12 DEF SessionInv
    <3> QED
      BY <2>4, <3>13
  <2> QED
    BY <2>5, <2>6
<1> QED
  BY <1>10, <1>11, <1>14, <1>15, <1>16, <1>17 DEF RoomInv

LEMMA RoomInit == Init => RoomInv
<1> SUFFICES ASSUME Init PROVE RoomInv
  OBVIOUS
<1>1. /\ log = <<>> /\ recent = <<>> /\ Len(<<>>) = 0 /\ DOMAIN <<>> = {} /\ participants = {} /\ busy = {}
  BY DEF Init
<1>2. RecentInv /\ LogInv
  BY <1>1 DEF RecentInv, LogInv
<1>3. ASSUME NEW e \in End
      PROVE  /\ write_msgs[e] = <<>> /\ pipe[e] = <<>> /\ moved[e] = 0 /\ reading[e] = "off"
             /\ \A M : Stream(e, M, 0, 0)
  <2>1. /\ write_msgs[e] = <<>> /\ pipe[e] = <<>> /\ moved[e] = 0 /\ reading[e] = "off"
        /\ Peer(e) \in End /\ reading[Peer(e)] = "off"
    BY EndFacts DEF Init
  <2>2. ASSUME NEW M
        PROVE  Stream(e, M, 0, 0)
    <3>1. Link(M, 0, 0, pipe[e], reading[Peer(e)], header[Peer(e)])
      <4>1. 0 \in Nat /\ reading[Peer(e)] # "body"
        BY <2>1
      <4> QED
        BY <2>1, <4>1, LinkEmpty, Zenon
    <3>2. 2 * 0 + Half(reading[Peer(e)]) + Len(pipe[e]) = 2 * (0 - Len(write_msgs[e])) + moved[e]
      <4>1. Half("off") = 0
        BY DEF Half
      <4>2. 2 * 0 + 0 + 0 = 2 * (0 - 0) + 0
        OBVIOUS
      <4> QED
        BY <1>1, <2>1, <4>1, <4>2
    <3>3. Len(write_msgs[e]) <= 0 /\ DOMAIN write_msgs[e] = {}
      BY <1>1, <2>1
    <3> QED
      BY <3>1, <3>2, <3>3 DEF Stream
  <2> QED
    BY <2>1, <2>2
<1>4. ASSUME NEW c \in Clients
      PROVE  StartInv(c) /\ ShownInv(c) /\ ClientInv(c) /\ SessionInv(c)
  <2>1. /\ Client(c) \in End /\ Session(c) \in End /\ shown[c] = <<>> /\ typed[c] = 0
        /\ first[c] = 1 /\ conn[c] = "new"
    BY ClientFacts DEF Init
  <2>2. StartInv(c)
    BY <1>1, <1>3, <2>1 DEF StartInv, Unaccepted
  <2>3. ShownInv(c) /\ Given(c) = 0
    BY <1>1, <2>1 DEF ShownInv, Given
  <2>4. ClientInv(c)
    <3>1. Delivered(c, 0) /\ 0 \in 0 .. Len(log) /\ 0 \in {typed[c]}
      BY <1>1, <2>1 DEF Delivered
    <3> QED
      BY <1>3, <2>1, <3>1 DEF ClientInv
  <2>5. SessionInv(c)
    <3>1. 0 \in 0 .. Given(c) /\ 0 \in {Len(shown[c])}
      BY <1>1, <2>1, <2>3
    <3> QED
      BY <1>1, <1>3, <2>1, <3>1 DEF SessionInv
  <2> QED
    BY <2>2, <2>3, <2>4, <2>5
<1> QED
  BY <1>2, <1>4 DEF RoomInv

LEMMA RoomStep ==
    ASSUME TypeInv, TypeInv', RoomInv, [Next]_vars
    PROVE  RoomInv'
<1>1. CASE UNCHANGED vars
  BY <1>1, CloseStep DEF vars, state, mainVars
<1>2. ASSUME NEW e \in End, Handler(e)
      PROVE  RoomInv'
  BY <1>2, MoveStep, WrittenStep, FailsStep, ReadHeaderStep, ReadFailsStep, ShowStep, ReceiveStep, EndFacts
     DEF Handler
<1>3. ASSUME NEW c \in Clients, Close(c)
      PROVE  RoomInv'
  BY <1>3, CloseStep DEF Close
<1>4. CASE Next
  BY <1>2, <1>3, <1>4, AcceptStep, ConnectStep, WriteStep, BreakStep DEF Next
<1> QED
  BY <1>1, <1>4

(* What two ends have queued, written, read and printed are stretches of one sequence, the
   lines of a client or the log from the place on at which a session joined; and the log
   has the lines of each client in order. *)
THEOREM RoomHolds == Spec => []RoomInv
<1>1. Init => RoomInv
  BY RoomInit
<1>2. TypeInv /\ TypeInv' /\ RoomInv /\ [Next]_vars => RoomInv'
  BY RoomStep
<1> QED
  BY <1>1, <1>2, TypeCorrect, PTL DEF Spec

(* Every client prints the room's messages whole, in the room's order, without a gap or a
   repetition; and the room has each client's lines once, in the order they were typed. *)
THEOREM HeardAsDeliveredHolds == Spec => []HeardAsDelivered
<1>1. TypeInv /\ RoomInv => HeardAsDelivered
  <2> SUFFICES ASSUME TypeInv, RoomInv PROVE HeardAsDelivered
    OBVIOUS
  <2>1. ASSUME NEW c \in Clients
        PROVE  shown[c] = SubSeq(log, first[c], first[c] + Len(shown[c]) - 1)
    <3> DEFINE s == SubSeq(log, first[c], first[c] + Len(shown[c]) - 1)
    <3>1. ShownInv(c)
      BY DEF RoomInv
    <3>2. /\ log \in Seq(Messages) /\ shown[c] \in Seq(Messages) /\ first[c] \in Int /\ first[c] >= 1
          /\ Len(shown[c]) \in Nat /\ Len(log) \in Nat
          /\ first[c] + Len(shown[c]) - 1 <= Len(log)
      BY <3>1, LogFacts DEF TypeInv, ShownInv, Given
    <3>3. /\ s \in Seq(Messages) /\ Len(s) = Len(shown[c])
          /\ \A i \in 1 .. Len(shown[c]) : s[i] = log[first[c] + i - 1]
      BY <3>2
    <3>4. \A i \in 1 .. Len(shown[c]) : shown[c][i] = log[first[c] + i - 1]
      <4>1. /\ Given(c) \in Nat /\ Len(shown[c]) <= Given(c) /\ DOMAIN shown[c] = 1 .. Len(shown[c])
            /\ \A k \in 1 .. Given(c) : Heard[c][k] = log[first[c] + k - 1]
            /\ \A i \in DOMAIN shown[c] : shown[c][i] = Heard[c][i]
        BY <3>1, LogFacts DEF ShownInv
      <4>2. ASSUME NEW i \in 1 .. Len(shown[c])
            PROVE  shown[c][i] = log[first[c] + i - 1]
        <5>1. i \in 1 .. Given(c) /\ i \in DOMAIN shown[c]
          BY <3>2, <4>1
        <5> QED
          BY <4>1, <5>1, Zenon
      <4> QED
        BY <4>2
    <3> HIDE DEF s
    <3>5. shown[c] = s
      <4>1. \A i \in 1 .. Len(s) : s[i] = shown[c][i]
        BY <3>3, <3>4
      <4> QED
        BY <3>2, <3>3, <4>1, SeqEqual
    <3> QED
      BY <3>5 DEF s
  <2>2. ASSUME NEW i \in DOMAIN log
        PROVE  log[i] # Garbled
    <3>1. PICK d \in Clients, n \in Nat : log[i] = <<d, n>>
      BY DEF RoomInv, LogInv
    <3> QED
      BY <3>1 DEF Garbled
  <2> QED
    BY <2>1, <2>2 DEF HeardAsDelivered, RoomInv, LogInv
<1> QED
  BY <1>1, TypeCorrect, RoomHolds, PTL
=============================================================================
