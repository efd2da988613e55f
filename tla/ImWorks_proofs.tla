--------------------------- MODULE ImWorks_proofs ---------------------------
(***************************************************************************)
(* Proofs about the messenger on works: nobody wakes a work that does not  *)
(* wait for it, what a read has is the beginning of one message, and a     *)
(* client takes the response to the request it has just sent.              *)
(*                                                                         *)
(* The argument: every step is first reduced to an effect on a few works   *)
(* (StepEffect), so that the invariant is proved once per kind of effect.  *)
(* The invariant relates the two ends of a connection: of the requests of  *)
(* a connection at most one is not answered, what has been written of it   *)
(* and not read is what is under way, and a work that has read an answer   *)
(* is queued behind the one that wrote the question, which therefore waits *)
(* when the answer is dealt.                                               *)
(***************************************************************************)
EXTENDS ImWorks, FiniteSetTheorems, SequenceTheorems, TLAPS

(* The works *)

Clt(c) == <<"client", c>>
Req(c) == <<"request", c>>
Rcv(c) == <<"recv", c>>
Srcv(c) == <<"srecv", c>>
Srv(c) == <<"serve", c>>
Acc == <<"accept", Server>>
WorksOf(c) == {Clt(c), Req(c), Rcv(c), Srcv(c), Srv(c)}

PlacesOf(kind) ==
  CASE kind = "client"  -> {"new", "connect", "whdr", "wbody", "done"}
    [] kind = "request" -> {"none", "new", "whdr", "wbody", "wait", "timer", "done"}
    [] kind = "serve"   -> {"none", "new", "whdr", "wbody", "wait", "done"}
    [] kind = "accept"  -> {"new", "accept", "rhdr", "rbody", "done"}
    [] OTHER            -> {"none", "new", "rhdr", "rbody", "done"}

(* The units of a message, of the part of it that a work moves, and those that it has
   moved. *)
All == HdrLen + setup.body
AtHeader(w) == pc[w] \in {"whdr", "rhdr"}
Part(w) == IF AtHeader(w) THEN HdrLen ELSE setup.body
Told(w) == IF ret[w] > 0 THEN ret[w] ELSE IF ret[w] < Unset THEN Unset - ret[w] ELSE 0
Moved(w) == (IF AtHeader(w) THEN HdrLen ELSE All) - rem[w] + Told(w)

Messages == {"hello", "req", "res"} \X Nat
Units == Messages \X Nat

ResultOf(w) ==
  /\ Writing(w) \/ Reading(w) => /\ rem[w] \in 1 .. Part(w)
                                 /\ \/ ret[w] \in {Unset, -1} \cup (1 .. rem[w])
                                    \/ Writing(w) /\ Unset - ret[w] \in 1 .. rem[w]
  /\ pc[w] \in {"wait", "timer"} => ret[w] \in {Unset, 0}
  /\ pc[w] \in {"connect", "accept"} => ret[w] \in {Unset, 0, -1}
  /\ pc[w] \in {"none", "new"} => ret[w] = Unset
GotBy(w) ==
  /\ w[1] = "serve" => /\ got[w] \in Seq(Nat) /\ Len(got[w]) <= 1
                       /\ Writing(w) => got[w] # <<>>
  /\ w[1] # "serve" => /\ got[w] \in Seq(Units)
                       /\ Reading(w) => Len(got[w]) = Moved(w)
                       /\ pc[w] \notin {"rhdr", "rbody", "done"} => got[w] = <<>>
Sound(w) == pc[w] \in PlacesOf(w[1]) /\ ResultOf(w) /\ GotBy(w)
WorkInv == \A w \in Works : Sound(w)

WorkType ==
  /\ setup \in Setups
  /\ DOMAIN pc = Works /\ DOMAIN rem = Works /\ DOMAIN got = Works /\ DOMAIN ret = Works
  /\ \A w \in Works : rem[w] \in Int /\ ret[w] \in Int
  /\ works_q \in [Procs -> Seq(Works)] /\ crashed \subseteq Procs
NetType ==
  /\ up \in [Clients -> Seq(Units)] /\ down \in [Clients -> Seq(Units)]
  /\ alive \subseteq Clients /\ backlog \in Seq(Clients) /\ peer \in Clients \cup {None}
  /\ Reading(Acc) \/ (pc[Acc] = "accept" /\ ret[Acc] = 0) => peer \in Clients
LightType ==
  /\ msg_q \in [LightWorks -> Seq(Messages)] /\ handler \subseteq LightWorks
  /\ round \in [Clients -> Nat] /\ answered \in [Clients -> Nat]
TypeInv == WorkType /\ WorkInv /\ NetType /\ LightType

-----------------------------------------------------------------------------
(* Between the two ends of a connection *)

(* The units of message m from the lo-th, which is not one of them, to the hi-th. *)
Cut(m, lo, hi) == SubSeq(UnitsOf(m), lo + 1, hi)

(* Where a work is, as seen from the other end: a write or a read is one step, of which
   it matters how much is done, and whether it has failed. *)
Where(w) == IF Writing(w) THEN "write" ELSE IF Reading(w) THEN "read" ELSE pc[w]
In(w) == IF Writing(w) THEN Moved(w) ELSE All
Res(w) == IF (Writing(w) \/ Reading(w)) /\ ret[w] # -1 THEN Unset ELSE ret[w]

(* The requests of a connection, numbered: those the server's channel has taken in and
   its work has taken, and those whose responses the client's channel has taken in. *)
Took(c) == IF got[Srv(c)] = <<>> THEN 0 ELSE got[Srv(c)][1]
Dealt(c) == Took(c) + Len(msg_q[Srv(c)])
Back(c) == answered[c] + Len(msg_q[Req(c)])

(* None of them is more than one behind. *)
CountInv(c) ==
  /\ answered[c] <= Back(c) /\ Back(c) <= Took(c) /\ Took(c) <= Dealt(c) /\ Dealt(c) <= round[c]
  /\ round[c] <= answered[c] + 1
  /\ msg_q[Req(c)] = <<>> \/ msg_q[Req(c)] = <<<<"res", Back(c)>>>>
  /\ msg_q[Srv(c)] = <<>> \/ msg_q[Srv(c)] = <<<<"req", Dealt(c)>>>>

PlaceInv(c) ==
  /\ Where(Req(c)) \in {"none", "new"} => round[c] = 0
  /\ Where(Req(c)) \in {"write", "wait", "done"} => round[c] = answered[c] + 1
  /\ Where(Req(c)) = "timer" => round[c] = answered[c]
  /\ Where(Req(c)) = "wait" => (Res(Req(c)) = Unset <=> msg_q[Req(c)] = <<>>)
  /\ Where(Srv(c)) = "none" => Dealt(c) = 0
  /\ Where(Srv(c)) = "new" => Took(c) = 0 /\ Dealt(c) # 0
  /\ Where(Srv(c)) \in {"write", "wait"} => Took(c) # 0
  /\ Where(Srv(c)) = "wait" => (Res(Srv(c)) = Unset <=> msg_q[Srv(c)] = <<>>)
  /\ Where(Srv(c)) # "done"

(* A message that w writes and v reads: v has the beginning of it, and the rest of what w
   has written is on the way.  When it is dealt, w has written all of it. *)
Flow(due, m, w, v) ==
  IF due THEN got[v] = Cut(m, 0, Len(got[v])) /\ Len(got[v]) <= In(w)
  ELSE got[v] = <<>> /\ In(w) = All
OnWay(due, m, w, v) == IF due THEN Cut(m, Len(got[v]), In(w)) ELSE <<>>

Asks(c) == Dealt(c) < round[c]
Answers(c) == Back(c) < Took(c)
FlowInv(c) ==
  /\ Flow(Asks(c), <<"req", round[c]>>, Req(c), Srcv(c))
  /\ Flow(Answers(c), <<"res", Took(c)>>, Srv(c), Rcv(c))
  /\ Where(Req(c)) = "done" => Asks(c) /\ Len(got[Srcv(c)]) < All
  /\ peer = c => got[Acc] = Cut(<<"hello", 0>>, 0, Len(got[Acc]))

(* The first message of a connection, which the accepting work reads. *)
HelloIn(c) == IF Where(Clt(c)) = "done" THEN All ELSE IF Writing(Clt(c)) THEN Moved(Clt(c)) ELSE 0
HelloOut(c) == IF Where(Srcv(c)) # "none" THEN All ELSE IF peer = c THEN Len(got[Acc]) ELSE 0
WireInv(c) ==
  c \in alive =>
    /\ \A w \in WorksOf(c) : Res(w) # -1
    /\ peer = c => Res(Acc) # -1
    /\ "done" \notin {Where(Req(c)), Where(Rcv(c)), Where(Srcv(c))}
    /\ HelloOut(c) <= HelloIn(c)
    /\ up[c] = Cut(<<"hello", 0>>, HelloOut(c), HelloIn(c))
               \o OnWay(Asks(c), <<"req", round[c]>>, Req(c), Srcv(c))
    /\ down[c] = OnWay(Answers(c), <<"res", Took(c)>>, Srv(c), Rcv(c))

(* Connections wait in the backlog once, and the accepting work reads the first message
   of one at a time. *)
Unconnected(c) == pc[Clt(c)] = "new" \/ (pc[Clt(c)] = "connect" /\ ret[Clt(c)] # 0)
StartInv(c) ==
  /\ pc[Clt(c)] # "done" => pc[Req(c)] = "none" /\ pc[Rcv(c)] = "none"
  /\ pc[Req(c)] \in {"none", "new"} => Req(c) \notin handler
  /\ pc[Srv(c)] \in {"none", "new"} => Srv(c) \notin handler
  /\ pc[Srcv(c)] = "none" => pc[Srv(c)] = "none"
  /\ Unconnected(c) => /\ pc[Srcv(c)] = "none" /\ c \notin alive
                       /\ up[c] = <<>> /\ down[c] = <<>>
                       /\ peer # c /\ \A i \in DOMAIN backlog : backlog[i] # c
  /\ peer = c => pc[Srcv(c)] = "none" /\ \A i \in DOMAIN backlog : backlog[i] # c
AcceptInv ==
  /\ \A c \in Clients : StartInv(c)
  /\ \A i, j \in DOMAIN backlog : backlog[i] = backlog[j] => i = j
  /\ \A i \in DOMAIN backlog : pc[Srcv(backlog[i])] = "none"
  /\ pc[Acc] = "new" \/ (pc[Acc] = "accept" /\ ret[Acc] = Unset) => peer = None

-----------------------------------------------------------------------------
(* The queues *)

(* A work that is new, or whose operation has ended, and no other, is queued, once. *)
Ready(w) == pc[w] \notin {"none", "new", "done"} /\ ret[w] # Unset /\ ~Sending(w)
Once(q) == \A i, j \in DOMAIN q : q[i] = q[j] => i = j
InQueue(q, w) == \E i \in DOMAIN q : q[i] = w
QueueInv ==
  \A p \in Procs \ crashed :
    /\ Once(works_q[p])
    /\ \A i \in DOMAIN works_q[p] : Home(works_q[p][i]) = p
    /\ \A w \in Works : Home(w) = p =>
          /\ Ready(w) => InQueue(works_q[p], w)
          /\ InQueue(works_q[p], w) => Ready(w) \/ pc[w] = "new"

(* A work that has read an answer is queued behind the one that wrote before. *)
Precedes(q, v, w) == \E i, j \in DOMAIN q : i < j /\ q[i] = v /\ q[j] = w
Follows(v, w) == Home(w) \notin crashed /\ Reading(w) /\ ret[w] > 0 /\ Writing(v)
                    => Precedes(works_q[Home(w)], v, w)
OrderInv(c) == Follows(Req(c), Rcv(c)) /\ Follows(Srv(c), Srcv(c))

LinkInv(c) == CountInv(c) /\ PlaceInv(c) /\ FlowInv(c) /\ WireInv(c) /\ OrderInv(c)
WorksInv == strays = {} /\ QueueInv /\ \A c \in Clients : LinkInv(c)

-----------------------------------------------------------------------------
(* Works, messages and their stretches *)

LEMMA Constants ==
  /\ Server \notin Clients /\ None \notin Clients
  /\ HdrLen \in Nat \ {0} /\ QCap \in Nat \ {0}
BY WorksAssumption

(* What may be told of a setup. *)
LEMMA SetupSize ==
  ASSUME setup \in Setups
  PROVE  /\ setup.body \in Nat \ {0} /\ All \in Nat /\ All > HdrLen
         /\ setup.on \subseteq Clients /\ setup.fragile \subseteq Clients /\ setup.rounds \in Nat
<1>1. setup.on \cup setup.fragile \subseteq Clients /\ setup.rounds \in Nat /\ setup.body \in Nat \ {0}
  BY WorksAssumption
<1> QED
  BY <1>1, Constants DEF All

LEMMA Names ==
  ASSUME NEW c \in Clients
  PROVE  /\ Clt(c) \in Works /\ Req(c) \in Works /\ Rcv(c) \in Works
         /\ Srcv(c) \in Works /\ Srv(c) \in Works
         /\ Req(c) \in LightWorks /\ Srv(c) \in LightWorks
         /\ Clt(c)[1] = "client" /\ Req(c)[1] = "request" /\ Rcv(c)[1] = "recv"
         /\ Srcv(c)[1] = "srecv" /\ Srv(c)[1] = "serve"
         /\ Clt(c)[2] = c /\ Req(c)[2] = c /\ Rcv(c)[2] = c /\ Srcv(c)[2] = c /\ Srv(c)[2] = c
         /\ Home(Clt(c)) = c /\ Home(Req(c)) = c /\ Home(Rcv(c)) = c
         /\ Home(Srcv(c)) = Server /\ Home(Srv(c)) = Server
         /\ Conn(Clt(c)) = c /\ Conn(Req(c)) = c /\ Conn(Rcv(c)) = c
         /\ Conn(Srcv(c)) = c /\ Conn(Srv(c)) = c
         /\ c \in Procs
BY DEF Clt, Req, Rcv, Srcv, Srv, Works, LightWorks, Home, Conn, Procs

LEMMA AccName ==
  /\ Acc \in Works /\ Acc[1] = "accept" /\ Home(Acc) = Server /\ Conn(Acc) = peer
  /\ Server \in Procs
BY DEF Acc, Works, Home, Conn, Procs

LEMMA Different ==
  ASSUME NEW c \in Clients, NEW d \in Clients
  PROVE  /\ Clt(c) # Req(d) /\ Clt(c) # Rcv(d) /\ Clt(c) # Srcv(d) /\ Clt(c) # Srv(d)
         /\ Req(c) # Rcv(d) /\ Req(c) # Srcv(d) /\ Req(c) # Srv(d)
         /\ Rcv(c) # Srcv(d) /\ Rcv(c) # Srv(d) /\ Srcv(c) # Srv(d)
         /\ Acc \notin {Clt(c), Req(c), Rcv(c), Srcv(c), Srv(c)}
         /\ c # d => /\ Clt(c) # Clt(d) /\ Req(c) # Req(d) /\ Rcv(c) # Rcv(d)
                     /\ Srcv(c) # Srcv(d) /\ Srv(c) # Srv(d)
BY DEF Clt, Req, Rcv, Srcv, Srv, Acc

LEMMA WorkCases ==
  ASSUME NEW w \in Works
  PROVE  \/ w = Acc
         \/ /\ w[2] \in Clients
            /\ \/ w[1] = "client" /\ w = Clt(w[2])
               \/ w[1] = "request" /\ w = Req(w[2])
               \/ w[1] = "recv" /\ w = Rcv(w[2])
               \/ w[1] = "srecv" /\ w = Srcv(w[2])
               \/ w[1] = "serve" /\ w = Srv(w[2])
BY DEF Works, Clt, Req, Rcv, Srcv, Srv, Acc

LEMMA HomeType == ASSUME NEW w \in Works PROVE Home(w) \in Procs
BY WorkCases, Names, AccName

LEMMA LightNames ==
  ASSUME NEW w \in LightWorks
  PROVE  /\ w \in Works /\ w[2] \in Clients
         /\ (w[1] = "request" /\ w = Req(w[2])) \/ (w[1] = "serve" /\ w = Srv(w[2]))
BY DEF LightWorks, Works, Req, Srv

LEMMA MessageUnits ==
  ASSUME setup \in Setups, NEW m \in Messages
  PROVE  /\ UnitsOf(m) \in Seq(Units) /\ Len(UnitsOf(m)) = All
         /\ \A i \in 1 .. All : UnitsOf(m)[i] = <<m, i>>
<1>1. All \in Nat /\ UnitsOf(m) = [i \in 1 .. All |-> <<m, i>>]
  BY SetupSize DEF UnitsOf, All
<1>2. \A i \in 1 .. All : <<m, i>> \in Units
  BY <1>1 DEF Units
<1> QED
  BY <1>1, <1>2

LEMMA CutLength ==
  ASSUME setup \in Setups, NEW m \in Messages, NEW lo \in 0 .. All, NEW hi \in 0 .. All
  PROVE  /\ Cut(m, lo, hi) \in Seq(Units)
         /\ lo <= hi => Len(Cut(m, lo, hi)) = hi - lo
         /\ lo >= hi => Cut(m, lo, hi) = <<>>
<1>1. All \in Nat
  BY SetupSize
<1> DEFINE u == UnitsOf(m)
<1>2. u \in Seq(Units) /\ Len(u) = All
  BY MessageUnits
<1> HIDE DEF u
<1>3. \A i \in lo + 1 .. hi : u[i] \in Units
  BY <1>1, <1>2
<1>4. SubSeq(u, lo + 1, hi) \in Seq(Units) /\ Len(SubSeq(u, lo + 1, hi)) = IF lo + 1 <= hi THEN hi - (lo + 1) + 1 ELSE 0
  BY <1>1, <1>3, SubSeqProperties
<1>5. lo >= hi => SubSeq(u, lo + 1, hi) = <<>>
  BY <1>1, SubSeqEmpty
<1> QED
  BY <1>1, <1>4, <1>5 DEF Cut, u

LEMMA CutJoin ==
  ASSUME setup \in Setups, NEW m \in Messages,
         NEW lo \in 0 .. All, NEW mid \in lo .. All, NEW hi \in mid .. All
  PROVE  Cut(m, lo, mid) \o Cut(m, mid, hi) = Cut(m, lo, hi)
<1>1. All \in Nat
  BY SetupSize
<1> DEFINE u == UnitsOf(m)
<1>2. u \in Seq(Units) /\ Len(u) = All
  BY MessageUnits
<1> HIDE DEF u
<1>3. lo + 1 \in 1 .. Len(u) + 1 /\ mid \in lo + 1 - 1 .. Len(u) /\ hi \in mid .. Len(u)
  BY <1>1, <1>2
<1>4. SubSeq(u, lo + 1, mid) \o SubSeq(u, mid + 1, hi) = SubSeq(u, lo + 1, hi)
  BY <1>2, <1>3, ConcatAdjacentSubSeq
<1> QED
  BY <1>4 DEF Cut, u

LEMMA CutParts ==
  ASSUME setup \in Setups, NEW m \in Messages, NEW lo \in 0 .. All, NEW hi \in lo .. All,
         NEW k \in 1 .. hi - lo
  PROVE  /\ SubSeq(Cut(m, lo, hi), 1, k) = Cut(m, lo, lo + k)
         /\ SubSeq(Cut(m, lo, hi), k + 1, hi - lo) = Cut(m, lo + k, hi)
<1>1. All \in Nat
  BY SetupSize
<1> DEFINE u == UnitsOf(m)
<1>2. u \in Seq(Units) /\ Len(u) = All
  BY MessageUnits
<1> HIDE DEF u
<1>3. lo + 1 \in 1 .. Len(u) /\ hi \in 1 .. Len(u) /\ 1 \in 1 .. hi - (lo + 1) + 1
      /\ k \in 1 .. hi - (lo + 1) + 1 /\ hi - lo \in 1 .. hi - (lo + 1) + 1
  BY <1>1, <1>2
<1>4. SubSeq(SubSeq(u, lo + 1, hi), 1, k) = SubSeq(u, lo + 1 + 1 - 1, lo + 1 + k - 1)
  BY <1>2, <1>3, SubSeqOfSubSeq
<1>5. SubSeq(SubSeq(u, lo + 1, hi), 1, k) = SubSeq(u, lo + 1, lo + k)
  <2>1. lo + 1 + 1 - 1 = lo + 1 /\ lo + 1 + k - 1 = lo + k
    BY <1>1
  <2> QED
    BY <1>4, <2>1
<1>6. SubSeq(SubSeq(u, lo + 1, hi), k + 1, hi - lo) = SubSeq(u, lo + k + 1, hi)
  <2>1. CASE k = hi - lo
    <3>1. k + 1 > hi - lo /\ lo + k + 1 > hi
      BY <1>1, <2>1
    <3>2. SubSeq(SubSeq(u, lo + 1, hi), k + 1, hi - lo) = <<>> /\ SubSeq(u, lo + k + 1, hi) = <<>>
      BY <1>1, <3>1, SubSeqEmpty
    <3> QED
      BY <3>2
  <2>2. CASE k < hi - lo
    <3>1. k + 1 \in 1 .. hi - (lo + 1) + 1
      BY <1>1, <2>2
    <3>2. SubSeq(SubSeq(u, lo + 1, hi), k + 1, hi - lo)
            = SubSeq(u, lo + 1 + (k + 1) - 1, lo + 1 + (hi - lo) - 1)
      BY <1>2, <1>3, <3>1, SubSeqOfSubSeq
    <3>3. lo + 1 + (k + 1) - 1 = lo + k + 1 /\ lo + 1 + (hi - lo) - 1 = hi
      BY <1>1
    <3> QED
      BY <3>2, <3>3
  <2> QED
    BY <1>1, <2>1, <2>2
<1> QED
  BY <1>5, <1>6 DEF Cut, u

LEMMA CutFirst ==
  ASSUME setup \in Setups, NEW m \in Messages, NEW hi \in 1 .. All
  PROVE  Head(Cut(m, 0, hi))[1] = m
<1>1. All \in Nat
  BY SetupSize
<1> DEFINE u == UnitsOf(m)
<1>2. u \in Seq(Units) /\ Len(u) = All /\ \A i \in 1 .. All : u[i] = <<m, i>>
  BY MessageUnits
<1> HIDE DEF u
<1>3. 1 \in 1 .. Len(u) /\ hi \in 1 .. Len(u)
  BY <1>1, <1>2
<1>4. Head(SubSeq(u, 1, hi)) = u[1]
  BY <1>2, <1>3, HeadTailOfSubSeq
<1>5. u[1] = <<m, 1>>
  BY <1>2, <1>3
<1> QED
  BY <1>1, <1>4, <1>5 DEF Cut, u

(* The beginning of one stretch and what follows it. *)
LEMMA CutAhead ==
  ASSUME setup \in Setups, NEW m \in Messages, NEW lo \in 0 .. All, NEW hi \in lo .. All,
         NEW q \in Seq(Units), NEW k \in 1 .. hi - lo
  PROVE  LET s == Cut(m, lo, hi) \o q
         IN  /\ s \in Seq(Units) /\ Len(s) = hi - lo + Len(q)
             /\ SubSeq(s, 1, k) = Cut(m, lo, lo + k)
             /\ SubSeq(s, k + 1, Len(s)) = Cut(m, lo + k, hi) \o q
<1> DEFINE p == Cut(m, lo, hi)
<1> DEFINE s == p \o q
<1> DEFINE h == Cut(m, lo, lo + k)
<1> DEFINE r == Cut(m, lo + k, hi)
<1>1. All \in Nat /\ lo \in Nat /\ hi \in Nat /\ k \in Nat /\ lo + k <= hi /\ hi <= All /\ k >= 1
  BY SetupSize
<1>2. lo + k \in 0 .. All /\ hi \in 0 .. All /\ lo + k \in lo .. All /\ hi \in lo + k .. All
  BY <1>1
<1>3. p \in Seq(Units) /\ Len(p) = hi - lo
  BY <1>1, <1>2, CutLength
<1>4. h \in Seq(Units) /\ Len(h) = k /\ r \in Seq(Units) /\ Len(r) = hi - lo - k
  <2>1. lo <= lo + k /\ lo + k <= hi
    BY <1>1
  <2>2. h \in Seq(Units) /\ Len(h) = (lo + k) - lo
    BY <1>2, <2>1, CutLength
  <2>3. r \in Seq(Units) /\ Len(r) = hi - (lo + k)
    BY <1>2, <2>1, CutLength
  <2> QED
    BY <1>1, <2>2, <2>3
<1>5. p = h \o r
  BY <1>2, CutJoin
<1> HIDE DEF p, h, r
<1>n. Len(q) \in Nat
  BY LenProperties
<1>6. s = h \o (r \o q) /\ r \o q \in Seq(Units) /\ Len(r \o q) = hi - lo - k + Len(q)
  <2>1. (h \o r) \o q = h \o (r \o q)
    BY <1>4, ConcatAssociative
  <2>2. r \o q \in Seq(Units) /\ Len(r \o q) = Len(r) + Len(q)
    BY <1>4, ConcatProperties
  <2> QED
    BY <1>4, <1>5, <2>1, <2>2
<1>7. s \in Seq(Units) /\ Len(s) = hi - lo + Len(q)
  BY <1>3, ConcatProperties
<1>8. SubSeq(s, 1, k) = h
  <2>1. 1 \in 1 .. Len(h) /\ k \in 1 .. Len(h)
    BY <1>1, <1>4
  <2>2. SubSeq(h \o (r \o q), 1, k) = SubSeq(h, 1, k)
    BY <1>4, <1>6, <2>1, SubSeqOfConcat1
  <2> QED
    BY <1>4, <1>6, <2>2, SubSeqFull
<1>9. SubSeq(s, k + 1, Len(s)) = r \o q
  <2>1. CASE Len(r \o q) = 0
    <3>1. r \o q = <<>> /\ k + 1 > Len(s)
      BY <1>1, <1>6, <1>7, <2>1
    <3> QED
      BY <1>1, <1>7, <3>1, SubSeqEmpty
  <2>2. CASE Len(r \o q) # 0
    <3>1. /\ k + 1 \in Len(h) + 1 .. Len(h) + Len(r \o q)
          /\ Len(s) \in Len(h) + 1 .. Len(h) + Len(r \o q)
      <4> DEFINE x == Len(h)
                 y == Len(r \o q)
                 z == Len(s)
      <4>1. x = k /\ y = hi - lo - k + Len(q) /\ z = hi - lo + Len(q) /\ y # 0
        BY <1>4, <1>6, <1>7, <2>2
      <4> HIDE DEF x, y, z
      <4>2. y > 0
        BY <1>1, <1>n, <4>1
      <4>3. k + 1 \in x + 1 .. x + y /\ z \in x + 1 .. x + y
        BY <1>1, <1>n, <4>1, <4>2
      <4> QED
        BY <4>3 DEF x, y, z
    <3>2. SubSeq(h \o (r \o q), k + 1, Len(s)) = SubSeq(r \o q, k + 1 - Len(h), Len(s) - Len(h))
      <4> DEFINE t == r \o q
      <4>1. t \in Seq(Units) /\ h \in Seq(Units)
        BY <1>4, <1>6
      <4>2. k + 1 \in Len(h) + 1 .. Len(h) + Len(t) /\ Len(s) \in Len(h) + 1 .. Len(h) + Len(t)
        BY <3>1
      <4> HIDE DEF t, s
      <4>3. SubSeq(h \o t, k + 1, Len(s)) = SubSeq(t, k + 1 - Len(h), Len(s) - Len(h))
        BY <4>1, <4>2, SubSeqOfConcat2
      <4> QED
        BY <4>3 DEF t
    <3>3. k + 1 - Len(h) = 1 /\ Len(s) - Len(h) = Len(r \o q)
      BY <1>1, <1>4, <1>6, <1>7, <1>n
    <3> QED
      BY <1>6, <3>2, <3>3, SubSeqFull
  <2> QED
    BY <2>1, <2>2
<1> QED
  BY <1>7, <1>8, <1>9 DEF p, h, r

(* Messages do not change with the state. *)
LEMMA CutSame ==
  ASSUME setup' = setup
  PROVE  /\ All' = All
         /\ \A m, lo, hi : Cut(m, lo, hi)' = Cut(m, lo, hi)
BY DEF All, Cut, UnitsOf

-----------------------------------------------------------------------------
(* What the steps do *)

Same(w) == pc'[w] = pc[w] /\ rem'[w] = rem[w] /\ got'[w] = got[w] /\ ret'[w] = ret[w]
Sets(w, at, n, g, r) == pc'[w] = at /\ rem'[w] = n /\ got'[w] = g /\ ret'[w] = r
Others(W) ==
  /\ DOMAIN pc' = Works /\ DOMAIN rem' = Works /\ DOMAIN got' = Works /\ DOMAIN ret' = Works
  /\ \A w \in Works \ W : Same(w)
NetSame == UNCHANGED <<up, down, alive, backlog, peer>>
LightSame == UNCHANGED <<msg_q, handler, round, answered>>
RestSame == UNCHANGED <<setup, strays, crashed>>

(* A work runs until it suspends, in a place of its own. *)
Runs(w, at, n, g) ==
  /\ Sets(w, at, n, g, Unset) /\ Others({w}) /\ Taken(w, <<>>)
  /\ NetSame /\ RestSame
Plain(w, at, n, g) == Runs(w, at, n, g) /\ LightSame
(* The io thread ends what it waits for. *)
Completes(w, g, r) ==
  /\ Sets(w, pc[w], rem[w], g, r) /\ Others({w}) /\ AddSelfBack(w)
  /\ LightSame /\ RestSame

(* It has what it sends on the wire, before it ends. *)
Gives(w, r) ==
  /\ Sets(w, pc[w], rem[w], got[w], r) /\ Others({w}) /\ works_q' = works_q
  /\ LightSame /\ RestSame
Confirms(w) == Sending(w) /\ Completes(w, got[w], Unset - ret[w]) /\ NetSame

Moving(w) == Writing(w) \/ Reading(w)
Continues(w) ==
  /\ Moving(w) /\ ret[w] > 0
  /\ \/ ret[w] < rem[w] /\ Plain(w, pc[w], rem[w] - ret[w], got[w])
     \/ /\ ret[w] = rem[w] /\ AtHeader(w)
        /\ Plain(w, IF pc[w] = "whdr" THEN "wbody" ELSE "rbody", setup.body, got[w])
Fails(w) ==
  /\ Moving(w) /\ ret[w] = Unset /\ Conn(w) \notin alive
  /\ Completes(w, got[w], -1) /\ NetSame

Sent(w, k) == SubSeq(Outgoing(w), NextUnit(w), NextUnit(w) + k - 1)
SendsUp(c, w) ==
  \E k \in 1 .. rem[w] :
    /\ Writing(w) /\ ret[w] = Unset /\ c \in alive
    /\ Gives(w, OnWire(k))
    /\ up' = [up EXCEPT ![c] = @ \o Sent(w, k)] /\ UNCHANGED <<down, alive, backlog, peer>>
SendsDown(c) ==
  \E k \in 1 .. rem[Srv(c)] :
    /\ Writing(Srv(c)) /\ ret[Srv(c)] = Unset /\ c \in alive
    /\ Gives(Srv(c), OnWire(k))
    /\ down' = [down EXCEPT ![c] = @ \o Sent(Srv(c), k)] /\ UNCHANGED <<up, alive, backlog, peer>>

(* Some units are taken from the front of a stream. *)
Takes(w, s, k) ==
  /\ Reading(w) /\ ret[w] = Unset /\ ~Busy(w)
  /\ k \in 1 .. rem[w] /\ k <= Len(s)
  /\ Completes(w, got[w] \o SubSeq(s, 1, k), k)
HearsUp(c, w) ==
  \E k \in Nat :
    /\ c \in alive /\ Takes(w, up[c], k)
    /\ up' = [up EXCEPT ![c] = SubSeq(up[c], k + 1, Len(up[c]))]
    /\ UNCHANGED <<down, alive, backlog, peer>>
HearsDown(c) ==
  \E k \in Nat :
    /\ c \in alive /\ Takes(Rcv(c), down[c], k)
    /\ down' = [down EXCEPT ![c] = SubSeq(down[c], k + 1, Len(down[c]))]
    /\ UNCHANGED <<up, alive, backlog, peer>>

Timed(w) == pc[w] = "timer" /\ ret[w] = Unset /\ Completes(w, got[w], 0) /\ NetSame
Connected(c) ==
  /\ pc[Clt(c)] = "connect" /\ ret[Clt(c)] = Unset /\ pc[Acc] \notin {"new", "done"}
  /\ Completes(Clt(c), got[Clt(c)], 0)
  /\ alive' = alive \cup {c} /\ backlog' = Append(backlog, c) /\ UNCHANGED <<up, down, peer>>
Refused(c) ==
  /\ pc[Clt(c)] = "connect" /\ ret[Clt(c)] = Unset
  /\ Completes(Clt(c), got[Clt(c)], -1) /\ NetSame
Accepted ==
  /\ pc[Acc] = "accept" /\ ret[Acc] = Unset /\ backlog # <<>>
  /\ Completes(Acc, got[Acc], 0)
  /\ peer' = Head(backlog) /\ backlog' = Tail(backlog) /\ UNCHANGED <<up, down, alive>>
Broken(c) ==
  /\ c \in alive /\ alive' = alive \ {c}
  /\ up' = [up EXCEPT ![c] = <<>>] /\ down' = [down EXCEPT ![c] = <<>>]
  /\ Others({}) /\ UNCHANGED <<works_q, backlog, peer>> /\ LightSame /\ RestSame

Dials(c) == pc[Clt(c)] = "new" /\ Plain(Clt(c), "connect", 0, got[Clt(c)])
Greets(c) ==
  pc[Clt(c)] = "connect" /\ ret[Clt(c)] = 0 /\ Plain(Clt(c), "whdr", HdrLen, got[Clt(c)])
Crashes(c) ==
  /\ pc[Clt(c)] = "connect" /\ ret[Clt(c)] = -1
  /\ Sets(Clt(c), "done", 0, got[Clt(c)], Unset) /\ Others({Clt(c)})
  /\ Taken(Clt(c), <<Req(c), Rcv(c)>>) /\ crashed' = crashed \cup {c}
  /\ NetSame /\ LightSame /\ UNCHANGED <<setup, strays>>
Begins(c) ==
  /\ Writing(Clt(c)) /\ Ended(Clt(c))
  /\ pc'[Clt(c)] = "done" /\ pc'[Req(c)] = "new" /\ pc'[Rcv(c)] = "new"
  /\ rem' = rem /\ got' = got /\ ret' = ret
  /\ DOMAIN pc' = Works
  /\ \A w \in Works \ {Clt(c), Req(c), Rcv(c)} : pc'[w] = pc[w]
  /\ Taken(Clt(c), <<Req(c), Rcv(c)>>) /\ NetSame /\ LightSame /\ RestSame

Requests(c) ==
  /\ pc[Req(c)] = "new" \/ (pc[Req(c)] = "timer" /\ ret[Req(c)] = 0)
  /\ Runs(Req(c), "whdr", HdrLen, got[Req(c)])
  /\ round' = [round EXCEPT ![c] = @ + 1] /\ UNCHANGED <<msg_q, handler, answered>>
Stops(c) == Writing(Req(c)) /\ ret[Req(c)] = -1 /\ Plain(Req(c), "done", 0, got[Req(c)])
(* A work that asks its light channel for a message. *)
Receives(w) == \/ Writing(w) /\ Ended(w) /\ (w[1] = "request" => ret[w] # -1)
               \/ pc[w] = "new" /\ w[1] = "serve"
Uses(c, m) ==
  /\ answered' = [answered EXCEPT ![c] = m[2]] /\ UNCHANGED <<handler, round>>
  /\ Runs(Req(c), "timer", 0, got[Req(c)])
Serves(c, m) ==
  /\ UNCHANGED <<handler, round, answered>>
  /\ Runs(Srv(c), "whdr", HdrLen, <<m[2]>>)
Gets(w) ==
  /\ Receives(w) \/ (pc[w] = "wait" /\ ret[w] = 0)
  /\ msg_q[w] # <<>> /\ msg_q' = [msg_q EXCEPT ![w] = Tail(@)]
  /\ \/ w[1] = "request" /\ Uses(w[2], Head(msg_q[w]))
     \/ w[1] = "serve" /\ Serves(w[2], Head(msg_q[w]))
Sleeps(w) ==
  /\ Receives(w) /\ msg_q[w] = <<>> /\ handler' = handler \cup {w}
  /\ Runs(w, "wait", 0, got[w]) /\ UNCHANGED <<msg_q, round, answered>>
GivesUp(w) ==
  /\ pc[w] = "wait" /\ ret[w] = 0 /\ msg_q[w] = <<>>
  /\ \E at \in {"timer", "done"} : (at = "timer" <=> w[1] = "request") /\ Plain(w, at, 0, got[w])

Listens == pc[Acc] = "new" /\ \E at \in {"accept", "done"} : Plain(Acc, at, 0, got[Acc])
ReadsFirst == pc[Acc] = "accept" /\ ret[Acc] = 0 /\ peer \in alive /\ Plain(Acc, "rhdr", HdrLen, <<>>)
Dies ==
  /\ pc[Acc] = "accept" /\ ret[Acc] = 0 /\ peer \notin alive
  /\ Sets(Acc, "done", 0, got[Acc], Unset) /\ Others({Acc}) /\ Taken(Acc, <<>>)
  /\ crashed' = crashed \cup {Server} /\ alive' = {}
  /\ UNCHANGED <<setup, strays, up, down, backlog, peer>> /\ LightSame
SetsUp ==
  /\ Reading(Acc) /\ Ended(Acc)
  /\ Sets(Acc, "accept", rem[Acc], <<>>, Unset)
  /\ pc'[Srcv(peer)] = "new" /\ rem'[Srcv(peer)] = rem[Srcv(peer)]
  /\ got'[Srcv(peer)] = got[Srcv(peer)] /\ ret'[Srcv(peer)] = ret[Srcv(peer)]
  /\ Others({Acc, Srcv(peer)}) /\ Taken(Acc, <<Srcv(peer)>>)
  /\ peer' = None /\ UNCHANGED <<up, down, alive, backlog>> /\ LightSame /\ RestSame

ReadsOn(w) == pc[w] = "new" /\ Plain(w, "rhdr", HdrLen, <<>>)
Leaves(w) == Reading(w) /\ ret[w] = -1 /\ Plain(w, "done", 0, got[w])
(* A message read by w is dealt to the light channel end v. *)
Deals(w, v, fresh) ==
  /\ Reading(w) /\ ret[w] # -1 /\ Ended(w) /\ Deal(v, Message(w))
  /\ Taken(w, (IF fresh THEN <<v>> ELSE <<>>) \o Woken(v))
  /\ Sets(w, "rhdr", HdrLen, <<>>, Unset)
  /\ pc'[v] = (IF fresh THEN "new" ELSE pc[v]) /\ rem'[v] = rem[v] /\ got'[v] = got[v]
  /\ ret'[v] = (IF v \in handler THEN 0 ELSE ret[v])
  /\ Others({w, v}) /\ NetSame /\ UNCHANGED <<round, answered, setup, crashed>>

(* The steps of the works of a connection, of the accepting work, and of connections. *)
ClientSide(c) ==
  \/ \E w \in {Clt(c), Req(c)} : Continues(w) \/ Fails(w) \/ Confirms(w) \/ SendsUp(c, w)
  \/ Continues(Rcv(c)) \/ Fails(Rcv(c)) \/ HearsDown(c)
  \/ Connected(c) \/ Refused(c) \/ Dials(c) \/ Greets(c) \/ Crashes(c) \/ Begins(c)
  \/ Requests(c) \/ Stops(c) \/ Gets(Req(c)) \/ Sleeps(Req(c)) \/ GivesUp(Req(c)) \/ Timed(Req(c))
  \/ ReadsOn(Rcv(c)) \/ Leaves(Rcv(c)) \/ Deals(Rcv(c), Req(c), FALSE)
ServerSide(c) ==
  \/ \E w \in {Srcv(c), Srv(c)} : Continues(w) \/ Fails(w)
  \/ SendsDown(c) \/ Confirms(Srv(c)) \/ HearsUp(c, Srcv(c))
  \/ Gets(Srv(c)) \/ Sleeps(Srv(c)) \/ GivesUp(Srv(c))
  \/ ReadsOn(Srcv(c)) \/ Leaves(Srcv(c))
  \/ Deals(Srcv(c), Srv(c), pc[Srv(c)] = "none")
AccSide ==
  \/ Continues(Acc) \/ Fails(Acc) \/ HearsUp(peer, Acc)
  \/ Accepted \/ Listens \/ ReadsFirst \/ Dies \/ SetsUp
Effect ==
  \/ \E c \in Clients : ClientSide(c) \/ ServerSide(c) \/ Broken(c)
  \/ AccSide

(* The works that write, read, wait and sleep. *)
LEMMA Kinds ==
  ASSUME TypeInv, NEW w \in Works
  PROVE  /\ Writing(w) => w[1] \in {"client", "request", "serve"}
         /\ Reading(w) => w[1] \in {"recv", "srecv", "accept"}
         /\ pc[w] = "timer" => w[1] = "request"
         /\ pc[w] = "connect" => w[1] = "client"
         /\ pc[w] = "wait" => w[1] \in {"request", "serve"}
         /\ pc[w] = "accept" => w[1] = "accept"
<1>1. w[1] \in {"client", "request", "recv", "srecv", "serve", "accept"}
  BY DEF Works
<1>2. pc[w] \in PlacesOf(w[1])
  BY DEF TypeInv, WorkInv, Sound
<1> QED
  BY <1>1, <1>2 DEF PlacesOf, Writing, Reading

LEMMA SuspendEffect ==
  ASSUME TypeInv, NEW w \in Works, NEW at, NEW n, NEW g,
         SuspendIn(w, at, n), got' = [got EXCEPT ![w] = g]
  PROVE  Sets(w, at, n, g, Unset) /\ Others({w})
BY DEF SuspendIn, TypeInv, WorkType, Sets, Others, Same

LEMMA SuspendSame ==
  ASSUME TypeInv, NEW w \in Works, NEW at, NEW n, Suspend(w, at, n)
  PROVE  Sets(w, at, n, got[w], Unset) /\ Others({w})
BY DEF Suspend, SuspendIn, TypeInv, WorkType, Sets, Others, Same

LEMMA PlainEffect ==
  ASSUME TypeInv, NEW w \in Works, NEW at, NEW n, Suspend(w, at, n), Taken(w, <<>>),
         UNCHANGED <<setup, nvars, peer, lvars, round, answered, strays, crashed>>
  PROVE  Plain(w, at, n, got[w])
BY SuspendSame DEF Plain, Runs, NetSame, LightSame, RestSame, nvars, lvars

LEMMA GoOnEffect ==
  ASSUME TypeInv, NEW w \in Works, GoOn(w), setup' = setup
  PROVE  Continues(w)
<1>1. CASE ret[w] < rem[w] /\ Suspend(w, pc[w], rem[w] - ret[w])
  BY <1>1, PlainEffect DEF GoOn, Continues, Moving
<1>2. CASE /\ ret[w] = rem[w] /\ pc[w] \in {"whdr", "rhdr"}
           /\ Suspend(w, IF pc[w] = "whdr" THEN "wbody" ELSE "rbody", setup.body)
  BY <1>2, PlainEffect DEF GoOn, Continues, Moving, AtHeader
<1> QED
  BY <1>1, <1>2 DEF GoOn

LEMMA CompleteEffect ==
  ASSUME TypeInv, NEW w \in Works, NEW r, AddSelfBack(w), ret' = [ret EXCEPT ![w] = r],
         UNCHANGED <<setup, pc, rem, got, lvars, round, answered, strays, crashed>>
  PROVE  Completes(w, got[w], r)
BY DEF Completes, Sets, Others, Same, LightSame, RestSame, lvars, TypeInv, WorkType

LEMMA IoWriteEffect ==
  ASSUME TypeInv, NEW w \in Works, IoWrite(w), setup' = setup
  PROVE  \/ Fails(w)
         \/ \E c \in Clients : (w = Clt(c) \/ w = Req(c)) /\ SendsUp(c, w)
         \/ \E c \in Clients : w = Srv(c) /\ SendsDown(c)
<1>1. w[1] \in {"client", "request", "serve"}
  BY Kinds DEF IoWrite
<1>2. PICK c \in Clients : w = Clt(c) \/ w = Req(c) \/ w = Srv(c)
  BY <1>1, WorkCases, AccName
<1>3. Conn(w) = c /\ w[2] = c /\ (w[1] = "serve" <=> w = Srv(c))
  BY <1>2, Names, Different
<1>4. CASE Conn(w) \notin alive /\ ret' = [ret EXCEPT ![w] = -1] /\ AddSelfBack(w) /\ UNCHANGED <<up, down>>
  BY <1>4, CompleteEffect DEF IoWrite, Fails, Moving, NetSame
<1>5. CASE /\ Conn(w) \in alive /\ UNCHANGED works_q
           /\ \E k \in 1 .. rem[w] :
                LET units == SubSeq(Outgoing(w), NextUnit(w), NextUnit(w) + k - 1)
                IN /\ ret' = [ret EXCEPT ![w] = OnWire(k)]
                   /\ IF w[1] = "serve"
                      THEN down' = [down EXCEPT ![w[2]] = @ \o units] /\ UNCHANGED up
                      ELSE up' = [up EXCEPT ![w[2]] = @ \o units] /\ UNCHANGED down
  <2>1. PICK k \in 1 .. rem[w] :
          /\ ret' = [ret EXCEPT ![w] = OnWire(k)]
          /\ IF w[1] = "serve"
             THEN down' = [down EXCEPT ![w[2]] = @ \o Sent(w, k)] /\ UNCHANGED up
             ELSE up' = [up EXCEPT ![w[2]] = @ \o Sent(w, k)] /\ UNCHANGED down
    BY <1>5 DEF Sent
  <2>2. Gives(w, OnWire(k)) /\ UNCHANGED <<alive, backlog, peer>>
    BY <1>5, <2>1 DEF IoWrite, Gives, Sets, Others, Same, LightSame, RestSame, lvars, TypeInv, WorkType
  <2>3. Writing(w) /\ ret[w] = Unset /\ c \in alive
    BY <1>3, <1>5 DEF IoWrite
  <2>4. CASE w = Srv(c)
    BY <1>3, <2>1, <2>2, <2>3, <2>4 DEF SendsDown
  <2>5. CASE w # Srv(c)
    BY <1>2, <1>3, <2>1, <2>2, <2>3, <2>5 DEF SendsUp
  <2> QED
    BY <2>4, <2>5
<1> QED
  BY <1>4, <1>5 DEF IoWrite

LEMMA IoWrittenEffect ==
  ASSUME TypeInv, NEW w \in Works, IoWritten(w), setup' = setup
  PROVE  Confirms(w) /\ \E c \in Clients : w = Clt(c) \/ w = Req(c) \/ w = Srv(c)
<1>1. w[1] \in {"client", "request", "serve"}
  BY Kinds DEF IoWritten, Sending
<1>2. \E c \in Clients : w = Clt(c) \/ w = Req(c) \/ w = Srv(c)
  BY <1>1, WorkCases, AccName
<1>3. ret' = [ret EXCEPT ![w] = Unset - ret[w]]
  BY DEF IoWritten
<1> QED
  BY <1>2, <1>3, CompleteEffect DEF IoWritten, Confirms, NetSame, nvars

LEMMA IoReadEffect ==
  ASSUME TypeInv, NEW w \in Works, IoRead(w), setup' = setup
  PROVE  \/ Fails(w)
         \/ \E c \in Clients : w = Rcv(c) /\ HearsDown(c)
         \/ \E c \in Clients : w = Srcv(c) /\ HearsUp(c, Srcv(c))
         \/ w = Acc /\ HearsUp(peer, Acc)
<1>0. Reading(w) /\ ret[w] = Unset /\ ~Busy(w) /\ AddSelfBack(w)
      /\ UNCHANGED <<setup, pc, rem, alive, backlog, peer, lvars, round, answered, strays, crashed>>
  BY DEF IoRead
<1>1. w[1] \in {"recv", "srecv", "accept"}
  BY <1>0, Kinds
<1>2. CASE Conn(w) \notin alive
  <2>1. ret' = [ret EXCEPT ![w] = -1] /\ UNCHANGED <<got, up, down>>
    BY <1>2 DEF IoRead
  <2>2. Completes(w, got[w], -1)
    BY <1>0, <2>1, CompleteEffect
  <2> QED
    BY <1>0, <1>2, <2>1, <2>2 DEF Fails, Moving, NetSame
<1>3. CASE Conn(w) \in alive
  <2> DEFINE c == Conn(w)
             s == IF w[1] = "recv" THEN down[c] ELSE up[c]
             k == IF rem[w] < Len(s) THEN rem[w] ELSE Len(s)
  <2>1. /\ s # <<>>
        /\ ret' = [ret EXCEPT ![w] = k]
        /\ got' = [got EXCEPT ![w] = @ \o SubSeq(s, 1, k)]
        /\ IF w[1] = "recv" THEN down' = [down EXCEPT ![c] = SubSeq(s, k + 1, Len(s))] /\ UNCHANGED up
           ELSE up' = [up EXCEPT ![c] = SubSeq(s, k + 1, Len(s))] /\ UNCHANGED down
    BY <1>3 DEF IoRead
  <2>2. c \in alive /\ c \in Clients
    BY <1>3 DEF TypeInv, NetType
  <2>3. s \in Seq(Units) /\ rem[w] \in Nat \ {0}
    <3>1. s \in Seq(Units)
      BY <2>2 DEF TypeInv, NetType
    <3>2. rem[w] \in 1 .. Part(w) /\ Part(w) \in Nat
      BY <1>0, SetupSize, Constants DEF TypeInv, WorkInv, Sound, ResultOf, Part, WorkType
    <3> QED
      BY <3>1, <3>2
  <2>4. k \in 1 .. rem[w] /\ k <= Len(s) /\ k \in Nat
    <3>1. Len(s) \in Nat \ {0}
      BY <2>1, <2>3, EmptySeq
    <3> QED
      BY <2>3, <3>1
  <2> HIDE DEF k
  <2>5. Completes(w, got[w] \o SubSeq(s, 1, k), k)
    BY <1>0, <2>1 DEF Completes, Sets, Others, Same, LightSame, RestSame, lvars, TypeInv, WorkType
  <2>6. Takes(w, s, k)
    BY <1>0, <2>4, <2>5 DEF Takes
  <2>7. CASE w[1] = "recv"
    <3>1. w = Rcv(w[2]) /\ w[2] \in Clients /\ c = w[2]
      BY <2>7, WorkCases, AccName, Names
    <3>2. HearsDown(w[2])
      BY <1>0, <2>1, <2>2, <2>4, <2>6, <2>7, <3>1 DEF HearsDown
    <3> QED
      BY <3>1, <3>2
  <2>8. CASE w[1] # "recv"
    <3>1. HearsUp(c, w)
      BY <1>0, <2>1, <2>2, <2>4, <2>6, <2>8 DEF HearsUp
    <3>2. (w = Srcv(w[2]) /\ w[2] \in Clients /\ c = w[2]) \/ (w = Acc /\ c = peer)
      BY <1>1, <2>8, WorkCases, AccName, Names
    <3> QED
      BY <3>1, <3>2
  <2> QED
    BY <2>7, <2>8
<1> QED
  BY <1>2, <1>3

LEMMA TimerEffect ==
  ASSUME TypeInv, NEW w \in Works, IoTimer(w), setup' = setup
  PROVE  \E c \in Clients : w = Req(c) /\ Timed(Req(c))
<1>1. w[1] = "request"
  BY Kinds DEF IoTimer
<1>2. PICK c \in Clients : w = Req(c)
  BY <1>1, WorkCases, AccName
<1>3. Completes(w, got[w], 0)
  BY CompleteEffect DEF IoTimer, nvars
<1> QED
  BY <1>2, <1>3 DEF IoTimer, Timed, NetSame, nvars

LEMMA ConnectEffect ==
  ASSUME TypeInv, NEW c \in Clients, IoConnect(c), setup' = setup
  PROVE  Connected(c) \/ Refused(c)
<1>1. Clt(c) \in Works /\ Clt(c) = <<"client", c>> /\ Acc = <<"accept", Server>>
  BY Names DEF Clt, Acc
<1>2. CASE /\ pc[Acc] \notin {"new", "done"}
           /\ ret' = [ret EXCEPT ![Clt(c)] = 0]
           /\ alive' = alive \cup {c} /\ backlog' = Append(backlog, c)
  <2>1. Completes(Clt(c), got[Clt(c)], 0)
    BY <1>1, <1>2, CompleteEffect DEF IoConnect
  <2> QED
    BY <1>1, <1>2, <2>1 DEF IoConnect, Connected
<1>3. CASE ret' = [ret EXCEPT ![Clt(c)] = -1] /\ UNCHANGED <<alive, backlog>>
  <2>1. Completes(Clt(c), got[Clt(c)], -1)
    BY <1>1, <1>3, CompleteEffect DEF IoConnect
  <2> QED
    BY <1>1, <1>3, <2>1 DEF IoConnect, Refused, NetSame
<1> QED
  BY <1>1, <1>2, <1>3 DEF IoConnect

LEMMA AcceptEffect ==
  ASSUME TypeInv, IoAccept, setup' = setup
  PROVE  Accepted
<1>1. Acc \in Works /\ Acc = <<"accept", Server>>
  BY AccName DEF Acc
<1>2. Completes(Acc, got[Acc], 0)
  BY <1>1, CompleteEffect DEF IoAccept
<1> QED
  BY <1>1, <1>2 DEF IoAccept, Accepted

LEMMA BreakEffect ==
  ASSUME TypeInv, NEW c \in Clients, Break(c), setup' = setup
  PROVE  Broken(c)
BY DEF Break, Broken, Others, Same, LightSame, RestSame, wvars, lvars, TypeInv, WorkType

LEMMA ClientEffect ==
  ASSUME TypeInv, NEW c \in Clients, ClientWork(c), setup' = setup,
         UNCHANGED <<nvars, peer, lvars, round, answered, strays>>
  PROVE  ClientSide(c)
<1> DEFINE w == Clt(c)
<1>1. /\ Clt(c) = <<"client", c>> /\ Req(c) = <<"request", c>> /\ Rcv(c) = <<"recv", c>>
      /\ Clt(c) \in Works /\ Req(c) \in Works /\ Rcv(c) \in Works
  BY Names DEF Clt, Req, Rcv
<1>2. CASE Connect(w) /\ Taken(w, <<>>) /\ UNCHANGED crashed
  <2>1. CASE pc[w] = "new" /\ Suspend(w, "connect", 0)
    BY <1>1, <1>2, <2>1, PlainEffect DEF Dials, ClientSide
  <2>2. CASE pc[w] = "connect" /\ ret[w] = 0 /\ Write(w)
    BY <1>1, <1>2, <2>2, PlainEffect DEF Greets, ClientSide, Write
  <2> QED
    BY <1>2, <2>1, <2>2 DEF Connect
<1>3. CASE /\ pc[w] = "connect" /\ ret[w] = -1 /\ Finish(w) /\ Taken(w, <<Req(c), Rcv(c)>>)
           /\ crashed' = crashed \cup {c}
  <2>1. Sets(w, "done", 0, got[w], Unset) /\ Others({w})
    BY <1>1, <1>3, SuspendSame DEF Finish
  <2> QED
    BY <1>3, <2>1 DEF Crashes, ClientSide, NetSame, LightSame, nvars, lvars
<1>4. CASE /\ Writing(w) /\ Ended(w) /\ Taken(w, <<Req(c), Rcv(c)>>)
           /\ pc' = [pc EXCEPT ![w] = "done", ![Req(c)] = "new", ![Rcv(c)] = "new"]
           /\ UNCHANGED <<rem, got, ret, crashed>>
  <2>1. w # Req(c) /\ w # Rcv(c) /\ Req(c) # Rcv(c)
    BY Different
  <2>2. /\ pc'[w] = "done" /\ pc'[Req(c)] = "new" /\ pc'[Rcv(c)] = "new" /\ DOMAIN pc' = Works
        /\ \A v \in Works \ {w, Req(c), Rcv(c)} : pc'[v] = pc[v]
    BY <1>1, <1>4, <2>1 DEF TypeInv, WorkType
  <2> QED
    BY <1>4, <2>2 DEF Begins, ClientSide, NetSame, LightSame, RestSame, nvars, lvars
<1> QED
  BY <1>1, <1>2, <1>3, <1>4 DEF ClientWork

LEMMA LightRecvEffect ==
  ASSUME TypeInv, NEW w \in LightWorks, Receives(w), LightRecv(w), Taken(w, <<>>),
         UNCHANGED <<setup, nvars, peer, round, strays, crashed>>
  PROVE  Gets(w) \/ Sleeps(w)
<1>0. w \in Works
  BY LightNames
<1>1. CASE msg_q[w] # <<>> /\ TakeMsg(w)
  <2>1. CASE w[1] = "request" /\ answered' = [answered EXCEPT ![w[2]] = Head(msg_q[w])[2]]
             /\ Suspend(w, "timer", 0)
    <3>1. Sets(w, "timer", 0, got[w], Unset) /\ Others({w}) /\ w = Req(w[2])
      BY <1>0, <2>1, SuspendSame, LightNames
    <3> QED
      BY <1>1, <2>1, <3>1 DEF Gets, Uses, TakeMsg, Runs, NetSame, RestSame, nvars
  <2>2. CASE /\ w[1] = "serve" /\ UNCHANGED answered /\ SuspendIn(w, "whdr", HdrLen)
             /\ got' = [got EXCEPT ![w] = <<Head(msg_q[w])[2]>>]
    <3>1. Sets(w, "whdr", HdrLen, <<Head(msg_q[w])[2]>>, Unset) /\ Others({w}) /\ w = Srv(w[2])
      BY <1>0, <2>2, SuspendEffect, LightNames
    <3> QED
      BY <1>1, <2>2, <3>1 DEF Gets, Serves, TakeMsg, Runs, NetSame, RestSame, nvars
  <2> QED
    BY <1>1, <2>1, <2>2 DEF TakeMsg, UseMsg
<1>2. CASE /\ msg_q[w] = <<>> /\ handler' = handler \cup {w} /\ Suspend(w, "wait", 0)
           /\ UNCHANGED <<msg_q, answered>>
  <2>1. Sets(w, "wait", 0, got[w], Unset) /\ Others({w})
    BY <1>0, <1>2, SuspendSame
  <2> QED
    BY <1>2, <2>1 DEF Sleeps, Runs, NetSame, RestSame, nvars
<1> QED
  BY <1>1, <1>2 DEF LightRecv

LEMMA WokenEffect ==
  ASSUME TypeInv, NEW w \in LightWorks, pc[w] = "wait", ret[w] = 0, msg_q[w] # <<>>, TakeMsg(w),
         Taken(w, <<>>), UNCHANGED <<setup, nvars, peer, round, strays, crashed>>
  PROVE  Gets(w)
<1>0. w \in Works
  BY LightNames
<1>1. CASE w[1] = "request" /\ answered' = [answered EXCEPT ![w[2]] = Head(msg_q[w])[2]]
           /\ Suspend(w, "timer", 0)
  <2>1. Sets(w, "timer", 0, got[w], Unset) /\ Others({w}) /\ w = Req(w[2])
    BY <1>0, <1>1, SuspendSame, LightNames
  <2> QED
    BY <1>1, <2>1 DEF Gets, Uses, TakeMsg, Runs, NetSame, RestSame, nvars
<1>2. CASE /\ w[1] = "serve" /\ UNCHANGED answered /\ SuspendIn(w, "whdr", HdrLen)
           /\ got' = [got EXCEPT ![w] = <<Head(msg_q[w])[2]>>]
  <2>1. Sets(w, "whdr", HdrLen, <<Head(msg_q[w])[2]>>, Unset) /\ Others({w}) /\ w = Srv(w[2])
    BY <1>0, <1>2, SuspendEffect, LightNames
  <2> QED
    BY <1>2, <2>1 DEF Gets, Serves, TakeMsg, Runs, NetSame, RestSame, nvars
<1> QED
  BY <1>1, <1>2 DEF TakeMsg, UseMsg

LEMMA RequestEffect ==
  ASSUME TypeInv, NEW c \in Clients, RequestWork(c),
         UNCHANGED <<setup, nvars, peer, strays, crashed>>
  PROVE  ClientSide(c)
<1> DEFINE w == Req(c)
<1>1. w = <<"request", c>> /\ w \in Works /\ w \in LightWorks /\ w[1] = "request" /\ w[2] = c
  BY Names DEF Req
<1>2. Taken(w, <<>>)
  BY <1>1 DEF RequestWork
<1>3. CASE Request(c) /\ UNCHANGED <<lvars, answered>>
           /\ (pc[w] = "new" \/ (pc[w] = "timer" /\ ret[w] = 0))
  <2>1. Sets(w, "whdr", HdrLen, got[w], Unset) /\ Others({w})
    BY <1>1, <1>3, SuspendSame DEF Request, Write
  <2> QED
    BY <1>2, <1>3, <2>1 DEF Request, Requests, ClientSide, Runs, NetSame, RestSame, nvars, lvars
<1>4. CASE Writing(w) /\ ret[w] = -1 /\ Finish(w) /\ UNCHANGED <<lvars, round, answered>>
  <2>1. Plain(w, "done", 0, got[w])
    BY <1>1, <1>2, <1>4, PlainEffect DEF Finish
  <2> QED
    BY <1>4, <2>1 DEF Stops, ClientSide
<1>5. CASE Writing(w) /\ ret[w] # -1 /\ Ended(w) /\ LightRecv(w) /\ UNCHANGED round
  <2>1. Receives(w)
    BY <1>5 DEF Receives
  <2>2. Gets(w) \/ Sleeps(w)
    BY <1>1, <1>2, <1>5, <2>1, LightRecvEffect
  <2> QED
    BY <2>2 DEF ClientSide
<1>6. CASE pc[w] = "wait" /\ ret[w] = 0 /\ UNCHANGED round /\ msg_q[w] # <<>> /\ TakeMsg(w)
  <2>1. Gets(w)
    BY <1>1, <1>2, <1>6, WokenEffect
  <2> QED
    BY <2>1 DEF ClientSide
<1>7. CASE pc[w] = "wait" /\ ret[w] = 0 /\ UNCHANGED round /\ msg_q[w] = <<>>
           /\ Suspend(w, "timer", 0) /\ UNCHANGED <<lvars, answered>>
  <2>1. Plain(w, "timer", 0, got[w])
    BY <1>1, <1>2, <1>7, PlainEffect
  <2> QED
    BY <1>1, <1>7, <2>1 DEF GivesUp, ClientSide
<1> QED
  BY <1>1, <1>3, <1>4, <1>5, <1>6, <1>7 DEF RequestWork

LEMMA ServeEffect ==
  ASSUME TypeInv, NEW c \in Clients, ServeWork(c),
         UNCHANGED <<setup, nvars, peer, round, strays, crashed>>
  PROVE  ServerSide(c)
<1> DEFINE w == Srv(c)
<1>1. w = <<"serve", c>> /\ w \in Works /\ w \in LightWorks /\ w[1] = "serve" /\ w[2] = c
  BY Names DEF Srv
<1>2. Taken(w, <<>>)
  BY <1>1 DEF ServeWork
<1>3. CASE (pc[w] = "new" \/ (Writing(w) /\ Ended(w))) /\ LightRecv(w)
  <2>1. Receives(w)
    BY <1>1, <1>3 DEF Receives
  <2>2. Gets(w) \/ Sleeps(w)
    BY <1>1, <1>2, <1>3, <2>1, LightRecvEffect
  <2> QED
    BY <2>2 DEF ServerSide
<1>4. CASE pc[w] = "wait" /\ ret[w] = 0 /\ msg_q[w] # <<>> /\ TakeMsg(w)
  <2>1. Gets(w)
    BY <1>1, <1>2, <1>4, WokenEffect
  <2> QED
    BY <2>1 DEF ServerSide
<1>5. CASE pc[w] = "wait" /\ ret[w] = 0 /\ msg_q[w] = <<>> /\ Finish(w) /\ UNCHANGED <<lvars, answered>>
  <2>1. Plain(w, "done", 0, got[w])
    BY <1>1, <1>2, <1>5, PlainEffect DEF Finish
  <2> QED
    BY <1>1, <1>5, <2>1 DEF GivesUp, ServerSide
<1> QED
  BY <1>1, <1>3, <1>4, <1>5 DEF ServeWork

(* A receive work starts, ends, or deals a message. *)
PcSet(w, v, fresh) ==
  /\ DOMAIN pc' = Works /\ pc'[w] = "rhdr" /\ pc'[v] = (IF fresh THEN "new" ELSE pc[v])
  /\ \A u \in Works \ {w, v} : pc'[u] = pc[u]

LEMMA ReadEffect ==
  ASSUME TypeInv, NEW w \in Works, NEW v \in LightWorks, v # w, NEW fresh \in BOOLEAN,
         UNCHANGED <<setup, nvars, peer, round, answered, crashed>>,
         \/ pc[w] = "new" /\ Read(w) /\ Taken(w, <<>>) /\ UNCHANGED <<lvars, strays>>
         \/ Reading(w) /\ ret[w] = -1 /\ Finish(w) /\ Taken(w, <<>>) /\ UNCHANGED <<lvars, strays>>
         \/ /\ Reading(w) /\ ret[w] # -1 /\ Ended(w)
            /\ Deal(v, Message(w))
            /\ Taken(w, (IF fresh THEN <<v>> ELSE <<>>) \o Woken(v))
            /\ PcSet(w, v, fresh)
            /\ rem' = [rem EXCEPT ![w] = HdrLen] /\ got' = [got EXCEPT ![w] = <<>>]
            /\ ret' = [ret EXCEPT ![w] = Unset, ![v] = IF v \in handler THEN 0 ELSE @]
  PROVE  ReadsOn(w) \/ Leaves(w) \/ Deals(w, v, fresh)
<1>0. v \in Works
  BY LightNames
<1>1. CASE pc[w] = "new" /\ Read(w) /\ Taken(w, <<>>) /\ UNCHANGED <<lvars, strays>>
  <2>1. Sets(w, "rhdr", HdrLen, <<>>, Unset) /\ Others({w})
    BY <1>1, SuspendEffect DEF Read
  <2> QED
    BY <1>1, <2>1 DEF ReadsOn, Plain, Runs, NetSame, LightSame, RestSame, nvars, lvars
<1>2. CASE Reading(w) /\ ret[w] = -1 /\ Finish(w) /\ Taken(w, <<>>) /\ UNCHANGED <<lvars, strays>>
  BY <1>2, PlainEffect DEF Leaves, Finish
<1>3. CASE /\ Reading(w) /\ ret[w] # -1 /\ Ended(w)
           /\ Deal(v, Message(w))
           /\ Taken(w, (IF fresh THEN <<v>> ELSE <<>>) \o Woken(v))
           /\ PcSet(w, v, fresh)
           /\ rem' = [rem EXCEPT ![w] = HdrLen] /\ got' = [got EXCEPT ![w] = <<>>]
           /\ ret' = [ret EXCEPT ![w] = Unset, ![v] = IF v \in handler THEN 0 ELSE @]
  <2>1. DOMAIN pc = Works /\ DOMAIN rem = Works /\ DOMAIN got = Works /\ DOMAIN ret = Works
    BY DEF TypeInv, WorkType
  <2>2. /\ Sets(w, "rhdr", HdrLen, <<>>, Unset)
        /\ pc'[v] = (IF fresh THEN "new" ELSE pc[v]) /\ rem'[v] = rem[v] /\ got'[v] = got[v]
        /\ ret'[v] = (IF v \in handler THEN 0 ELSE ret[v])
        /\ Others({w, v})
    BY <1>0, <1>3, <2>1 DEF Sets, Others, Same, PcSet
  <2> QED
    BY <1>3, <2>2 DEF Deals, NetSame, nvars
<1> QED
  BY <1>1, <1>2, <1>3

LEMMA RecvEffect ==
  ASSUME TypeInv, NEW c \in Clients, RecvWork(c),
         UNCHANGED <<setup, nvars, peer, round, answered, crashed>>
  PROVE  ClientSide(c)
<1> DEFINE w == Rcv(c)
           v == Req(c)
<1>1. w = <<"recv", c>> /\ v = <<"request", c>> /\ w \in Works /\ v \in LightWorks /\ v # w
  BY Names, Different DEF Rcv, Req
<1>2. v \in Works /\ DOMAIN pc = Works
  BY <1>1, LightNames DEF TypeInv, WorkType
<1>3. \/ pc[w] = "new" /\ Read(w) /\ Taken(w, <<>>) /\ UNCHANGED <<lvars, strays>>
      \/ Reading(w) /\ ret[w] = -1 /\ Finish(w) /\ Taken(w, <<>>) /\ UNCHANGED <<lvars, strays>>
      \/ /\ Reading(w) /\ ret[w] # -1 /\ Ended(w)
         /\ Deal(v, Message(w)) /\ Taken(w, Woken(v))
         /\ pc' = [pc EXCEPT ![w] = "rhdr"] /\ rem' = [rem EXCEPT ![w] = HdrLen]
         /\ got' = [got EXCEPT ![w] = <<>>]
         /\ ret' = [ret EXCEPT ![w] = Unset, ![v] = IF v \in handler THEN 0 ELSE @]
  BY <1>1 DEF RecvWork
<1>4. <<>> \o Woken(v) = Woken(v)
  <2>1. Woken(v) \in Seq(LightWorks)
    BY <1>1 DEF Woken
  <2> QED
    BY <2>1, ConcatEmptySeq
<1>5. pc' = [pc EXCEPT ![w] = "rhdr"] => PcSet(w, v, FALSE)
  BY <1>1, <1>2 DEF PcSet
<1> HIDE DEF w, v
<1>6. ReadsOn(w) \/ Leaves(w) \/ Deals(w, v, FALSE)
  BY <1>1, <1>3, <1>4, <1>5, ReadEffect
<1> QED
  BY <1>6 DEF ClientSide, w, v

LEMMA ServerRecvEffect ==
  ASSUME TypeInv, NEW c \in Clients, ServerRecvWork(c),
         UNCHANGED <<setup, nvars, peer, round, answered, crashed>>
  PROVE  ServerSide(c)
<1> DEFINE w == Srcv(c)
           v == Srv(c)
           fresh == pc[v] = "none"
<1>1. w = <<"srecv", c>> /\ v = <<"serve", c>> /\ w \in Works /\ v \in LightWorks /\ v # w
  BY Names, Different DEF Srcv, Srv
<1>2. fresh \in BOOLEAN /\ fresh = NewLightChannel(c)
  BY <1>1 DEF NewLightChannel
<1>3. \/ pc[w] = "new" /\ Read(w) /\ Taken(w, <<>>) /\ UNCHANGED <<lvars, strays>>
      \/ Reading(w) /\ ret[w] = -1 /\ Finish(w) /\ Taken(w, <<>>) /\ UNCHANGED <<lvars, strays>>
      \/ /\ Reading(w) /\ ret[w] # -1 /\ Ended(w)
         /\ Deal(v, Message(w))
         /\ Taken(w, (IF fresh THEN <<v>> ELSE <<>>) \o Woken(v))
         /\ pc' = [pc EXCEPT ![w] = "rhdr", ![v] = IF fresh THEN "new" ELSE @]
         /\ rem' = [rem EXCEPT ![w] = HdrLen] /\ got' = [got EXCEPT ![w] = <<>>]
         /\ ret' = [ret EXCEPT ![w] = Unset, ![v] = IF v \in handler THEN 0 ELSE @]
  BY <1>1, <1>2 DEF ServerRecvWork
<1>5. v \in Works /\ DOMAIN pc = Works
  BY <1>1, LightNames DEF TypeInv, WorkType
<1> HIDE DEF w, v, fresh
<1>6. pc' = [pc EXCEPT ![w] = "rhdr", ![v] = IF fresh THEN "new" ELSE @] => PcSet(w, v, fresh)
  BY <1>1, <1>5 DEF PcSet
<1>4. ReadsOn(w) \/ Leaves(w) \/ Deals(w, v, fresh)
  BY <1>1, <1>2, <1>3, <1>6, ReadEffect
<1> QED
  BY <1>4 DEF ServerSide, w, v, fresh

LEMMA ServerEffect ==
  ASSUME TypeInv, ServerWork, UNCHANGED <<setup, lvars, round, answered, strays>>
  PROVE  AccSide
<1>1. Acc = <<"accept", Server>> /\ Acc \in Works
  BY AccName DEF Acc
<1>2. CASE Listen(Acc) /\ Taken(Acc, <<>>) /\ UNCHANGED <<nvars, peer, crashed>>
  BY <1>1, <1>2, PlainEffect DEF Listen, Finish, Listens, AccSide
<1>3. CASE Accept(Acc) /\ Taken(Acc, <<>>) /\ UNCHANGED <<nvars, peer, crashed>>
  <2>1. Sets(Acc, "rhdr", HdrLen, <<>>, Unset) /\ Others({Acc})
    BY <1>1, <1>3, SuspendEffect DEF Accept, Read
  <2> QED
    BY <1>3, <2>1 DEF Accept, ReadsFirst, AccSide, Plain, Runs, NetSame, LightSame, RestSame, nvars, lvars
<1>4. CASE /\ pc[Acc] = "accept" /\ ret[Acc] = 0 /\ peer \notin alive
           /\ Finish(Acc) /\ Taken(Acc, <<>>)
           /\ crashed' = crashed \cup {Server} /\ alive' = {}
           /\ UNCHANGED <<up, down, backlog, peer>>
  <2>1. Sets(Acc, "done", 0, got[Acc], Unset) /\ Others({Acc})
    BY <1>1, <1>4, SuspendSame DEF Finish
  <2> QED
    BY <1>4, <2>1 DEF Dies, AccSide, LightSame, lvars
<1>5. CASE /\ Reading(Acc) /\ Ended(Acc) /\ Taken(Acc, <<<<"srecv", peer>>>>)
           /\ pc' = [pc EXCEPT ![Acc] = "accept", ![<<"srecv", peer>>] = "new"]
           /\ ret' = [ret EXCEPT ![Acc] = Unset] /\ got' = [got EXCEPT ![Acc] = <<>>]
           /\ peer' = None /\ UNCHANGED <<rem, nvars, crashed>>
  <2>1. peer \in Clients
    BY <1>5 DEF TypeInv, NetType
  <2>2. Srcv(peer) = <<"srecv", peer>> /\ Srcv(peer) \in Works /\ Srcv(peer) # Acc
    BY <2>1, Names, Different DEF Srcv
  <2>3. /\ Sets(Acc, "accept", rem[Acc], <<>>, Unset)
        /\ pc'[Srcv(peer)] = "new" /\ rem'[Srcv(peer)] = rem[Srcv(peer)]
        /\ got'[Srcv(peer)] = got[Srcv(peer)] /\ ret'[Srcv(peer)] = ret[Srcv(peer)]
        /\ Others({Acc, Srcv(peer)})
    BY <1>1, <1>5, <2>2 DEF Sets, Others, Same, TypeInv, WorkType
  <2> QED
    BY <1>5, <2>2, <2>3 DEF SetsUp, AccSide, LightSame, RestSame, nvars, lvars
<1> QED
  BY <1>1, <1>2, <1>3, <1>4, <1>5 DEF ServerWork

(* Every step has one of the effects. *)
LEMMA StepEffect == ASSUME TypeInv, Next PROVE Effect
<1>0. setup' = setup
  BY DEF Next
<1>1. ASSUME NEW w \in Works, RunWork(w) PROVE Effect
  <2>1. CASE GoOn(w)
    <3>1. Continues(w)
      BY <1>0, <2>1, GoOnEffect
    <3> QED
      BY <3>1, WorkCases DEF Effect, ClientSide, ServerSide, AccSide
  <2>2. CASE w[1] = "client" /\ ClientWork(w[2])
             /\ UNCHANGED <<nvars, peer, lvars, round, answered, strays>>
    <3>1. w[2] \in Clients
      BY <2>2, WorkCases, AccName
    <3> QED
      BY <1>0, <2>2, <3>1, ClientEffect DEF Effect
  <2>3. CASE w[1] = "request" /\ RequestWork(w[2]) /\ UNCHANGED <<nvars, peer, strays, crashed>>
    <3>1. w[2] \in Clients
      BY <2>3, WorkCases, AccName
    <3> QED
      BY <1>0, <2>3, <3>1, RequestEffect DEF Effect
  <2>4. CASE w[1] = "recv" /\ RecvWork(w[2]) /\ UNCHANGED <<nvars, peer, round, answered, crashed>>
    <3>1. w[2] \in Clients
      BY <2>4, WorkCases, AccName
    <3> QED
      BY <1>0, <2>4, <3>1, RecvEffect DEF Effect
  <2>5. CASE w[1] = "accept" /\ ServerWork /\ UNCHANGED <<lvars, round, answered, strays>>
    BY <1>0, <2>5, ServerEffect DEF Effect
  <2>6. CASE w[1] = "srecv" /\ ServerRecvWork(w[2])
             /\ UNCHANGED <<nvars, peer, round, answered, crashed>>
    <3>1. w[2] \in Clients
      BY <2>6, WorkCases, AccName
    <3> QED
      BY <1>0, <2>6, <3>1, ServerRecvEffect DEF Effect
  <2>7. CASE w[1] = "serve" /\ ServeWork(w[2]) /\ UNCHANGED <<nvars, peer, round, strays, crashed>>
    <3>1. w[2] \in Clients
      BY <2>7, WorkCases, AccName
    <3> QED
      BY <1>0, <2>7, <3>1, ServeEffect DEF Effect
  <2> QED
    BY <1>1, <2>1, <2>2, <2>3, <2>4, <2>5, <2>6, <2>7 DEF RunWork
<1>2. ASSUME NEW w \in Works, Io(w) PROVE Effect
  <2>1. CASE IoWrite(w)
    <3>1. \/ Fails(w)
          \/ \E c \in Clients : (w = Clt(c) \/ w = Req(c)) /\ SendsUp(c, w)
          \/ \E c \in Clients : w = Srv(c) /\ SendsDown(c)
      BY <1>0, <2>1, IoWriteEffect
    <3> QED
      BY <3>1, WorkCases DEF Effect, ClientSide, ServerSide, AccSide
  <2>4. CASE IoWritten(w)
    <3>1. Confirms(w) /\ \E c \in Clients : w = Clt(c) \/ w = Req(c) \/ w = Srv(c)
      BY <1>0, <2>4, IoWrittenEffect
    <3> QED
      BY <3>1 DEF Effect, ClientSide, ServerSide
  <2>2. CASE IoRead(w)
    <3>1. \/ Fails(w)
          \/ \E c \in Clients : w = Rcv(c) /\ HearsDown(c)
          \/ \E c \in Clients : w = Srcv(c) /\ HearsUp(c, Srcv(c))
          \/ w = Acc /\ HearsUp(peer, Acc)
      BY <1>0, <2>2, IoReadEffect
    <3> QED
      BY <3>1, WorkCases DEF Effect, ClientSide, ServerSide, AccSide
  <2>3. CASE IoTimer(w)
    <3>1. \E c \in Clients : w = Req(c) /\ Timed(Req(c))
      BY <1>0, <2>3, TimerEffect
    <3> QED
      BY <3>1 DEF Effect, ClientSide
  <2> QED
    BY <1>2, <2>1, <2>2, <2>3, <2>4 DEF Io
<1>3. ASSUME IoAccept PROVE Effect
  BY <1>0, <1>3, AcceptEffect DEF Effect, AccSide
<1>4. ASSUME NEW c \in Clients, IoConnect(c) PROVE Effect
  BY <1>0, <1>4, ConnectEffect DEF Effect, ClientSide
<1>5. ASSUME NEW c \in Clients, Break(c) PROVE Effect
  BY <1>0, <1>5, BreakEffect DEF Effect
<1> QED
  BY <1>1, <1>2, <1>3, <1>4, <1>5 DEF Next, Step

-----------------------------------------------------------------------------
(* Types *)

LEMMA PushedType ==
  ASSUME NEW q \in Seq(Works), NEW news \in Seq(Works)
  PROVE  Pushed(q, news) \in Seq(Works)
<1> DEFINE all == q \o news
<1>1. all \in Seq(Works) /\ Len(all) \in Nat /\ QCap \in Nat
  BY ConcatProperties, LenProperties, Constants
<1>2. Len(all) > QCap => SubSeq(all, 1, QCap) \in Seq(Works)
  <2>1. Len(all) > QCap => \A i \in 1 .. QCap : all[i] \in Works
    BY <1>1, ElementOfSeq
  <2> QED
    BY <1>1, <2>1, SubSeqProperties
<1> QED
  BY <1>1, <1>2 DEF Pushed

LEMMA TakenType ==
  ASSUME TypeInv, NEW w \in Works, NEW news \in Seq(Works), Taken(w, news)
  PROVE  works_q' \in [Procs -> Seq(Works)]
<1> DEFINE q == works_q[Home(w)]
<1>1. Home(w) \in Procs /\ q \in Seq(Works) /\ q # <<>>
  BY HomeType DEF TypeInv, WorkType, Taken
<1>2. Tail(q) \in Seq(Works)
  BY <1>1, HeadTailProperties
<1> HIDE DEF q
<1>3. Pushed(Tail(q), news) \in Seq(Works)
  BY <1>2, PushedType
<1> QED
  BY <1>1, <1>3 DEF q, Taken, TypeInv, WorkType

LEMMA BackType ==
  ASSUME TypeInv, NEW w \in Works, AddSelfBack(w)
  PROVE  works_q' \in [Procs -> Seq(Works)]
<1> DEFINE q == works_q[Home(w)]
<1>1. Home(w) \in Procs /\ q \in Seq(Works)
  BY HomeType DEF TypeInv, WorkType
<1> HIDE DEF q
<1>s. <<w>> \in Seq(Works)
  OBVIOUS
<1>2. Pushed(q, <<w>>) \in Seq(Works)
  BY <1>1, <1>s, PushedType
<1> QED
  BY <1>1, <1>2 DEF q, AddSelfBack, TypeInv, WorkType

LEMMA SoundSame ==
  ASSUME NEW w \in Works, Sound(w), Same(w), setup' = setup
  PROVE  Sound(w)'
BY DEF Sound, Same, ResultOf, GotBy, Writing, Reading, Part, Moved, Told, AtHeader, All

LEMMA WorksKept ==
  ASSUME TypeInv, NEW W, Others(W), setup' = setup,
         \A w \in Works \cap W : Sound(w)' /\ rem'[w] \in Int /\ ret'[w] \in Int,
         works_q' \in [Procs -> Seq(Works)], crashed' \subseteq Procs
  PROVE  WorkType' /\ WorkInv'
<1>1. ASSUME NEW w \in Works PROVE Sound(w)' /\ rem'[w] \in Int /\ ret'[w] \in Int
  <2>1. CASE w \in W
    BY <1>1, <2>1
  <2>2. CASE w \notin W
    BY <1>1, <2>2, SoundSame DEF Others, Same, TypeInv, WorkInv, WorkType
  <2> QED
    BY <2>1, <2>2
<1> QED
  BY <1>1 DEF WorkType, WorkInv, Others, TypeInv

LEMMA LightKept == ASSUME TypeInv, LightSame PROVE LightType'
BY DEF TypeInv, LightType, LightSame

LEMMA NetKept ==
  ASSUME TypeInv, NetSame,
         Same(Acc) \/ (Reading(Acc)' \/ (pc'[Acc] = "accept" /\ ret'[Acc] = 0) => peer \in Clients)
  PROVE  NetType'
BY DEF TypeInv, NetType, NetSame, Same, Reading

(* Where a work that is no wait or read of the accepting one stops. *)
LEMMA PlainType ==
  ASSUME TypeInv, NEW w \in Works, NEW at, NEW n \in Int, NEW g, Runs(w, at, n, g), LightType',
         Sound(w)', w = Acc => (Reading(Acc)' => peer \in Clients)
  PROVE  TypeInv'
<1>1. works_q' \in [Procs -> Seq(Works)]
  <2>1. <<>> \in Seq(Works)
    OBVIOUS
  <2> QED
    BY <2>1, TakenType DEF Runs
<1>2. Unset \in Int /\ crashed' \subseteq Procs
  BY DEF Unset, Runs, RestSame, TypeInv, WorkType
<1>3. WorkType' /\ WorkInv'
  <2>1. Others({w}) /\ setup' = setup /\ rem'[w] \in Int /\ ret'[w] \in Int
    BY <1>2 DEF Runs, RestSame, Sets
  <2> QED
    BY <1>1, <1>2, <2>1, WorksKept
<1>4. NetType'
  <2>1. CASE w = Acc
    <3>1. ~(pc'[Acc] = "accept" /\ ret'[Acc] = 0)
      BY <2>1 DEF Runs, Sets, Unset
    <3> QED
      BY <2>1, <3>1, NetKept DEF Runs
  <2>2. CASE w # Acc
    BY <2>2, AccName, NetKept DEF Runs, Others
  <2> QED
    BY <2>1, <2>2
<1> QED
  BY <1>3, <1>4 DEF TypeInv

(* Steps that end an operation; what they do to streams and connections. *)
LEMMA CompletesType ==
  ASSUME TypeInv, NEW w \in Works, NEW g, NEW r \in Int, Completes(w, g, r),
         Sound(w)', NetType'
  PROVE  TypeInv'
<1>1. works_q' \in [Procs -> Seq(Works)]
  BY BackType DEF Completes
<1>2. crashed' \subseteq Procs /\ LightType'
  BY LightKept DEF Completes, RestSame, TypeInv, WorkType
<1>3. Others({w}) /\ setup' = setup /\ rem'[w] \in Int /\ ret'[w] \in Int
  BY DEF Completes, RestSame, Sets, TypeInv, WorkType
<1> QED
  BY <1>1, <1>2, <1>3, WorksKept DEF TypeInv

LEMMA SizeFacts ==
  ASSUME TypeInv
  PROVE  /\ setup \in Setups /\ setup.body \in Nat \ {0} /\ HdrLen \in Nat \ {0} /\ All = HdrLen + setup.body
         /\ Unset = -2
BY SetupSize, Constants DEF TypeInv, WorkType, All, Unset

LEMMA ContinuesType ==
  ASSUME TypeInv, NEW w \in Works, Continues(w)
  PROVE  TypeInv'
<1>0. Sound(w) /\ rem[w] \in Int /\ ret[w] \in Int /\ w \in Works
  BY DEF TypeInv, WorkInv, WorkType
<1>k. /\ Writing(w) => w[1] \in {"client", "request", "serve"}
      /\ Reading(w) => w[1] \in {"recv", "srecv", "accept"}
  BY Kinds
<1>1. CASE ret[w] < rem[w] /\ Plain(w, pc[w], rem[w] - ret[w], got[w])
  <2>1. Sound(w)'
    <3>1. Sets(w, pc[w], rem[w] - ret[w], got[w], Unset) /\ setup' = setup
      BY <1>1 DEF Plain, Runs, RestSame
    <3> QED
      BY <1>0, <1>1, <3>1, SizeFacts DEF Continues, Moving, Sets, Sound, ResultOf, GotBy, Writing,
         Reading, Part, Moved, Told, AtHeader, All
  <2>2. LightType' /\ Runs(w, pc[w], rem[w] - ret[w], got[w])
    BY <1>1, LightKept DEF Plain
  <2>3. w = Acc => (Reading(Acc)' => peer \in Clients)
    BY <1>1 DEF Continues, Plain, Runs, Sets, TypeInv, NetType, Reading
  <2> QED
    BY <1>0, <2>1, <2>2, <2>3, PlainType
<1>2. CASE /\ ret[w] = rem[w] /\ AtHeader(w)
           /\ Plain(w, IF pc[w] = "whdr" THEN "wbody" ELSE "rbody", setup.body, got[w])
  <2> DEFINE at == IF pc[w] = "whdr" THEN "wbody" ELSE "rbody"
  <2>1. Sound(w)'
    <3>1. Sets(w, at, setup.body, got[w], Unset) /\ setup' = setup
      BY <1>2 DEF Plain, Runs, RestSame
    <3>2. w[1] \in {"client", "request", "serve"} => at = "wbody"
      BY <1>2, <1>0, Kinds DEF AtHeader, Reading
    <3>3. w[1] \in {"recv", "srecv", "accept"} => at = "rbody"
      BY <1>2, <1>0, Kinds DEF AtHeader, Writing
    <3>4. w[1] \in {"client", "request", "serve", "recv", "srecv", "accept"}
      BY <1>k DEF Continues, Moving
    <3>5. pc'[w] \in PlacesOf(w[1])
      BY <3>1, <3>2, <3>3, <3>4 DEF Sets, PlacesOf
    <3>6. ResultOf(w)'
      BY <3>1, SizeFacts DEF Sets, ResultOf, Writing, Reading, Part, AtHeader
    <3>7. GotBy(w)'
      <4>1. CASE Writing(w)
        <5>1. at = "wbody" /\ ~Reading(w)
          BY <3>2, <1>k, <4>1 DEF Writing, Reading
        <5> QED
          BY <1>0, <3>1, <4>1, <5>1, <1>k DEF Sets, Sound, GotBy, Writing, Reading
      <4>2. CASE Reading(w)
        <5>1. at = "rbody" /\ pc[w] = "rhdr" /\ w[1] # "serve"
          BY <3>3, <1>2, <1>k, <4>2 DEF AtHeader, Reading
        <5>2. Len(got[w]) = HdrLen - rem[w] + ret[w]
          BY <1>0, <5>1, SizeFacts DEF Continues, Sound, GotBy, Reading, Moved, Told, AtHeader
        <5>3. Moved(w)' = All - setup.body + 0
          BY <3>1, <5>1, SizeFacts DEF Sets, Moved, Told, AtHeader, All
        <5>4. Len(got[w]) = Moved(w)'
          BY <1>0, <1>2, <5>2, <5>3, SizeFacts
        <5> QED
          BY <1>0, <3>1, <4>2, <5>1, <5>4 DEF Sets, Sound, GotBy, Writing, Reading
      <4> QED
        BY <4>1, <4>2 DEF Continues, Moving
    <3> QED
      BY <3>5, <3>6, <3>7 DEF Sound
  <2>2. LightType' /\ Runs(w, at, setup.body, got[w])
    BY <1>2, LightKept DEF Plain
  <2>3. w = Acc => (Reading(Acc)' => peer \in Clients)
    BY <1>2, AccName, <1>k DEF Continues, Moving, TypeInv, NetType
  <2>4. setup.body \in Int
    BY SizeFacts
  <2> HIDE DEF at
  <2> QED
    BY <1>0, <2>1, <2>2, <2>3, <2>4, PlainType
<1> QED
  BY <1>1, <1>2 DEF Continues

LEMMA FailsType ==
  ASSUME TypeInv, NEW w \in Works, Fails(w)
  PROVE  TypeInv'
<1>1. Sets(w, pc[w], rem[w], got[w], -1) /\ setup' = setup
  BY DEF Fails, Completes, RestSame
<1>2. Sound(w)'
  <2>1. Sound(w)
    BY DEF TypeInv, WorkInv
  <2> QED
    BY <1>1, <2>1, SizeFacts DEF Fails, Moving, Sets, Sound, ResultOf, GotBy, Writing,
       Reading, Part, Moved, Told, AtHeader, All
<1>3. NetType'
  <2>1. CASE w = Acc
    BY <1>1, <2>1, Kinds, NetKept DEF Fails, Sets, Reading, Moving, Writing, TypeInv, NetType
  <2>2. CASE w # Acc
    BY <2>2, AccName, NetKept DEF Fails, Completes, Others
  <2> QED
    BY <2>1, <2>2
<1> QED
  BY <1>2, <1>3, CompletesType DEF Fails

LEMMA ConfirmsType ==
  ASSUME TypeInv, NEW w \in Works, Confirms(w)
  PROVE  TypeInv'
<1>1. Sets(w, pc[w], rem[w], got[w], Unset - ret[w]) /\ setup' = setup
  BY DEF Confirms, Completes, RestSame
<1>0. Sound(w) /\ rem[w] \in Int /\ ret[w] \in Int /\ Writing(w) /\ ret[w] < Unset /\ w # Acc
  BY Kinds, AccName DEF Confirms, Sending, TypeInv, WorkInv, WorkType
<1>2. Sound(w)'
  BY <1>0, <1>1, SizeFacts DEF Sets, Sound, ResultOf, GotBy, Writing,
     Reading, Part, Moved, Told, AtHeader, All
<1>3. NetType'
  BY <1>0, AccName, NetKept DEF Confirms, Completes, Others
<1>4. Unset - ret[w] \in Int
  BY <1>0, SizeFacts
<1> QED
  BY <1>2, <1>3, <1>4, CompletesType DEF Confirms

(* What a work writes: k more units of its message. *)
LEMMA SentUnits ==
  ASSUME TypeInv, NEW w \in Works, Writing(w), ret[w] = Unset, NEW k \in 1 .. rem[w]
  PROVE  LET m == CASE w[1] = "client"  -> <<"hello", 0>>
                    [] w[1] = "request" -> <<"req", round[w[2]]>>
                    [] w[1] = "serve"   -> <<"res", got[w][1]>>
         IN  /\ m \in Messages
             /\ Moved(w) \in 0 .. All /\ Moved(w) + k \in 0 .. All
             /\ Sent(w, k) = Cut(m, Moved(w), Moved(w) + k)
             /\ Sent(w, k) \in Seq(Units)
<1> DEFINE m == CASE w[1] = "client"  -> <<"hello", 0>>
                  [] w[1] = "request" -> <<"req", round[w[2]]>>
                  [] w[1] = "serve"   -> <<"res", got[w][1]>>
<1>1. Sound(w) /\ w[1] \in {"client", "request", "serve"} /\ rem[w] \in Int
  BY Kinds DEF TypeInv, WorkInv, WorkType
<1>2. m \in Messages
  <2>1. w[1] = "request" => round[w[2]] \in Nat
    BY WorkCases, AccName DEF TypeInv, LightType
  <2>2. w[1] = "serve" => got[w][1] \in Nat
    BY <1>1 DEF Sound, GotBy
  <2> QED
    BY <1>1, <2>1, <2>2 DEF Messages
<1>3. NextUnit(w) = Moved(w) + 1 /\ Moved(w) \in 0 .. All /\ Moved(w) + k \in 0 .. All
  BY <1>1, SizeFacts DEF NextUnit, Moved, Told, AtHeader, Writing, Reading, Sound, ResultOf, Part
<1>4. Outgoing(w) = UnitsOf(m)
  BY DEF Outgoing
<1> HIDE DEF m
<1>5. Sent(w, k) = Cut(m, Moved(w), Moved(w) + k)
  <2>1. NextUnit(w) + k - 1 = Moved(w) + k
    BY <1>3, SizeFacts
  <2> QED
    BY <1>3, <1>4, <2>1 DEF Sent, Cut
<1>6. Cut(m, Moved(w), Moved(w) + k) \in Seq(Units)
  BY <1>2, <1>3, SizeFacts, CutLength
<1> QED
  BY <1>2, <1>3, <1>5, <1>6 DEF m

LEMMA GivesType ==
  ASSUME TypeInv, NEW w \in Works, Writing(w), ret[w] = Unset, NEW k \in 1 .. rem[w],
         Gives(w, OnWire(k)), NetType'
  PROVE  TypeInv'
<1>1. Sets(w, pc[w], rem[w], got[w], Unset - k) /\ setup' = setup
  BY DEF Gives, RestSame, OnWire
<1>2. Sound(w) /\ rem[w] \in Int
  BY DEF TypeInv, WorkInv, WorkType
<1>3. Sound(w)'
  BY <1>1, <1>2, Kinds, SizeFacts DEF Sets, Sound, ResultOf, GotBy, Writing,
     Reading, Part, Moved, Told, AtHeader, All
<1>4. rem'[w] \in Int /\ ret'[w] \in Int
  BY <1>1, <1>2, SizeFacts DEF Sets
<1>5. works_q' \in [Procs -> Seq(Works)] /\ crashed' \subseteq Procs /\ LightType'
  BY LightKept DEF Gives, RestSame, TypeInv, WorkType
<1>6. Others({w})
  BY DEF Gives
<1> QED
  BY <1>1, <1>3, <1>4, <1>5, <1>6, WorksKept DEF TypeInv

LEMMA SendsUpType ==
  ASSUME TypeInv, NEW c \in Clients, NEW w \in {Clt(c), Req(c)}, SendsUp(c, w)
  PROVE  TypeInv'
<1>1. PICK k \in 1 .. rem[w] :
        /\ Writing(w) /\ ret[w] = Unset /\ c \in alive /\ Gives(w, OnWire(k))
        /\ up' = [up EXCEPT ![c] = @ \o Sent(w, k)] /\ UNCHANGED <<down, alive, backlog, peer>>
  BY DEF SendsUp
<1>2. w \in Works /\ w # Acc
  BY Names, Different
<1>3. Sent(w, k) \in Seq(Units)
  BY <1>1, <1>2, SentUnits
<1>4. up' \in [Clients -> Seq(Units)]
  BY <1>1, <1>3, ConcatProperties DEF TypeInv, NetType
<1>5. Same(Acc)
  BY <1>1, <1>2, AccName DEF Gives, Others
<1>6. NetType'
  BY <1>1, <1>4, <1>5 DEF TypeInv, NetType, Same, Reading
<1> QED
  BY <1>1, <1>2, <1>6, GivesType

LEMMA SendsDownType ==
  ASSUME TypeInv, NEW c \in Clients, SendsDown(c)
  PROVE  TypeInv'
<1> DEFINE w == Srv(c)
<1>1. PICK k \in 1 .. rem[w] :
        /\ Writing(w) /\ ret[w] = Unset /\ c \in alive /\ Gives(w, OnWire(k))
        /\ down' = [down EXCEPT ![c] = @ \o Sent(w, k)] /\ UNCHANGED <<up, alive, backlog, peer>>
  BY DEF SendsDown
<1>2. w \in Works /\ w # Acc
  BY Names, Different
<1> HIDE DEF w
<1>3. Sent(w, k) \in Seq(Units)
  BY <1>1, <1>2, SentUnits
<1>4. down' \in [Clients -> Seq(Units)]
  BY <1>1, <1>3, ConcatProperties DEF TypeInv, NetType
<1>5. Same(Acc)
  BY <1>1, <1>2, AccName DEF Gives, Others
<1>6. NetType'
  BY <1>1, <1>4, <1>5 DEF TypeInv, NetType, Same, Reading
<1> QED
  BY <1>1, <1>2, <1>6, GivesType

LEMMA PartOfStream ==
  ASSUME NEW s \in Seq(Units), NEW k \in 1 .. Len(s)
  PROVE  /\ SubSeq(s, 1, k) \in Seq(Units) /\ Len(SubSeq(s, 1, k)) = k
         /\ SubSeq(s, k + 1, Len(s)) \in Seq(Units)
<1>1. \A i \in 1 .. Len(s) : s[i] \in Units
  BY ElementOfSeq
<1>2. k \in Int /\ Len(s) \in Nat /\ k + 1 \in Int
  BY LenProperties
<1>3. \A i \in 1 .. k : s[i] \in Units
  BY <1>1, <1>2
<1>4. \A i \in k + 1 .. Len(s) : s[i] \in Units
  BY <1>1, <1>2
<1>5. SubSeq(s, 1, k) \in Seq(Units) /\ Len(SubSeq(s, 1, k)) = IF 1 <= k THEN k - 1 + 1 ELSE 0
  BY <1>2, <1>3, SubSeqProperties
<1>6. SubSeq(s, k + 1, Len(s)) \in Seq(Units)
  BY <1>2, <1>4, SubSeqProperties
<1> QED
  BY <1>2, <1>5, <1>6

LEMMA TakesSound ==
  ASSUME TypeInv, NEW w \in Works, NEW s \in Seq(Units), NEW k \in Nat, Takes(w, s, k)
  PROVE  /\ Sound(w)' /\ k \in 1 .. Len(s)
         /\ SubSeq(s, k + 1, Len(s)) \in Seq(Units)
         /\ Moved(w)' = Moved(w) + k /\ Len(got'[w]) = Len(got[w]) + k
<1>1. Sets(w, pc[w], rem[w], got[w] \o SubSeq(s, 1, k), k) /\ setup' = setup
  BY DEF Takes, Completes, RestSame
<1>2. Sound(w) /\ rem[w] \in Int /\ w[1] # "serve"
  BY Kinds DEF TypeInv, WorkInv, WorkType, Takes
<1>3. k \in 1 .. Len(s)
  BY LenProperties DEF Takes
<1>4. SubSeq(s, 1, k) \in Seq(Units) /\ Len(SubSeq(s, 1, k)) = k /\ SubSeq(s, k + 1, Len(s)) \in Seq(Units)
  BY <1>3, PartOfStream
<1>5. got[w] \in Seq(Units) /\ Len(got[w]) = Moved(w)
  BY <1>2 DEF Sound, GotBy, Takes
<1>6. got'[w] \in Seq(Units) /\ Len(got'[w]) = Len(got[w]) + k
  <2> DEFINE t == SubSeq(s, 1, k)
  <2>1. t \in Seq(Units) /\ Len(t) = k
    BY <1>4
  <2> HIDE DEF t
  <2>2. got[w] \o t \in Seq(Units) /\ Len(got[w] \o t) = Len(got[w]) + Len(t)
    BY <1>5, <2>1, ConcatProperties
  <2> QED
    BY <1>1, <2>1, <2>2 DEF Sets, t
<1>7. Moved(w)' = Moved(w) + k
  BY <1>1, <1>2, SizeFacts DEF Takes, Sets, Moved, Told, AtHeader, All
<1>8. Reading(w)' /\ ~Writing(w)'
  BY <1>1 DEF Takes, Sets, Reading, Writing
<1>9. ResultOf(w)'
  BY <1>1, <1>2, SizeFacts DEF Takes, Sets, Sound, ResultOf, Reading, Writing, Part, AtHeader
<1>10. GotBy(w)'
  BY <1>1, <1>2, <1>5, <1>6, <1>7, <1>8 DEF GotBy, Sets, Reading
<1>11. pc'[w] \in PlacesOf(w[1])
  BY <1>1, <1>2 DEF Sets, Sound
<1> QED
  BY <1>3, <1>4, <1>6, <1>7, <1>9, <1>10, <1>11 DEF Sound

LEMMA HearsUpType ==
  ASSUME TypeInv, NEW c \in Clients, NEW w \in Works, HearsUp(c, w), w # Acc \/ c = peer
  PROVE  TypeInv'
<1>1. PICK k \in Nat :
        /\ c \in alive /\ Takes(w, up[c], k)
        /\ up' = [up EXCEPT ![c] = SubSeq(up[c], k + 1, Len(up[c]))]
        /\ UNCHANGED <<down, alive, backlog, peer>>
  BY DEF HearsUp
<1> DEFINE s == up[c]
<1>2. s \in Seq(Units)
  BY DEF TypeInv, NetType
<1> HIDE DEF s
<1>3. Sound(w)' /\ SubSeq(s, k + 1, Len(s)) \in Seq(Units)
  BY <1>1, <1>2, TakesSound DEF s
<1>4. up' \in [Clients -> Seq(Units)]
  BY <1>1, <1>3 DEF TypeInv, NetType, s
<1>5. Reading(Acc)' \/ (pc'[Acc] = "accept" /\ ret'[Acc] = 0) => peer \in Clients
  BY <1>1, AccName DEF Takes, Completes, Others, Same, TypeInv, NetType, Reading
<1>6. NetType'
  BY <1>1, <1>4, <1>5 DEF TypeInv, NetType
<1>7. Completes(w, got[w] \o SubSeq(up[c], 1, k), k) /\ k \in Int
  BY <1>1 DEF Takes
<1> QED
  BY <1>3, <1>6, <1>7, CompletesType

LEMMA HearsDownType ==
  ASSUME TypeInv, NEW c \in Clients, HearsDown(c)
  PROVE  TypeInv'
<1> DEFINE w == Rcv(c)
<1>0. w \in Works /\ w # Acc
  BY Names, Different
<1>1. PICK k \in Nat :
        /\ c \in alive /\ Takes(w, down[c], k)
        /\ down' = [down EXCEPT ![c] = SubSeq(down[c], k + 1, Len(down[c]))]
        /\ UNCHANGED <<up, alive, backlog, peer>>
  BY DEF HearsDown
<1> DEFINE s == down[c]
<1>2. s \in Seq(Units)
  BY DEF TypeInv, NetType
<1> HIDE DEF s, w
<1>3. Sound(w)' /\ SubSeq(s, k + 1, Len(s)) \in Seq(Units)
  BY <1>0, <1>1, <1>2, TakesSound DEF s
<1>4. down' \in [Clients -> Seq(Units)]
  BY <1>1, <1>3 DEF TypeInv, NetType, s
<1>5. Same(Acc)
  BY <1>0, <1>1, AccName DEF Takes, Completes, Others
<1>6. NetType'
  BY <1>1, <1>4, <1>5 DEF TypeInv, NetType, Same, Reading
<1>7. Completes(w, got[w] \o SubSeq(down[c], 1, k), k) /\ k \in Int
  BY <1>1 DEF Takes
<1> QED
  BY <1>0, <1>3, <1>6, <1>7, CompletesType

LEMMA EndsType ==
  ASSUME TypeInv, NEW c \in Clients, Timed(Req(c)) \/ Connected(c) \/ Refused(c)
  PROVE  TypeInv'
<1>0. /\ Clt(c) \in Works /\ Req(c) \in Works /\ Clt(c) # Acc /\ Req(c) # Acc
      /\ Clt(c)[1] = "client" /\ Req(c)[1] = "request"
  BY Names, Different
<1>1. CASE Timed(Req(c))
  <2> DEFINE w == Req(c)
  <2>1. Completes(w, got[w], 0) /\ Sets(w, pc[w], rem[w], got[w], 0) /\ setup' = setup
    BY <1>1 DEF Timed, Completes, RestSame
  <2>2. Sound(w)
    BY <1>0 DEF TypeInv, WorkInv
  <2> HIDE DEF w
  <2>3. Sound(w)'
    BY <1>1, <2>1, <2>2 DEF w, Timed, Sets, Sound, ResultOf, GotBy, Reading, Writing, Part, Moved, Told, AtHeader, All
  <2>4. NetType'
    BY <1>0, <1>1, AccName, NetKept DEF Timed, Completes, Others
  <2> QED
    BY <1>0, <2>1, <2>3, <2>4, CompletesType DEF w
<1>2. CASE Connected(c)
  <2> DEFINE w == Clt(c)
  <2>1. Completes(w, got[w], 0) /\ Sets(w, pc[w], rem[w], got[w], 0) /\ setup' = setup
    BY <1>2 DEF Connected, Completes, RestSame
  <2>2. Sound(w)
    BY <1>0 DEF TypeInv, WorkInv
  <2> HIDE DEF w
  <2>3. Sound(w)'
    BY <1>2, <2>1, <2>2 DEF w, Connected, Sets, Sound, ResultOf, GotBy, Reading, Writing, Part, Moved, Told, AtHeader, All
  <2>4. Same(Acc)
    BY <1>0, <2>1, AccName DEF w, Completes, Others
  <2>5. NetType'
    BY <1>2, <2>4, AppendProperties DEF Connected, TypeInv, NetType, Same, Reading
  <2> QED
    BY <1>0, <2>1, <2>3, <2>5, CompletesType DEF w
<1>3. CASE Refused(c)
  <2> DEFINE w == Clt(c)
  <2>1. Completes(w, got[w], -1) /\ Sets(w, pc[w], rem[w], got[w], -1) /\ setup' = setup
    BY <1>3 DEF Refused, Completes, RestSame
  <2>2. Sound(w)
    BY <1>0 DEF TypeInv, WorkInv
  <2> HIDE DEF w
  <2>3. Sound(w)'
    BY <1>3, <2>1, <2>2 DEF w, Refused, Sets, Sound, ResultOf, GotBy, Reading, Writing, Part, Moved, Told, AtHeader, All
  <2>4. NetType'
    BY <1>0, <1>3, AccName, NetKept DEF Refused, Completes, Others
  <2> QED
    BY <1>0, <2>1, <2>3, <2>4, CompletesType DEF w
<1> QED
  BY <1>1, <1>2, <1>3

LEMMA AcceptedType ==
  ASSUME TypeInv, Accepted
  PROVE  TypeInv'
<1> DEFINE r == 0
<1>1. Completes(Acc, got[Acc], r) /\ Sets(Acc, pc[Acc], rem[Acc], got[Acc], r) /\ setup' = setup /\ r \in {0, -1}
  BY DEF Accepted, Completes, RestSame
<1>2. Sound(Acc)
  BY AccName DEF TypeInv, WorkInv
<1>3. Head(backlog) \in Clients /\ Tail(backlog) \in Seq(Clients)
  BY HeadTailProperties DEF Accepted, TypeInv, NetType
<1> HIDE DEF r
<1>4. Sound(Acc)'
  BY <1>1, <1>2 DEF Accepted, Sets, Sound, ResultOf, GotBy, Reading, Writing, Part, Moved, Told, AtHeader, All
<1>5. NetType'
  BY <1>3 DEF Accepted, TypeInv, NetType
<1> QED
  BY <1>1, <1>4, <1>5, AccName, CompletesType

LEMMA BrokenType ==
  ASSUME TypeInv, NEW c \in Clients, Broken(c)
  PROVE  TypeInv'
<1>1. Others({}) /\ setup' = setup /\ works_q' = works_q /\ crashed' = crashed
  BY DEF Broken, RestSame
<1>2. WorkType' /\ WorkInv'
  BY <1>1, WorksKept DEF TypeInv, WorkType
<1>3. <<>> \in Seq(Units)
  OBVIOUS
<1>4. NetType'
  BY <1>1, <1>3, AccName DEF Broken, Others, Same, TypeInv, NetType, Reading
<1> QED
  BY <1>2, <1>4, LightKept DEF TypeInv, Broken

(* Plain steps. *)
LEMMA PlainTypes ==
  ASSUME TypeInv, NEW w \in Works, NEW at, NEW n \in Nat, NEW g \in {<<>>, got[w]}, Plain(w, at, n, g),
         at \in PlacesOf(w[1]),
         at \in {"connect", "accept", "timer", "done"} \/ (at \in {"whdr", "rhdr"} /\ n = HdrLen),
         at # "done" => pc[w] \notin {"rhdr", "rbody", "done"},
         at = "rhdr" => g = <<>> /\ w[1] # "serve" /\ (w = Acc => ret[w] = 0 /\ pc[w] = "accept"),
         at = "whdr" => w[1] = "client"
  PROVE  TypeInv'
<1>1. Sets(w, at, n, g, Unset) /\ setup' = setup
  BY DEF Plain, Runs, RestSame
<1>2. Sound(w)
  BY DEF TypeInv, WorkInv
<1>3. ResultOf(w)'
  BY <1>1, SizeFacts DEF Sets, ResultOf, Reading, Writing, Part, AtHeader
<1>e. <<>> \in Seq(Units) /\ <<>> \in Seq(Nat) /\ Len(<<>>) = 0
  OBVIOUS
<1>4. GotBy(w)'
  <2>1. CASE w[1] = "serve"
    <3>1. got'[w] = <<>> \/ got'[w] = got[w]
      BY <1>1 DEF Sets
    <3>2. got'[w] \in Seq(Nat) /\ Len(got'[w]) <= 1
      <4>1. got[w] \in Seq(Nat) /\ Len(got[w]) <= 1
        BY <1>2, <2>1 DEF Sound, GotBy
      <4>2. Len(<<>>) <= 1
        BY <1>e
      <4> QED
        BY <1>e, <3>1, <4>1, <4>2
    <3>3. ~Writing(w)'
      BY <1>1, <2>1 DEF Sets, Writing
    <3> QED
      BY <2>1, <3>2, <3>3 DEF GotBy
  <2>2. CASE w[1] # "serve"
    <3>1. got'[w] \in Seq(Units)
      BY <1>1, <1>2, <1>e, <2>2 DEF Sound, GotBy, Sets
    <3>2. Reading(w)' => Len(got'[w]) = Moved(w)'
      BY <1>1, <1>e, SizeFacts DEF Sets, Reading, Moved, Told, AtHeader
    <3>3. pc'[w] \notin {"rhdr", "rbody", "done"} => got'[w] = <<>>
      BY <1>1, <1>2, <2>2 DEF Sound, GotBy, Sets
    <3> QED
      BY <2>2, <3>1, <3>2, <3>3 DEF GotBy
  <2> QED
    BY <2>1, <2>2
<1>5. Sound(w)'
  BY <1>1, <1>3, <1>4 DEF Sound, Sets
<1>6. w = Acc => (Reading(Acc)' => peer \in Clients)
  BY <1>1 DEF Sets, Reading, TypeInv, NetType
<1> QED
  BY <1>5, <1>6, PlainType, LightKept DEF Plain

(* Steps of a plain kind. *)
LEMMA PlainCases ==
  ASSUME TypeInv, NEW c \in Clients,
         \/ Dials(c) \/ Greets(c) \/ Stops(c) \/ GivesUp(Req(c)) \/ GivesUp(Srv(c))
         \/ ReadsOn(Rcv(c)) \/ ReadsOn(Srcv(c)) \/ Leaves(Rcv(c)) \/ Leaves(Srcv(c))
  PROVE  TypeInv'
<1>0. /\ Clt(c) \in Works /\ Req(c) \in Works /\ Rcv(c) \in Works /\ Srcv(c) \in Works /\ Srv(c) \in Works
      /\ Clt(c)[1] = "client" /\ Req(c)[1] = "request" /\ Rcv(c)[1] = "recv"
      /\ Srcv(c)[1] = "srecv" /\ Srv(c)[1] = "serve"
      /\ Acc \notin {Clt(c), Req(c), Rcv(c), Srcv(c), Srv(c)}
  BY Names, Different
<1>n. 0 \in Nat /\ HdrLen \in Nat
  BY SizeFacts
<1>1. CASE Dials(c)
  BY <1>0, <1>1, <1>n, PlainTypes DEF Dials, PlacesOf
<1>2. CASE Greets(c)
  BY <1>0, <1>2, <1>n, PlainTypes DEF Greets, PlacesOf
<1>3. CASE Stops(c)
  BY <1>0, <1>3, <1>n, PlainTypes DEF Stops, PlacesOf
<1>4. CASE GivesUp(Req(c))
  BY <1>0, <1>4, <1>n, PlainTypes DEF GivesUp, PlacesOf
<1>5. CASE GivesUp(Srv(c))
  BY <1>0, <1>5, <1>n, PlainTypes DEF GivesUp, PlacesOf
<1>6. CASE ReadsOn(Rcv(c))
  BY <1>0, <1>6, <1>n, PlainTypes DEF ReadsOn, PlacesOf
<1>7. CASE ReadsOn(Srcv(c))
  BY <1>0, <1>7, <1>n, PlainTypes DEF ReadsOn, PlacesOf
<1>8. CASE Leaves(Rcv(c))
  BY <1>0, <1>8, <1>n, PlainTypes DEF Leaves, PlacesOf
<1>9. CASE Leaves(Srcv(c))
  BY <1>0, <1>9, <1>n, PlainTypes DEF Leaves, PlacesOf
<1> QED
  BY <1>1, <1>2, <1>3, <1>4, <1>5, <1>6, <1>7, <1>8, <1>9

LEMMA AccPlain ==
  ASSUME TypeInv, Listens \/ ReadsFirst
  PROVE  TypeInv'
<1>0. Acc \in Works /\ Acc[1] = "accept" /\ 0 \in Nat /\ HdrLen \in Nat
  BY AccName, SizeFacts
<1>1. CASE Listens
  BY <1>0, <1>1, PlainTypes DEF Listens, PlacesOf
<1>2. CASE ReadsFirst
  BY <1>0, <1>2, PlainTypes DEF ReadsFirst, PlacesOf
<1> QED
  BY <1>1, <1>2

(* Steps with which works begin, and processes end. *)
LEMMA CrashesType ==
  ASSUME TypeInv, NEW c \in Clients, Crashes(c)
  PROVE  TypeInv'
<1> DEFINE w == Clt(c)
<1>1. w \in Works /\ w[1] = "client" /\ w # Acc /\ c \in Procs /\ <<Req(c), Rcv(c)>> \in Seq(Works)
  BY Names, Different
<1>2. Sets(w, "done", 0, got[w], Unset) /\ Others({w}) /\ setup' = setup
  BY DEF Crashes
<1>3. Sound(w)
  BY <1>1 DEF TypeInv, WorkInv
<1> HIDE DEF w
<1>4. Sound(w)'
  BY <1>1, <1>2, <1>3 DEF Sets, Sound, ResultOf, GotBy, Reading, Writing, PlacesOf
<1>5. works_q' \in [Procs -> Seq(Works)]
  BY <1>1, TakenType DEF Crashes, w
<1>6. crashed' \subseteq Procs /\ Unset \in Int
  BY <1>1 DEF Crashes, TypeInv, WorkType, Unset
<1>7. WorkType' /\ WorkInv'
  BY <1>2, <1>4, <1>5, <1>6, WorksKept DEF Sets
<1>8. NetType' /\ LightType'
  BY <1>1, <1>2, AccName, NetKept, LightKept DEF Crashes, Others
<1> QED
  BY <1>7, <1>8 DEF TypeInv

LEMMA BeginsType ==
  ASSUME TypeInv, NEW c \in Clients, Begins(c), pc[Req(c)] = "none", pc[Rcv(c)] = "none"
  PROVE  TypeInv'
<1> DEFINE W == {Clt(c), Req(c), Rcv(c)}
<1>1. /\ Clt(c) \in Works /\ Req(c) \in Works /\ Rcv(c) \in Works
      /\ Clt(c)[1] = "client" /\ Req(c)[1] = "request" /\ Rcv(c)[1] = "recv"
      /\ <<Req(c), Rcv(c)>> \in Seq(Works) /\ Acc \in Works \ W
  BY Names, Different, AccName
<1>2. Others(W) /\ setup' = setup /\ crashed' = crashed
  BY DEF Begins, Others, Same, RestSame, TypeInv, WorkType
<1>3. Sound(Clt(c)) /\ Sound(Req(c)) /\ Sound(Rcv(c))
  BY <1>1 DEF TypeInv, WorkInv
<1>4. Sound(Clt(c))'
  BY <1>1, <1>3, <1>2 DEF Begins, Sound, ResultOf, GotBy, Reading, Writing, PlacesOf
<1>5. Sound(Req(c))' /\ Sound(Rcv(c))'
  BY <1>1, <1>3, <1>2 DEF Begins, Sound, ResultOf, GotBy, Reading, Writing, PlacesOf
<1>6. works_q' \in [Procs -> Seq(Works)]
  BY <1>1, TakenType DEF Begins
<1>7. WorkType' /\ WorkInv'
  <2>1. \A w \in Works \cap W : Sound(w)' /\ rem'[w] \in Int /\ ret'[w] \in Int
    BY <1>4, <1>5 DEF Begins, TypeInv, WorkType
  <2>2. crashed' \subseteq Procs
    BY <1>2 DEF TypeInv, WorkType
  <2> QED
    BY <1>2, <1>6, <2>1, <2>2, WorksKept
<1>8. NetType' /\ LightType'
  BY <1>1, <1>2, NetKept, LightKept DEF Begins, Others
<1> QED
  BY <1>7, <1>8 DEF TypeInv

LEMMA RequestsType ==
  ASSUME TypeInv, NEW c \in Clients, Requests(c)
  PROVE  TypeInv'
<1> DEFINE w == Req(c)
<1>1. w \in Works /\ w[1] = "request" /\ w # Acc
  BY Names, Different
<1>2. Sets(w, "whdr", HdrLen, got[w], Unset) /\ setup' = setup /\ Runs(w, "whdr", HdrLen, got[w])
  BY DEF Requests, Runs, RestSame
<1>3. Sound(w)
  BY <1>1 DEF TypeInv, WorkInv
<1>p. pc[w] \notin {"rhdr", "rbody", "done"}
  BY DEF Requests
<1>l. LightType'
  BY DEF Requests, TypeInv, LightType
<1> HIDE DEF w
<1>4. Sound(w)'
  BY <1>1, <1>2, <1>3, <1>p, SizeFacts DEF Sets, Sound, ResultOf, GotBy, Reading, Writing, Part, AtHeader, PlacesOf
<1>5. HdrLen \in Int
  BY SizeFacts
<1> QED
  BY <1>1, <1>2, <1>4, <1>5, <1>l, PlainType

LEMMA LightStepType ==
  ASSUME TypeInv, NEW c \in Clients, NEW w \in {Req(c), Srv(c)}, Gets(w) \/ Sleeps(w)
  PROVE  TypeInv'
<1>1. /\ w \in Works /\ w \in LightWorks /\ w # Acc /\ w[2] = c
      /\ w[1] = "request" => w = Req(c)
      /\ w[1] = "serve" => w = Srv(c)
      /\ w[1] \in {"request", "serve"}
  BY Names, Different
<1>2. Sound(w) /\ msg_q[w] \in Seq(Messages)
  BY <1>1 DEF TypeInv, WorkInv, LightType
<1>p. pc[w] \notin {"rhdr", "rbody", "done"}
  BY DEF Gets, Sleeps, Receives, Writing
<1>s. 0 \in Int /\ HdrLen \in Int
  BY SizeFacts
<1>3. CASE Gets(w)
  <2> DEFINE m == Head(msg_q[w])
  <2>1. m \in Messages /\ Tail(msg_q[w]) \in Seq(Messages)
    BY <1>2, <1>3, HeadTailProperties DEF Gets
  <2>2. m[2] \in Nat
    BY <2>1 DEF Messages
  <2> HIDE DEF m
  <2>3. msg_q' \in [LightWorks -> Seq(Messages)]
    BY <1>1, <1>3, <2>1 DEF Gets, TypeInv, LightType
  <2>4. CASE w[1] = "request" /\ Uses(c, m)
    <3>1. Runs(w, "timer", 0, got[w]) /\ Sets(w, "timer", 0, got[w], Unset) /\ setup' = setup
      BY <1>1, <2>4 DEF Uses, Runs, RestSame
    <3>2. LightType'
      BY <2>2, <2>3, <2>4 DEF Uses, TypeInv, LightType
    <3>3. Sound(w)'
      BY <1>2, <1>p, <2>4, <3>1 DEF Sets, Sound, ResultOf, GotBy, Reading, Writing, PlacesOf
    <3> QED
      BY <1>1, <1>s, <3>1, <3>2, <3>3, PlainType
  <2>5. CASE w[1] = "serve" /\ Serves(c, m)
    <3>1. Runs(w, "whdr", HdrLen, <<m[2]>>) /\ Sets(w, "whdr", HdrLen, <<m[2]>>, Unset) /\ setup' = setup
      BY <1>1, <2>5 DEF Serves, Runs, RestSame
    <3>2. LightType'
      BY <2>3, <2>5 DEF Serves, TypeInv, LightType
    <3>3. <<m[2]>> \in Seq(Nat) /\ Len(<<m[2]>>) = 1 /\ <<m[2]>> # <<>>
      BY <2>2
    <3>4. Sound(w)'
      BY <1>2, <1>p, <2>5, <3>1, <3>3, SizeFacts
      DEF Sets, Sound, ResultOf, GotBy, Reading, Writing, PlacesOf, Part, AtHeader
    <3> QED
      BY <1>1, <1>s, <3>1, <3>2, <3>4, PlainType
  <2> QED
    BY <1>1, <1>3, <2>4, <2>5 DEF Gets, m
<1>4. CASE Sleeps(w)
  <2>1. Runs(w, "wait", 0, got[w]) /\ Sets(w, "wait", 0, got[w], Unset) /\ setup' = setup
    BY <1>4 DEF Sleeps, Runs, RestSame
  <2>2. LightType'
    BY <1>1, <1>4 DEF Sleeps, TypeInv, LightType
  <2>3. Sound(w)'
    BY <1>1, <1>2, <1>p, <2>1 DEF Sets, Sound, ResultOf, GotBy, Reading, Writing, PlacesOf
  <2> QED
    BY <1>1, <1>s, <2>1, <2>2, <2>3, PlainType
<1> QED
  BY <1>3, <1>4

LEMMA DiesType ==
  ASSUME TypeInv, Dies
  PROVE  TypeInv'
<1>1. Acc \in Works /\ Acc[1] = "accept" /\ Server \in Procs /\ <<>> \in Seq(Works)
  BY AccName
<1>2. Sets(Acc, "done", 0, got[Acc], Unset) /\ Others({Acc}) /\ setup' = setup
  BY DEF Dies
<1>3. Sound(Acc)
  BY <1>1 DEF TypeInv, WorkInv
<1>4. Sound(Acc)'
  BY <1>1, <1>2, <1>3 DEF Sets, Sound, ResultOf, GotBy, Reading, Writing, PlacesOf
<1>5. works_q' \in [Procs -> Seq(Works)]
  BY <1>1, TakenType DEF Dies
<1>6. crashed' \subseteq Procs /\ Unset \in Int
  BY <1>1 DEF Dies, TypeInv, WorkType, Unset
<1>7. WorkType' /\ WorkInv'
  BY <1>2, <1>4, <1>5, <1>6, WorksKept DEF Sets
<1>8. NetType' /\ LightType'
  BY <1>2, LightKept DEF Dies, TypeInv, NetType, Sets, Reading
<1> QED
  BY <1>7, <1>8 DEF TypeInv

LEMMA SetsUpType ==
  ASSUME TypeInv, NEW c \in Clients, peer = c, SetsUp, pc[Srcv(c)] = "none"
  PROVE  TypeInv'
<1> DEFINE v == Srcv(c)
<1>1. /\ Acc \in Works /\ Acc[1] = "accept" /\ v \in Works /\ v[1] = "srecv" /\ <<v>> \in Seq(Works)
      /\ v # Acc
  BY AccName, Names, Different
<1>2. /\ Sets(Acc, "accept", rem[Acc], <<>>, Unset) /\ Others({Acc, v}) /\ setup' = setup
      /\ pc'[v] = "new" /\ rem'[v] = rem[v] /\ got'[v] = got[v] /\ ret'[v] = ret[v]
      /\ crashed' = crashed
  BY DEF SetsUp, RestSame
<1>3. Sound(Acc) /\ Sound(v) /\ rem[Acc] \in Int /\ rem[v] \in Int /\ ret[v] \in Int
  BY <1>1 DEF TypeInv, WorkInv, WorkType
<1>e. <<>> \in Seq(Units)
  OBVIOUS
<1>p. pc[v] = "none"
  OBVIOUS
<1>5. works_q' \in [Procs -> Seq(Works)]
  BY <1>1, TakenType DEF SetsUp
<1> HIDE DEF v
<1>4. Sound(Acc)'
  BY <1>1, <1>2, <1>3, <1>e DEF Sets, Sound, ResultOf, GotBy, Reading, Writing, PlacesOf
<1>s. Sound(v)'
  <2>1. v \in Works /\ v[1] = "srecv" /\ Sound(v) /\ pc[v] = "none"
    BY <1>1, <1>3, <1>p
  <2>2. pc'[v] = "new" /\ rem'[v] = rem[v] /\ got'[v] = got[v] /\ ret'[v] = ret[v]
    BY <1>2
  <2> QED
    BY <2>1, <2>2 DEF Sound, ResultOf, GotBy, Reading, Writing, PlacesOf
<1>6. crashed' \subseteq Procs /\ Unset \in Int
  BY <1>2 DEF TypeInv, WorkType, Unset
<1>7. WorkType' /\ WorkInv'
  <2>1. Sound(Acc)' /\ rem'[Acc] \in Int /\ ret'[Acc] \in Int
    BY <1>2, <1>3, <1>4, <1>6 DEF Sets
  <2>2. rem'[v] \in Int /\ ret'[v] \in Int
    BY <1>2, <1>3
  <2>3. \A u \in Works \cap {Acc, v} : Sound(u)' /\ rem'[u] \in Int /\ ret'[u] \in Int
    BY <1>s, <2>1, <2>2
  <2> QED
    BY <1>2, <1>5, <1>6, <2>3, WorksKept
<1>8. NetType' /\ LightType'
  BY <1>2, LightKept DEF SetsUp, TypeInv, NetType, Sets, Reading, Unset
<1> QED
  BY <1>7, <1>8 DEF TypeInv

LEMMA DealsType ==
  ASSUME TypeInv, NEW w \in Works, NEW v \in LightWorks, NEW fresh \in BOOLEAN, Deals(w, v, fresh),
         w[1] \in {"recv", "srecv"}, fresh => pc[v] = "none",
         v \in handler => pc[v] = "wait" /\ ret[v] = Unset
  PROVE  TypeInv'
<1>1. v \in Works /\ v # Acc /\ w # Acc /\ v # w /\ v[1] \in {"request", "serve"}
  BY LightNames, AccName
<1>2. Sound(w) /\ Sound(v) /\ rem[w] \in Int /\ rem[v] \in Int /\ ret[v] \in Int /\ msg_q[v] \in Seq(Messages)
  BY <1>1 DEF TypeInv, WorkInv, WorkType, LightType
<1>3. /\ Sets(w, "rhdr", HdrLen, <<>>, Unset) /\ Others({w, v}) /\ setup' = setup /\ crashed' = crashed
      /\ pc'[v] = (IF fresh THEN "new" ELSE pc[v]) /\ rem'[v] = rem[v] /\ got'[v] = got[v]
      /\ ret'[v] = (IF v \in handler THEN 0 ELSE ret[v])
  BY DEF Deals
<1>4. Message(w) \in Messages
  <2>1. got[w] \in Seq(Units) /\ Len(got[w]) = Moved(w) /\ ret[w] > 0
    BY <1>2, SizeFacts DEF Deals, Ended, Sound, GotBy, ResultOf
  <2>2. Len(got[w]) # 0
    BY <1>2, <2>1, SizeFacts DEF Deals, Ended, Sound, ResultOf, Moved, Told, AtHeader, Part
  <2>3. got[w] # <<>>
    BY <2>2
  <2>4. Head(got[w]) \in Units
    BY <2>1, <2>3, HeadTailProperties
  <2> QED
    BY <2>4 DEF Message, Units
<1>5. msg_q' \in [LightWorks -> Seq(Messages)]
  <2>1. Append(msg_q[v], Message(w)) \in Seq(Messages)
    BY <1>2, <1>4, AppendProperties
  <2> QED
    BY <2>1 DEF Deals, Deal, TypeInv, LightType
<1>6. LightType'
  BY <1>5 DEF Deals, Deal, TypeInv, LightType
<1>7. works_q' \in [Procs -> Seq(Works)]
  <2>1. Woken(v) \in Seq(Works) /\ (IF fresh THEN <<v>> ELSE <<>>) \in Seq(Works)
    BY <1>1 DEF Woken
  <2>2. (IF fresh THEN <<v>> ELSE <<>>) \o Woken(v) \in Seq(Works)
    BY <2>1, ConcatProperties
  <2> QED
    BY <2>2, TakenType DEF Deals
<1>e. <<>> \in Seq(Units) /\ Len(<<>>) = 0
  OBVIOUS
<1>8. Sound(w)'
  BY <1>3, <1>e, SizeFacts DEF Sets, Sound, ResultOf, GotBy, Reading, Writing, PlacesOf, Part, Moved, Told, AtHeader
<1>9. Sound(v)'
  <2>1. v \in handler => ~fresh
    OBVIOUS
  <2>2. pc'[v] \in PlacesOf(v[1])
    BY <1>1, <1>2, <1>3 DEF Sound, PlacesOf
  <2>3. ResultOf(v)'
    BY <1>2, <1>3, <2>1, SizeFacts DEF Sound, ResultOf, Reading, Writing, Part, AtHeader, All
  <2>4. GotBy(v)'
    <3>1. ~Reading(v) /\ ~Reading(v)'
      BY <1>1, <1>3, Kinds DEF Reading
    <3>2. (Writing(v)' => Writing(v)) /\ (pc'[v] = pc[v] \/ pc[v] = "none")
      BY <1>3 DEF Writing
    <3> QED
      BY <1>2, <1>3, <3>1, <3>2 DEF Sound, GotBy
  <2> QED
    BY <2>2, <2>3, <2>4 DEF Sound
<1>10. WorkType' /\ WorkInv'
  <2>1. HdrLen \in Int /\ Unset \in Int /\ crashed' \subseteq Procs
    BY <1>3, SizeFacts DEF TypeInv, WorkType
  <2>2. \A u \in Works \cap {w, v} : Sound(u)' /\ rem'[u] \in Int /\ ret'[u] \in Int
    BY <1>2, <1>3, <1>8, <1>9, <2>1 DEF Sets
  <2> QED
    BY <1>3, <1>7, <2>1, <2>2, WorksKept
<1>11. NetType'
  BY <1>1, <1>3, AccName, NetKept DEF Deals, Others
<1> QED
  BY <1>6, <1>10, <1>11 DEF TypeInv

-----------------------------------------------------------------------------
(* The queues of the workers *)

(* works_q holds 5001 works (mod_worker.hpp:42): every work of a process once. *)
EnoughRoom == IsFiniteSet(Clients) /\ QCap > 2 * Cardinality(Clients)

(* The works of one process. *)
LEMMA Homes ==
  ASSUME EnoughRoom, NEW p \in Procs
  PROVE  LET S == {w \in Works : Home(w) = p} IN IsFiniteSet(S) /\ Cardinality(S) <= QCap
<1> DEFINE S == {w \in Works : Home(w) = p}
<1>n. Cardinality(Clients) \in Nat /\ QCap \in Nat /\ IsFiniteSet(Clients)
  BY FS_CardinalityType, Constants DEF EnoughRoom
<1>1. CASE p = Server
  <2> DEFINE K == {"srecv", "serve"}
             T == K \X Clients
  <2>1. S = T \cup {Acc}
    <3>1. ASSUME NEW w \in Works PROVE Home(w) = p <=> w \in T \cup {Acc}
      <4>1. p = Server /\ p \notin Clients
        BY <1>1, Constants
      <4>2. CASE w = Acc
        BY <4>1, <4>2, AccName
      <4>3. CASE w # Acc
        <5>1. w[2] \in Clients /\ (w[1] \in K => w = <<w[1], w[2]>>)
          BY <4>3, WorkCases DEF Srcv, Srv
        <5>2. w[1] \in K <=> Home(w) = p
          BY <4>1, <4>3, <5>1, WorkCases DEF Home
        <5>3. w \in T <=> w[1] \in K
          BY <5>1
        <5> QED
          BY <4>3, <5>2, <5>3
      <4> QED
        BY <4>2, <4>3
    <3>2. ASSUME NEW w \in T \cup {Acc} PROVE w \in Works
      BY AccName DEF Works
    <3> QED
      BY <3>1, <3>2
  <2>2. IsFiniteSet(K) /\ Cardinality(K) = 2
    <3>1. K = {"srecv"} \cup {"serve"} /\ "serve" \notin {"srecv"}
      OBVIOUS
    <3>2. IsFiniteSet({"srecv"}) /\ Cardinality({"srecv"}) = 1
      BY FS_Singleton
    <3> QED
      BY <3>1, <3>2, FS_AddElement
  <2> HIDE DEF K
  <2>3. IsFiniteSet(T) /\ Cardinality(T) = 2 * Cardinality(Clients)
    BY <1>n, <2>2, FS_Product
  <2> HIDE DEF T
  <2>4. IsFiniteSet(T \cup {Acc}) /\ Cardinality(T \cup {Acc}) <= 2 * Cardinality(Clients) + 1
    <3>1. Cardinality(T) \in Nat
      BY <1>n, <2>3
    <3>2. /\ IsFiniteSet(T \cup {Acc})
          /\ Cardinality(T \cup {Acc}) = IF Acc \in T THEN Cardinality(T) ELSE Cardinality(T) + 1
      BY <2>3, FS_AddElement
    <3> QED
      BY <1>n, <2>3, <3>1, <3>2
  <2>5. Cardinality(S) <= 2 * Cardinality(Clients) + 1 /\ IsFiniteSet(S)
    BY <2>1, <2>4
  <2> HIDE DEF S
  <2>6. Cardinality(S) \in Nat
    BY <2>5, FS_CardinalityType
  <2>7. QCap > 2 * Cardinality(Clients)
    BY DEF EnoughRoom
  <2> QED
    BY <1>n, <2>5, <2>6, <2>7 DEF S
<1>2. CASE p \in Clients
  <2>1. S = {Clt(p)} \cup {Req(p)} \cup {Rcv(p)}
    <3>1. ASSUME NEW w \in Works PROVE Home(w) = p <=> w \in {Clt(p), Req(p), Rcv(p)}
      BY <1>2, WorkCases, Names, AccName, Constants
    <3>2. {Clt(p), Req(p), Rcv(p)} \subseteq Works
      BY <1>2, Names
    <3> QED
      BY <3>1, <3>2
  <2>2. IsFiniteSet({Clt(p)}) /\ Cardinality({Clt(p)}) = 1
    BY FS_Singleton
  <2> DEFINE A == {Clt(p)} \cup {Req(p)}
  <2>3. IsFiniteSet(A) /\ Cardinality(A) \in Nat /\ Cardinality(A) <= 2
    <3>1. /\ IsFiniteSet(A)
          /\ Cardinality(A) = IF Req(p) \in {Clt(p)} THEN Cardinality({Clt(p)}) ELSE Cardinality({Clt(p)}) + 1
      BY <2>2, FS_AddElement
    <3> QED
      BY <2>2, <3>1
  <2>4. IsFiniteSet(A \cup {Rcv(p)}) /\ Cardinality(A \cup {Rcv(p)}) <= 3
    <3> HIDE DEF A
    <3>1. /\ IsFiniteSet(A \cup {Rcv(p)})
          /\ Cardinality(A \cup {Rcv(p)}) = IF Rcv(p) \in A THEN Cardinality(A) ELSE Cardinality(A) + 1
      BY <2>3, FS_AddElement
    <3> QED
      BY <2>3, <3>1
  <2>5. Cardinality(Clients) # 0
    BY <1>n, <1>2, FS_EmptySet
  <2>6. QCap >= 3
    BY <1>n, <2>5 DEF EnoughRoom
  <2>7. Cardinality(S) <= 3 /\ IsFiniteSet(S)
    BY <2>1, <2>4
  <2> HIDE DEF S
  <2>8. Cardinality(S) \in Nat
    BY <2>7, FS_CardinalityType
  <2> QED
    BY <1>n, <2>6, <2>7, <2>8 DEF S
<1> QED
  BY <1>1, <1>2 DEF Procs

LEMMA Room ==
  ASSUME EnoughRoom, NEW p \in Procs, NEW q \in Seq(Works), Once(q),
         \A i \in DOMAIN q : Home(q[i]) = p
  PROVE  Len(q) <= QCap
<1> DEFINE S == {w \in Works : Home(w) = p}
           D == 1 .. Len(q)
<1>1. IsFiniteSet(S) /\ Cardinality(S) <= QCap /\ Cardinality(S) \in Nat
  BY Homes, FS_CardinalityType
<1>2. Len(q) \in Nat /\ DOMAIN q = D /\ q \in [D -> Works]
  BY LenProperties
<1>3. q \in Injection(D, S)
  <2>1. q \in [D -> S]
    BY <1>2
  <2> QED
    BY <1>2, <2>1 DEF Injection, IsInjective, Once
<1> HIDE DEF S
<1>4. Cardinality(D) <= Cardinality(S)
  BY <1>1, <1>3, FS_Injection
<1>5. Cardinality(D) = Len(q)
  <2>1. 1 \in Int /\ Len(q) \in Int
    BY <1>2
  <2>2. Cardinality(D) = IF 1 > Len(q) THEN 0 ELSE Len(q) - 1 + 1
    BY <2>1, FS_Interval
  <2> QED
    BY <1>2, <2>2
<1> QED
  BY <1>1, <1>2, <1>4, <1>5, Constants

(* Works put behind those that wait, none of them twice, all find room. *)
LEMMA Joined ==
  ASSUME EnoughRoom, NEW p \in Procs, NEW q \in Seq(Works), NEW news \in Seq(Works),
         Once(q), Once(news),
         \A i \in DOMAIN q : Home(q[i]) = p, \A i \in DOMAIN news : Home(news[i]) = p,
         \A i \in DOMAIN news : ~InQueue(q, news[i]), NEW t, t = Pushed(q, news)
  PROVE  /\ t \in Seq(Works) /\ Once(t) /\ \A i \in DOMAIN t : Home(t[i]) = p
         /\ \A w : InQueue(t, w) <=> InQueue(q, w) \/ InQueue(news, w)
         /\ \A v, w : Precedes(q, v, w) => Precedes(t, v, w)
         /\ \A v, w : InQueue(q, v) /\ InQueue(news, w) => Precedes(t, v, w)
<1> DEFINE s == q \o news
           m == Len(q)
           n == Len(news)
<1>1. /\ m \in Nat /\ n \in Nat /\ DOMAIN q = 1 .. m /\ DOMAIN news = 1 .. n
      /\ s \in Seq(Works) /\ Len(s) = m + n
      /\ \A i \in 1 .. m + n : s[i] = IF i <= m THEN q[i] ELSE news[i - m]
  BY ConcatProperties, LenProperties
<1>2. DOMAIN s = 1 .. m + n
  BY <1>1, LenProperties
<1> HIDE DEF s, m, n
<1>3. \A i \in 1 .. m : s[i] = q[i] /\ i \in 1 .. m + n
  BY <1>1
<1>4. \A i \in 1 .. n : s[i + m] = news[i] /\ i + m \in 1 .. m + n /\ i + m > m
  <2>1. ASSUME NEW i \in 1 .. n PROVE s[i + m] = news[i] /\ i + m \in 1 .. m + n /\ i + m > m
    <3>1. i + m \in 1 .. m + n /\ i + m > m /\ (i + m) - m = i
      BY <1>1
    <3> QED
      BY <1>1, <3>1
  <2> QED
    BY <2>1
<1>5. \A i \in 1 .. m + n : \/ i \in 1 .. m /\ s[i] = q[i]
                            \/ i \notin 1 .. m /\ i - m \in 1 .. n /\ s[i] = news[i - m]
  BY <1>1
<1>6. Once(s)
  <2>1. ASSUME NEW i \in 1 .. m + n, NEW j \in 1 .. m + n, s[i] = s[j] PROVE i = j
    <3>1. CASE i \in 1 .. m /\ j \in 1 .. m
      BY <1>1, <1>3, <2>1, <3>1 DEF Once
    <3>2. CASE i \notin 1 .. m /\ j \notin 1 .. m
      <4>1. i - m \in 1 .. n /\ j - m \in 1 .. n /\ news[i - m] = news[j - m]
        BY <1>5, <2>1, <3>2
      <4>2. i - m = j - m
        BY <1>1, <4>1 DEF Once
      <4> QED
        BY <1>1, <4>2
    <3>3. CASE i \in 1 .. m /\ j \notin 1 .. m
      BY <1>1, <1>5, <2>1, <3>3 DEF InQueue
    <3>4. CASE i \notin 1 .. m /\ j \in 1 .. m
      BY <1>1, <1>5, <2>1, <3>4 DEF InQueue
    <3> QED
      BY <3>1, <3>2, <3>3, <3>4
  <2> QED
    BY <1>2, <2>1 DEF Once
<1>7. \A i \in DOMAIN s : Home(s[i]) = p
  BY <1>1, <1>2, <1>5
<1>8. t = s
  BY <1>1, <1>6, <1>7, Room DEF Pushed, s
<1>9. \A w : InQueue(s, w) <=> InQueue(q, w) \/ InQueue(news, w)
  <2>1. ASSUME NEW w, InQueue(q, w) PROVE InQueue(s, w)
    BY <1>1, <1>2, <1>3, <2>1 DEF InQueue
  <2>2. ASSUME NEW w, InQueue(news, w) PROVE InQueue(s, w)
    BY <1>1, <1>2, <1>4, <2>2 DEF InQueue
  <2>3. ASSUME NEW w, InQueue(s, w) PROVE InQueue(q, w) \/ InQueue(news, w)
    <3>1. PICK i \in 1 .. m + n : s[i] = w
      BY <1>2, <2>3 DEF InQueue
    <3> QED
      BY <1>1, <1>5, <3>1 DEF InQueue
  <2> QED
    BY <2>1, <2>2, <2>3
<1>10. \A v, w : Precedes(q, v, w) => Precedes(s, v, w)
  BY <1>1, <1>2, <1>3 DEF Precedes
<1>11. ASSUME NEW v, NEW w, InQueue(q, v), InQueue(news, w) PROVE Precedes(s, v, w)
  <2>1. PICK i \in 1 .. m : q[i] = v
    BY <1>1, <1>11 DEF InQueue
  <2>2. PICK j \in 1 .. n : news[j] = w
    BY <1>1, <1>11 DEF InQueue
  <2>3. s[i] = v /\ s[j + m] = w /\ i \in DOMAIN s /\ j + m \in DOMAIN s
    BY <1>2, <1>3, <1>4, <2>1, <2>2
  <2>4. i < j + m
    BY <1>1
  <2> QED
    BY <2>3, <2>4 DEF Precedes
<1> QED
  BY <1>1, <1>6, <1>7, <1>8, <1>9, <1>10, <1>11

(* The head is taken. *)
LEMMA Popped ==
  ASSUME NEW q \in Seq(Works), q # <<>>, Once(q), NEW p, \A i \in DOMAIN q : Home(q[i]) = p,
         NEW h, h = Head(q), NEW t, t = Tail(q)
  PROVE  /\ t \in Seq(Works) /\ Once(t) /\ \A i \in DOMAIN t : Home(t[i]) = p
         /\ \A w : InQueue(t, w) <=> InQueue(q, w) /\ w # h
         /\ \A v, w : Precedes(q, v, w) /\ v # h => Precedes(t, v, w)
         /\ \A v : ~Precedes(q, v, h)
         /\ InQueue(q, h)
<1> DEFINE n == Len(q)
<1>1. /\ t \in Seq(Works) /\ Len(t) = n - 1 /\ n \in Nat \ {0} /\ DOMAIN q = 1 .. n
      /\ h = q[1]
      /\ \A i \in 1 .. n - 1 : t[i] = q[i + 1]
  BY HeadTailProperties, LenProperties, EmptySeq
<1>2. DOMAIN t = 1 .. n - 1
  BY <1>1, LenProperties
<1> HIDE DEF n
<1>3. \A i \in 1 .. n - 1 : i + 1 \in 1 .. n /\ i + 1 # 1 /\ t[i] = q[i + 1]
  BY <1>1
<1>4. \A i \in 1 .. n : i # 1 => i - 1 \in 1 .. n - 1 /\ t[i - 1] = q[i]
  <2>1. ASSUME NEW i \in 1 .. n, i # 1 PROVE i - 1 \in 1 .. n - 1 /\ t[i - 1] = q[i]
    <3>1. i - 1 \in 1 .. n - 1 /\ (i - 1) + 1 = i
      BY <1>1, <2>1
    <3> QED
      BY <1>3, <3>1
  <2> QED
    BY <2>1
<1>5. Once(t)
  <2>1. ASSUME NEW i \in 1 .. n - 1, NEW j \in 1 .. n - 1, t[i] = t[j] PROVE i = j
    <3>1. i + 1 = j + 1
      BY <1>1, <1>3, <2>1 DEF Once
    <3> QED
      BY <1>1, <3>1
  <2> QED
    BY <1>2, <2>1 DEF Once
<1>6. \A i \in DOMAIN t : Home(t[i]) = p
  BY <1>1, <1>2, <1>3
<1>7. ASSUME NEW w PROVE InQueue(t, w) <=> InQueue(q, w) /\ w # h
  <2>1. ASSUME InQueue(t, w) PROVE InQueue(q, w) /\ w # h
    <3>1. PICK i \in 1 .. n - 1 : t[i] = w
      BY <1>2, <2>1 DEF InQueue
    <3>2. q[i + 1] = w /\ i + 1 \in 1 .. n /\ i + 1 # 1 /\ 1 \in 1 .. n
      BY <1>1, <1>3, <3>1
    <3> QED
      BY <1>1, <3>2 DEF InQueue, Once
  <2>2. ASSUME InQueue(q, w), w # h PROVE InQueue(t, w)
    BY <1>1, <1>2, <1>4, <2>2 DEF InQueue
  <2> QED
    BY <2>1, <2>2
<1>8. ASSUME NEW v, NEW w, Precedes(q, v, w), v # h PROVE Precedes(t, v, w)
  <2>1. PICK i \in 1 .. n, j \in 1 .. n : i < j /\ q[i] = v /\ q[j] = w
    BY <1>1, <1>8 DEF Precedes
  <2>2. i # 1 /\ j # 1 /\ i - 1 < j - 1
    BY <1>1, <1>8, <2>1
  <2> QED
    BY <1>2, <1>4, <2>1, <2>2 DEF Precedes
<1>9. ASSUME NEW v, Precedes(q, v, h) PROVE FALSE
  <2>1. PICK i \in 1 .. n, j \in 1 .. n : i < j /\ q[j] = q[1]
    BY <1>1, <1>9 DEF Precedes
  <2>2. j = 1
    BY <1>1, <2>1 DEF Once
  <2> QED
    BY <1>1, <2>1, <2>2
<1>10. InQueue(q, h)
  BY <1>1 DEF InQueue
<1> QED
  BY <1>1, <1>5, <1>6, <1>7, <1>8, <1>9, <1>10

(* What a step leaves in the queue of a process: t. *)
LEMMA TakenQueue ==
  ASSUME TypeInv, QueueInv, EnoughRoom, NEW w \in Works, NEW news \in Seq(Works), Taken(w, news),
         Once(news),
         \A i \in DOMAIN news : Home(news[i]) = Home(w) /\ ~Ready(news[i]) /\ pc[news[i]] # "new",
         NEW p, p = Home(w), NEW q, q = works_q[p], NEW t, t = works_q'[p]
  PROVE  /\ p \in Procs /\ p \notin crashed /\ InQueue(q, w)
         /\ Once(t) /\ \A i \in DOMAIN t : Home(t[i]) = p
         /\ \A u : InQueue(t, u) <=> (InQueue(q, u) /\ u # w) \/ InQueue(news, u)
         /\ \A v, u : Precedes(q, v, u) /\ v # w => Precedes(t, v, u)
         /\ \A v : ~Precedes(q, v, w)
         /\ \A r \in Procs \ {p} : works_q'[r] = works_q[r]
<1>1. p \in Procs /\ q \in Seq(Works) /\ works_q \in [Procs -> Seq(Works)]
  BY HomeType DEF TypeInv, WorkType
<1>2. p \notin crashed /\ q # <<>> /\ Head(q) = w
  BY DEF Taken
<1>3. Once(q) /\ \A i \in DOMAIN q : Home(q[i]) = p
  BY <1>1, <1>2 DEF QueueInv
<1>a. PICK a : a = Tail(q)
  OBVIOUS
<1>4. /\ a \in Seq(Works) /\ Once(a) /\ \A i \in DOMAIN a : Home(a[i]) = p
      /\ \A u : InQueue(a, u) <=> InQueue(q, u) /\ u # w
      /\ \A v, u : Precedes(q, v, u) /\ v # w => Precedes(a, v, u)
      /\ \A v : ~Precedes(q, v, w)
      /\ InQueue(q, w)
  <2>1. q \in Seq(Works) /\ q # <<>> /\ Once(q) /\ w = Head(q) /\ a = Tail(q)
    BY <1>1, <1>2, <1>3, <1>a
  <2>2. \A i \in DOMAIN q : Home(q[i]) = p
    BY <1>3
  <2> QED
    BY ONLY <2>1, <2>2, Popped
<1>5. t = Pushed(a, news) /\ \A r \in Procs \ {p} : works_q'[r] = works_q[r]
  BY <1>1, <1>a DEF Taken
<1>6. \A i \in DOMAIN news : ~InQueue(a, news[i]) /\ Home(news[i]) = p
  <2>1. ASSUME NEW i \in DOMAIN news PROVE ~InQueue(a, news[i]) /\ Home(news[i]) = p
    <3>1. news[i] \in Works
      BY <2>1, LenProperties, ElementOfSeq
    <3> QED
      BY <1>1, <1>2, <1>4, <2>1, <3>1 DEF QueueInv
  <2> QED
    BY <2>1
<1>7. /\ Once(t) /\ \A i \in DOMAIN t : Home(t[i]) = p
      /\ \A u : InQueue(t, u) <=> InQueue(a, u) \/ InQueue(news, u)
      /\ \A v, u : Precedes(a, v, u) => Precedes(t, v, u)
  BY <1>1, <1>4, <1>5, <1>6, Joined
<1> QED
  BY <1>1, <1>2, <1>4, <1>5, <1>7

LEMMA BackQueue ==
  ASSUME TypeInv, QueueInv, EnoughRoom, NEW w \in Works, AddSelfBack(w), ~Ready(w), pc[w] # "new",
         NEW p, p = Home(w), NEW q, q = works_q[p], NEW t, t = works_q'[p]
  PROVE  /\ p \in Procs /\ p \notin crashed
         /\ Once(t) /\ \A i \in DOMAIN t : Home(t[i]) = p
         /\ \A u : InQueue(t, u) <=> InQueue(q, u) \/ u = w
         /\ \A v, u : Precedes(q, v, u) => Precedes(t, v, u)
         /\ \A v : InQueue(q, v) => Precedes(t, v, w)
         /\ \A r \in Procs \ {p} : works_q'[r] = works_q[r]
<1>1. p \in Procs /\ q \in Seq(Works) /\ works_q \in [Procs -> Seq(Works)]
  BY HomeType DEF TypeInv, WorkType
<1>2. p \notin crashed
  BY DEF AddSelfBack
<1>3. Once(q) /\ \A i \in DOMAIN q : Home(q[i]) = p
  BY <1>1, <1>2 DEF QueueInv
<1>4. t = Pushed(q, <<w>>) /\ \A r \in Procs \ {p} : works_q'[r] = works_q[r]
  BY <1>1 DEF AddSelfBack
<1> DEFINE news == <<w>>
<1>5. news \in Seq(Works) /\ DOMAIN news = {1} /\ news[1] = w
  OBVIOUS
<1> HIDE DEF news
<1>6. Once(news) /\ \A u : InQueue(news, u) <=> u = w
  BY <1>5 DEF Once, InQueue
<1>7. ~InQueue(q, w)
  BY <1>1, <1>2 DEF QueueInv
<1>8. \A i \in DOMAIN news : Home(news[i]) = p /\ ~InQueue(q, news[i])
  BY <1>5, <1>7
<1>9. t = Pushed(q, news)
  BY <1>4 DEF news
<1>10. /\ Once(t) /\ \A i \in DOMAIN t : Home(t[i]) = p
       /\ \A u : InQueue(t, u) <=> InQueue(q, u) \/ InQueue(news, u)
       /\ \A v, u : Precedes(q, v, u) => Precedes(t, v, u)
       /\ \A v, u : InQueue(q, v) /\ InQueue(news, u) => Precedes(t, v, u)
  BY <1>1, <1>3, <1>5, <1>6, <1>8, <1>9, Joined
<1> QED
  BY <1>1, <1>2, <1>4, <1>6, <1>10

LEMMA ReadySame ==
  ASSUME NEW u, Same(u)
  PROVE  Ready(u)' = Ready(u) /\ pc'[u] = pc[u]
BY DEF Same, Ready, Sending, Writing

(* The works that a step touches are those of one process. *)
LEMMA QueueKept ==
  ASSUME TypeInv, QueueInv, NEW p \in Procs, p \notin crashed, crashed \subseteq crashed',
         NEW W, Others(W), NEW t, t = works_q'[p],
         Once(t), \A i \in DOMAIN t : Home(t[i]) = p,
         \A u \in Works \ W : InQueue(t, u) <=> InQueue(works_q[p], u),
         \A u \in W : u \in Works /\ Home(u) = p,
         \A u \in W : (Ready(u)' => InQueue(t, u)) /\ (InQueue(t, u) => Ready(u)' \/ pc'[u] = "new"),
         \A r \in Procs \ {p} : works_q'[r] = works_q[r]
  PROVE  QueueInv'
<1>1. SUFFICES ASSUME NEW r \in Procs, r \notin crashed'
               PROVE  /\ Once(works_q'[r])
                      /\ \A i \in DOMAIN works_q'[r] : Home(works_q'[r][i]) = r
                      /\ \A u \in Works : Home(u) = r =>
                           /\ Ready(u)' => InQueue(works_q'[r], u)
                           /\ InQueue(works_q'[r], u) => Ready(u)' \/ pc'[u] = "new"
  BY DEF QueueInv
<1>2. r \notin crashed
  BY <1>1
<1>3. /\ Once(works_q[r]) /\ \A i \in DOMAIN works_q[r] : Home(works_q[r][i]) = r
      /\ \A u \in Works : Home(u) = r =>
            /\ Ready(u) => InQueue(works_q[r], u)
            /\ InQueue(works_q[r], u) => Ready(u) \/ pc[u] = "new"
  BY <1>1, <1>2 DEF QueueInv
<1>4. \A u \in Works \ W : Ready(u)' = Ready(u) /\ pc'[u] = pc[u]
  BY ReadySame DEF Others
<1>5. CASE r = p
  <2>1. ASSUME NEW u \in Works, Home(u) = r
        PROVE  /\ Ready(u)' => InQueue(t, u)
               /\ InQueue(t, u) => Ready(u)' \/ pc'[u] = "new"
    <3>1. CASE u \in W
      BY <3>1
    <3>2. CASE u \notin W
      BY <1>3, <1>4, <1>5, <2>1, <3>2
    <3> QED
      BY <3>1, <3>2
  <2> QED
    BY <1>5, <2>1
<1>6. CASE r # p
  <2>1. works_q'[r] = works_q[r]
    BY <1>1, <1>6
  <2>2. ASSUME NEW u \in Works, Home(u) = r
        PROVE  /\ Ready(u)' => InQueue(works_q[r], u)
               /\ InQueue(works_q[r], u) => Ready(u)' \/ pc'[u] = "new"
    <3>1. u \notin W
      BY <1>6, <2>2
    <3> QED
      BY <1>3, <1>4, <2>2, <3>1
  <2> QED
    BY <1>3, <2>1, <2>2
<1> QED
  BY <1>5, <1>6

LEMMA Nothing == <<>> \in Seq(Works) /\ Once(<<>>) /\ DOMAIN <<>> = {} /\ \A u : ~InQueue(<<>>, u)
BY DEF Once, InQueue

(* A work that suspends leaves the queue, one whose operation ends joins it. *)
LEMMA SuspendedQueue ==
  ASSUME TypeInv, QueueInv, EnoughRoom, NEW w \in Works, NEW at, NEW n, NEW g,
         Sets(w, at, n, g, Unset), Others({w}), Taken(w, <<>>), crashed \subseteq crashed'
  PROVE  QueueInv'
<1> DEFINE p == Home(w)
           t == works_q'[p]
<1>1. /\ p \in Procs /\ p \notin crashed /\ Once(t) /\ \A i \in DOMAIN t : Home(t[i]) = p
      /\ \A u : InQueue(t, u) <=> (InQueue(works_q[p], u) /\ u # w) \/ InQueue(<<>>, u)
      /\ \A r \in Procs \ {p} : works_q'[r] = works_q[r]
  BY Nothing, TakenQueue
<1>2. \A u : InQueue(t, u) <=> InQueue(works_q[p], u) /\ u # w
  BY <1>1, Nothing
<1>3. ~Ready(w)'
  BY DEF Ready, Sets
<1> HIDE DEF t, p
<1>4. \A u \in {w} : u \in Works /\ Home(u) = p
  BY DEF p
<1>5. \A u \in {w} : (Ready(u)' => InQueue(t, u)) /\ (InQueue(t, u) => Ready(u)' \/ pc'[u] = "new")
  BY <1>2, <1>3
<1>6. \A u \in Works \ {w} : InQueue(t, u) <=> InQueue(works_q[p], u)
  BY <1>2
<1>7. t = works_q'[p]
  BY DEF t
<1> QED
  BY <1>1, <1>4, <1>5, <1>6, <1>7, QueueKept

LEMMA CompletedQueue ==
  ASSUME TypeInv, QueueInv, EnoughRoom, NEW w \in Works, NEW g, NEW r,
         Completes(w, g, r), ret[w] = Unset \/ Sending(w),
         pc[w] \notin {"none", "new", "done"}, r # Unset, ~(r < Unset)
  PROVE  QueueInv'
<1> DEFINE p == Home(w)
           t == works_q'[p]
<1>0. ~Ready(w) /\ AddSelfBack(w) /\ pc[w] # "new"
  BY DEF Ready, Completes
<1>1. /\ p \in Procs /\ p \notin crashed /\ Once(t) /\ \A i \in DOMAIN t : Home(t[i]) = p
      /\ \A u : InQueue(t, u) <=> InQueue(works_q[p], u) \/ u = w
      /\ \A x \in Procs \ {p} : works_q'[x] = works_q[x]
  BY <1>0, BackQueue
<1>3. Ready(w)' /\ Others({w}) /\ crashed \subseteq crashed'
  BY DEF Ready, Sending, Sets, Completes, RestSame
<1> HIDE DEF t, p
<1>4. \A u \in {w} : u \in Works /\ Home(u) = p
  BY DEF p
<1>5. \A u \in {w} : (Ready(u)' => InQueue(t, u)) /\ (InQueue(t, u) => Ready(u)' \/ pc'[u] = "new")
  BY <1>1, <1>3
<1>6. \A u \in Works \ {w} : InQueue(t, u) <=> InQueue(works_q[p], u)
  BY <1>1
<1>7. t = works_q'[p]
  BY DEF t
<1> QED
  BY <1>1, <1>3, <1>4, <1>5, <1>6, <1>7, QueueKept

-----------------------------------------------------------------------------
(* Connections and the works that they begin *)

(* One work goes from one place to another, and no connection begins. *)
LEMMA StartKept ==
  ASSUME TypeInv, AcceptInv, NEW w \in Works, Others({w}), backlog' = backlog, peer' = peer,
         alive' \subseteq alive,
         pc[w] # "none", pc[w] # "done", pc'[w] \notin {"none", "new"},
         handler' \subseteq handler \cup {w},
         \A c \in Clients : c \notin alive => up'[c] = up[c] /\ down'[c] = down[c],
         \A c \in Clients : w = Clt(c) => (Unconnected(c)' => Unconnected(c)),
         w = Acc => (pc'[Acc] = "accept" /\ ret'[Acc] = Unset => pc[Acc] = "new")
  PROVE  AcceptInv'
<1>0. \A u \in Works \ {w} : pc'[u] = pc[u] /\ ret'[u] = ret[u]
  BY DEF Others, Same
<1>1. ASSUME NEW c \in Clients PROVE StartInv(c)'
  <2>0. /\ Clt(c) \in Works /\ Req(c) \in Works /\ Rcv(c) \in Works /\ Srcv(c) \in Works /\ Srv(c) \in Works
        /\ Clt(c) # Req(c) /\ Clt(c) # Rcv(c) /\ Clt(c) # Srcv(c) /\ Clt(c) # Srv(c)
        /\ Req(c) # Rcv(c) /\ Req(c) # Srcv(c) /\ Req(c) # Srv(c)
        /\ Rcv(c) # Srcv(c) /\ Rcv(c) # Srv(c) /\ Srcv(c) # Srv(c)
    BY Names, Different
  <2>1. StartInv(c)
    BY DEF AcceptInv
  <2>2. Unconnected(c)' => Unconnected(c)
    BY <1>0, <2>0 DEF Unconnected
  <2>3. /\ pc'[Clt(c)] # "done" => pc[Clt(c)] # "done"
        /\ \A u \in WorksOf(c) : (pc'[u] = "none" <=> pc[u] = "none")
                                 /\ (pc'[u] \in {"none", "new"} => pc[u] \in {"none", "new"} /\ u # w)
    BY <1>0, <2>0 DEF WorksOf
  <2>4. Unconnected(c) => up'[c] = <<>> /\ down'[c] = <<>> /\ c \notin alive'
    BY <2>1 DEF StartInv
  <2> QED
    BY <2>1, <2>2, <2>3, <2>4 DEF StartInv, WorksOf
<1>2. \A i \in DOMAIN backlog : backlog[i] \in Clients
  BY LenProperties, ElementOfSeq DEF TypeInv, NetType
<1>3. \A i \in DOMAIN backlog : pc'[Srcv(backlog[i])] = "none"
  BY <1>0, <1>2, Names DEF AcceptInv
<1>4. pc'[Acc] = "new" \/ (pc'[Acc] = "accept" /\ ret'[Acc] = Unset) => peer = None
  BY <1>0, AccName DEF AcceptInv
<1> QED
  BY <1>1, <1>3, <1>4 DEF AcceptInv

(* What the places of the works of a connection may be told from. *)
LEMMA StartFrame ==
  ASSUME TypeInv, NEW c \in Clients, StartInv(c), NEW W, Others(W), WorksOf(c) \cap W = {},
         handler' \subseteq handler, c \in alive' => c \in alive,
         up'[c] = up[c] \/ up'[c] = <<>>, down'[c] = down[c] \/ down'[c] = <<>>,
         peer' = c => \/ peer = c
                      \/ pc[Srcv(c)] = "none" /\ (\A i \in DOMAIN backlog' : backlog'[i] # c) /\ ~Unconnected(c),
         peer' = c \/ Unconnected(c)
         => ((\A i \in DOMAIN backlog : backlog[i] # c) => \A i \in DOMAIN backlog' : backlog'[i] # c)
  PROVE  StartInv(c)'
<1>0. WorksOf(c) \subseteq Works
  BY Names DEF WorksOf
<1>1. \A u \in WorksOf(c) : pc'[u] = pc[u] /\ ret'[u] = ret[u]
  BY <1>0 DEF Others, Same
<1>2. Unconnected(c)' <=> Unconnected(c)
  BY <1>1 DEF Unconnected, WorksOf
<1> QED
  BY <1>1, <1>2 DEF StartInv, WorksOf

LEMMA BacklogType ==
  ASSUME TypeInv
  PROVE  /\ backlog \in Seq(Clients) /\ Len(backlog) \in Nat /\ DOMAIN backlog = 1 .. Len(backlog)
         /\ \A i \in DOMAIN backlog : backlog[i] \in Clients
<1>1. backlog \in Seq(Clients)
  BY DEF TypeInv, NetType
<1> QED
  BY <1>1, LenProperties, ElementOfSeq

LEMMA ConnectedStart ==
  ASSUME TypeInv, AcceptInv, NEW c \in Clients, Connected(c)
  PROVE  AcceptInv'
<1> DEFINE n == Len(backlog)
<1>1. /\ n \in Nat /\ DOMAIN backlog = 1 .. n /\ \A i \in 1 .. n : backlog[i] \in Clients
      /\ DOMAIN backlog' = 1 .. n + 1 /\ backlog'[n + 1] = c
      /\ \A i \in 1 .. n : backlog'[i] = backlog[i]
  <2>1. backlog' \in Seq(Clients) /\ Len(backlog') = n + 1
    BY BacklogType, AppendProperties DEF Connected
  <2> QED
    BY <2>1, BacklogType, AppendProperties, LenProperties DEF Connected
<1> HIDE DEF n
<1>2. Unconnected(c) /\ StartInv(c)
  BY DEF Connected, Unconnected, AcceptInv, Unset
<1>3. \A i \in 1 .. n : backlog[i] # c
  BY <1>1, <1>2 DEF StartInv
<1>4. \A i \in 1 .. n + 1 : (i \in 1 .. n /\ backlog'[i] = backlog[i]) \/ (i = n + 1 /\ backlog'[i] = c)
  BY <1>1
<1>5. /\ Others({Clt(c)}) /\ handler' = handler /\ peer' = peer /\ up' = up /\ down' = down
      /\ alive' = alive \cup {c}
      /\ pc'[Clt(c)] = "connect" /\ ret'[Clt(c)] = 0 /\ pc[Clt(c)] = "connect"
  BY DEF Connected, Completes, Sets, LightSame
<1>6. ASSUME NEW d \in Clients PROVE StartInv(d)'
  <2>1. CASE d = c
    <3>1. /\ ~Unconnected(c)' /\ peer # c
      BY <1>2, <1>5 DEF Unconnected, StartInv
    <3>2. \A u \in {Req(c), Rcv(c), Srcv(c), Srv(c)} : pc'[u] = pc[u]
      BY <1>5, Names, Different DEF Others, Same
    <3> QED
      BY <1>2, <1>5, <2>1, <3>1, <3>2 DEF StartInv
  <2>2. CASE d # c
    <3>1. WorksOf(d) \cap {Clt(c)} = {} /\ StartInv(d)
      BY <2>2, Different DEF WorksOf, AcceptInv
    <3>2. d \in alive' => d \in alive
      BY <1>5, <2>2
    <3>3. (\A i \in DOMAIN backlog : backlog[i] # d) => \A i \in DOMAIN backlog' : backlog'[i] # d
      BY <1>1, <1>4, <2>2
    <3> QED
      BY <1>5, <3>1, <3>2, <3>3, StartFrame
  <2> QED
    BY <2>1, <2>2
<1>7. \A i, j \in DOMAIN backlog' : backlog'[i] = backlog'[j] => i = j
  <2>1. \A i, j \in 1 .. n : backlog[i] = backlog[j] => i = j
    BY <1>1 DEF AcceptInv
  <2> QED
    BY <1>1, <1>3, <1>4, <2>1
<1>8. \A i \in DOMAIN backlog' : pc'[Srcv(backlog'[i])] = "none"
  <2>1. \A d \in Clients : pc'[Srcv(d)] = pc[Srcv(d)]
    BY <1>5, Names, Different DEF Others, Same
  <2>2. pc[Srcv(c)] = "none" /\ \A i \in 1 .. n : pc[Srcv(backlog[i])] = "none"
    BY <1>1, <1>2 DEF StartInv, AcceptInv
  <2> QED
    BY <1>1, <1>4, <2>1, <2>2
<1>9. pc'[Acc] = pc[Acc] /\ ret'[Acc] = ret[Acc]
  BY <1>5, AccName, Different DEF Others, Same
<1> QED
  BY <1>5, <1>6, <1>7, <1>8, <1>9 DEF AcceptInv

LEMMA AcceptedStart ==
  ASSUME TypeInv, AcceptInv, Accepted
  PROVE  AcceptInv'
<1> DEFINE n == Len(backlog)
<1>1. /\ n \in Nat \ {0} /\ DOMAIN backlog = 1 .. n /\ \A i \in 1 .. n : backlog[i] \in Clients
      /\ DOMAIN backlog' = 1 .. n - 1 /\ peer' = backlog[1] /\ 1 \in 1 .. n
      /\ \A i \in 1 .. n - 1 : backlog'[i] = backlog[i + 1]
  <2>1. backlog # <<>> /\ backlog' = Tail(backlog) /\ peer' = Head(backlog)
    BY DEF Accepted
  <2>2. backlog' \in Seq(Clients) /\ Len(backlog') = n - 1
    BY <2>1, BacklogType, HeadTailProperties
  <2> QED
    BY <2>1, <2>2, BacklogType, HeadTailProperties, LenProperties, EmptySeq
<1> HIDE DEF n
<1>2. \A i \in 1 .. n - 1 : i + 1 \in 1 .. n /\ i + 1 # 1
  BY <1>1
<1>3. \A i, j \in 1 .. n : backlog[i] = backlog[j] => i = j
  BY <1>1 DEF AcceptInv
<1>4. PICK c \in Clients : c = backlog[1]
  BY <1>1
<1>5. /\ Others({Acc}) /\ handler' = handler /\ peer = None /\ up' = up /\ down' = down
      /\ alive' = alive /\ peer' = c
      /\ ret'[Acc] # Unset /\ pc'[Acc] = "accept"
  BY <1>1, <1>4 DEF Accepted, Completes, Sets, LightSame, AcceptInv, Unset
<1>6. \A i \in 1 .. n - 1 : backlog'[i] # c
  BY <1>1, <1>2, <1>3, <1>4
<1>7. ASSUME NEW d \in Clients PROVE StartInv(d)'
  <2>1. WorksOf(d) \cap {Acc} = {} /\ StartInv(d)
    BY Different DEF WorksOf, AcceptInv
  <2>2. (\A i \in DOMAIN backlog : backlog[i] # d) => \A i \in DOMAIN backlog' : backlog'[i] # d
    BY <1>1, <1>2
  <2>3. peer' = d => /\ pc[Srcv(d)] = "none" /\ (\A i \in DOMAIN backlog' : backlog'[i] # d)
                     /\ ~Unconnected(d)
    <3>1. SUFFICES ASSUME peer' = d PROVE pc[Srcv(d)] = "none" /\ ~Unconnected(d)
      BY <1>1, <1>5, <1>6
    <3>2. d = backlog[1]
      BY <1>1, <3>1
    <3> QED
      BY <1>1, <2>1, <3>2 DEF AcceptInv, StartInv
  <2> QED
    BY <1>5, <2>1, <2>2, <2>3, StartFrame
<1>8. \A i, j \in DOMAIN backlog' : backlog'[i] = backlog'[j] => i = j
  <2>1. ASSUME NEW i \in 1 .. n - 1, NEW j \in 1 .. n - 1, backlog'[i] = backlog'[j] PROVE i = j
    <3>1. i + 1 = j + 1
      BY <1>1, <1>2, <1>3, <2>1
    <3> QED
      BY <1>1, <3>1
  <2> QED
    BY <1>1, <2>1
<1>9. \A i \in DOMAIN backlog' : pc'[Srcv(backlog'[i])] = "none"
  <2>1. \A d \in Clients : pc'[Srcv(d)] = pc[Srcv(d)]
    BY <1>5, Names, Different DEF Others, Same
  <2> QED
    BY <1>1, <1>2, <2>1 DEF AcceptInv
<1> QED
  BY <1>5, <1>7, <1>8, <1>9 DEF AcceptInv

LEMMA BrokenStart ==
  ASSUME TypeInv, AcceptInv, NEW c \in Clients, Broken(c)
  PROVE  AcceptInv'
<1>1. /\ Others({}) /\ handler' = handler /\ peer' = peer /\ backlog' = backlog
      /\ \A d \in Clients : /\ d \in alive' => d \in alive
                            /\ up'[d] = up[d] \/ up'[d] = <<>>
                            /\ down'[d] = down[d] \/ down'[d] = <<>>
  BY DEF Broken, LightSame, TypeInv, NetType
<1>2. \A u \in Works : pc'[u] = pc[u] /\ ret'[u] = ret[u]
  BY <1>1 DEF Others, Same
<1>3. ASSUME NEW d \in Clients PROVE StartInv(d)'
  <2>1. WorksOf(d) \cap {} = {} /\ StartInv(d)
    BY DEF AcceptInv
  <2> QED
    BY <1>1, <2>1, StartFrame
<1>4. \A i \in DOMAIN backlog : backlog[i] \in Clients
  BY BacklogType
<1> QED
  BY <1>1, <1>2, <1>3, <1>4, Names, AccName DEF AcceptInv

LEMMA BeginsStart ==
  ASSUME TypeInv, AcceptInv, NEW c \in Clients, Begins(c)
  PROVE  AcceptInv'
<1> DEFINE W == {Clt(c), Req(c), Rcv(c)}
<1>1. /\ Others(W) /\ handler' = handler /\ peer' = peer /\ backlog' = backlog
      /\ up' = up /\ down' = down /\ alive' = alive /\ ret' = ret
      /\ pc'[Clt(c)] = "done" /\ pc[Clt(c)] \notin {"done", "new", "connect"}
      /\ pc'[Req(c)] = "new" /\ pc'[Rcv(c)] = "new"
  BY DEF Begins, LightSame, NetSame, Others, Same, TypeInv, WorkType, Writing
<1>2. ASSUME NEW d \in Clients PROVE StartInv(d)' /\ pc'[Srcv(d)] = pc[Srcv(d)]
  <2>0. pc'[Srcv(d)] = pc[Srcv(d)]
    BY <1>1, Names, Different DEF Others, Same
  <2>1. CASE d = c
    <3>1. pc'[Srv(c)] = pc[Srv(c)]
      BY <1>1, Names, Different DEF Others, Same
    <3>2. ~Unconnected(c)' /\ StartInv(c) /\ Req(c) \notin handler
      BY <1>1 DEF Unconnected, AcceptInv, StartInv
    <3> QED
      BY <1>1, <2>0, <2>1, <3>1, <3>2 DEF StartInv
  <2>2. CASE d # c
    <3>1. WorksOf(d) \cap W = {} /\ StartInv(d)
      BY <2>2, Different DEF WorksOf, AcceptInv
    <3> QED
      BY <1>1, <2>0, <3>1, StartFrame
  <2> QED
    BY <2>1, <2>2
<1>3. pc'[Acc] = pc[Acc]
  BY <1>1, AccName, Different DEF Others, Same
<1>4. \A i \in DOMAIN backlog : backlog[i] \in Clients
  BY BacklogType
<1> QED
  BY <1>1, <1>2, <1>3, <1>4 DEF AcceptInv

LEMMA SetsUpStart ==
  ASSUME TypeInv, AcceptInv, NEW c \in Clients, peer = c, SetsUp
  PROVE  AcceptInv'
<1> DEFINE W == {Acc, Srcv(c)}
<1>1. /\ Others(W) /\ handler' = handler /\ peer' = None /\ backlog' = backlog
      /\ up' = up /\ down' = down /\ alive' = alive
      /\ pc'[Acc] = "accept" /\ pc'[Srcv(c)] = "new" /\ None \notin Clients
  BY Constants DEF SetsUp, LightSame, Sets
<1>c. StartInv(c) /\ ~Unconnected(c) /\ \A i \in DOMAIN backlog : backlog[i] # c
  BY DEF AcceptInv, StartInv
<1>2. ASSUME NEW d \in Clients PROVE StartInv(d)'
  <2>1. CASE d = c
    <3>1. /\ pc'[Srv(c)] = pc[Srv(c)] /\ pc'[Clt(c)] = pc[Clt(c)] /\ pc'[Req(c)] = pc[Req(c)]
          /\ pc'[Rcv(c)] = pc[Rcv(c)] /\ ret'[Clt(c)] = ret[Clt(c)]
      BY <1>1, Names, Different DEF Others, Same
    <3>2. ~Unconnected(c)'
      BY <1>c, <3>1 DEF Unconnected
    <3> QED
      BY <1>1, <1>c, <2>1, <3>1, <3>2 DEF StartInv
  <2>2. CASE d # c
    <3>1. WorksOf(d) \cap W = {} /\ StartInv(d)
      BY <2>2, Different DEF WorksOf, AcceptInv
    <3> QED
      BY <1>1, <3>1, StartFrame
  <2> QED
    BY <2>1, <2>2
<1>3. \A i \in DOMAIN backlog : backlog[i] \in Clients
  BY BacklogType
<1>4. \A d \in Clients : d # c => pc'[Srcv(d)] = pc[Srcv(d)]
  BY <1>1, Names, Different DEF Others, Same
<1> QED
  BY <1>1, <1>2, <1>3, <1>4, <1>c DEF AcceptInv

LEMMA DealsStart ==
  ASSUME TypeInv, AcceptInv, NEW c \in Clients,
         NEW w, NEW v, NEW fresh \in BOOLEAN, Deals(w, v, fresh),
         \/ w = Rcv(c) /\ v = Req(c) /\ fresh = FALSE
         \/ w = Srcv(c) /\ v = Srv(c) /\ fresh = (pc[v] = "none")
  PROVE  AcceptInv'
<1> DEFINE W == {w, v}
<1>1. /\ Others(W) /\ handler' = handler /\ peer' = peer /\ backlog' = backlog
      /\ up' = up /\ down' = down /\ alive' = alive
      /\ pc'[w] = "rhdr" /\ pc[w] \in {"rhdr", "rbody"} /\ pc'[v] = IF fresh THEN "new" ELSE pc[v]
  BY DEF Deals, Deal, NetSame, Sets, Reading
<1>2. ASSUME NEW d \in Clients PROVE StartInv(d)' /\ (pc'[Srcv(d)] = "none" <=> pc[Srcv(d)] = "none")
  <2>0. StartInv(d)
    BY DEF AcceptInv
  <2>1. CASE d = c
    <3>1. pc'[Clt(c)] = pc[Clt(c)] /\ ret'[Clt(c)] = ret[Clt(c)] /\ (Unconnected(c)' <=> Unconnected(c))
      BY <1>1, Names, Different DEF Others, Same, Unconnected
    <3>2. CASE w = Rcv(c) /\ v = Req(c) /\ fresh = FALSE
      <4>1. pc'[Srv(c)] = pc[Srv(c)] /\ pc'[Srcv(c)] = pc[Srcv(c)] /\ pc'[Req(c)] = pc[Req(c)]
        BY <1>1, <3>2, Names, Different DEF Others, Same
      <4> QED
        BY <1>1, <2>0, <2>1, <3>1, <3>2, <4>1 DEF StartInv
    <3>3. CASE w = Srcv(c) /\ v = Srv(c) /\ fresh = (pc[v] = "none")
      <4>1. pc'[Rcv(c)] = pc[Rcv(c)] /\ pc'[Req(c)] = pc[Req(c)]
        BY <1>1, <3>3, Names, Different DEF Others, Same
      <4>2. /\ pc'[Srcv(c)] = "rhdr" /\ pc[Srcv(c)] \in {"rhdr", "rbody"}
            /\ pc'[Srv(c)] = "new" => pc[Srv(c)] \in {"none", "new"}
            /\ pc'[Srv(c)] # "none"
        BY <1>1, <3>3
      <4> QED
        BY <1>1, <2>0, <2>1, <3>1, <4>1, <4>2 DEF StartInv
    <3> QED
      BY <3>2, <3>3
  <2>2. CASE d # c
    <3>1. WorksOf(d) \cap W = {}
      BY <2>2, Different DEF WorksOf
    <3>2. pc'[Srcv(d)] = pc[Srcv(d)]
      BY <1>1, <3>1, Names DEF Others, Same, WorksOf
    <3> QED
      BY <1>1, <2>0, <3>1, <3>2, StartFrame
  <2> QED
    BY <2>1, <2>2
<1>3. pc'[Acc] = pc[Acc] /\ ret'[Acc] = ret[Acc]
  BY <1>1, AccName, Different DEF Others, Same
<1>4. \A i \in DOMAIN backlog : backlog[i] \in Clients
  BY BacklogType
<1> QED
  BY <1>1, <1>2, <1>3, <1>4 DEF AcceptInv

LEMMA Plainly ==
  ASSUME NEW w, NEW at, NEW n, NEW g, Runs(w, at, n, g)
  PROVE  /\ Others({w}) /\ Taken(w, <<>>) /\ pc'[w] = at /\ rem'[w] = n /\ got'[w] = g /\ ret'[w] = Unset
         /\ up' = up /\ down' = down /\ alive' = alive /\ backlog' = backlog /\ peer' = peer
         /\ setup' = setup /\ strays' = strays /\ crashed' = crashed
BY DEF Runs, Sets, NetSame, RestSame

LEMMA MoveStart ==
  ASSUME TypeInv, AcceptInv, NEW w \in Works, Others({w}), backlog' = backlog, peer' = peer,
         alive' \subseteq alive, pc[w] \notin {"none", "done"},
         pc'[w] \notin {"none", "new", "connect", "accept"}, handler' \subseteq handler \cup {w},
         \A c \in Clients : c \notin alive => up'[c] = up[c] /\ down'[c] = down[c]
  PROVE  AcceptInv'
<1>1. \A c \in Clients : w = Clt(c) => (Unconnected(c)' => Unconnected(c))
  BY DEF Unconnected
<1>2. w = Acc => (pc'[Acc] = "accept" /\ ret'[Acc] = Unset => pc[Acc] = "new")
  OBVIOUS
<1> QED
  BY <1>1, <1>2, StartKept

LEMMA RunsStart ==
  ASSUME TypeInv, AcceptInv, NEW w \in Works, NEW at, NEW n, NEW g, Runs(w, at, n, g),
         pc[w] \notin {"none", "done"}, at \notin {"none", "new", "connect", "accept"},
         handler' \subseteq handler \cup {w}
  PROVE  AcceptInv'
BY Plainly, MoveStart

(* Steps of one work within its own connection. *)
SmallStep(c) ==
  \/ \E w \in {Clt(c), Req(c), Rcv(c), Srcv(c), Srv(c)} : Continues(w) \/ Fails(w) \/ Confirms(w)
  \/ SendsUp(c, Clt(c)) \/ SendsUp(c, Req(c)) \/ SendsDown(c) \/ HearsDown(c) \/ HearsUp(c, Srcv(c))
  \/ Timed(Req(c)) \/ Greets(c) \/ Crashes(c) \/ Requests(c) \/ Stops(c)
  \/ Gets(Req(c)) \/ Gets(Srv(c)) \/ Sleeps(Req(c)) \/ Sleeps(Srv(c))
  \/ GivesUp(Req(c)) \/ GivesUp(Srv(c))
  \/ ReadsOn(Rcv(c)) \/ ReadsOn(Srcv(c)) \/ Leaves(Rcv(c)) \/ Leaves(Srcv(c))

LEMMA MovingStart ==
  ASSUME TypeInv, AcceptInv, NEW w \in Works, Continues(w) \/ Fails(w) \/ Confirms(w)
  PROVE  AcceptInv'
<1>1. CASE Continues(w)
  <2>1. \E n, g : Plain(w, pc[w], n, g) \/ (pc[w] = "whdr" /\ Plain(w, "wbody", n, g))
                  \/ Plain(w, "rbody", n, g)
    BY <1>1 DEF Continues
  <2>2. pc[w] \in {"whdr", "wbody", "rhdr", "rbody"}
    BY <1>1 DEF Continues, Moving, Writing, Reading
  <2>3. PICK at, n, g : Runs(w, at, n, g) /\ at \in {"whdr", "wbody", "rhdr", "rbody"} /\ LightSame
    BY <2>1, <2>2 DEF Plain
  <2> QED
    BY <2>2, <2>3, Plainly, MoveStart DEF LightSame
<1>2. CASE Fails(w)
  <2>1. Others({w}) /\ pc'[w] = pc[w] /\ handler' = handler /\ NetSame
    BY <1>2 DEF Fails, Completes, Sets, LightSame
  <2>2. pc[w] \in {"whdr", "wbody", "rhdr", "rbody"}
    BY <1>2 DEF Fails, Moving, Writing, Reading
  <2> QED
    BY <2>1, <2>2, MoveStart DEF NetSame
<1>3. CASE Confirms(w)
  <2>1. Others({w}) /\ pc'[w] = pc[w] /\ handler' = handler /\ NetSame
    BY <1>3 DEF Confirms, Completes, Sets, LightSame
  <2>2. pc[w] \in {"whdr", "wbody"}
    BY <1>3 DEF Confirms, Sending, Writing
  <2> QED
    BY <2>1, <2>2, MoveStart DEF NetSame
<1> QED
  BY <1>1, <1>2, <1>3

LEMMA HearsUpStart ==
  ASSUME TypeInv, AcceptInv, NEW c \in Clients, NEW w \in Works, HearsUp(c, w)
  PROVE  AcceptInv'
<1>1. PICK k \in Nat : /\ c \in alive /\ Takes(w, up[c], k)
                       /\ up' = [up EXCEPT ![c] = SubSeq(up[c], k + 1, Len(up[c]))]
                       /\ UNCHANGED <<down, alive, backlog, peer>>
  BY DEF HearsUp
<1>2. Others({w}) /\ pc'[w] = pc[w] /\ handler' = handler /\ pc[w] \in {"rhdr", "rbody"}
  BY <1>1 DEF Takes, Completes, Sets, LightSame, Reading
<1>3. \A d \in Clients : d \notin alive => up'[d] = up[d] /\ down'[d] = down[d]
  BY <1>1 DEF TypeInv, NetType
<1> QED
  BY <1>1, <1>2, <1>3, MoveStart

LEMMA StreamStart ==
  ASSUME TypeInv, AcceptInv, NEW c \in Clients,
         SendsUp(c, Clt(c)) \/ SendsUp(c, Req(c)) \/ SendsDown(c) \/ HearsDown(c)
  PROVE  AcceptInv'
<1>0. Clt(c) \in Works /\ Req(c) \in Works /\ Srv(c) \in Works /\ Rcv(c) \in Works
  BY Names
<1>1. ASSUME NEW w \in Works, SendsUp(c, w) PROVE AcceptInv'
  <2>1. /\ Others({w}) /\ pc'[w] = pc[w] /\ handler' = handler /\ pc[w] \in {"whdr", "wbody"}
        /\ c \in alive /\ UNCHANGED <<down, alive, backlog, peer>>
    BY <1>1 DEF SendsUp, Gives, Sets, LightSame, Writing
  <2>2. \A d \in Clients : d \notin alive => up'[d] = up[d] /\ down'[d] = down[d]
    BY <1>1, <2>1 DEF SendsUp, TypeInv, NetType
  <2> QED
    BY <2>1, <2>2, MoveStart
<1>2. CASE SendsDown(c)
  <2>1. /\ Others({Srv(c)}) /\ pc'[Srv(c)] = pc[Srv(c)] /\ handler' = handler
        /\ pc[Srv(c)] \in {"whdr", "wbody"} /\ c \in alive /\ UNCHANGED <<up, alive, backlog, peer>>
    BY <1>2 DEF SendsDown, Gives, Sets, LightSame, Writing
  <2>2. \A d \in Clients : d \notin alive => up'[d] = up[d] /\ down'[d] = down[d]
    BY <1>2, <2>1 DEF SendsDown, TypeInv, NetType
  <2> QED
    BY <1>0, <2>1, <2>2, MoveStart
<1>3. CASE HearsDown(c)
  <2>1. PICK k \in Nat : /\ c \in alive /\ Takes(Rcv(c), down[c], k)
                         /\ down' = [down EXCEPT ![c] = SubSeq(down[c], k + 1, Len(down[c]))]
                         /\ UNCHANGED <<up, alive, backlog, peer>>
    BY <1>3 DEF HearsDown
  <2>2. /\ Others({Rcv(c)}) /\ pc'[Rcv(c)] = pc[Rcv(c)] /\ handler' = handler
        /\ pc[Rcv(c)] \in {"rhdr", "rbody"}
    BY <2>1 DEF Takes, Completes, Sets, LightSame, Reading
  <2>3. \A d \in Clients : d \notin alive => up'[d] = up[d] /\ down'[d] = down[d]
    BY <2>1 DEF TypeInv, NetType
  <2> QED
    BY <1>0, <2>1, <2>2, <2>3, MoveStart
<1> QED
  BY <1>0, <1>1, <1>2, <1>3

LEMMA SmallStart ==
  ASSUME TypeInv, AcceptInv, NEW c \in Clients, SmallStep(c)
  PROVE  AcceptInv'
<1>0. /\ Clt(c) \in Works /\ Req(c) \in Works /\ Srv(c) \in Works /\ Rcv(c) \in Works /\ Srcv(c) \in Works
      /\ Req(c)[1] = "request" /\ Srv(c)[1] = "serve" /\ Req(c)[2] = c /\ Srv(c)[2] = c
  BY Names
<1>1. ASSUME NEW w \in Works, NEW at, NEW n, NEW g, Plain(w, at, n, g), pc[w] \notin {"none", "done"},
             at \notin {"none", "new", "connect", "accept"}
      PROVE  AcceptInv'
  BY <1>1, Plainly, MoveStart DEF Plain, LightSame
<1>2. CASE Timed(Req(c))
  <2>1. Others({Req(c)}) /\ pc'[Req(c)] = "timer" /\ pc[Req(c)] = "timer" /\ handler' = handler /\ NetSame
    BY <1>2 DEF Timed, Completes, Sets, LightSame
  <2> QED
    BY <1>0, <2>1, MoveStart DEF NetSame
<1>3. CASE Greets(c) \/ Stops(c) \/ ReadsOn(Rcv(c)) \/ ReadsOn(Srcv(c)) \/ Leaves(Rcv(c)) \/ Leaves(Srcv(c))
  BY <1>0, <1>1, <1>3 DEF Greets, Stops, ReadsOn, Leaves, Writing, Reading
<1>4. CASE Crashes(c)
  <2>1. Others({Clt(c)}) /\ pc'[Clt(c)] = "done" /\ pc[Clt(c)] = "connect" /\ handler' = handler /\ NetSame
    BY <1>4 DEF Crashes, Sets, LightSame
  <2> QED
    BY <1>0, <2>1, MoveStart DEF NetSame
<1>5. CASE Requests(c)
  <2>1. pc[Req(c)] \notin {"none", "done"} /\ handler' = handler /\ Runs(Req(c), "whdr", HdrLen, got[Req(c)])
    BY <1>5 DEF Requests
  <2> QED
    BY <1>0, <2>1, RunsStart
<1>6. ASSUME NEW w \in {Req(c), Srv(c)}, Gets(w) PROVE AcceptInv'
  <2>1. pc[w] \notin {"none", "done"}
    BY <1>6 DEF Gets, Receives, Writing
  <2>2. PICK at \in {"timer", "whdr"} : \E n, g : Runs(w, at, n, g) /\ handler' = handler
    BY <1>0, <1>6 DEF Gets, Uses, Serves
  <2> QED
    BY <1>0, <2>1, <2>2, RunsStart
<1>7. ASSUME NEW w \in {Req(c), Srv(c)}, Sleeps(w) PROVE AcceptInv'
  <2>1. pc[w] \notin {"none", "done"}
    BY <1>7 DEF Sleeps, Receives, Writing
  <2>2. Runs(w, "wait", 0, got[w]) /\ handler' = handler \cup {w}
    BY <1>7 DEF Sleeps
  <2> QED
    BY <1>0, <2>1, <2>2, RunsStart
<1>8. CASE GivesUp(Req(c)) \/ GivesUp(Srv(c))
  BY <1>0, <1>1, <1>8 DEF GivesUp
<1>9. CASE \E w \in {Clt(c), Req(c), Rcv(c), Srcv(c), Srv(c)} : Continues(w) \/ Fails(w) \/ Confirms(w)
  BY <1>0, <1>9, MovingStart
<1>10. CASE HearsUp(c, Srcv(c))
  BY <1>0, <1>10, HearsUpStart
<1>11. CASE SendsUp(c, Clt(c)) \/ SendsUp(c, Req(c)) \/ SendsDown(c) \/ HearsDown(c)
  BY <1>11, StreamStart
<1> QED
  BY <1>2, <1>3, <1>4, <1>5, <1>6, <1>7, <1>8, <1>9, <1>10, <1>11 DEF SmallStep

(* A connect that is not over, and the accepting work between connections. *)
LEMMA DialStart ==
  ASSUME TypeInv, AcceptInv, NEW c \in Clients, Dials(c) \/ Refused(c)
  PROVE  AcceptInv'
<1>0. Clt(c) \in Works /\ Clt(c) # Acc
  BY Names, Different
<1>1. /\ Others({Clt(c)}) /\ pc'[Clt(c)] = "connect" /\ handler' = handler /\ NetSame
      /\ pc[Clt(c)] \in {"new", "connect"} /\ Unconnected(c)
  <2>1. CASE Dials(c)
    BY <2>1 DEF Dials, Plain, Runs, Sets, LightSame, Unconnected
  <2>2. CASE Refused(c)
    BY <2>2 DEF Refused, Completes, Sets, LightSame, Unconnected, Unset
  <2> QED
    BY <2>1, <2>2
<1>2. \A d \in Clients : Clt(c) = Clt(d) => (Unconnected(d)' => Unconnected(d))
  BY <1>1, Different
<1> QED
  BY <1>0, <1>1, <1>2, StartKept DEF NetSame

LEMMA AccStart ==
  ASSUME TypeInv, AcceptInv, Listens \/ ReadsFirst \/ Dies
  PROVE  AcceptInv'
<1>0. Acc \in Works /\ \A c \in Clients : Acc # Clt(c)
  BY AccName, Different
<1>1. CASE Listens
  <2>1. /\ Others({Acc}) /\ handler' = handler /\ NetSame /\ pc[Acc] = "new"
        /\ pc'[Acc] \in {"accept", "done"}
    BY <1>1, Plainly DEF Listens, Plain, LightSame, NetSame
  <2> QED
    BY <1>0, <2>1, StartKept DEF NetSame
<1>2. CASE ReadsFirst
  <2>1. Plain(Acc, "rhdr", HdrLen, <<>>) /\ pc[Acc] = "accept" /\ handler' = handler
    BY <1>2 DEF ReadsFirst, Plain, LightSame
  <2> QED
    BY <1>0, <2>1, Plainly, MoveStart DEF Plain
<1>3. CASE Dies
  <2>1. /\ Others({Acc}) /\ handler' = handler /\ pc[Acc] = "accept" /\ pc'[Acc] = "done"
        /\ alive' = {} /\ UNCHANGED <<up, down, backlog, peer>>
    BY <1>3 DEF Dies, Sets, LightSame
  <2> QED
    BY <1>0, <2>1, MoveStart
<1> QED
  BY <1>1, <1>2, <1>3

(* Steps that queue works which were not queued. *)
LEMMA AddingQueue ==
  ASSUME TypeInv, QueueInv, EnoughRoom, NEW w \in Works, NEW news \in Seq(Works), Taken(w, news),
         Once(news), NEW p, p = Home(w),
         \A i \in DOMAIN news : Home(news[i]) = p /\ ~Ready(news[i]) /\ pc[news[i]] # "new",
         NEW W, Others(W), w \in W, crashed \subseteq crashed',
         \A u \in W : u \in Works /\ Home(u) = p, ~Ready(w)', ~InQueue(news, w),
         \A u \in W \ {w} : (Ready(u)' => InQueue(works_q[p], u) \/ InQueue(news, u)),
         \A u \in W \ {w} : InQueue(works_q[p], u) \/ InQueue(news, u) => Ready(u)' \/ pc'[u] = "new",
         \A u : InQueue(news, u) => u \in W
  PROVE  QueueInv'
<1>0. PICK t : t = works_q'[p]
  OBVIOUS
<1>1. /\ p \in Procs /\ p \notin crashed /\ Once(t) /\ \A i \in DOMAIN t : Home(t[i]) = p
      /\ \A u : InQueue(t, u) <=> (InQueue(works_q[p], u) /\ u # w) \/ InQueue(news, u)
      /\ \A r \in Procs \ {p} : works_q'[r] = works_q[r]
  BY <1>0, TakenQueue
<1>2. \A u \in Works \ W : InQueue(t, u) <=> InQueue(works_q[p], u)
  BY <1>1
<1>3. \A u \in W : (Ready(u)' => InQueue(t, u)) /\ (InQueue(t, u) => Ready(u)' \/ pc'[u] = "new")
  <2>1. ASSUME NEW u \in W PROVE (Ready(u)' => InQueue(t, u)) /\ (InQueue(t, u) => Ready(u)' \/ pc'[u] = "new")
    <3>1. CASE u = w
      BY <1>1, <3>1
    <3>2. CASE u # w
      BY <1>1, <3>2
    <3> QED
      BY <3>1, <3>2
  <2> QED
    BY <2>1
<1> QED
  BY <1>0, <1>1, <1>2, <1>3, QueueKept

LEMMA SingleOnce ==
  ASSUME NEW a \in Works, NEW news, news = <<a>>
  PROVE  /\ news \in Seq(Works) /\ Once(news) /\ \A u : InQueue(news, u) <=> u = a
         /\ DOMAIN news = {1} /\ news[1] = a
<1>1. DOMAIN news = {1} /\ news[1] = a
  OBVIOUS
<1>2. news \in Seq(Works)
  OBVIOUS
<1>3. Once(news) /\ \A u : InQueue(news, u) <=> u = a
  BY <1>1 DEF Once, InQueue
<1> QED
  BY <1>1, <1>2, <1>3

LEMMA PairOnce ==
  ASSUME NEW a \in Works, NEW b \in Works, a # b, NEW news, news = <<a, b>>
  PROVE  /\ news \in Seq(Works) /\ Once(news) /\ \A u : InQueue(news, u) <=> u = a \/ u = b
         /\ DOMAIN news = {1, 2} /\ news[1] = a /\ news[2] = b
<1>1. DOMAIN news = {1, 2} /\ news[1] = a /\ news[2] = b
  OBVIOUS
<1>2. news \in Seq(Works)
  OBVIOUS
<1>3. Once(news) /\ \A u : InQueue(news, u) <=> u = a \/ u = b
  BY <1>1 DEF Once, InQueue
<1> QED
  BY <1>1, <1>2, <1>3

LEMMA CrashedQueue ==
  ASSUME TypeInv, QueueInv, EnoughRoom, NEW w \in Works, NEW news \in Seq(Works), Taken(w, news),
         Others({w}), crashed' = crashed \cup {Home(w)}
  PROVE  QueueInv'
<1> DEFINE p == Home(w)
<1>1. works_q \in [Procs -> Seq(Works)]
  BY DEF TypeInv, WorkType
<1>2. \A r \in Procs \ {p} : works_q'[r] = works_q[r]
  BY <1>1 DEF Taken
<1>3. \A u \in Works \ {w} : Ready(u)' = Ready(u) /\ pc'[u] = pc[u]
  BY ReadySame DEF Others
<1>4. ASSUME NEW r \in Procs \ crashed'
      PROVE  /\ Once(works_q'[r])
             /\ \A i \in DOMAIN works_q'[r] : Home(works_q'[r][i]) = r
             /\ \A u \in Works : Home(u) = r =>
                  /\ Ready(u)' => InQueue(works_q'[r], u)
                  /\ InQueue(works_q'[r], u) => Ready(u)' \/ pc'[u] = "new"
  <2>1. r \in Procs \ crashed /\ r # p /\ works_q'[r] = works_q[r]
    BY <1>2, <1>4
  <2> QED
    BY <1>3, <2>1 DEF QueueInv
<1> QED
  BY <1>4 DEF QueueInv

LEMMA BeginsQueue ==
  ASSUME TypeInv, QueueInv, EnoughRoom, NEW c \in Clients, Begins(c), pc[Req(c)] = "none", pc[Rcv(c)] = "none"
  PROVE  QueueInv'
<1> DEFINE w == Clt(c)
           news == <<Req(c), Rcv(c)>>
           W == {w, Req(c), Rcv(c)}
<1>1. /\ w \in Works /\ Req(c) \in Works /\ Rcv(c) \in Works
      /\ Home(w) = c /\ Home(Req(c)) = c /\ Home(Rcv(c)) = c
      /\ w # Req(c) /\ w # Rcv(c) /\ Req(c) # Rcv(c)
  BY Names, Different
<1>2. /\ news \in Seq(Works) /\ Once(news) /\ DOMAIN news = {1, 2} /\ news[1] = Req(c) /\ news[2] = Rcv(c)
      /\ \A u : InQueue(news, u) <=> u = Req(c) \/ u = Rcv(c)
  BY <1>1, PairOnce
<1>3. Taken(w, news) /\ crashed' = crashed /\ pc'[w] = "done" /\ pc'[Req(c)] = "new" /\ pc'[Rcv(c)] = "new"
  BY DEF Begins, RestSame
<1>4. Others(W)
  BY DEF Begins, Others, Same, TypeInv, WorkType
<1> HIDE DEF news, w
<1>5. \A i \in DOMAIN news : Home(news[i]) = c /\ ~Ready(news[i]) /\ pc[news[i]] # "new"
  BY <1>1, <1>2 DEF Ready
<1>6. ~Ready(w)' /\ ~InQueue(news, w)
  BY <1>1, <1>2, <1>3 DEF Ready
<1>7. \A u \in W \ {w} : pc'[u] = "new" /\ InQueue(news, u)
  BY <1>2, <1>3
<1>8. \A u \in W : u \in Works /\ Home(u) = c
  BY <1>1
<1>9. w \in W /\ (\A u : InQueue(news, u) => u \in W) /\ crashed \subseteq crashed'
  BY <1>2, <1>3
<1> HIDE DEF W
<1> QED
  BY <1>1, <1>2, <1>3, <1>4, <1>5, <1>6, <1>7, <1>8, <1>9, AddingQueue

LEMMA SetsUpQueue ==
  ASSUME TypeInv, QueueInv, EnoughRoom, NEW c \in Clients, peer = c, SetsUp, pc[Srcv(c)] = "none"
  PROVE  QueueInv'
<1> DEFINE news == <<Srcv(c)>>
           W == {Acc, Srcv(c)}
<1>1. /\ Acc \in Works /\ Srcv(c) \in Works /\ Home(Acc) = Server /\ Home(Srcv(c)) = Server /\ Acc # Srcv(c)
  BY Names, AccName, Different
<1>2. /\ news \in Seq(Works) /\ Once(news) /\ DOMAIN news = {1} /\ news[1] = Srcv(c)
      /\ \A u : InQueue(news, u) <=> u = Srcv(c)
  BY <1>1, SingleOnce
<1>3. /\ Taken(Acc, news) /\ crashed' = crashed /\ ret'[Acc] = Unset /\ pc'[Srcv(c)] = "new" /\ Others(W)
  BY DEF SetsUp, RestSame, Sets
<1> HIDE DEF news
<1>5. \A i \in DOMAIN news : Home(news[i]) = Server /\ ~Ready(news[i]) /\ pc[news[i]] # "new"
  BY <1>1, <1>2 DEF Ready
<1>6. ~Ready(Acc)' /\ ~InQueue(news, Acc)
  BY <1>1, <1>2, <1>3 DEF Ready
<1>7. \A u \in W \ {Acc} : pc'[u] = "new" /\ InQueue(news, u)
  BY <1>2, <1>3
<1>8. \A u \in W : u \in Works /\ Home(u) = Server
  BY <1>1
<1>9. Acc \in W /\ (\A u : InQueue(news, u) => u \in W) /\ crashed \subseteq crashed'
  BY <1>2, <1>3
<1> HIDE DEF W
<1> QED
  BY <1>1, <1>2, <1>3, <1>5, <1>6, <1>7, <1>8, <1>9, AddingQueue

LEMMA DealsQueue ==
  ASSUME TypeInv, QueueInv, EnoughRoom, NEW w \in Works, NEW v \in Works, NEW fresh \in BOOLEAN,
         Deals(w, v, fresh), w # v, Home(w) = Home(v), v \in handler => ~fresh,
         fresh => pc[v] = "none", v \in handler => pc[v] = "wait" /\ ret[v] = Unset
  PROVE  QueueInv'
<1> DEFINE news == (IF fresh THEN <<v>> ELSE <<>>) \o Woken(v)
           W == {w, v}
           p == Home(w)
<1>1. /\ Taken(w, news) /\ crashed' = crashed /\ ret'[w] = Unset /\ Others(W)
      /\ pc'[v] = (IF fresh THEN "new" ELSE pc[v]) /\ ret'[v] = (IF v \in handler THEN 0 ELSE ret[v])
  BY DEF Deals, Sets
<1>o. /\ <<v>> \in Seq(Works) /\ Once(<<v>>) /\ (\A u : InQueue(<<v>>, u) <=> u = v)
      /\ DOMAIN <<v>> = {1} /\ <<v>>[1] = v
  BY SingleOnce
<1>2. \/ fresh /\ v \notin handler /\ news = <<v>>
      \/ ~fresh /\ v \in handler /\ news = <<v>>
      \/ ~fresh /\ v \notin handler /\ news = <<>>
  BY <1>o, ConcatEmptySeq, Nothing DEF Woken
<1> HIDE DEF news
<1>3. /\ news \in Seq(Works) /\ Once(news)
      /\ \A i \in DOMAIN news : news[i] = v
      /\ \A u : InQueue(news, u) <=> u = v /\ (fresh \/ v \in handler)
  BY <1>o, <1>2, Nothing
<1>4. fresh \/ v \in handler => ~Ready(v) /\ pc[v] # "new"
  BY DEF Ready
<1>5. \A i \in DOMAIN news : Home(news[i]) = p /\ ~Ready(news[i]) /\ pc[news[i]] # "new"
  BY <1>2, <1>3, <1>4, Nothing
<1>6. ~Ready(w)' /\ ~InQueue(news, w)
  BY <1>1, <1>3 DEF Ready
<1>7. Ready(v)' => InQueue(works_q[p], v) \/ InQueue(news, v)
  <2>1. CASE fresh \/ v \in handler
    BY <1>3, <2>1
  <2>2. CASE ~fresh /\ v \notin handler
    <3>1. Ready(v)' => Ready(v)
      BY <1>1, <2>2 DEF Ready, Sending, Writing
    <3>2. p \in Procs /\ p \notin crashed
      BY <1>1, HomeType DEF Taken
    <3> QED
      BY <3>1, <3>2 DEF QueueInv
  <2> QED
    BY <2>1, <2>2
<1>8. InQueue(works_q[p], v) \/ InQueue(news, v) => Ready(v)' \/ pc'[v] = "new"
  <2>1. CASE fresh
    BY <1>1, <2>1
  <2>2. CASE v \in handler
    BY <1>1, <2>2 DEF Ready, Sending, Writing, Unset
  <2>3. CASE ~fresh /\ v \notin handler
    <3>1. pc'[v] = pc[v] /\ ret'[v] = ret[v]
      BY <1>1, <2>3
    <3>2. p \in Procs /\ p \notin crashed
      BY <1>1, HomeType DEF Taken
    <3> QED
      BY <1>3, <2>3, <3>1, <3>2 DEF QueueInv, Ready, Sending, Writing
  <2> QED
    BY <2>1, <2>2, <2>3
<1>9. /\ w \in W /\ (\A u : InQueue(news, u) => u \in W) /\ crashed \subseteq crashed'
      /\ \A u \in W : u \in Works /\ Home(u) = p
  BY <1>1, <1>3
<1>10. \A u \in W \ {w} : (Ready(u)' => InQueue(works_q[p], u) \/ InQueue(news, u))
  BY <1>7
<1>11. \A u \in W \ {w} : InQueue(works_q[p], u) \/ InQueue(news, u) => Ready(u)' \/ pc'[u] = "new"
  BY <1>8
<1> HIDE DEF W
<1>12. PICK h : h = p
  OBVIOUS
<1> HIDE DEF p
<1> QED
  BY <1>1, <1>3, <1>5, <1>6, <1>9, <1>10, <1>11, <1>12, AddingQueue DEF p

-----------------------------------------------------------------------------
(* The queues, step by step *)

LEMMA RunsQueue ==
  ASSUME TypeInv, QueueInv, EnoughRoom, NEW w \in Works, NEW at, NEW n, NEW g, Runs(w, at, n, g)
  PROVE  QueueInv'
BY SuspendedQueue DEF Runs, RestSame

LEMMA MovingQueue ==
  ASSUME TypeInv, QueueInv, EnoughRoom, NEW w \in Works, Continues(w) \/ Fails(w) \/ Confirms(w)
  PROVE  QueueInv'
<1>1. CASE Continues(w)
  BY <1>1, RunsQueue DEF Continues, Plain
<1>2. CASE Fails(w)
  <2>1. pc[w] \notin {"none", "new", "done"} /\ -1 # Unset /\ ~(-1 < Unset)
    BY <1>2 DEF Fails, Moving, Writing, Reading, Unset
  <2> QED
    BY <1>2, <2>1, CompletedQueue DEF Fails
<1>3. CASE Confirms(w)
  <2>1. pc[w] \notin {"none", "new", "done"}
    BY <1>3 DEF Confirms, Sending, Writing
  <2>2. Unset - ret[w] > 0
    BY <1>3, SizeFacts DEF Confirms, Sending, TypeInv, WorkType
  <2>3. PICK r \in Int : r = Unset - ret[w]
    BY SizeFacts DEF TypeInv, WorkType
  <2>4. r # Unset /\ ~(r < Unset) /\ Completes(w, got[w], r) /\ Sending(w)
    BY <1>3, <2>2, <2>3, SizeFacts DEF Confirms
  <2> QED
    BY <2>1, <2>4, CompletedQueue
<1> QED
  BY <1>1, <1>2, <1>3

LEMMA GivesQueue ==
  ASSUME TypeInv, QueueInv, NEW w \in Works, NEW k \in Nat, Writing(w), ret[w] = Unset,
         Gives(w, OnWire(k))
  PROVE  QueueInv'
<1>1. Others({w}) /\ works_q' = works_q /\ crashed' = crashed /\ pc'[w] = pc[w] /\ ret'[w] = Unset - k
  BY DEF Gives, Sets, RestSame, OnWire
<1>2. ~Ready(w) /\ ~Ready(w)'
  <2>1. k = 0 \/ Unset - k < Unset
    BY SizeFacts
  <2>2. k = 0 => Unset - k = Unset
    BY SizeFacts
  <2> QED
    BY <1>1, <2>1, <2>2 DEF Ready, Sending, Writing
<1>3. \A u \in Works : Ready(u)' = Ready(u) /\ pc'[u] = pc[u]
  <2>1. \A u \in Works \ {w} : Ready(u)' = Ready(u) /\ pc'[u] = pc[u]
    BY <1>1, ReadySame DEF Others
  <2>2. Ready(w)' = Ready(w)
    BY <1>2 DEF Ready
  <2> QED
    BY <1>1, <2>1, <2>2
<1> QED
  BY <1>1, <1>3 DEF QueueInv

LEMMA HearsUpQueue ==
  ASSUME TypeInv, QueueInv, EnoughRoom, NEW c \in Clients, NEW w \in Works, HearsUp(c, w)
  PROVE  QueueInv'
<1>1. PICK k \in Nat : Takes(w, up[c], k)
  BY DEF HearsUp
<1>2. pc[w] \notin {"none", "new", "done"} /\ k # Unset /\ ~(k < Unset)
  BY <1>1 DEF Takes, Reading, Unset
<1> QED
  BY <1>1, <1>2, CompletedQueue DEF Takes

LEMMA SmallQueue ==
  ASSUME TypeInv, QueueInv, EnoughRoom, NEW c \in Clients, SmallStep(c)
  PROVE  QueueInv'
<1>0. /\ Clt(c) \in Works /\ Req(c) \in Works /\ Srv(c) \in Works /\ Rcv(c) \in Works /\ Srcv(c) \in Works
      /\ Req(c)[1] = "request" /\ Srv(c)[1] = "serve" /\ Req(c)[2] = c /\ Srv(c)[2] = c
  BY Names
<1>1. CASE Timed(Req(c))
  <2>1. pc[Req(c)] \notin {"none", "new", "done"} /\ 0 # Unset /\ ~(0 < Unset)
    BY <1>1 DEF Timed, Unset
  <2> QED
    BY <1>0, <1>1, <2>1, CompletedQueue DEF Timed
<1>2. CASE Greets(c) \/ Stops(c) \/ ReadsOn(Rcv(c)) \/ ReadsOn(Srcv(c)) \/ Leaves(Rcv(c)) \/ Leaves(Srcv(c))
  BY <1>0, <1>2, RunsQueue DEF Greets, Stops, ReadsOn, Leaves, Plain
<1>3. CASE Crashes(c)
  <2> DEFINE w == Clt(c)
  <2>1. PICK news : news = <<Req(c), Rcv(c)>>
    OBVIOUS
  <2>2. news \in Seq(Works)
    BY <1>0, <2>1
  <2>3. Taken(w, news) /\ Others({w}) /\ crashed' = crashed \cup {Home(w)}
    BY <1>3, <2>1, Names DEF Crashes
  <2> HIDE DEF w
  <2>4. w \in Works
    BY <1>0 DEF w
  <2> QED
    BY <2>2, <2>3, <2>4, CrashedQueue
<1>4. CASE Requests(c)
  BY <1>0, <1>4, RunsQueue DEF Requests
<1>5. ASSUME NEW w \in {Req(c), Srv(c)}, Gets(w) \/ Sleeps(w) \/ GivesUp(w) PROVE QueueInv'
  <2>1. \E at, n, g : Runs(w, at, n, g)
    BY <1>0, <1>5 DEF Gets, Uses, Serves, Sleeps, GivesUp, Plain
  <2> QED
    BY <1>0, <2>1, RunsQueue
<1>6. ASSUME NEW w \in Works, SendsUp(c, w) PROVE QueueInv'
  <2>1. PICK k \in 1 .. rem[w] : Writing(w) /\ ret[w] = Unset /\ Gives(w, OnWire(k))
    BY <1>6 DEF SendsUp
  <2> QED
    BY <2>1, GivesQueue
<1>7. CASE SendsDown(c)
  <2>1. PICK k \in 1 .. rem[Srv(c)] :
          Writing(Srv(c)) /\ ret[Srv(c)] = Unset /\ Gives(Srv(c), OnWire(k))
    BY <1>7 DEF SendsDown
  <2> QED
    BY <1>0, <2>1, GivesQueue
<1>8. CASE HearsDown(c)
  <2>1. PICK k \in Nat : Takes(Rcv(c), down[c], k)
    BY <1>8 DEF HearsDown
  <2>2. pc[Rcv(c)] \notin {"none", "new", "done"} /\ k # Unset /\ ~(k < Unset)
    BY <2>1 DEF Takes, Reading, Unset
  <2> QED
    BY <1>0, <2>1, <2>2, CompletedQueue DEF Takes
<1>9. CASE HearsUp(c, Srcv(c))
  BY <1>0, <1>9, HearsUpQueue
<1>10. CASE \E w \in {Clt(c), Req(c), Rcv(c), Srcv(c), Srv(c)} : Continues(w) \/ Fails(w) \/ Confirms(w)
  BY <1>0, <1>10, MovingQueue
<1> QED
  BY <1>0, <1>1, <1>2, <1>3, <1>4, <1>5, <1>6, <1>7, <1>8, <1>9, <1>10 DEF SmallStep

LEMMA OtherQueue ==
  ASSUME TypeInv, QueueInv, EnoughRoom, NEW c \in Clients,
         \/ Dials(c) \/ Refused(c) \/ Connected(c) \/ Broken(c)
         \/ Accepted \/ Listens \/ ReadsFirst \/ Dies
  PROVE  QueueInv'
<1>0. Clt(c) \in Works /\ Acc \in Works /\ 0 # Unset /\ -1 # Unset /\ ~(0 < Unset) /\ ~(-1 < Unset)
  BY Names, AccName DEF Unset
<1>1. CASE Dials(c) \/ Listens \/ ReadsFirst
  BY <1>0, <1>1, RunsQueue DEF Dials, Listens, ReadsFirst, Plain
<1>2. CASE Refused(c) \/ Connected(c)
  BY <1>0, <1>2, CompletedQueue DEF Refused, Connected
<1>3. CASE Accepted
  <2>1. PICK r \in {0, -1} : Completes(Acc, got[Acc], r)
    BY <1>3 DEF Accepted
  <2>2. ret[Acc] = Unset /\ pc[Acc] = "accept"
    BY <1>3 DEF Accepted
  <2> QED
    BY <1>0, <2>1, <2>2, CompletedQueue
<1>4. CASE Dies
  BY <1>0, <1>4, SuspendedQueue DEF Dies
<1>5. CASE Broken(c)
  <2>1. \A u \in Works : Ready(u)' = Ready(u) /\ pc'[u] = pc[u]
    BY <1>5, ReadySame DEF Broken, Others
  <2>2. works_q' = works_q /\ crashed' = crashed
    BY <1>5 DEF Broken, RestSame
  <2> QED
    BY <2>1, <2>2 DEF QueueInv
<1> QED
  BY <1>1, <1>2, <1>3, <1>4, <1>5

-----------------------------------------------------------------------------
(* Connections that a step leaves as they are *)

Core(c) == CountInv(c) /\ PlaceInv(c) /\ FlowInv(c) /\ WireInv(c)

(* What Core needs to stay true, as far as the other end can tell. *)
Calm(c) ==
  /\ setup' = setup /\ msg_q'[Req(c)] = msg_q[Req(c)] /\ msg_q'[Srv(c)] = msg_q[Srv(c)]
  /\ round'[c] = round[c] /\ answered'[c] = answered[c]
  /\ got'[Srv(c)] = got[Srv(c)] /\ got'[Rcv(c)] = got[Rcv(c)] /\ got'[Srcv(c)] = got[Srcv(c)]
WriterCalm(w) ==
  /\ Where(w)' = Where(w) \/ (Where(w) = "none" /\ w[1] = "request" /\ Where(w)' = "new")
  /\ In(w)' = In(w)
  /\ Where(w) = "wait" => Res(w)' = Res(w)
WireCalm(c) ==
  c \in alive' =>
    /\ c \in alive /\ up'[c] = up[c] /\ down'[c] = down[c]
    /\ HelloIn(c)' = HelloIn(c) /\ HelloOut(c)' = HelloOut(c)
    /\ "done" \notin {Where(Req(c))', Where(Rcv(c))', Where(Srcv(c))'}
    /\ \A w \in WorksOf(c) : Res(w)' # -1
    /\ peer' = c => Res(Acc)' # -1
Steady(c) ==
  /\ Calm(c) /\ WriterCalm(Req(c)) /\ WriterCalm(Srv(c)) /\ WireCalm(c)
  /\ peer' = c => (peer = c /\ got'[Acc] = got[Acc]) \/ got'[Acc] = <<>>

LEMMA CutNone == ASSUME setup \in Setups, NEW m \in Messages PROVE Cut(m, 0, 0) = <<>>
<1>1. 0 \in 0 .. All
  BY SetupSize
<1> QED
  BY <1>1, CutLength

LEMMA HelloName == <<"hello", 0>> \in Messages
BY DEF Messages

LEMMA MovedRange ==
  ASSUME TypeInv, NEW w \in Works
  PROVE  /\ Writing(w) \/ Reading(w) => Moved(w) \in 0 .. All /\ (ret[w] = -1 => Moved(w) < All)
         /\ In(w) \in 0 .. All
<1>1. Sound(w) /\ rem[w] \in Int /\ ret[w] \in Int
  BY DEF TypeInv, WorkInv, WorkType
<1>2. Writing(w) \/ Reading(w) =>
        /\ rem[w] \in 1 .. Part(w)
        /\ ret[w] \in {Unset, -1} \cup (1 .. rem[w]) \/ Unset - ret[w] \in 1 .. rem[w]
  BY <1>1 DEF Sound, ResultOf
<1>3. Writing(w) \/ Reading(w) => Moved(w) \in 0 .. All /\ (ret[w] = -1 => Moved(w) < All)
  BY <1>1, <1>2, SizeFacts DEF Moved, Told, Part
<1> QED
  BY <1>3, SizeFacts DEF In

(* The flows stay as they are, but for a writer that stops, which does not matter. *)
Stopped(w) == In(w)' = In(w) \/ In(w)' = All
LEMMA FlowKept ==
  ASSUME TypeInv, NEW c \in Clients, FlowInv(c), setup' = setup, round'[c] = round[c],
         Took(c)' = Took(c), Asks(c)' = Asks(c), Answers(c)' = Answers(c),
         got'[Rcv(c)] = got[Rcv(c)], got'[Srcv(c)] = got[Srcv(c)],
         Stopped(Req(c)), Stopped(Srv(c)),
         Where(Req(c))' = "done" => Where(Req(c)) = "done" \/ (Asks(c) /\ Len(got[Srcv(c)]) < All),
         peer' = c => (peer = c /\ got'[Acc] = got[Acc]) \/ got'[Acc] = <<>>
  PROVE  FlowInv(c)'
<1>1. \A m, lo, hi : Cut(m, lo, hi)' = Cut(m, lo, hi)
  BY CutSame
<1>2. All' = All
  BY CutSame
<1>3. Req(c) \in Works /\ Srv(c) \in Works
  BY Names
<1>4. In(Req(c)) \in 0 .. All /\ In(Srv(c)) \in 0 .. All /\ All \in Nat
  BY <1>3, MovedRange, SizeFacts
<1>n. Len(got[Srcv(c)]) \in Nat /\ Len(got[Rcv(c)]) \in Nat
  <2>1. got[Srcv(c)] \in Seq(Units) /\ got[Rcv(c)] \in Seq(Units)
    BY Names DEF TypeInv, WorkInv, Sound, GotBy
  <2> QED
    BY <2>1, LenProperties
<1>5. Flow(Asks(c), <<"req", round[c]>>, Req(c), Srcv(c))'
  BY <1>1, <1>2, <1>4, <1>n DEF FlowInv, Flow, Stopped
<1>6. Flow(Answers(c), <<"res", Took(c)>>, Srv(c), Rcv(c))'
  BY <1>1, <1>2, <1>4, <1>n DEF FlowInv, Flow, Stopped
<1>7. Where(Req(c))' = "done" => Asks(c)' /\ Len(got'[Srcv(c)]) < All'
  BY <1>2 DEF FlowInv
<1>8. (peer = c => got[Acc] = Cut(<<"hello", 0>>, 0, Len(got[Acc])))'
  <2>1. Cut(<<"hello", 0>>, 0, 0) = <<>>
    BY CutNone, HelloName, SizeFacts
  <2>2. CASE got'[Acc] = <<>>
    <3>1. Len(got'[Acc]) = 0
      BY <2>2
    <3> QED
      BY <1>1, <2>1, <2>2, <3>1
  <2>3. CASE peer = c /\ got'[Acc] = got[Acc]
    BY <1>1, <2>3 DEF FlowInv
  <2> QED
    BY <2>2, <2>3
<1> QED
  BY <1>5, <1>6, <1>7, <1>8 DEF FlowInv

LEMMA WireKept ==
  ASSUME NEW c \in Clients, WireInv(c), WireCalm(c), setup' = setup, round'[c] = round[c],
         Took(c)' = Took(c), Asks(c)' = Asks(c), Answers(c)' = Answers(c),
         got'[Rcv(c)] = got[Rcv(c)], got'[Srcv(c)] = got[Srcv(c)],
         c \in alive' => In(Req(c))' = In(Req(c)) /\ In(Srv(c))' = In(Srv(c))
  PROVE  WireInv(c)'
<1>1. \A m, lo, hi : Cut(m, lo, hi)' = Cut(m, lo, hi)
  BY CutSame
<1>2. c \in alive' =>
        /\ OnWay(Asks(c), <<"req", round[c]>>, Req(c), Srcv(c))'
             = OnWay(Asks(c), <<"req", round[c]>>, Req(c), Srcv(c))
        /\ OnWay(Answers(c), <<"res", Took(c)>>, Srv(c), Rcv(c))'
             = OnWay(Answers(c), <<"res", Took(c)>>, Srv(c), Rcv(c))
  BY <1>1 DEF OnWay
<1> QED
  BY <1>1, <1>2 DEF WireCalm, WireInv, WorksOf

(* Nothing has changed but in the streams. *)
LEMMA CalmCore ==
  ASSUME TypeInv, NEW c \in Clients, Core(c), Calm(c), WriterCalm(Req(c)), WriterCalm(Srv(c)),
         peer' = c => (peer = c /\ got'[Acc] = got[Acc]) \/ got'[Acc] = <<>>
  PROVE  /\ CountInv(c)' /\ PlaceInv(c)' /\ FlowInv(c)'
         /\ Took(c)' = Took(c) /\ Asks(c)' = Asks(c) /\ Answers(c)' = Answers(c)
<1>1. /\ Took(c)' = Took(c) /\ Dealt(c)' = Dealt(c) /\ Back(c)' = Back(c)
      /\ Asks(c)' = Asks(c) /\ Answers(c)' = Answers(c)
  BY DEF Calm, Took, Dealt, Back, Asks, Answers
<1>2. CountInv(c)'
  BY <1>1 DEF Calm, Core, CountInv
<1>3. Srv(c)[1] # "request"
  BY Names
<1>4. PlaceInv(c)'
  BY <1>1, <1>3 DEF Calm, Core, PlaceInv, WriterCalm
<1>5. FlowInv(c)'
  <2>1. Stopped(Req(c)) /\ Stopped(Srv(c)) /\ (Where(Req(c))' = "done" => Where(Req(c)) = "done")
    BY DEF WriterCalm, Stopped
  <2>2. FlowInv(c)
    BY DEF Core
  <2> QED
    BY <1>1, <2>1, <2>2, FlowKept DEF Calm
<1> QED
  BY <1>1, <1>2, <1>4, <1>5

LEMMA SteadyCore ==
  ASSUME TypeInv, NEW c \in Clients, Core(c), Steady(c)
  PROVE  Core(c)'
<1>1. Calm(c) /\ WriterCalm(Req(c)) /\ WriterCalm(Srv(c)) /\ WireCalm(c) /\ WireInv(c)
  BY DEF Steady, Core
<1>2. /\ CountInv(c)' /\ PlaceInv(c)' /\ FlowInv(c)'
      /\ Took(c)' = Took(c) /\ Asks(c)' = Asks(c) /\ Answers(c)' = Answers(c)
  BY <1>1, CalmCore DEF Steady
<1>3. WireInv(c)'
  BY <1>1, <1>2, WireKept DEF Calm, WriterCalm
<1> QED
  BY <1>2, <1>3 DEF Core

LEMMA SameView ==
  ASSUME NEW w, Same(w), setup' = setup
  PROVE  /\ Where(w)' = Where(w) /\ In(w)' = In(w) /\ Res(w)' = Res(w) /\ got'[w] = got[w]
         /\ Moved(w)' = Moved(w) /\ Writing(w)' = Writing(w) /\ Reading(w)' = Reading(w)
<1>1. pc'[w] = pc[w] /\ rem'[w] = rem[w] /\ got'[w] = got[w] /\ ret'[w] = ret[w] /\ All' = All
  BY CutSame DEF Same
<1>2. Writing(w)' = Writing(w) /\ Reading(w)' = Reading(w) /\ AtHeader(w)' = AtHeader(w)
  BY <1>1 DEF Writing, Reading, AtHeader
<1>3. Moved(w)' = Moved(w)
  BY <1>1, <1>2 DEF Moved, Told
<1> QED
  BY <1>1, <1>2, <1>3 DEF Where, In, Res

(* What the accepting work does, as c can tell. *)
AccCalm(c) ==
  /\ peer' = c => \/ peer = c /\ got'[Acc] = got[Acc]
                  \/ got'[Acc] = <<>> /\ (peer = c => got[Acc] = <<>>)
  /\ peer = c => peer' = c
  /\ c \in alive' /\ peer' = c => Res(Acc)' # -1
LightCalm(c) ==
  /\ msg_q'[Req(c)] = msg_q[Req(c)] /\ msg_q'[Srv(c)] = msg_q[Srv(c)]
  /\ round'[c] = round[c] /\ answered'[c] = answered[c]
NetCalm(c) == c \in alive' => c \in alive /\ up'[c] = up[c] /\ down'[c] = down[c]

LEMMA Untouched ==
  ASSUME TypeInv, NEW c \in Clients, Core(c), setup' = setup,
         \A w \in WorksOf(c) : Same(w), LightCalm(c), NetCalm(c), AccCalm(c)
  PROVE  Steady(c)
<1>1. ASSUME NEW w \in WorksOf(c)
      PROVE  /\ Where(w)' = Where(w) /\ In(w)' = In(w) /\ Res(w)' = Res(w) /\ got'[w] = got[w]
             /\ Moved(w)' = Moved(w) /\ Writing(w)' = Writing(w)
  BY <1>1, SameView
<1>2. Calm(c)
  BY <1>1 DEF Calm, LightCalm, WorksOf
<1>3. WriterCalm(Req(c)) /\ WriterCalm(Srv(c))
  BY <1>1 DEF WriterCalm, WorksOf
<1>4. WireCalm(c)
  <2>1. HelloIn(c)' = HelloIn(c)
    BY <1>1, <1>2, CutSame DEF HelloIn, WorksOf, Calm
  <2>2. HelloOut(c)' = HelloOut(c)
    <3>1. Where(Srcv(c))' = Where(Srcv(c)) /\ All' = All
      BY <1>1, <1>2, CutSame DEF WorksOf, Calm
    <3>2. (peer' = c <=> peer = c) \/ (peer' = c /\ peer # c /\ got'[Acc] = <<>>)
      BY DEF AccCalm
    <3>3. CASE peer' = c /\ peer # c /\ got'[Acc] = <<>>
      <4>1. Len(got'[Acc]) = 0
        BY <3>3
      <4> QED
        BY <3>1, <3>3, <4>1 DEF HelloOut
    <3>4. CASE peer' = c <=> peer = c
      <4>1. peer = c => Len(got'[Acc]) = Len(got[Acc])
        BY <3>4 DEF AccCalm
      <4> QED
        BY <3>1, <3>4, <4>1 DEF HelloOut
    <3> QED
      BY <3>2, <3>3, <3>4
  <2>3. c \in alive' => /\ \A w \in WorksOf(c) : Res(w) # -1
                        /\ "done" \notin {Where(Req(c)), Where(Rcv(c)), Where(Srcv(c))}
    BY DEF Core, WireInv, NetCalm
  <2>4. c \in alive' => /\ \A w \in WorksOf(c) : Res(w)' # -1
                        /\ "done" \notin {Where(Req(c))', Where(Rcv(c))', Where(Srcv(c))'}
    BY <1>1, <2>3 DEF WorksOf
  <2> QED
    BY <2>1, <2>2, <2>4 DEF WireCalm, NetCalm, AccCalm
<1> QED
  BY <1>2, <1>3, <1>4 DEF Steady, AccCalm

LEMMA AccSame ==
  ASSUME TypeInv, NEW c \in Clients, Core(c), setup' = setup, Same(Acc), peer' = peer, NetCalm(c)
  PROVE  AccCalm(c)
<1>1. Res(Acc)' = Res(Acc) /\ got'[Acc] = got[Acc]
  BY SameView
<1>2. c \in alive' /\ peer = c => Res(Acc) # -1
  BY DEF Core, WireInv, NetCalm
<1> QED
  BY <1>1, <1>2 DEF AccCalm

(* A step of one connection leaves the others alone. *)
Alone(c, d) ==
  /\ Others(WorksOf(d)) /\ setup' = setup /\ peer' = peer /\ LightCalm(c)
  /\ up'[c] = up[c] /\ down'[c] = down[c] /\ (c \in alive' <=> c \in alive)

LEMMA AloneSteady ==
  ASSUME TypeInv, NEW c \in Clients, NEW d \in Clients, c # d, Core(c), Alone(c, d)
  PROVE  Steady(c)
<1>1. WorksOf(c) \cap WorksOf(d) = {} /\ WorksOf(c) \subseteq Works /\ Acc \in Works \ WorksOf(d)
  BY Names, AccName, Different DEF WorksOf
<1>2. (\A w \in WorksOf(c) : Same(w)) /\ Same(Acc)
  BY <1>1 DEF Alone, Others
<1>3. NetCalm(c)
  BY DEF Alone, NetCalm
<1> QED
  BY <1>2, <1>3, AccSame, Untouched DEF Alone

LEMMA OthersMore ==
  ASSUME NEW W, NEW V, Others(W), W \subseteq V
  PROVE  Others(V)
BY DEF Others

LEMMA SmallAlone ==
  ASSUME TypeInv, NEW c \in Clients, NEW d \in Clients, c # d, SmallStep(d)
  PROVE  Alone(c, d)
<1>0. /\ {Clt(d), Req(d), Rcv(d), Srcv(d), Srv(d)} = WorksOf(d)
      /\ Req(d)[1] = "request" /\ Srv(d)[1] = "serve" /\ Req(d)[2] = d /\ Srv(d)[2] = d
      /\ Req(c) \notin WorksOf(d) /\ Srv(c) \notin WorksOf(d)
      /\ Req(c) \in LightWorks /\ Srv(c) \in LightWorks
  BY Names, Different DEF WorksOf
<1>t. /\ msg_q \in [LightWorks -> Seq(Messages)] /\ round \in [Clients -> Nat] /\ answered \in [Clients -> Nat]
      /\ up \in [Clients -> Seq(Units)] /\ down \in [Clients -> Seq(Units)]
  BY DEF TypeInv, NetType, LightType
<1>1. ASSUME NEW w \in WorksOf(d), Others({w}), setup' = setup, LightSame, NetSame PROVE Alone(c, d)
  <2>1. Others(WorksOf(d))
    BY <1>1, OthersMore
  <2> QED
    BY <1>1, <2>1 DEF Alone, LightCalm, LightSame, NetSame
<1>2. ASSUME NEW w \in WorksOf(d), NEW at, NEW n, NEW g, Runs(w, at, n, g), LightCalm(c) PROVE Alone(c, d)
  <2>1. Others(WorksOf(d))
    BY <1>2, OthersMore DEF Runs
  <2> QED
    BY <1>2, <2>1, Plainly DEF Alone
<1>3. ASSUME NEW w \in WorksOf(d), NEW at, NEW n, NEW g, Plain(w, at, n, g) PROVE Alone(c, d)
  BY <1>2, <1>3 DEF Plain, LightSame, LightCalm
<1>4. ASSUME NEW w \in WorksOf(d), NEW g, NEW r, Completes(w, g, r), peer' = peer, alive' = alive,
             up'[c] = up[c], down'[c] = down[c]
      PROVE  Alone(c, d)
  <2>1. Others(WorksOf(d))
    BY <1>4, OthersMore DEF Completes
  <2> QED
    BY <1>4, <2>1 DEF Alone, LightCalm, Completes, LightSame, RestSame
<1>5. CASE Timed(Req(d))
  BY <1>0, <1>4, <1>5 DEF Timed, NetSame
<1>6. CASE Greets(d) \/ Stops(d) \/ ReadsOn(Rcv(d)) \/ ReadsOn(Srcv(d)) \/ Leaves(Rcv(d)) \/ Leaves(Srcv(d))
  BY <1>0, <1>3, <1>6 DEF Greets, Stops, ReadsOn, Leaves
<1>7. CASE Crashes(d)
  BY <1>0, <1>1, <1>7 DEF Crashes
<1>8. CASE Requests(d)
  <2>1. LightCalm(c)
    BY <1>8, <1>t DEF Requests, LightCalm
  <2> QED
    BY <1>0, <1>2, <1>8, <2>1 DEF Requests
<1>9. ASSUME NEW w \in {Req(d), Srv(d)}, Gets(w) PROVE Alone(c, d)
  <2>1. LightCalm(c)
    BY <1>0, <1>9, <1>t DEF Gets, Uses, Serves, LightCalm
  <2>2. PICK at, n, g : Runs(w, at, n, g)
    BY <1>0, <1>9 DEF Gets, Uses, Serves
  <2> QED
    BY <1>0, <1>2, <2>1, <2>2
<1>10. ASSUME NEW w \in {Req(d), Srv(d)}, Sleeps(w) PROVE Alone(c, d)
  <2>1. LightCalm(c) /\ Runs(w, "wait", 0, got[w])
    BY <1>10 DEF Sleeps, LightCalm
  <2> QED
    BY <1>0, <1>2, <2>1
<1>11. CASE GivesUp(Req(d)) \/ GivesUp(Srv(d))
  BY <1>0, <1>3, <1>11 DEF GivesUp
<1>12. ASSUME NEW w \in WorksOf(d), Continues(w) PROVE Alone(c, d)
  BY <1>3, <1>12 DEF Continues
<1>13. ASSUME NEW w \in WorksOf(d), Fails(w) \/ Confirms(w) PROVE Alone(c, d)
  BY <1>4, <1>13 DEF Fails, Confirms, NetSame
<1>18. ASSUME NEW w \in WorksOf(d), NEW r, Gives(w, r), peer' = peer, alive' = alive,
              up'[c] = up[c], down'[c] = down[c]
       PROVE  Alone(c, d)
  <2>1. Others(WorksOf(d))
    BY <1>18, OthersMore DEF Gives
  <2> QED
    BY <1>18, <2>1 DEF Alone, LightCalm, Gives, LightSame, RestSame
<1>14. ASSUME NEW w \in WorksOf(d), SendsUp(d, w) PROVE Alone(c, d)
  <2>1. PICK k \in 1 .. rem[w] :
          /\ Gives(w, OnWire(k))
          /\ up' = [up EXCEPT ![d] = @ \o Sent(w, k)] /\ UNCHANGED <<down, alive, backlog, peer>>
    BY <1>14 DEF SendsUp
  <2>2. up'[c] = up[c]
    BY <1>t, <2>1
  <2> QED
    BY <1>18, <2>1, <2>2
<1>15. CASE SendsDown(d)
  <2>1. PICK k \in 1 .. rem[Srv(d)] :
          /\ Gives(Srv(d), OnWire(k))
          /\ down' = [down EXCEPT ![d] = @ \o Sent(Srv(d), k)] /\ UNCHANGED <<up, alive, backlog, peer>>
    BY <1>15 DEF SendsDown
  <2>2. down'[c] = down[c]
    BY <1>t, <2>1
  <2> QED
    BY <1>0, <1>18, <2>1, <2>2
<1>16. CASE HearsDown(d)
  <2>1. PICK k \in Nat :
          /\ Takes(Rcv(d), down[d], k)
          /\ down' = [down EXCEPT ![d] = SubSeq(down[d], k + 1, Len(down[d]))]
          /\ UNCHANGED <<up, alive, backlog, peer>>
    BY <1>16 DEF HearsDown
  <2>2. down'[c] = down[c]
    BY <1>t, <2>1
  <2> QED
    BY <1>0, <1>4, <2>1, <2>2 DEF Takes
<1>17. CASE HearsUp(d, Srcv(d))
  <2>1. PICK k \in Nat :
          /\ Takes(Srcv(d), up[d], k)
          /\ up' = [up EXCEPT ![d] = SubSeq(up[d], k + 1, Len(up[d]))]
          /\ UNCHANGED <<down, alive, backlog, peer>>
    BY <1>17 DEF HearsUp
  <2>2. up'[c] = up[c]
    BY <1>t, <2>1
  <2> QED
    BY <1>0, <1>4, <2>1, <2>2 DEF Takes
<1> QED
  BY <1>0, <1>5, <1>6, <1>7, <1>8, <1>9, <1>10, <1>11, <1>12, <1>13, <1>14, <1>15, <1>16, <1>17 DEF SmallStep

LEMMA OtherAlone ==
  ASSUME TypeInv, NEW c \in Clients, NEW d \in Clients, c # d,
         \/ Dials(d) \/ Refused(d) \/ Connected(d) \/ Broken(d) \/ Begins(d)
         \/ Deals(Rcv(d), Req(d), FALSE) \/ Deals(Srcv(d), Srv(d), pc[Srv(d)] = "none")
  PROVE  Alone(c, d)
<1>t. /\ msg_q \in [LightWorks -> Seq(Messages)] /\ up \in [Clients -> Seq(Units)]
      /\ down \in [Clients -> Seq(Units)]
  BY DEF TypeInv, NetType, LightType
<1>1. CASE Dials(d)
  <2>1. Others({Clt(d)}) /\ setup' = setup /\ NetSame /\ LightSame
    BY <1>1, Plainly DEF Dials, Plain, NetSame
  <2>2. Others(WorksOf(d))
    BY <2>1, OthersMore DEF WorksOf
  <2> QED
    BY <2>1, <2>2 DEF Alone, LightCalm, LightSame, NetSame
<1>2. CASE Refused(d) \/ Connected(d)
  <2>1. /\ Others({Clt(d)}) /\ setup' = setup /\ LightSame /\ UNCHANGED <<up, down, peer>>
        /\ c \in alive' <=> c \in alive
    BY <1>2 DEF Refused, Connected, Completes, RestSame, NetSame
  <2>2. Others(WorksOf(d))
    BY <2>1, OthersMore DEF WorksOf
  <2> QED
    BY <2>1, <2>2 DEF Alone, LightCalm, LightSame
<1>3. CASE Broken(d)
  <2>1. /\ Others({}) /\ setup' = setup /\ LightSame /\ peer' = peer
        /\ c \in alive' <=> c \in alive
    BY <1>3 DEF Broken, RestSame
  <2>2. up'[c] = up[c] /\ down'[c] = down[c]
    BY <1>3, <1>t DEF Broken
  <2>3. Others(WorksOf(d))
    BY <2>1, OthersMore
  <2> QED
    BY <2>1, <2>2, <2>3 DEF Alone, LightCalm, LightSame
<1>4. CASE Begins(d)
  <2>1. Others({Clt(d), Req(d), Rcv(d)}) /\ setup' = setup /\ LightSame /\ NetSame
    BY <1>4 DEF Begins, Others, Same, TypeInv, WorkType, RestSame
  <2>2. Others(WorksOf(d))
    BY <2>1, OthersMore DEF WorksOf
  <2> QED
    BY <2>1, <2>2 DEF Alone, LightCalm, LightSame, NetSame
<1>5. ASSUME NEW w \in WorksOf(d), NEW v \in {Req(d), Srv(d)}, NEW fresh, Deals(w, v, fresh) PROVE Alone(c, d)
  <2>1. /\ Others({w, v}) /\ setup' = setup /\ NetSame /\ UNCHANGED <<round, answered>>
        /\ msg_q' = [msg_q EXCEPT ![v] = Append(@, Message(w))]
    BY <1>5 DEF Deals, Deal
  <2>2. Others(WorksOf(d))
    BY <2>1, OthersMore DEF WorksOf
  <2>3. LightCalm(c)
    BY <1>t, <2>1, Names, Different DEF LightCalm
  <2> QED
    BY <2>1, <2>2, <2>3 DEF Alone, NetSame
<1>6. Rcv(d) \in WorksOf(d) /\ Srcv(d) \in WorksOf(d)
  BY DEF WorksOf
<1> QED
  BY <1>1, <1>2, <1>3, <1>4, <1>5, <1>6

(* A message is one step, however many parts it is moved in. *)
LEMMA ContinuesView ==
  ASSUME TypeInv, NEW w \in Works, Continues(w)
  PROVE  /\ Where(w)' = Where(w) /\ In(w)' = In(w) /\ Res(w) = Unset /\ Res(w)' = Unset /\ got'[w] = got[w]
         /\ Where(w) \in {"write", "read"} /\ Moved(w)' = Moved(w)
         /\ Writing(w)' = Writing(w)
<1>0. Sound(w) /\ rem[w] \in Int /\ ret[w] \in Int
  BY DEF TypeInv, WorkInv, WorkType
<1>1. CASE ret[w] < rem[w] /\ Plain(w, pc[w], rem[w] - ret[w], got[w])
  <2>1. /\ pc'[w] = pc[w] /\ rem'[w] = rem[w] - ret[w] /\ got'[w] = got[w] /\ ret'[w] = Unset /\ setup' = setup
    BY <1>1 DEF Plain, Runs, Sets, RestSame
  <2>2. ret[w] > 0 /\ (Writing(w) \/ Reading(w))
    BY DEF Continues, Moving
  <2>3. All' = All /\ Unset = -2
    BY <2>1, CutSame, SizeFacts
  <2>4. Writing(w)' = Writing(w) /\ Reading(w)' = Reading(w) /\ AtHeader(w)' = AtHeader(w)
    BY <2>1 DEF Writing, Reading, AtHeader
  <2>5. Moved(w)' = Moved(w)
    BY <1>0, <2>1, <2>2, <2>3, <2>4, SizeFacts DEF Moved, Told
  <2> QED
    BY <2>1, <2>2, <2>3, <2>4, <2>5 DEF Where, In, Res
<1>2. CASE /\ ret[w] = rem[w] /\ AtHeader(w)
           /\ Plain(w, IF pc[w] = "whdr" THEN "wbody" ELSE "rbody", setup.body, got[w])
  <2>1. /\ pc'[w] = (IF pc[w] = "whdr" THEN "wbody" ELSE "rbody") /\ rem'[w] = setup.body
        /\ got'[w] = got[w] /\ ret'[w] = Unset /\ setup' = setup
    BY <1>2 DEF Plain, Runs, Sets, RestSame
  <2>2. ret[w] > 0 /\ (Writing(w) \/ Reading(w))
    BY DEF Continues, Moving
  <2>3. All' = All /\ Unset = -2 /\ All = HdrLen + setup.body
    BY <2>1, CutSame, SizeFacts
  <2>4. Writing(w)' = Writing(w) /\ Reading(w)' = Reading(w) /\ AtHeader(w) /\ ~AtHeader(w)'
    BY <1>2, <2>1, <2>2 DEF Writing, Reading, AtHeader
  <2>5. Moved(w)' = Moved(w)
    BY <1>0, <1>2, <2>1, <2>2, <2>3, <2>4, SizeFacts DEF Moved, Told
  <2> QED
    BY <2>1, <2>2, <2>3, <2>4, <2>5 DEF Where, In, Res
<1> QED
  BY <1>1, <1>2 DEF Continues

LEMMA FailsView ==
  ASSUME TypeInv, NEW w \in Works, Fails(w)
  PROVE  /\ Where(w)' = Where(w) /\ In(w)' = In(w) /\ got'[w] = got[w]
         /\ Where(w) \in {"write", "read"} /\ Conn(w) \notin alive
<1>1. /\ pc'[w] = pc[w] /\ rem'[w] = rem[w] /\ got'[w] = got[w] /\ ret'[w] = -1 /\ ret[w] = Unset
      /\ setup' = setup /\ Conn(w) \notin alive /\ (Writing(w) \/ Reading(w))
  BY DEF Fails, Completes, Sets, RestSame, Moving
<1>2. Writing(w)' = Writing(w) /\ Reading(w)' = Reading(w) /\ AtHeader(w)' = AtHeader(w)
  BY <1>1 DEF Writing, Reading, AtHeader
<1>3. Moved(w)' = Moved(w) /\ All' = All
  BY <1>1, <1>2, CutSame, SizeFacts DEF Moved, Told
<1> QED
  BY <1>1, <1>2, <1>3 DEF Where, In

LEMMA ConfirmsView ==
  ASSUME TypeInv, NEW w \in Works, Confirms(w)
  PROVE  /\ Where(w)' = Where(w) /\ In(w)' = In(w) /\ got'[w] = got[w] /\ Res(w)' = Unset
         /\ Where(w) = "write" /\ Moved(w)' = Moved(w) /\ Writing(w)' = Writing(w) /\ Unset # -1
<1>1. /\ pc'[w] = pc[w] /\ rem'[w] = rem[w] /\ got'[w] = got[w] /\ ret'[w] = Unset - ret[w]
      /\ setup' = setup /\ Writing(w) /\ ret[w] < Unset /\ ret[w] \in Int
  BY DEF Confirms, Completes, Sets, RestSame, Sending, TypeInv, WorkType
<1>2. Writing(w)' = Writing(w) /\ Reading(w)' = Reading(w) /\ AtHeader(w)' = AtHeader(w)
  BY <1>1 DEF Writing, Reading, AtHeader
<1>3. Told(w) = Unset - ret[w] /\ Told(w)' = Unset - ret[w] /\ ret'[w] # -1 /\ Unset # -1
  BY <1>1, SizeFacts DEF Told
<1>4. Moved(w)' = Moved(w) /\ All' = All
  BY <1>1, <1>2, <1>3, CutSame DEF Moved, Told
<1> QED
  BY <1>1, <1>2, <1>3, <1>4 DEF Where, In, Res

(* The accepting work alone. *)
LEMMA AccSteady ==
  ASSUME TypeInv, AcceptInv, NEW c \in Clients, Core(c),
         \/ Continues(Acc) \/ Fails(Acc) \/ Accepted \/ Listens \/ ReadsFirst \/ Dies
         \/ peer # c /\ HearsUp(peer, Acc)
  PROVE  Steady(c)
<1>0. Acc \in Works /\ Acc \notin WorksOf(c) /\ WorksOf(c) \subseteq Works
  BY AccName, Names, Different DEF WorksOf
<1>1. ASSUME Others({Acc}), setup' = setup, LightSame, NetCalm(c), AccCalm(c) PROVE Steady(c)
  <2>1. \A w \in WorksOf(c) : Same(w)
    BY <1>0, <1>1 DEF Others
  <2> QED
    BY <1>1, <2>1, Untouched DEF LightSame, LightCalm
<1>n. NetSame => NetCalm(c)
  BY DEF NetSame, NetCalm
<1>2. CASE Continues(Acc)
  <2>1. Others({Acc}) /\ setup' = setup /\ LightSame /\ NetSame
    BY <1>2, Plainly DEF Continues, Plain, NetSame
  <2>2. AccCalm(c)
    BY <1>0, <1>2, <2>1, ContinuesView, SizeFacts DEF AccCalm, NetSame
  <2> QED
    BY <1>1, <1>n, <2>1, <2>2
<1>3. CASE Fails(Acc)
  <2>1. Others({Acc}) /\ setup' = setup /\ LightSame /\ NetSame /\ peer \notin alive
    BY <1>3, AccName DEF Fails, Completes, RestSame
  <2>2. AccCalm(c)
    BY <1>0, <1>3, <2>1, FailsView DEF AccCalm, NetSame
  <2> QED
    BY <1>1, <1>n, <2>1, <2>2
<1>4. CASE Accepted
  <2>1. /\ Others({Acc}) /\ setup' = setup /\ LightSame /\ UNCHANGED <<up, down, alive>>
        /\ pc'[Acc] = "accept" /\ got'[Acc] = got[Acc] /\ peer' = Head(backlog)
        /\ ret'[Acc] = 0
        /\ pc[Acc] = "accept" /\ ret[Acc] = Unset
    BY <1>4 DEF Accepted, Completes, RestSame, Sets
  <2>2. peer = None /\ None # c
    BY <2>1, Constants DEF AcceptInv
  <2>3. got[Acc] = <<>>
    BY <1>0, <2>1, AccName DEF TypeInv, WorkInv, Sound, GotBy
  <2>4. peer' = c /\ c \in alive' => Res(Acc)' # -1
    BY <2>1 DEF Res, Writing, Reading
  <2>5. AccCalm(c) /\ NetCalm(c)
    BY <2>1, <2>2, <2>3, <2>4 DEF AccCalm, NetCalm
  <2> QED
    BY <1>1, <2>1, <2>5
<1>5. CASE Listens
  <2>1. Others({Acc}) /\ setup' = setup /\ LightSame /\ NetSame /\ pc[Acc] = "new"
    BY <1>5, Plainly DEF Listens, Plain, NetSame
  <2>2. peer = None /\ None # c
    BY <2>1, Constants DEF AcceptInv
  <2>3. AccCalm(c)
    BY <2>1, <2>2 DEF AccCalm, NetSame
  <2> QED
    BY <1>1, <1>n, <2>1, <2>3
<1>6. CASE ReadsFirst
  <2>1. /\ Others({Acc}) /\ setup' = setup /\ LightSame /\ NetSame /\ got'[Acc] = <<>>
        /\ pc[Acc] = "accept" /\ pc'[Acc] = "rhdr" /\ ret'[Acc] = Unset
    BY <1>6, Plainly DEF ReadsFirst, Plain, NetSame
  <2>2. got[Acc] = <<>>
    BY <1>0, <2>1, AccName DEF TypeInv, WorkInv, Sound, GotBy
  <2>3. Res(Acc)' # -1
    BY <2>1, SizeFacts DEF Res
  <2>4. AccCalm(c)
    BY <2>1, <2>2, <2>3 DEF AccCalm, NetSame
  <2> QED
    BY <1>1, <1>n, <2>1, <2>4
<1>7. CASE Dies
  <2>1. /\ Others({Acc}) /\ setup' = setup /\ LightSame /\ got'[Acc] = got[Acc] /\ alive' = {}
        /\ peer' = peer
    BY <1>7 DEF Dies, Sets
  <2>2. AccCalm(c) /\ NetCalm(c)
    BY <2>1 DEF AccCalm, NetCalm
  <2> QED
    BY <1>1, <2>1, <2>2
<1>8. CASE peer # c /\ HearsUp(peer, Acc)
  <2>1. PICK d \in Clients : d = peer
    BY <1>8 DEF HearsUp, TypeInv, NetType, Takes
  <2>2. HearsUp(d, Acc) /\ d # c
    BY <1>8, <2>1
  <2>3. PICK k \in Nat :
          /\ Takes(Acc, up[d], k)
          /\ up' = [up EXCEPT ![d] = SubSeq(up[d], k + 1, Len(up[d]))]
          /\ UNCHANGED <<down, alive, backlog, peer>>
    BY <2>2 DEF HearsUp
  <2>4. Others({Acc}) /\ setup' = setup /\ LightSame
    BY <2>3 DEF Takes, Completes, RestSame
  <2>5. up'[c] = up[c]
    BY <2>2, <2>3 DEF TypeInv, NetType
  <2>6. AccCalm(c) /\ NetCalm(c)
    BY <2>1, <2>2, <2>3, <2>5 DEF AccCalm, NetCalm
  <2> QED
    BY <1>1, <2>4, <2>6
<1> QED
  BY <1>2, <1>3, <1>4, <1>5, <1>6, <1>7, <1>8

LEMMA OneSteady ==
  ASSUME TypeInv, NEW c \in Clients, Core(c), NEW w \in WorksOf(c), Others({w}), setup' = setup,
         peer' = peer, LightCalm(c), NetCalm(c), got'[w] = got[w],
         w \in {Req(c), Srv(c)} => WriterCalm(w),
         c \in alive' => Res(w)' # -1,
         c \in alive' /\ w # Clt(c) => Where(w)' # "done",
         c \in alive' /\ w = Clt(c) => HelloIn(c)' = HelloIn(c),
         w = Srcv(c) => (Where(w)' = "none" <=> Where(w) = "none")
  PROVE  Steady(c)
<1>0. /\ WorksOf(c) \subseteq Works /\ Acc \in Works /\ Acc \notin WorksOf(c)
      /\ WorksOf(c) = {Clt(c), Req(c), Rcv(c), Srcv(c), Srv(c)}
  BY AccName, Names, Different DEF WorksOf
<1>1. \A u \in WorksOf(c) \ {w} : Same(u)
  BY <1>0 DEF Others
<1>2. \A u \in WorksOf(c) \ {w} :
        /\ Where(u)' = Where(u) /\ In(u)' = In(u) /\ Res(u)' = Res(u) /\ got'[u] = got[u]
        /\ Moved(u)' = Moved(u) /\ Writing(u)' = Writing(u)
  BY <1>1, SameView
<1>3. Same(Acc)
  BY <1>0 DEF Others
<1>4. AccCalm(c)
  BY <1>3, AccSame
<1>5. Calm(c)
  BY <1>0, <1>2 DEF Calm, LightCalm
<1>6. WriterCalm(Req(c)) /\ WriterCalm(Srv(c))
  BY <1>0, <1>2 DEF WriterCalm
<1>7. WireCalm(c)
  <2>0. SUFFICES ASSUME c \in alive' PROVE WireCalm(c)
    BY DEF WireCalm
  <2>1. HelloIn(c)' = HelloIn(c)
    <3>1. CASE w = Clt(c)
      BY <2>0, <3>1
    <3>2. CASE w # Clt(c)
      BY <1>0, <1>2, <3>2, CutSame DEF HelloIn
    <3> QED
      BY <3>1, <3>2
  <2>2. HelloOut(c)' = HelloOut(c)
    <3>1. (Where(Srcv(c))' = "none" <=> Where(Srcv(c)) = "none") /\ All' = All
      BY <1>0, <1>2, CutSame
    <3>2. peer = c => Len(got'[Acc]) = Len(got[Acc])
      BY <1>3 DEF Same
    <3> QED
      BY <3>1, <3>2 DEF HelloOut
  <2>3. /\ \A u \in WorksOf(c) : Res(u) # -1
        /\ "done" \notin {Where(Req(c)), Where(Rcv(c)), Where(Srcv(c))}
    BY <2>0 DEF Core, WireInv, NetCalm
  <2>4. \A u \in WorksOf(c) : Res(u)' # -1
    BY <1>2, <2>0, <2>3
  <2>5. "done" \notin {Where(Req(c))', Where(Rcv(c))', Where(Srcv(c))'}
    <3>1. Where(Req(c))' # "done"
      BY <1>0, <1>2, <2>0, <2>3, Different
    <3>2. Where(Rcv(c))' # "done"
      BY <1>0, <1>2, <2>0, <2>3, Different
    <3>3. Where(Srcv(c))' # "done"
      BY <1>0, <1>2, <2>0, <2>3, Different
    <3> QED
      BY <3>1, <3>2, <3>3
  <2> QED
    BY <1>4, <2>0, <2>1, <2>2, <2>4, <2>5 DEF WireCalm, NetCalm, AccCalm
<1> QED
  BY <1>4, <1>5, <1>6, <1>7 DEF Steady, AccCalm

LEMMA MovingSteady ==
  ASSUME TypeInv, NEW c \in Clients, Core(c), NEW w \in WorksOf(c),
         Continues(w) \/ Fails(w) \/ Confirms(w)
  PROVE  Steady(c)
<1>0. w \in Works /\ Conn(w) = c
  BY Names DEF WorksOf
<1>1. CASE Continues(w)
  <2>1. Others({w}) /\ setup' = setup /\ LightSame /\ NetSame
    BY <1>1, Plainly DEF Continues, Plain, NetSame
  <2>2. /\ Where(w)' = Where(w) /\ In(w)' = In(w) /\ Res(w)' = Unset /\ got'[w] = got[w]
        /\ Where(w) \in {"write", "read"} /\ Moved(w)' = Moved(w) /\ Writing(w)' = Writing(w) /\ Unset # -1
    BY <1>0, <1>1, ContinuesView, SizeFacts
  <2>3. w = Clt(c) => HelloIn(c)' = HelloIn(c)
    BY <2>1, <2>2, CutSame DEF HelloIn
  <2>4. WriterCalm(w)
    BY <2>2 DEF WriterCalm
  <2> QED
    BY <2>1, <2>2, <2>3, <2>4, OneSteady DEF LightSame, LightCalm, NetSame, NetCalm
<1>2. CASE Fails(w)
  <2>1. Others({w}) /\ setup' = setup /\ LightSame /\ NetSame
    BY <1>2 DEF Fails, Completes, RestSame
  <2>2. /\ Where(w)' = Where(w) /\ In(w)' = In(w) /\ got'[w] = got[w]
        /\ Where(w) \in {"write", "read"} /\ c \notin alive'
    BY <1>0, <1>2, <2>1, FailsView DEF NetSame
  <2>4. WriterCalm(w)
    BY <2>2 DEF WriterCalm
  <2> QED
    BY <2>1, <2>2, <2>4, OneSteady DEF LightSame, LightCalm, NetSame, NetCalm
<1>3. CASE Confirms(w)
  <2>1. Others({w}) /\ setup' = setup /\ LightSame /\ NetSame
    BY <1>3 DEF Confirms, Completes, RestSame
  <2>2. /\ Where(w)' = Where(w) /\ In(w)' = In(w) /\ Res(w)' = Unset /\ got'[w] = got[w]
        /\ Where(w) = "write" /\ Moved(w)' = Moved(w) /\ Writing(w)' = Writing(w) /\ Unset # -1
    BY <1>0, <1>3, ConfirmsView
  <2>3. w = Clt(c) => HelloIn(c)' = HelloIn(c)
    BY <2>1, <2>2, CutSame DEF HelloIn
  <2>4. WriterCalm(w)
    BY <2>2 DEF WriterCalm
  <2> QED
    BY <2>1, <2>2, <2>3, <2>4, OneSteady DEF LightSame, LightCalm, NetSame, NetCalm
<1> QED
  BY <1>1, <1>2, <1>3

(* A work suspends in a place of which the other end tells nothing. *)
LEMMA PlainSteady ==
  ASSUME TypeInv, NEW c \in Clients, Core(c), NEW w \in {Rcv(c), Srcv(c)},
         ReadsOn(w) \/ Leaves(w)
  PROVE  Steady(c)
<1>0. /\ w \in Works /\ w \in WorksOf(c) /\ w # Clt(c) /\ w \notin {Req(c), Srv(c)}
      /\ w[1] # "serve"
  BY Names, Different DEF WorksOf
<1>1. CASE ReadsOn(w)
  <2>1. /\ Others({w}) /\ setup' = setup /\ LightSame /\ NetSame /\ pc[w] = "new"
        /\ pc'[w] = "rhdr" /\ ret'[w] = Unset /\ got'[w] = <<>>
    BY <1>1, Plainly DEF ReadsOn, Plain, NetSame
  <2>2. got[w] = <<>>
    BY <1>0, <2>1 DEF TypeInv, WorkInv, Sound, GotBy
  <2>3. Where(w)' = "read" /\ Where(w) = "new" /\ Res(w)' # -1
    BY <2>1, SizeFacts DEF Where, Res, Reading, Writing
  <2> QED
    BY <1>0, <2>1, <2>2, <2>3, OneSteady DEF LightSame, LightCalm, NetSame, NetCalm
<1>2. CASE Leaves(w)
  <2>1. /\ Others({w}) /\ setup' = setup /\ LightSame /\ NetSame /\ Reading(w) /\ ret[w] = -1
        /\ pc'[w] = "done" /\ got'[w] = got[w]
    BY <1>2, Plainly DEF Leaves, Plain, NetSame
  <2>2. Res(w) = -1
    BY <2>1 DEF Res
  <2>3. c \notin alive'
    BY <1>0, <2>1, <2>2 DEF Core, WireInv, NetSame
  <2>4. Where(w)' # "none" /\ Where(w) # "none"
    BY <2>1 DEF Where, Reading, Writing
  <2> QED
    BY <1>0, <2>1, <2>3, <2>4, OneSteady DEF LightSame, LightCalm, NetSame, NetCalm
<1> QED
  BY <1>1, <1>2

LEMMA TimedSteady ==
  ASSUME TypeInv, NEW c \in Clients, Core(c), Timed(Req(c))
  PROVE  Steady(c)
<1> DEFINE w == Req(c)
<1>0. w \in WorksOf(c) /\ w # Clt(c) /\ w # Srcv(c)
  BY Different DEF WorksOf
<1>1. /\ Others({w}) /\ setup' = setup /\ LightSame /\ NetSame /\ pc'[w] = "timer" /\ pc[w] = "timer"
      /\ ret'[w] = 0 /\ got'[w] = got[w]
  BY DEF Timed, Completes, RestSame, Sets
<1>2. Where(w) = "timer" /\ Where(w)' = "timer" /\ Res(w)' # -1 /\ ~Writing(w) /\ ~Writing(w)'
  BY <1>1 DEF Where, Res, Reading, Writing
<1>3. WriterCalm(w)
  BY <1>1, <1>2, CutSame DEF WriterCalm, In
<1> HIDE DEF w
<1> QED
  BY <1>0, <1>1, <1>2, <1>3, OneSteady DEF LightSame, LightCalm, NetSame, NetCalm

(* The client's work until the connection is set up. *)
LEMMA ClientSteady ==
  ASSUME TypeInv, AcceptInv, NEW c \in Clients, Core(c),
         Dials(c) \/ Refused(c) \/ Greets(c) \/ Crashes(c)
  PROVE  Steady(c)
<1> DEFINE w == Clt(c)
<1>0. w \in WorksOf(c) /\ w \notin {Req(c), Srv(c), Srcv(c)} /\ w \in Works /\ w[1] = "client"
  BY Names, Different DEF WorksOf
<1>1. Unconnected(c) => c \notin alive
  BY DEF AcceptInv, StartInv
<1>2. CASE Dials(c) \/ Refused(c) \/ Crashes(c)
  <2>1. Others({w}) /\ setup' = setup /\ LightSame /\ NetSame /\ got'[w] = got[w]
    BY <1>2, Plainly DEF Dials, Refused, Crashes, Plain, Completes, NetSame, RestSame, Sets
  <2>2. Unconnected(c)
    BY <1>2 DEF Dials, Refused, Crashes, Unconnected, Unset
  <2>3. c \notin alive'
    BY <1>1, <2>1, <2>2 DEF NetSame
  <2> HIDE DEF w
  <2> QED
    BY <1>0, <2>1, <2>3, OneSteady DEF LightSame, LightCalm, NetSame, NetCalm, w
<1>3. CASE Greets(c)
  <2>1. /\ Others({w}) /\ setup' = setup /\ LightSame /\ NetSame /\ got'[w] = got[w]
        /\ pc[w] = "connect" /\ pc'[w] = "whdr" /\ rem'[w] = HdrLen /\ ret'[w] = Unset
    BY <1>3 DEF Greets, Plain, Runs, Sets, RestSame
  <2>2. HelloIn(c) = 0
    BY <2>1 DEF HelloIn, Where, Writing, Reading
  <2>3. Moved(w)' = 0 /\ Writing(w)' /\ Res(w)' # -1
    BY <2>1, SizeFacts DEF Moved, Told, AtHeader, Writing, Res
  <2>4. HelloIn(c)' = 0
    BY <2>1, <2>3 DEF HelloIn, Where, Writing
  <2> HIDE DEF w
  <2> QED
    BY <1>0, <2>1, <2>2, <2>3, <2>4, OneSteady DEF LightSame, LightCalm, NetSame, NetCalm, w
<1> QED
  BY <1>2, <1>3

LEMMA BrokenSteady ==
  ASSUME TypeInv, NEW c \in Clients, Core(c), Broken(c)
  PROVE  Steady(c)
<1>1. Others({}) /\ setup' = setup /\ LightSame /\ peer' = peer /\ c \notin alive'
  BY DEF Broken, RestSame
<1>2. WorksOf(c) \subseteq Works /\ Acc \in Works
  BY Names, AccName DEF WorksOf
<1>3. (\A w \in WorksOf(c) : Same(w)) /\ Same(Acc)
  BY <1>1, <1>2 DEF Others
<1>4. NetCalm(c)
  BY <1>1 DEF NetCalm
<1> QED
  BY <1>1, <1>3, <1>4, AccSame, Untouched DEF LightSame, LightCalm

(* When the message of a work that has ended was not cut short, all of it was moved. *)
LEMMA EndedMoved ==
  ASSUME TypeInv, NEW w \in Works, Writing(w) \/ Reading(w), Ended(w), Res(w) # -1
  PROVE  Moved(w) = All /\ ret[w] > 0 /\ ret[w] # -1
<1>1. Sound(w) /\ rem[w] \in Int /\ ret[w] \in Int
  BY DEF TypeInv, WorkInv, WorkType
<1>2. ret[w] # -1
  BY DEF Res
<1>3. ret[w] = rem[w] /\ pc[w] \in {"wbody", "rbody"}
  BY <1>2 DEF Ended
<1>4. rem[w] \in 1 .. Part(w) /\ ~AtHeader(w) /\ Part(w) = setup.body
  BY <1>1, <1>3 DEF Sound, ResultOf, AtHeader, Part
<1> QED
  BY <1>1, <1>2, <1>3, <1>4, SizeFacts DEF Moved, Told

LEMMA BeginsSteady ==
  ASSUME TypeInv, AcceptInv, NEW c \in Clients, Core(c), Begins(c)
  PROVE  Steady(c)
<1> DEFINE W == {Clt(c), Req(c), Rcv(c)}
<1>1. /\ Others(W) /\ setup' = setup /\ LightSame /\ NetSame /\ got' = got /\ ret' = ret /\ rem' = rem
      /\ pc'[Clt(c)] = "done" /\ pc'[Req(c)] = "new" /\ pc'[Rcv(c)] = "new"
      /\ Writing(Clt(c)) /\ Ended(Clt(c))
  BY DEF Begins, Others, Same, TypeInv, WorkType, RestSame
<1>2. pc[Req(c)] = "none" /\ pc[Rcv(c)] = "none"
  BY <1>1 DEF AcceptInv, StartInv, Writing
<1>3. /\ Clt(c) \in Works /\ Req(c) \in Works /\ Rcv(c) \in Works
      /\ Srcv(c) \in Works \ W /\ Srv(c) \in Works \ W /\ Acc \in Works \ W
  BY Names, AccName, Different
<1>4. Same(Srcv(c)) /\ Same(Srv(c)) /\ Same(Acc)
  BY <1>1, <1>3 DEF Others
<1>5. /\ Where(Srcv(c))' = Where(Srcv(c)) /\ Res(Srcv(c))' = Res(Srcv(c))
      /\ Where(Srv(c))' = Where(Srv(c)) /\ Res(Srv(c))' = Res(Srv(c)) /\ In(Srv(c))' = In(Srv(c))
  BY <1>1, <1>4, SameView
<1>6. /\ Where(Req(c))' = "new" /\ Where(Req(c)) = "none" /\ In(Req(c))' = All /\ In(Req(c)) = All
      /\ Where(Rcv(c))' = "new"
  BY <1>1, <1>2, CutSame DEF Where, In, Writing, Reading
<1>7. Res(Req(c))' = Unset /\ Res(Rcv(c))' = Unset
  <2>1. ret[Req(c)] = Unset /\ ret[Rcv(c)] = Unset
    BY <1>2, <1>3 DEF TypeInv, WorkInv, Sound, ResultOf
  <2> QED
    BY <1>1, <2>1 DEF Res
<1>8. Calm(c)
  BY <1>1 DEF Calm, LightSame
<1>9. WriterCalm(Req(c)) /\ WriterCalm(Srv(c))
  BY <1>5, <1>6, Names DEF WriterCalm
<1>10. AccCalm(c) /\ NetCalm(c)
  BY <1>1, <1>4, AccSame DEF NetSame, NetCalm
<1>11. WireCalm(c)
  <2>1. SUFFICES ASSUME c \in alive' PROVE WireCalm(c)
    BY DEF WireCalm
  <2>2. Res(Clt(c)) # -1 /\ Res(Srcv(c)) # -1 /\ Res(Srv(c)) # -1 /\ Where(Srcv(c)) # "done"
    BY <1>1, <2>1 DEF Core, WireInv, WorksOf, NetSame
  <2>3. Moved(Clt(c)) = All /\ ret[Clt(c)] # -1
    BY <1>1, <1>3, <2>2, EndedMoved
  <2>4. HelloIn(c) = All /\ HelloIn(c)' = All
    BY <1>1, <2>3, CutSame DEF HelloIn, Where, Writing, Reading
  <2>5. Res(Clt(c))' # -1
    BY <1>1, <2>3, SizeFacts DEF Res
  <2>6. HelloOut(c)' = HelloOut(c)
    BY <1>1, <1>5, CutSame DEF HelloOut, NetSame
  <2>7. \A u \in WorksOf(c) : Res(u)' # -1
    <3>1. Unset # -1
      BY SizeFacts
    <3> QED
      BY <1>5, <1>7, <2>2, <2>5, <3>1 DEF WorksOf
  <2>8. "done" \notin {Where(Req(c))', Where(Rcv(c))', Where(Srcv(c))'}
    BY <1>5, <1>6, <2>2
  <2> QED
    BY <1>10, <2>1, <2>4, <2>6, <2>7, <2>8 DEF WireCalm, NetCalm, AccCalm
<1> QED
  BY <1>8, <1>9, <1>10, <1>11 DEF Steady, AccCalm

LEMMA SetsUpSteady ==
  ASSUME TypeInv, AcceptInv, NEW c \in Clients, Core(c), NEW d \in Clients, peer = d, SetsUp
  PROVE  Steady(c)
<1>1. /\ Others({Acc, Srcv(d)}) /\ setup' = setup /\ LightSame /\ peer' = None /\ None # c
      /\ UNCHANGED <<up, down, alive>> /\ Reading(Acc) /\ Ended(Acc)
      /\ pc'[Srcv(d)] = "new" /\ got'[Srcv(d)] = got[Srcv(d)] /\ ret'[Srcv(d)] = ret[Srcv(d)]
  BY Constants DEF SetsUp, RestSame
<1>2. WorksOf(c) \subseteq Works /\ Acc \in Works /\ Acc \notin WorksOf(c)
  BY Names, AccName, Different DEF WorksOf
<1>3. CASE c # d
  <2>1. \A w \in WorksOf(c) : Same(w)
    BY <1>1, <1>2, <1>3, Different DEF Others, WorksOf
  <2>2. NetCalm(c) /\ AccCalm(c) /\ LightCalm(c)
    BY <1>1, <1>3 DEF NetCalm, AccCalm, LightCalm, LightSame
  <2> QED
    BY <1>1, <2>1, <2>2, Untouched
<1>4. CASE c = d
  <2>1. \A w \in {Clt(c), Req(c), Rcv(c), Srv(c)} : Same(w)
    BY <1>1, <1>2, <1>4, Different DEF Others, WorksOf
  <2>2. \A w \in {Clt(c), Req(c), Rcv(c), Srv(c)} :
          /\ Where(w)' = Where(w) /\ In(w)' = In(w) /\ Res(w)' = Res(w) /\ got'[w] = got[w]
          /\ Moved(w)' = Moved(w) /\ Writing(w)' = Writing(w)
    BY <1>1, <2>1, SameView
  <2>3. pc[Srcv(c)] = "none"
    BY <1>4 DEF AcceptInv, StartInv
  <2>4. ret[Srcv(c)] = Unset
    BY <1>2, <2>3 DEF TypeInv, WorkInv, Sound, ResultOf, WorksOf
  <2>5. Where(Srcv(c))' = "new" /\ Where(Srcv(c)) = "none" /\ Res(Srcv(c))' # -1
    BY <1>1, <1>4, <2>3, <2>4, SizeFacts DEF Where, Res, Reading, Writing
  <2>6. Calm(c)
    BY <1>1, <1>4, <2>2 DEF Calm, LightSame
  <2>7. WriterCalm(Req(c)) /\ WriterCalm(Srv(c))
    BY <2>2 DEF WriterCalm
  <2>8. WireCalm(c)
    <3>1. SUFFICES ASSUME c \in alive' PROVE WireCalm(c)
      BY DEF WireCalm
    <3>2. /\ Res(Acc) # -1 /\ \A w \in WorksOf(c) : Res(w) # -1
          /\ "done" \notin {Where(Req(c)), Where(Rcv(c))}
      BY <1>1, <1>4, <3>1 DEF Core, WireInv
    <3>3. Len(got[Acc]) = All
      <4>1. Moved(Acc) = All
        BY <1>1, <1>2, <3>2, EndedMoved
      <4> QED
        BY <1>1, <1>2, <4>1, AccName DEF TypeInv, WorkInv, Sound, GotBy
    <3>4. HelloOut(c) = All /\ HelloOut(c)' = All
      BY <1>1, <1>4, <2>5, <3>3, CutSame DEF HelloOut
    <3>5. HelloIn(c)' = HelloIn(c)
      BY <1>1, <2>2, CutSame DEF HelloIn
    <3>6. \A w \in WorksOf(c) : Res(w)' # -1
      BY <2>2, <2>5, <3>2 DEF WorksOf
    <3>7. "done" \notin {Where(Req(c))', Where(Rcv(c))', Where(Srcv(c))'}
      BY <2>2, <2>5, <3>2
    <3> QED
      BY <1>1, <3>1, <3>4, <3>5, <3>6, <3>7 DEF WireCalm
  <2> QED
    BY <1>1, <2>6, <2>7, <2>8 DEF Steady
<1> QED
  BY <1>3, <1>4

LEMMA CountTypes ==
  ASSUME TypeInv, NEW c \in Clients
  PROVE  /\ Took(c) \in Nat /\ Dealt(c) \in Nat /\ Back(c) \in Nat
         /\ round[c] \in Nat /\ answered[c] \in Nat
         /\ msg_q[Req(c)] \in Seq(Messages) /\ msg_q[Srv(c)] \in Seq(Messages)
         /\ Len(msg_q[Req(c)]) \in Nat /\ Len(msg_q[Srv(c)]) \in Nat
<1>1. /\ Srv(c) \in Works /\ Srv(c)[1] = "serve" /\ Req(c) \in LightWorks /\ Srv(c) \in LightWorks
  BY Names
<1>2. got[Srv(c)] \in Seq(Nat)
  BY <1>1 DEF TypeInv, WorkInv, Sound, GotBy
<1>3. got[Srv(c)] # <<>> => got[Srv(c)][1] \in Nat
  BY <1>2
<1>4. /\ msg_q[Req(c)] \in Seq(Messages) /\ msg_q[Srv(c)] \in Seq(Messages)
      /\ round[c] \in Nat /\ answered[c] \in Nat
  BY <1>1 DEF TypeInv, LightType
<1>5. Len(msg_q[Req(c)]) \in Nat /\ Len(msg_q[Srv(c)]) \in Nat
  BY <1>4, LenProperties
<1>6. Took(c) \in Nat
  BY <1>3 DEF Took
<1> QED
  BY <1>4, <1>5, <1>6 DEF Dealt, Back

(* A connection begins with nothing on its way. *)
LEMMA ConnectedCore ==
  ASSUME TypeInv, AcceptInv, NEW c \in Clients, Core(c), Connected(c)
  PROVE  Core(c)'
<1>1. /\ Others({Clt(c)}) /\ setup' = setup /\ LightSame /\ UNCHANGED <<up, down, peer>>
      /\ pc[Clt(c)] = "connect" /\ pc'[Clt(c)] = "connect" /\ ret'[Clt(c)] = 0 /\ Unconnected(c)
      /\ got'[Clt(c)] = got[Clt(c)]
  BY DEF Connected, Completes, RestSame, Sets, Unconnected, Unset
<1>2. /\ pc[Req(c)] = "none" /\ pc[Rcv(c)] = "none" /\ pc[Srcv(c)] = "none" /\ pc[Srv(c)] = "none"
      /\ up[c] = <<>> /\ down[c] = <<>> /\ peer # c
  BY <1>1 DEF AcceptInv, StartInv
<1>3. Acc \in Works /\ WorksOf(c) \subseteq Works /\ WorksOf(c) = {Clt(c), Req(c), Rcv(c), Srcv(c), Srv(c)}
      /\ Clt(c) \notin {Acc, Req(c), Rcv(c), Srcv(c), Srv(c)}
  BY Names, AccName, Different DEF WorksOf
<1>4. \A w \in {Req(c), Rcv(c), Srcv(c), Srv(c)} : Same(w) /\ pc[w] = "none" /\ ret[w] = Unset
  BY <1>1, <1>2, <1>3 DEF Others, TypeInv, WorkInv, Sound, ResultOf
<1>5. \A w \in {Req(c), Rcv(c), Srcv(c), Srv(c)} :
        /\ Where(w)' = "none" /\ Where(w) = "none" /\ Res(w)' = Unset /\ In(w)' = All /\ In(w) = All
        /\ got'[w] = got[w]
  BY <1>1, <1>4, CutSame DEF Same, Where, Res, In, Reading, Writing
<1>6. Calm(c) /\ WriterCalm(Req(c)) /\ WriterCalm(Srv(c))
  BY <1>1, <1>5 DEF Calm, WriterCalm, LightSame
<1>7. CountInv(c)' /\ PlaceInv(c)' /\ FlowInv(c)'
  <2>2. Where(Req(c)) = "none" /\ Where(Srv(c)) = "none"
    BY <1>5
  <2>3. /\ Took(c)' = Took(c) /\ Dealt(c)' = Dealt(c) /\ Back(c)' = Back(c)
        /\ Asks(c)' = Asks(c) /\ Answers(c)' = Answers(c)
    BY <1>6 DEF Calm, Took, Dealt, Back, Asks, Answers
  <2>4. CountInv(c)' /\ PlaceInv(c)'
    BY <1>5, <1>6, <2>2, <2>3, SizeFacts DEF Calm, Core, CountInv, PlaceInv
  <2>5. FlowInv(c)'
    <3>1. \A m, lo, hi : Cut(m, lo, hi)' = Cut(m, lo, hi)
      BY <1>1, CutSame
    <3>2. All' = All
      BY <1>1, CutSame
    <3> QED
      BY <1>1, <1>2, <1>5, <1>6, <2>3, <3>1, <3>2 DEF FlowInv, Flow, Calm, Core
  <2> QED
    BY <2>4, <2>5
<1>8. WireInv(c)'
  <2>1. \A w \in WorksOf(c) : Res(w)' # -1
    <3>1. Res(Clt(c))' # -1
      BY <1>1 DEF Res, Writing, Reading
    <3> QED
      BY <1>3, <1>5, <3>1, SizeFacts
  <2>2. HelloIn(c)' = 0 /\ HelloOut(c)' = 0
    BY <1>1, <1>2, <1>5 DEF HelloIn, HelloOut, Where, Reading, Writing
  <2>3. ~Asks(c)' /\ ~Answers(c)'
    <3>1. Dealt(c) = 0 /\ round[c] = 0
      BY <1>5 DEF Core, PlaceInv
    <3>2. Took(c) = 0 /\ Back(c) = 0
      <4>1. Took(c) \in Nat /\ answered[c] \in Nat /\ Back(c) \in Nat
        BY CountTypes
      <4> QED
        BY <3>1, <4>1 DEF Core, CountInv
    <3>3. Asks(c)' = Asks(c) /\ Answers(c)' = Answers(c)
      BY <1>6 DEF Calm, Took, Dealt, Back, Asks, Answers
    <3> QED
      BY <3>1, <3>2, <3>3 DEF Asks, Answers
  <2>4. Cut(<<"hello", 0>>, 0, 0)' = <<>>
    BY <1>1, CutSame, CutNone, HelloName, SizeFacts
  <2>5. /\ OnWay(Asks(c), <<"req", round[c]>>, Req(c), Srcv(c))' = <<>>
        /\ OnWay(Answers(c), <<"res", Took(c)>>, Srv(c), Rcv(c))' = <<>>
    BY <2>3 DEF OnWay
  <2>6. up'[c] = <<>> /\ down'[c] = <<>> /\ peer' # c /\ <<>> \o <<>> = <<>>
    BY <1>1, <1>2
  <2>7. "done" \notin {Where(Req(c))', Where(Rcv(c))', Where(Srcv(c))'}
    BY <1>5
  <2> QED
    BY <2>1, <2>2, <2>4, <2>5, <2>6, <2>7 DEF WireInv
<1> QED
  BY <1>7, <1>8 DEF Core

-----------------------------------------------------------------------------
(* Units sent and taken *)

LEMMA ChannelTypes ==
  ASSUME TypeInv, NEW c \in Clients
  PROVE  /\ HelloIn(c) \in 0 .. All /\ HelloOut(c) \in Nat
         /\ <<"req", round[c]>> \in Messages /\ <<"res", Took(c)>> \in Messages
         /\ got[Srcv(c)] \in Seq(Units) /\ got[Rcv(c)] \in Seq(Units) /\ got[Acc] \in Seq(Units)
         /\ Len(got[Srcv(c)]) \in Nat /\ Len(got[Rcv(c)]) \in Nat /\ Len(got[Acc]) \in Nat
         /\ In(Req(c)) \in 0 .. All /\ In(Srv(c)) \in 0 .. All
         /\ up[c] \in Seq(Units) /\ down[c] \in Seq(Units) /\ All \in Nat
<1>1. /\ Clt(c) \in Works /\ Req(c) \in Works /\ Rcv(c) \in Works /\ Srcv(c) \in Works
      /\ Srv(c) \in Works /\ Acc \in Works
      /\ Srcv(c)[1] # "serve" /\ Rcv(c)[1] # "serve" /\ Acc[1] # "serve"
  BY Names, AccName
<1>2. All \in Nat
  BY SizeFacts
<1>3. got[Srcv(c)] \in Seq(Units) /\ got[Rcv(c)] \in Seq(Units) /\ got[Acc] \in Seq(Units)
  BY <1>1 DEF TypeInv, WorkInv, Sound, GotBy
<1>4. Len(got[Srcv(c)]) \in Nat /\ Len(got[Rcv(c)]) \in Nat /\ Len(got[Acc]) \in Nat
  BY <1>3, LenProperties
<1>5. HelloIn(c) \in 0 .. All
  BY <1>1, <1>2, MovedRange DEF HelloIn
<1>6. HelloOut(c) \in Nat
  BY <1>2, <1>4 DEF HelloOut
<1>7. <<"req", round[c]>> \in Messages /\ <<"res", Took(c)>> \in Messages
  BY CountTypes DEF Messages
<1>8. In(Req(c)) \in 0 .. All /\ In(Srv(c)) \in 0 .. All
  BY <1>1, MovedRange
<1>9. up[c] \in Seq(Units) /\ down[c] \in Seq(Units)
  BY DEF TypeInv, NetType
<1> QED
  BY <1>2, <1>3, <1>4, <1>5, <1>6, <1>7, <1>8, <1>9

(* A write that has moved k units. *)
LEMMA SendsView ==
  ASSUME TypeInv, NEW w \in Works, Writing(w), ret[w] = Unset, NEW k \in 1 .. rem[w],
         Gives(w, OnWire(k))
  PROVE  /\ Moved(w) \in 0 .. All /\ Moved(w) + k \in 0 .. All /\ k \in Nat /\ k > 0
         /\ Writing(w)' /\ Moved(w)' = Moved(w) + k
         /\ In(w) = Moved(w) /\ In(w)' = Moved(w) + k
         /\ Where(w) = "write" /\ Where(w)' = "write" /\ Res(w)' = Unset /\ got'[w] = got[w]
         /\ Others({w}) /\ setup' = setup /\ LightSame
<1>1. /\ pc'[w] = pc[w] /\ rem'[w] = rem[w] /\ got'[w] = got[w] /\ ret'[w] = Unset - k
      /\ Others({w}) /\ setup' = setup /\ LightSame
  BY DEF Gives, Sets, RestSame, OnWire
<1>2. rem[w] \in Int /\ ret[w] \in Int
  BY DEF TypeInv, WorkType
<1>3. /\ k \in Nat /\ k > 0 /\ Unset - k # -1 /\ Unset - (Unset - k) = k
      /\ ~(Unset - k > 0) /\ Unset - k < Unset
  BY <1>2, SizeFacts
<1>4. Moved(w) \in 0 .. All /\ Moved(w) + k \in 0 .. All
  BY SentUnits
<1>5. Writing(w)' /\ Writing(w) /\ (Reading(w)' <=> Reading(w)) /\ (AtHeader(w)' <=> AtHeader(w)) /\ All' = All
  BY <1>1, CutSame DEF Writing, Reading, AtHeader
<1>6. Moved(w)' = Moved(w) + k
  <2>1. Moved(w) = (IF AtHeader(w) THEN HdrLen ELSE All) - rem[w]
    BY <1>2, SizeFacts DEF Moved, Told
  <2>2. Moved(w)' = (IF AtHeader(w) THEN HdrLen ELSE All) - rem[w] + k
    BY <1>1, <1>3, <1>5 DEF Moved, Told
  <2> QED
    BY <1>2, <1>3, <2>1, <2>2, SizeFacts
<1> QED
  BY <1>1, <1>3, <1>4, <1>5, <1>6 DEF In, Where, Res

(* A read that has taken k units. *)
LEMMA HearsView ==
  ASSUME TypeInv, NEW w \in Works, NEW s \in Seq(Units), NEW k \in Nat, Takes(w, s, k)
  PROVE  /\ k \in 1 .. Len(s) /\ Where(w) = "read" /\ Where(w)' = "read" /\ Res(w)' = Unset
         /\ In(w) = All /\ In(w)' = All /\ got'[w] = got[w] \o SubSeq(s, 1, k)
         /\ Len(got'[w]) = Len(got[w]) + k /\ Len(got[w]) + k <= All /\ Len(got[w]) \in Nat
         /\ got[w] \in Seq(Units)
         /\ Others({w}) /\ setup' = setup /\ LightSame
<1>1. /\ pc'[w] = pc[w] /\ rem'[w] = rem[w] /\ got'[w] = got[w] \o SubSeq(s, 1, k) /\ ret'[w] = k
      /\ Others({w}) /\ setup' = setup /\ LightSame /\ Reading(w) /\ k \in 1 .. rem[w] /\ ret[w] = Unset
  BY DEF Takes, Completes, Sets, RestSame
<1>2. Sound(w) /\ rem[w] \in Int
  BY DEF TypeInv, WorkInv, WorkType
<1>3. k # -1 /\ k \in Nat
  BY <1>1
<1>4. Reading(w)' /\ ~Writing(w) /\ ~Writing(w)' /\ All' = All
  BY <1>1, CutSame DEF Reading, Writing
<1>5. w[1] # "serve"
  BY <1>1, Kinds
<1>6. Len(got[w]) = Moved(w) /\ got[w] \in Seq(Units)
  BY <1>1, <1>2, <1>5 DEF Sound, GotBy
<1>7. Moved(w) + k <= All
  <2>1. rem[w] \in 1 .. Part(w)
    BY <1>1, <1>2 DEF Sound, ResultOf
  <2>2. Moved(w) = (IF AtHeader(w) THEN HdrLen ELSE All) - rem[w]
    BY <1>1, <1>2, SizeFacts DEF Moved, Told
  <2> QED
    BY <1>1, <1>2, <1>3, <2>1, <2>2, SizeFacts
<1>8. k \in 1 .. Len(s) /\ Len(got'[w]) = Len(got[w]) + k
  BY TakesSound
<1> QED
  BY <1>1, <1>3, <1>4, <1>6, <1>7, <1>8, LenProperties DEF In, Where, Res

(* Nothing of a connection changes but the accepting work and one of its own. *)
LEMMA StreamCalm ==
  ASSUME TypeInv, NEW c \in Clients, NEW w \in WorksOf(c) \cup {Acc}, Others({w}), setup' = setup, LightSame
  PROVE  /\ got'[w] = got[w] \/ w \in {Clt(c), Acc} => Calm(c)
         /\ \A u \in (WorksOf(c) \cup {Acc}) \ {w} :
              /\ Where(u)' = Where(u) /\ In(u)' = In(u) /\ Res(u)' = Res(u) /\ got'[u] = got[u]
              /\ Moved(u)' = Moved(u) /\ (Writing(u)' <=> Writing(u))
         /\ \A u \in {Req(c), Srv(c)} \ {w} : WriterCalm(u)
<1>1. WorksOf(c) \cup {Acc} \subseteq Works
  BY Names, AccName DEF WorksOf
<1>2. \A u \in (WorksOf(c) \cup {Acc}) \ {w} :
              /\ Where(u)' = Where(u) /\ In(u)' = In(u) /\ Res(u)' = Res(u) /\ got'[u] = got[u]
              /\ Moved(u)' = Moved(u) /\ (Writing(u)' <=> Writing(u))
  BY <1>1, SameView DEF Others
<1>3. \A u \in {Req(c), Srv(c)} \ {w} : WriterCalm(u)
  BY <1>2 DEF WriterCalm, WorksOf
<1>4. ASSUME got'[w] = got[w] \/ w \in {Clt(c), Acc} PROVE Calm(c)
  <2>1. \A u \in {Srv(c), Rcv(c), Srcv(c)} : got'[u] = got[u]
    BY <1>2, <1>4, Different, Names DEF WorksOf
  <2> QED
    BY <2>1 DEF Calm, LightSame
<1> QED
  BY <1>2, <1>3, <1>4

LEMMA NotYet ==
  ASSUME TypeInv, AcceptInv, NEW c \in Clients, Core(c), Where(Clt(c)) # "done"
  PROVE  ~Asks(c) /\ ~Answers(c)
<1>1. pc[Req(c)] = "none"
  BY DEF AcceptInv, StartInv, Where, Writing, Reading
<1>2. round[c] = 0
  BY <1>1 DEF Core, PlaceInv, Where, Writing, Reading
<1> QED
  BY <1>2, CountTypes DEF Core, CountInv, Asks, Answers

LEMMA HelloKept ==
  ASSUME NEW c \in Clients, setup' = setup
  PROVE  /\ Where(Clt(c))' = Where(Clt(c)) /\ (Writing(Clt(c))' <=> Writing(Clt(c))) /\ Moved(Clt(c))' = Moved(Clt(c))
              => HelloIn(c)' = HelloIn(c)
         /\ (Where(Srcv(c))' = "none" <=> Where(Srcv(c)) = "none") /\ peer' = peer /\ got'[Acc] = got[Acc]
              => HelloOut(c)' = HelloOut(c)
BY CutSame DEF HelloIn, HelloOut

LEMMA HelloSent ==
  ASSUME TypeInv, AcceptInv, NEW c \in Clients, Core(c), SendsUp(c, Clt(c))
  PROVE  Core(c)'
<1> DEFINE w == Clt(c)
           m == <<"hello", 0>>
<1>0. /\ w \in Works /\ w \in WorksOf(c) /\ w[1] = "client" /\ w \notin {Acc, Req(c), Rcv(c), Srcv(c), Srv(c)}
      /\ {Req(c), Rcv(c), Srcv(c), Srv(c), Acc} \subseteq (WorksOf(c) \cup {Acc}) \ {w}
      /\ WorksOf(c) = {w, Req(c), Rcv(c), Srcv(c), Srv(c)}
  BY Names, Different DEF WorksOf
<1>1. PICK k \in 1 .. rem[w] :
        /\ Writing(w) /\ ret[w] = Unset /\ c \in alive /\ Gives(w, OnWire(k))
        /\ up' = [up EXCEPT ![c] = @ \o Sent(w, k)] /\ UNCHANGED <<down, alive, backlog, peer>>
  BY DEF SendsUp
<1>2. Sent(w, k) = Cut(m, Moved(w), Moved(w) + k)
  BY <1>0, <1>1, SentUnits
<1>3. /\ Moved(w) \in 0 .. All /\ Moved(w) + k \in 0 .. All /\ k \in Nat /\ k > 0
      /\ Writing(w)' /\ Moved(w)' = Moved(w) + k
      /\ Where(w) = "write" /\ Where(w)' = "write" /\ Res(w)' = Unset /\ got'[w] = got[w]
      /\ Others({w}) /\ setup' = setup /\ LightSame
  BY <1>0, <1>1, SendsView
<1>4. /\ Calm(c) /\ WriterCalm(Req(c)) /\ WriterCalm(Srv(c))
      /\ \A u \in {Req(c), Rcv(c), Srcv(c), Srv(c), Acc} :
            Where(u)' = Where(u) /\ Res(u)' = Res(u) /\ got'[u] = got[u]
  BY <1>0, <1>3, StreamCalm
<1>5. CountInv(c)' /\ PlaceInv(c)' /\ FlowInv(c)' /\ Asks(c)' = Asks(c) /\ Answers(c)' = Answers(c)
  BY <1>1, <1>4, CalmCore
<1>6. ~Asks(c) /\ ~Answers(c)
  BY <1>3, NotYet
<1>7. HelloIn(c) = Moved(w) /\ HelloIn(c)' = Moved(w) + k /\ HelloOut(c)' = HelloOut(c)
  BY <1>1, <1>3, <1>4, HelloKept DEF HelloIn
<1>8. WireInv(c)
  BY DEF Core
<1>9. /\ \A u \in WorksOf(c) : Res(u) # -1
      /\ peer = c => Res(Acc) # -1
      /\ "done" \notin {Where(Req(c)), Where(Rcv(c)), Where(Srcv(c))}
      /\ HelloOut(c) <= HelloIn(c)
      /\ up[c] = Cut(m, HelloOut(c), HelloIn(c))
                 \o OnWay(Asks(c), <<"req", round[c]>>, Req(c), Srcv(c))
      /\ down[c] = OnWay(Answers(c), <<"res", Took(c)>>, Srv(c), Rcv(c))
  BY <1>1, <1>8 DEF WireInv
<1>10. HelloOut(c) \in 0 .. All /\ up[c] \in Seq(Units) /\ All \in Nat
  <2>1. HelloOut(c) \in Nat /\ up[c] \in Seq(Units) /\ All \in Nat
    BY ChannelTypes
  <2>2. HelloOut(c) <= Moved(w) /\ Moved(w) \in 0 .. All
    BY <1>3, <1>7, <1>9
  <2> QED
    BY <2>1, <2>2
<1>11. Cut(m, HelloOut(c), HelloIn(c)) \in Seq(Units)
  BY <1>3, <1>7, <1>10, CutLength, HelloName, SizeFacts
<1>12. up[c] = Cut(m, HelloOut(c), Moved(w)) /\ down[c] = <<>>
  BY <1>6, <1>7, <1>9, <1>11, ConcatEmptySeq DEF OnWay
<1>13. up'[c] = Cut(m, HelloOut(c), Moved(w) + k)
  <2>1. up'[c] = up[c] \o Sent(w, k)
    BY <1>1 DEF TypeInv, NetType
  <2>2. Moved(w) \in HelloOut(c) .. All /\ Moved(w) + k \in Moved(w) .. All
    BY <1>3, <1>7, <1>9, <1>10
  <2>3. Cut(m, HelloOut(c), Moved(w)) \o Cut(m, Moved(w), Moved(w) + k) = Cut(m, HelloOut(c), Moved(w) + k)
    BY <1>10, <2>2, CutJoin, HelloName, SizeFacts
  <2> QED
    BY <1>2, <1>12, <2>1, <2>3
<1>14. /\ OnWay(Asks(c), <<"req", round[c]>>, Req(c), Srcv(c))' = <<>>
       /\ OnWay(Answers(c), <<"res", Took(c)>>, Srv(c), Rcv(c))' = <<>>
  BY <1>5, <1>6 DEF OnWay
<1>15. WireInv(c)'
  <2>1. Cut(m, HelloOut(c), HelloIn(c))' = Cut(m, HelloOut(c), Moved(w) + k)
    BY <1>3, <1>7, CutSame
  <2>2. Cut(m, HelloOut(c), Moved(w) + k) \in Seq(Units)
    BY <1>3, <1>10, CutLength, HelloName, SizeFacts
  <2>3. up'[c] = (Cut(m, HelloOut(c), HelloIn(c)) \o OnWay(Asks(c), <<"req", round[c]>>, Req(c), Srcv(c)))'
    BY <1>13, <1>14, <2>1, <2>2, ConcatEmptySeq
  <2>4. down'[c] = OnWay(Answers(c), <<"res", Took(c)>>, Srv(c), Rcv(c))'
    BY <1>1, <1>12, <1>14
  <2>5. HelloOut(c)' <= HelloIn(c)'
    BY <1>3, <1>7, <1>9, <1>10
  <2>6. \A u \in WorksOf(c) : Res(u)' # -1
    BY <1>0, <1>3, <1>4, <1>9, SizeFacts
  <2>7. (peer' = c => Res(Acc)' # -1) /\ "done" \notin {Where(Req(c))', Where(Rcv(c))', Where(Srcv(c))'}
    BY <1>1, <1>4, <1>9
  <2> HIDE DEF w, m
  <2> QED
    BY <2>3, <2>4, <2>5, <2>6, <2>7 DEF WireInv, WorksOf, m
<1> QED
  BY <1>5, <1>15 DEF Core

(* What is on the way of a flow, and what a write adds to it. *)
LEMMA FlowAdds ==
  ASSUME TypeInv, NEW m \in Messages, NEW g \in Nat, NEW a \in 0 .. All, NEW b \in a .. All, g <= a
  PROVE  /\ Cut(m, g, a) \in Seq(Units) /\ Cut(m, a, b) \in Seq(Units)
         /\ Cut(m, g, a) \o Cut(m, a, b) = Cut(m, g, b)
<1>1. All \in Nat /\ setup \in Setups
  BY SizeFacts
<1>2. g \in 0 .. All /\ a \in g .. All /\ b \in 0 .. All
  BY <1>1
<1> QED
  BY <1>1, <1>2, CutJoin, CutLength

LEMMA RequestSent ==
  ASSUME TypeInv, AcceptInv, NEW c \in Clients, Core(c), SendsUp(c, Req(c))
  PROVE  Core(c)'
<1> DEFINE w == Req(c)
           v == Srcv(c)
           h == Cut(<<"hello", 0>>, HelloOut(c), HelloIn(c))
<1>0. /\ w \in Works /\ w \in WorksOf(c) /\ w[1] = "request" /\ w[2] = c
      /\ w \notin {Acc, Clt(c), Rcv(c), Srcv(c), Srv(c)}
      /\ {Clt(c), Rcv(c), Srcv(c), Srv(c), Acc} \subseteq (WorksOf(c) \cup {Acc}) \ {w}
      /\ WorksOf(c) = {Clt(c), w, Rcv(c), Srcv(c), Srv(c)}
  BY Names, Different DEF WorksOf
<1>1. PICK k \in 1 .. rem[w] :
        /\ Writing(w) /\ ret[w] = Unset /\ c \in alive /\ Gives(w, OnWire(k))
        /\ up' = [up EXCEPT ![c] = @ \o Sent(w, k)] /\ UNCHANGED <<down, alive, backlog, peer>>
  BY DEF SendsUp
<1>m. PICK m : m = <<"req", round[c]>>
  OBVIOUS
<1>2. Sent(w, k) = Cut(m, Moved(w), Moved(w) + k) /\ m \in Messages
  BY <1>0, <1>1, <1>m, SentUnits
<1>3. /\ Moved(w) \in 0 .. All /\ Moved(w) + k \in 0 .. All /\ k \in Nat /\ k > 0
      /\ In(w) = Moved(w) /\ In(w)' = Moved(w) + k
      /\ Where(w) = "write" /\ Where(w)' = "write" /\ Res(w)' = Unset /\ got'[w] = got[w]
      /\ Others({w}) /\ setup' = setup /\ LightSame
  BY <1>0, <1>1, SendsView
<1>4. /\ Calm(c) /\ WriterCalm(Srv(c))
      /\ \A u \in {Clt(c), Rcv(c), Srcv(c), Srv(c), Acc} :
            /\ Where(u)' = Where(u) /\ Res(u)' = Res(u) /\ got'[u] = got[u] /\ In(u)' = In(u)
            /\ Moved(u)' = Moved(u) /\ (Writing(u)' <=> Writing(u))
  <2>1. got'[w] = got[w]
    BY <1>3
  <2> QED
    BY <1>0, <1>3, <2>1, StreamCalm
<1>5. /\ Took(c)' = Took(c) /\ Dealt(c)' = Dealt(c) /\ Back(c)' = Back(c)
      /\ Asks(c)' = Asks(c) /\ Answers(c)' = Answers(c) /\ round'[c] = round[c]
  BY <1>4 DEF Calm, Took, Dealt, Back, Asks, Answers
<1>6. CountInv(c)' /\ PlaceInv(c)'
  <2>1. Srv(c)[1] # "request"
    BY Names
  <2> QED
    BY <1>3, <1>4, <1>5, <2>1 DEF Calm, Core, CountInv, PlaceInv, WriterCalm
<1>7. /\ Asks(c) /\ got[v] = Cut(m, 0, Len(got[v])) /\ Len(got[v]) <= Moved(w)
      /\ Len(got[v]) \in Nat /\ All \in Nat
  <2>1. Flow(Asks(c), m, w, v) /\ In(w) # All
    BY <1>m, <1>3, SizeFacts DEF Core, FlowInv
  <2>2. Asks(c) \in BOOLEAN
    BY DEF Asks
  <2> QED
    BY <1>0, <1>3, <2>1, <2>2, ChannelTypes DEF Flow
<1>8. FlowInv(c)'
  <2>1. \A n, lo, hi : Cut(n, lo, hi)' = Cut(n, lo, hi)
    BY <1>3, CutSame
  <2>2. All' = All
    BY <1>3, CutSame
  <2>3. Flow(Asks(c), <<"req", round[c]>>, Req(c), Srcv(c))'
    <3>1. got'[v] = Cut(m, 0, Len(got'[v])) /\ Len(got'[v]) <= In(w)'
      BY <1>3, <1>4, <1>7
    <3> QED
      BY <1>m, <1>5, <1>7, <2>1, <3>1 DEF Flow
  <2>4. Flow(Answers(c), <<"res", Took(c)>>, Srv(c), Rcv(c))'
    BY <1>4, <1>5, <2>1, <2>2 DEF Core, FlowInv, Flow
  <2>5. (peer = c => got[Acc] = Cut(<<"hello", 0>>, 0, Len(got[Acc])))'
    BY <1>1, <1>4, <2>1 DEF Core, FlowInv
  <2> QED
    BY <1>3, <2>3, <2>4, <2>5 DEF FlowInv
<1>9. /\ \A u \in WorksOf(c) : Res(u) # -1
      /\ peer = c => Res(Acc) # -1
      /\ "done" \notin {Where(Req(c)), Where(Rcv(c)), Where(Srcv(c))}
      /\ HelloOut(c) <= HelloIn(c)
      /\ up[c] = h \o Cut(m, Len(got[v]), Moved(w))
      /\ down[c] = OnWay(Answers(c), <<"res", Took(c)>>, Srv(c), Rcv(c))
  BY <1>1, <1>m, <1>3, <1>7 DEF Core, WireInv, OnWay
<1>10. HelloIn(c)' = HelloIn(c) /\ HelloOut(c)' = HelloOut(c)
  BY <1>1, <1>3, <1>4, HelloKept
<1>11. h \in Seq(Units)
  <2>1. HelloIn(c) \in 0 .. All /\ HelloOut(c) \in Nat /\ All \in Nat
    BY ChannelTypes
  <2>2. HelloOut(c) \in 0 .. All
    BY <1>9, <2>1
  <2> QED
    BY <2>1, <2>2, CutLength, HelloName, SizeFacts
<1> HIDE DEF h
<1>12. up'[c] = h \o Cut(m, Len(got[v]), Moved(w) + k)
  <2>1. up'[c] = up[c] \o Sent(w, k)
    BY <1>1 DEF TypeInv, NetType
  <2>2. Moved(w) + k \in Moved(w) .. All
    BY <1>3, <1>7
  <2>3. PICK a, b : a = Moved(w) /\ b = Moved(w) + k
    OBVIOUS
  <2>4. /\ Cut(m, Len(got[v]), a) \in Seq(Units) /\ Cut(m, a, b) \in Seq(Units)
        /\ Cut(m, Len(got[v]), a) \o Cut(m, a, b) = Cut(m, Len(got[v]), b)
    BY <1>2, <1>3, <1>7, <2>2, <2>3, FlowAdds
  <2>5. (h \o Cut(m, Len(got[v]), a)) \o Cut(m, a, b) = h \o (Cut(m, Len(got[v]), a) \o Cut(m, a, b))
    <3>1. PICK x, y : x = Cut(m, Len(got[v]), a) /\ y = Cut(m, a, b)
      OBVIOUS
    <3>2. x \in Seq(Units) /\ y \in Seq(Units)
      BY <2>4, <3>1
    <3>3. (h \o x) \o y = h \o (x \o y)
      BY <1>11, <3>2, ConcatAssociative
    <3> QED
      BY <3>1, <3>3
  <2> QED
    BY <1>2, <1>9, <2>1, <2>3, <2>4, <2>5
<1>13. WireInv(c)'
  <2>1. Cut(<<"hello", 0>>, HelloOut(c), HelloIn(c))' = h
    BY <1>3, <1>10, CutSame DEF h
  <2>2. OnWay(Asks(c), <<"req", round[c]>>, Req(c), Srcv(c))' = Cut(m, Len(got[v]), Moved(w) + k)
    BY <1>m, <1>3, <1>4, <1>5, <1>7, CutSame DEF OnWay
  <2>3. OnWay(Answers(c), <<"res", Took(c)>>, Srv(c), Rcv(c))'
          = OnWay(Answers(c), <<"res", Took(c)>>, Srv(c), Rcv(c))
    BY <1>3, <1>4, <1>5, CutSame DEF OnWay
  <2>4. \A u \in WorksOf(c) : Res(u)' # -1
    BY <1>0, <1>3, <1>4, <1>9, SizeFacts
  <2>5. (peer' = c => Res(Acc)' # -1) /\ "done" \notin {Where(Req(c))', Where(Rcv(c))', Where(Srcv(c))'}
    BY <1>1, <1>3, <1>4, <1>9
  <2>6. /\ HelloOut(c)' <= HelloIn(c)'
        /\ up'[c] = (Cut(<<"hello", 0>>, HelloOut(c), HelloIn(c)) \o OnWay(Asks(c), <<"req", round[c]>>, Req(c), Srcv(c)))'
        /\ down'[c] = OnWay(Answers(c), <<"res", Took(c)>>, Srv(c), Rcv(c))'
    BY <1>1, <1>9, <1>10, <1>12, <2>1, <2>2, <2>3
  <2> QED
    BY <2>4, <2>5, <2>6 DEF WireInv, WorksOf
<1> QED
  BY <1>6, <1>8, <1>13 DEF Core

LEMMA ResponseSent ==
  ASSUME TypeInv, AcceptInv, NEW c \in Clients, Core(c), SendsDown(c)
  PROVE  Core(c)'
<1> DEFINE w == Srv(c)
           v == Rcv(c)
<1>0. /\ w \in Works /\ w \in WorksOf(c) /\ w[1] = "serve" /\ w[2] = c
      /\ w \notin {Acc, Clt(c), Rcv(c), Srcv(c), Req(c)}
      /\ {Clt(c), Rcv(c), Srcv(c), Req(c), Acc} \subseteq (WorksOf(c) \cup {Acc}) \ {w}
      /\ WorksOf(c) = {Clt(c), w, Rcv(c), Srcv(c), Req(c)}
  BY Names, Different DEF WorksOf
<1>1. PICK k \in 1 .. rem[w] :
        /\ Writing(w) /\ ret[w] = Unset /\ c \in alive /\ Gives(w, OnWire(k))
        /\ down' = [down EXCEPT ![c] = @ \o Sent(w, k)] /\ UNCHANGED <<up, alive, backlog, peer>>
  BY DEF SendsDown
<1>m. PICK m : m = <<"res", Took(c)>>
  OBVIOUS
<1>2. Sent(w, k) = Cut(m, Moved(w), Moved(w) + k) /\ m \in Messages
  <2>1. got[w] # <<>>
    BY <1>0, <1>1 DEF TypeInv, WorkInv, Sound, GotBy
  <2>2. m = <<"res", got[w][1]>>
    BY <1>m, <2>1 DEF Took
  <2> QED
    BY <1>0, <1>1, <2>2, SentUnits
<1>3. /\ Moved(w) \in 0 .. All /\ Moved(w) + k \in 0 .. All /\ k \in Nat /\ k > 0
      /\ In(w) = Moved(w) /\ In(w)' = Moved(w) + k
      /\ Where(w) = "write" /\ Where(w)' = "write" /\ Res(w)' = Unset /\ got'[w] = got[w]
      /\ Others({w}) /\ setup' = setup /\ LightSame
  BY <1>0, <1>1, SendsView
<1>4. /\ Calm(c) /\ WriterCalm(Req(c))
      /\ \A u \in {Clt(c), Rcv(c), Srcv(c), Req(c), Acc} :
            /\ Where(u)' = Where(u) /\ Res(u)' = Res(u) /\ got'[u] = got[u] /\ In(u)' = In(u)
            /\ Moved(u)' = Moved(u) /\ (Writing(u)' <=> Writing(u))
  <2>1. got'[w] = got[w]
    BY <1>3
  <2> QED
    BY <1>0, <1>3, <2>1, StreamCalm
<1>5. /\ Took(c)' = Took(c) /\ Dealt(c)' = Dealt(c) /\ Back(c)' = Back(c)
      /\ Asks(c)' = Asks(c) /\ Answers(c)' = Answers(c) /\ round'[c] = round[c]
  BY <1>4 DEF Calm, Took, Dealt, Back, Asks, Answers
<1>6. CountInv(c)' /\ PlaceInv(c)'
  BY <1>3, <1>4, <1>5 DEF Calm, Core, CountInv, PlaceInv
<1>7. /\ Answers(c) /\ got[v] = Cut(m, 0, Len(got[v])) /\ Len(got[v]) <= Moved(w)
      /\ Len(got[v]) \in Nat /\ All \in Nat
  <2>1. Flow(Answers(c), m, w, v) /\ In(w) # All
    BY <1>m, <1>3, SizeFacts DEF Core, FlowInv
  <2>2. Answers(c) \in BOOLEAN
    BY DEF Answers
  <2> QED
    BY <1>0, <1>3, <2>1, <2>2, ChannelTypes DEF Flow
<1>8. FlowInv(c)'
  <2>1. \A n, lo, hi : Cut(n, lo, hi)' = Cut(n, lo, hi)
    BY <1>3, CutSame
  <2>2. All' = All
    BY <1>3, CutSame
  <2>3. Flow(Answers(c), <<"res", Took(c)>>, Srv(c), Rcv(c))'
    <3>1. got'[v] = Cut(m, 0, Len(got'[v])) /\ Len(got'[v]) <= In(w)'
      BY <1>3, <1>4, <1>7
    <3> QED
      BY <1>m, <1>5, <1>7, <2>1, <3>1 DEF Flow
  <2>4. Flow(Asks(c), <<"req", round[c]>>, Req(c), Srcv(c))'
    BY <1>4, <1>5, <2>1, <2>2 DEF Core, FlowInv, Flow
  <2>5. (peer = c => got[Acc] = Cut(<<"hello", 0>>, 0, Len(got[Acc])))'
    BY <1>1, <1>4, <2>1 DEF Core, FlowInv
  <2>6. Where(Req(c))' = "done" => Asks(c)' /\ Len(got'[Srcv(c)]) < All'
    BY <1>4, <1>5, <2>2 DEF Core, FlowInv
  <2> QED
    BY <2>3, <2>4, <2>5, <2>6 DEF FlowInv
<1>9. /\ \A u \in WorksOf(c) : Res(u) # -1
      /\ peer = c => Res(Acc) # -1
      /\ "done" \notin {Where(Req(c)), Where(Rcv(c)), Where(Srcv(c))}
      /\ HelloOut(c) <= HelloIn(c)
      /\ up[c] = Cut(<<"hello", 0>>, HelloOut(c), HelloIn(c)) \o OnWay(Asks(c), <<"req", round[c]>>, Req(c), Srcv(c))
      /\ down[c] = Cut(m, Len(got[v]), Moved(w))
  BY <1>1, <1>m, <1>3, <1>7 DEF Core, WireInv, OnWay
<1>10. HelloIn(c)' = HelloIn(c) /\ HelloOut(c)' = HelloOut(c)
  BY <1>1, <1>3, <1>4, HelloKept
<1>12. down'[c] = Cut(m, Len(got[v]), Moved(w) + k)
  <2>1. down'[c] = down[c] \o Sent(w, k)
    BY <1>1 DEF TypeInv, NetType
  <2>2. Moved(w) + k \in Moved(w) .. All
    BY <1>3, <1>7
  <2>3. PICK a, b : a = Moved(w) /\ b = Moved(w) + k
    OBVIOUS
  <2>4. Cut(m, Len(got[v]), a) \o Cut(m, a, b) = Cut(m, Len(got[v]), b)
    BY <1>2, <1>3, <1>7, <2>2, <2>3, FlowAdds
  <2> QED
    BY <1>2, <1>9, <2>1, <2>3, <2>4
<1>13. WireInv(c)'
  <2>1. Cut(<<"hello", 0>>, HelloOut(c), HelloIn(c))' = Cut(<<"hello", 0>>, HelloOut(c), HelloIn(c))
    BY <1>3, <1>10, CutSame
  <2>2. OnWay(Answers(c), <<"res", Took(c)>>, Srv(c), Rcv(c))' = Cut(m, Len(got[v]), Moved(w) + k)
    BY <1>m, <1>3, <1>4, <1>5, <1>7, CutSame DEF OnWay
  <2>3. OnWay(Asks(c), <<"req", round[c]>>, Req(c), Srcv(c))'
          = OnWay(Asks(c), <<"req", round[c]>>, Req(c), Srcv(c))
    BY <1>3, <1>4, <1>5, CutSame DEF OnWay
  <2>4. \A u \in WorksOf(c) : Res(u)' # -1
    BY <1>0, <1>3, <1>4, <1>9, SizeFacts
  <2>5. (peer' = c => Res(Acc)' # -1) /\ "done" \notin {Where(Req(c))', Where(Rcv(c))', Where(Srcv(c))'}
    BY <1>1, <1>4, <1>9
  <2>6. /\ HelloOut(c)' <= HelloIn(c)'
        /\ up'[c] = (Cut(<<"hello", 0>>, HelloOut(c), HelloIn(c)) \o OnWay(Asks(c), <<"req", round[c]>>, Req(c), Srcv(c)))'
        /\ down'[c] = OnWay(Answers(c), <<"res", Took(c)>>, Srv(c), Rcv(c))'
    BY <1>1, <1>9, <1>10, <1>12, <2>1, <2>2, <2>3
  <2> QED
    BY <2>4, <2>5, <2>6 DEF WireInv, WorksOf
<1> QED
  BY <1>6, <1>8, <1>13 DEF Core

(* What a read takes of a flow. *)
LEMMA FlowTakes ==
  ASSUME TypeInv, NEW m \in Messages, NEW b \in 0 .. All, NEW g \in 0 .. b, NEW k \in 1 .. b - g
  PROVE  /\ Cut(m, 0, g) \o SubSeq(Cut(m, g, b), 1, k) = Cut(m, 0, g + k)
         /\ SubSeq(Cut(m, g, b), k + 1, b - g) = Cut(m, g + k, b)
         /\ Len(Cut(m, g, b)) = b - g
<1>1. All \in Nat /\ setup \in Setups
  BY SizeFacts
<1>2. g \in 0 .. All /\ b \in g .. All
  BY <1>1
<1>3. Len(Cut(m, g, b)) = b - g
  BY <1>1, <1>2, CutLength
<1>5. SubSeq(Cut(m, g, b), 1, k) = Cut(m, g, g + k) /\ SubSeq(Cut(m, g, b), k + 1, b - g) = Cut(m, g + k, b)
  BY <1>1, <1>2, CutParts
<1>6. 0 \in 0 .. All /\ g \in 0 .. All /\ g + k \in g .. All
  BY <1>1, <1>2
<1>7. Cut(m, 0, g) \o Cut(m, g, g + k) = Cut(m, 0, g + k)
  BY <1>1, <1>6, CutJoin
<1> QED
  BY <1>3, <1>5, <1>7

LEMMA RequestHeard ==
  ASSUME TypeInv, AcceptInv, NEW c \in Clients, Core(c), HearsUp(c, Srcv(c))
  PROVE  Core(c)'
<1> DEFINE w == Req(c)
           v == Srcv(c)
<1>0. /\ v \in Works /\ v \in WorksOf(c) /\ v \notin {Acc, Clt(c), Rcv(c), w, Srv(c)}
      /\ {Clt(c), Rcv(c), w, Srv(c), Acc} \subseteq (WorksOf(c) \cup {Acc}) \ {v}
      /\ WorksOf(c) = {Clt(c), w, Rcv(c), v, Srv(c)}
  BY Names, Different DEF WorksOf
<1>1. PICK k \in Nat :
        /\ c \in alive /\ Takes(v, up[c], k)
        /\ up' = [up EXCEPT ![c] = SubSeq(up[c], k + 1, Len(up[c]))]
        /\ UNCHANGED <<down, alive, backlog, peer>>
  BY DEF HearsUp
<1>m. PICK m : m = <<"req", round[c]>>
  OBVIOUS
<1>2. /\ m \in Messages /\ up[c] \in Seq(Units) /\ All \in Nat /\ In(w) \in 0 .. All
      /\ HelloIn(c) \in 0 .. All /\ HelloOut(c) \in Nat
  BY <1>m, ChannelTypes
<1>3. /\ k \in 1 .. Len(up[c]) /\ Where(v) = "read" /\ Where(v)' = "read" /\ Res(v)' = Unset
      /\ got'[v] = got[v] \o SubSeq(up[c], 1, k)
      /\ Len(got'[v]) = Len(got[v]) + k /\ Len(got[v]) \in Nat
      /\ Others({v}) /\ setup' = setup /\ LightSame
  <2>1. PICK s : s = up[c]
    OBVIOUS
  <2>2. s \in Seq(Units) /\ Takes(v, s, k)
    BY <1>1, <1>2, <2>1
  <2> QED
    BY <1>0, <2>1, <2>2, HearsView
<1>4. /\ WriterCalm(w) /\ WriterCalm(Srv(c))
      /\ \A u \in {Clt(c), Rcv(c), w, Srv(c), Acc} :
            /\ Where(u)' = Where(u) /\ Res(u)' = Res(u) /\ got'[u] = got[u] /\ In(u)' = In(u)
            /\ Moved(u)' = Moved(u) /\ (Writing(u)' <=> Writing(u))
  <2>1. v \in WorksOf(c) \cup {Acc}
    BY <1>0
  <2> QED
    BY <1>0, <1>3, <2>1, StreamCalm
<1>5. /\ Took(c)' = Took(c) /\ Dealt(c)' = Dealt(c) /\ Back(c)' = Back(c)
      /\ Asks(c)' = Asks(c) /\ Answers(c)' = Answers(c) /\ round'[c] = round[c]
      /\ answered'[c] = answered[c] /\ msg_q' = msg_q
  BY <1>3, <1>4 DEF LightSame, Took, Dealt, Back, Asks, Answers
<1>6. CountInv(c)' /\ PlaceInv(c)'
  <2>1. Srv(c)[1] # "request"
    BY Names
  <2> QED
    BY <1>4, <1>5, <2>1 DEF Core, CountInv, PlaceInv, WriterCalm
<1>7. /\ \A u \in WorksOf(c) : Res(u) # -1
      /\ peer = c => Res(Acc) # -1
      /\ "done" \notin {Where(Req(c)), Where(Rcv(c)), Where(Srcv(c))}
      /\ HelloOut(c) <= HelloIn(c) /\ HelloOut(c) = All
      /\ up[c] = Cut(<<"hello", 0>>, HelloOut(c), HelloIn(c)) \o OnWay(Asks(c), m, w, v)
      /\ down[c] = OnWay(Answers(c), <<"res", Took(c)>>, Srv(c), Rcv(c))
  BY <1>1, <1>m, <1>3 DEF Core, WireInv, HelloOut
<1>8. Cut(<<"hello", 0>>, HelloOut(c), HelloIn(c)) = <<>>
  <2>1. HelloOut(c) \in 0 .. All /\ HelloOut(c) >= HelloIn(c)
    BY <1>2, <1>7
  <2> QED
    BY <1>2, <2>1, CutLength, HelloName, SizeFacts
<1>9. Asks(c) /\ up[c] = Cut(m, Len(got[v]), In(w))
  <2>1. CASE Asks(c)
    <3>1. OnWay(Asks(c), m, w, v) = Cut(m, Len(got[v]), In(w))
      BY <2>1 DEF OnWay
    <3>2. Flow(Asks(c), m, w, v)
      BY <1>m DEF Core, FlowInv
    <3>3. Len(got[v]) <= In(w)
      BY <2>1, <3>2 DEF Flow
    <3>4. Cut(m, Len(got[v]), In(w)) \in Seq(Units)
      <4>1. Len(got[v]) \in 0 .. All
        BY <1>2, <1>3, <3>3
      <4> QED
        BY <1>2, <4>1, CutLength, SizeFacts
    <3> QED
      BY <1>7, <1>8, <2>1, <3>1, <3>4, ConcatEmptySeq
  <2>2. CASE ~Asks(c)
    <3>1. OnWay(Asks(c), m, w, v) = <<>>
      BY <2>2 DEF OnWay
    <3>2. up[c] = <<>>
      BY <1>7, <1>8, <3>1
    <3> QED
      BY <1>3, <3>2
  <2> QED
    BY <2>1, <2>2
<1>10. got[v] = Cut(m, 0, Len(got[v])) /\ Len(got[v]) <= In(w)
  BY <1>m, <1>9 DEF Core, FlowInv, Flow
<1>11. PICK g, s, b : g = Len(got[v]) /\ s = up[c] /\ b = In(w)
  OBVIOUS
<1>12. /\ k \in 1 .. b - g /\ Cut(m, 0, g) \o SubSeq(s, 1, k) = Cut(m, 0, g + k)
       /\ SubSeq(s, k + 1, Len(s)) = Cut(m, g + k, b)
  <2>1. b \in 0 .. All /\ g \in 0 .. b /\ s = Cut(m, g, b) /\ k \in 1 .. Len(s)
    BY <1>2, <1>3, <1>9, <1>10, <1>11
  <2>2. Len(Cut(m, g, b)) = b - g
    <3>1. g \in 0 .. All /\ g <= b
      BY <1>2, <2>1
    <3> QED
      BY <1>2, <2>1, <3>1, CutLength, SizeFacts
  <2>3. k \in 1 .. b - g
    BY <2>1, <2>2
  <2>4. /\ Cut(m, 0, g) \o SubSeq(Cut(m, g, b), 1, k) = Cut(m, 0, g + k)
        /\ SubSeq(Cut(m, g, b), k + 1, b - g) = Cut(m, g + k, b)
    BY <1>2, <2>1, <2>3, FlowTakes
  <2> QED
    BY <2>1, <2>2, <2>3, <2>4
<1>13. got'[v] = Cut(m, 0, g + k) /\ Len(got'[v]) = g + k /\ g + k <= In(w) /\ up'[c] = Cut(m, g + k, In(w))
  <2>1. up'[c] = SubSeq(up[c], k + 1, Len(up[c]))
    BY <1>1 DEF TypeInv, NetType
  <2>2. g + k <= b
    BY <1>2, <1>3, <1>11, <1>12
  <2> QED
    BY <1>3, <1>10, <1>11, <1>12, <2>1, <2>2
<1>14. FlowInv(c)'
  <2>1. \A n, lo, hi : Cut(n, lo, hi)' = Cut(n, lo, hi)
    BY <1>3, CutSame
  <2>2. All' = All
    BY <1>3, CutSame
  <2>3. Flow(Asks(c), <<"req", round[c]>>, Req(c), Srcv(c))'
    <3>1. got'[v] = Cut(m, 0, Len(got'[v])) /\ Len(got'[v]) <= In(w)'
      BY <1>4, <1>13
    <3> QED
      BY <1>m, <1>5, <1>9, <2>1, <3>1 DEF Flow
  <2>4. Flow(Answers(c), <<"res", Took(c)>>, Srv(c), Rcv(c))'
    BY <1>4, <1>5, <2>1, <2>2 DEF Core, FlowInv, Flow
  <2>5. (peer = c => got[Acc] = Cut(<<"hello", 0>>, 0, Len(got[Acc])))'
    BY <1>1, <1>4, <2>1 DEF Core, FlowInv
  <2>6. Where(Req(c))' # "done"
    BY <1>4, <1>7
  <2> QED
    BY <2>3, <2>4, <2>5, <2>6 DEF FlowInv
<1>15. WireInv(c)'
  <2>1. HelloIn(c)' = HelloIn(c) /\ HelloOut(c)' = HelloOut(c)
    BY <1>1, <1>3, <1>4, HelloKept
  <2>2. Cut(<<"hello", 0>>, HelloOut(c), HelloIn(c))' = <<>>
    BY <1>3, <1>8, <2>1, CutSame
  <2>3. OnWay(Asks(c), <<"req", round[c]>>, Req(c), Srcv(c))' = Cut(m, g + k, In(w))
    BY <1>m, <1>3, <1>4, <1>5, <1>9, <1>13, CutSame DEF OnWay
  <2>4. OnWay(Answers(c), <<"res", Took(c)>>, Srv(c), Rcv(c))'
          = OnWay(Answers(c), <<"res", Took(c)>>, Srv(c), Rcv(c))
    BY <1>3, <1>4, <1>5, CutSame DEF OnWay
  <2>5. \A u \in WorksOf(c) : Res(u)' # -1
    BY <1>0, <1>3, <1>4, <1>7, SizeFacts
  <2>6. (peer' = c => Res(Acc)' # -1) /\ "done" \notin {Where(Req(c))', Where(Rcv(c))', Where(Srcv(c))'}
    BY <1>1, <1>3, <1>4, <1>7
  <2>7. Cut(m, g + k, In(w)) \in Seq(Units)
    <3>1. g + k \in 0 .. All
      BY <1>2, <1>3, <1>11, <1>13
    <3> QED
      BY <1>2, <3>1, CutLength, SizeFacts
  <2>8. up'[c] = (Cut(<<"hello", 0>>, HelloOut(c), HelloIn(c)) \o OnWay(Asks(c), <<"req", round[c]>>, Req(c), Srcv(c)))'
    BY <1>13, <2>2, <2>3, <2>7, ConcatEmptySeq
  <2>9. HelloOut(c)' <= HelloIn(c)' /\ down'[c] = OnWay(Answers(c), <<"res", Took(c)>>, Srv(c), Rcv(c))'
    BY <1>1, <1>7, <2>1, <2>4
  <2> QED
    BY <2>5, <2>6, <2>8, <2>9 DEF WireInv, WorksOf
<1> QED
  BY <1>6, <1>14, <1>15 DEF Core

LEMMA ResponseHeard ==
  ASSUME TypeInv, AcceptInv, NEW c \in Clients, Core(c), HearsDown(c)
  PROVE  Core(c)'
<1> DEFINE w == Srv(c)
           v == Rcv(c)
<1>0. /\ v \in Works /\ v \in WorksOf(c) /\ v \notin {Acc, Clt(c), Srcv(c), w, Req(c)}
      /\ {Clt(c), Srcv(c), w, Req(c), Acc} \subseteq (WorksOf(c) \cup {Acc}) \ {v}
      /\ WorksOf(c) = {Clt(c), w, Srcv(c), v, Req(c)}
  BY Names, Different DEF WorksOf
<1>1. PICK k \in Nat :
        /\ c \in alive /\ Takes(v, down[c], k)
        /\ down' = [down EXCEPT ![c] = SubSeq(down[c], k + 1, Len(down[c]))]
        /\ UNCHANGED <<up, alive, backlog, peer>>
  BY DEF HearsDown
<1>m. PICK m : m = <<"res", Took(c)>>
  OBVIOUS
<1>2. m \in Messages /\ down[c] \in Seq(Units) /\ All \in Nat /\ In(w) \in 0 .. All
  BY <1>m, ChannelTypes
<1>3. /\ k \in 1 .. Len(down[c]) /\ Where(v) = "read" /\ Where(v)' = "read" /\ Res(v)' = Unset
      /\ got'[v] = got[v] \o SubSeq(down[c], 1, k)
      /\ Len(got'[v]) = Len(got[v]) + k /\ Len(got[v]) \in Nat
      /\ Others({v}) /\ setup' = setup /\ LightSame
  <2>1. PICK s : s = down[c]
    OBVIOUS
  <2>2. s \in Seq(Units) /\ Takes(v, s, k)
    BY <1>1, <1>2, <2>1
  <2> QED
    BY <1>0, <2>1, <2>2, HearsView
<1>4. /\ WriterCalm(w) /\ WriterCalm(Req(c))
      /\ \A u \in {Clt(c), Srcv(c), w, Req(c), Acc} :
            /\ Where(u)' = Where(u) /\ Res(u)' = Res(u) /\ got'[u] = got[u] /\ In(u)' = In(u)
            /\ Moved(u)' = Moved(u) /\ (Writing(u)' <=> Writing(u))
  <2>1. v \in WorksOf(c) \cup {Acc}
    BY <1>0
  <2> QED
    BY <1>0, <1>3, <2>1, StreamCalm
<1>5. /\ Took(c)' = Took(c) /\ Dealt(c)' = Dealt(c) /\ Back(c)' = Back(c)
      /\ Asks(c)' = Asks(c) /\ Answers(c)' = Answers(c) /\ round'[c] = round[c]
      /\ answered'[c] = answered[c] /\ msg_q' = msg_q
  BY <1>3, <1>4 DEF LightSame, Took, Dealt, Back, Asks, Answers
<1>6. CountInv(c)' /\ PlaceInv(c)'
  <2>1. Srv(c)[1] # "request"
    BY Names
  <2> QED
    BY <1>4, <1>5, <2>1 DEF Core, CountInv, PlaceInv, WriterCalm
<1>7. /\ \A u \in WorksOf(c) : Res(u) # -1
      /\ peer = c => Res(Acc) # -1
      /\ "done" \notin {Where(Req(c)), Where(Rcv(c)), Where(Srcv(c))}
      /\ HelloOut(c) <= HelloIn(c)
      /\ up[c] = Cut(<<"hello", 0>>, HelloOut(c), HelloIn(c)) \o OnWay(Asks(c), <<"req", round[c]>>, Req(c), Srcv(c))
      /\ down[c] = OnWay(Answers(c), m, w, v)
  BY <1>1, <1>m DEF Core, WireInv
<1>9. Answers(c) /\ down[c] = Cut(m, Len(got[v]), In(w))
  <2>1. CASE Answers(c)
    BY <1>7, <2>1 DEF OnWay
  <2>2. CASE ~Answers(c)
    <3>1. down[c] = <<>>
      BY <1>7, <2>2 DEF OnWay
    <3> QED
      BY <1>3, <3>1
  <2> QED
    BY <2>1, <2>2
<1>10. got[v] = Cut(m, 0, Len(got[v])) /\ Len(got[v]) <= In(w)
  BY <1>m, <1>9 DEF Core, FlowInv, Flow
<1>11. PICK g, s, b : g = Len(got[v]) /\ s = down[c] /\ b = In(w)
  OBVIOUS
<1>12. /\ k \in 1 .. b - g /\ Cut(m, 0, g) \o SubSeq(s, 1, k) = Cut(m, 0, g + k)
       /\ SubSeq(s, k + 1, Len(s)) = Cut(m, g + k, b)
  <2>1. b \in 0 .. All /\ g \in 0 .. b /\ s = Cut(m, g, b) /\ k \in 1 .. Len(s)
    BY <1>2, <1>3, <1>9, <1>10, <1>11
  <2>2. Len(Cut(m, g, b)) = b - g
    <3>1. g \in 0 .. All /\ g <= b
      BY <1>2, <2>1
    <3> QED
      BY <1>2, <2>1, <3>1, CutLength, SizeFacts
  <2>3. k \in 1 .. b - g
    BY <2>1, <2>2
  <2>4. /\ Cut(m, 0, g) \o SubSeq(Cut(m, g, b), 1, k) = Cut(m, 0, g + k)
        /\ SubSeq(Cut(m, g, b), k + 1, b - g) = Cut(m, g + k, b)
    BY <1>2, <2>1, <2>3, FlowTakes
  <2> QED
    BY <2>1, <2>2, <2>3, <2>4
<1>13. got'[v] = Cut(m, 0, g + k) /\ Len(got'[v]) = g + k /\ g + k <= In(w) /\ down'[c] = Cut(m, g + k, In(w))
  <2>1. down'[c] = SubSeq(down[c], k + 1, Len(down[c]))
    BY <1>1 DEF TypeInv, NetType
  <2>2. g + k <= b
    BY <1>2, <1>3, <1>11, <1>12
  <2> QED
    BY <1>3, <1>10, <1>11, <1>12, <2>1, <2>2
<1>14. FlowInv(c)'
  <2>1. \A n, lo, hi : Cut(n, lo, hi)' = Cut(n, lo, hi)
    BY <1>3, CutSame
  <2>2. All' = All
    BY <1>3, CutSame
  <2>3. Flow(Answers(c), <<"res", Took(c)>>, Srv(c), Rcv(c))'
    <3>1. got'[v] = Cut(m, 0, Len(got'[v])) /\ Len(got'[v]) <= In(w)'
      BY <1>4, <1>13
    <3> QED
      BY <1>m, <1>5, <1>9, <2>1, <3>1 DEF Flow
  <2>4. Flow(Asks(c), <<"req", round[c]>>, Req(c), Srcv(c))'
    BY <1>4, <1>5, <2>1, <2>2 DEF Core, FlowInv, Flow
  <2>5. (peer = c => got[Acc] = Cut(<<"hello", 0>>, 0, Len(got[Acc])))'
    BY <1>1, <1>4, <2>1 DEF Core, FlowInv
  <2>6. Where(Req(c))' # "done"
    BY <1>4, <1>7
  <2> QED
    BY <2>3, <2>4, <2>5, <2>6 DEF FlowInv
<1>15. WireInv(c)'
  <2>1. HelloIn(c)' = HelloIn(c) /\ HelloOut(c)' = HelloOut(c)
    BY <1>1, <1>3, <1>4, HelloKept
  <2>2. Cut(<<"hello", 0>>, HelloOut(c), HelloIn(c))' = Cut(<<"hello", 0>>, HelloOut(c), HelloIn(c))
    BY <1>3, <2>1, CutSame
  <2>3. OnWay(Answers(c), <<"res", Took(c)>>, Srv(c), Rcv(c))' = Cut(m, g + k, In(w))
    BY <1>m, <1>3, <1>4, <1>5, <1>9, <1>13, CutSame DEF OnWay
  <2>4. OnWay(Asks(c), <<"req", round[c]>>, Req(c), Srcv(c))'
          = OnWay(Asks(c), <<"req", round[c]>>, Req(c), Srcv(c))
    BY <1>3, <1>4, <1>5, CutSame DEF OnWay
  <2>5. \A u \in WorksOf(c) : Res(u)' # -1
    BY <1>0, <1>3, <1>4, <1>7, SizeFacts
  <2>6. (peer' = c => Res(Acc)' # -1) /\ "done" \notin {Where(Req(c))', Where(Rcv(c))', Where(Srcv(c))'}
    BY <1>1, <1>3, <1>4, <1>7
  <2>8. up'[c] = (Cut(<<"hello", 0>>, HelloOut(c), HelloIn(c)) \o OnWay(Asks(c), <<"req", round[c]>>, Req(c), Srcv(c)))'
    BY <1>1, <1>7, <2>2, <2>4
  <2>9. HelloOut(c)' <= HelloIn(c)' /\ down'[c] = OnWay(Answers(c), <<"res", Took(c)>>, Srv(c), Rcv(c))'
    BY <1>7, <1>13, <2>1, <2>3
  <2> QED
    BY <2>5, <2>6, <2>8, <2>9 DEF WireInv, WorksOf
<1> QED
  BY <1>6, <1>14, <1>15 DEF Core

LEMMA HelloHeard ==
  ASSUME TypeInv, AcceptInv, NEW c \in Clients, peer = c, Core(c), HearsUp(c, Acc)
  PROVE  Core(c)'
<1> DEFINE v == Acc
<1>0. /\ v \in Works /\ v \notin WorksOf(c)
      /\ WorksOf(c) \subseteq (WorksOf(c) \cup {Acc}) \ {v}
      /\ WorksOf(c) = {Clt(c), Req(c), Rcv(c), Srcv(c), Srv(c)}
  BY AccName, Names, Different DEF WorksOf
<1>1. PICK k \in Nat :
        /\ c \in alive /\ Takes(v, up[c], k)
        /\ up' = [up EXCEPT ![c] = SubSeq(up[c], k + 1, Len(up[c]))]
        /\ UNCHANGED <<down, alive, backlog, peer>>
  BY DEF HearsUp
<1>m. PICK m, q, lo, hi :
        /\ m = <<"hello", 0>> /\ lo = HelloOut(c) /\ hi = HelloIn(c)
        /\ q = OnWay(Asks(c), <<"req", round[c]>>, Req(c), Srcv(c))
  OBVIOUS
<1>2. /\ up[c] \in Seq(Units) /\ All \in Nat /\ hi \in 0 .. All /\ lo \in Nat /\ m \in Messages
      /\ Len(got[Srcv(c)]) \in Nat /\ In(Req(c)) \in 0 .. All /\ <<"req", round[c]>> \in Messages
  BY <1>m, ChannelTypes, HelloName
<1>3. /\ k \in 1 .. Len(up[c]) /\ Res(v)' = Unset
      /\ got'[v] = got[v] \o SubSeq(up[c], 1, k)
      /\ Len(got'[v]) = Len(got[v]) + k /\ Len(got[v]) \in Nat /\ Len(got[v]) + k <= All
      /\ Others({v}) /\ setup' = setup /\ LightSame
  <2>1. PICK s : s = up[c]
    OBVIOUS
  <2>2. s \in Seq(Units) /\ Takes(v, s, k)
    BY <1>1, <1>2, <2>1
  <2> QED
    BY <1>0, <2>1, <2>2, HearsView
<1>4. /\ Calm(c) /\ WriterCalm(Req(c)) /\ WriterCalm(Srv(c))
      /\ \A u \in WorksOf(c) :
            /\ Where(u)' = Where(u) /\ Res(u)' = Res(u) /\ got'[u] = got[u] /\ In(u)' = In(u)
            /\ Moved(u)' = Moved(u) /\ (Writing(u)' <=> Writing(u))
  <2>1. v \in WorksOf(c) \cup {Acc} /\ v \in {Clt(c), Acc}
    OBVIOUS
  <2> QED
    BY <1>0, <1>3, <2>1, StreamCalm
<1>5. /\ Took(c)' = Took(c) /\ Dealt(c)' = Dealt(c) /\ Back(c)' = Back(c)
      /\ Asks(c)' = Asks(c) /\ Answers(c)' = Answers(c) /\ round'[c] = round[c]
      /\ answered'[c] = answered[c] /\ msg_q' = msg_q
  BY <1>3, <1>4 DEF Calm, LightSame, Took, Dealt, Back, Asks, Answers
<1>6. CountInv(c)' /\ PlaceInv(c)'
  <2>1. Srv(c)[1] # "request"
    BY Names
  <2> QED
    BY <1>4, <1>5, <2>1 DEF Core, CountInv, PlaceInv, WriterCalm
<1>s. pc[Srcv(c)] = "none" /\ Where(Srcv(c)) = "none"
  BY DEF AcceptInv, StartInv, Where, Writing, Reading
<1>7. /\ \A u \in WorksOf(c) : Res(u) # -1
      /\ "done" \notin {Where(Req(c)), Where(Rcv(c)), Where(Srcv(c))}
      /\ lo <= hi /\ lo = Len(got[v])
      /\ up[c] = Cut(m, lo, hi) \o q
      /\ down[c] = OnWay(Answers(c), <<"res", Took(c)>>, Srv(c), Rcv(c))
  BY <1>1, <1>m, <1>s DEF Core, WireInv, HelloOut
<1>8. q \in Seq(Units)
  <2>1. CASE Asks(c)
    <3>1. Flow(Asks(c), <<"req", round[c]>>, Req(c), Srcv(c))
      BY DEF Core, FlowInv
    <3>2. Len(got[Srcv(c)]) \in 0 .. All
      BY <1>2, <2>1, <3>1 DEF Flow
    <3> QED
      BY <1>m, <1>2, <2>1, <3>2, CutLength, SizeFacts DEF OnWay
  <2>2. CASE ~Asks(c)
    BY <1>m, <2>2 DEF OnWay
  <2> QED
    BY <2>1, <2>2
<1>9. lo \in 0 .. All /\ hi \in lo .. All /\ k \in 1 .. hi - lo
  <2>1. lo \in 0 .. All /\ hi \in lo .. All
    BY <1>2, <1>7
  <2>2. CASE Where(Clt(c)) = "done"
    <3>1. hi = All
      BY <1>m, <2>2 DEF HelloIn
    <3> QED
      BY <1>2, <1>3, <1>7, <2>1, <3>1
  <2>3. CASE Where(Clt(c)) # "done"
    <3>1. ~Asks(c)
      BY <2>3, NotYet
    <3>2. q = <<>>
      BY <1>m, <3>1 DEF OnWay
    <3>3. Cut(m, lo, hi) \in Seq(Units) /\ Len(Cut(m, lo, hi)) = hi - lo
      BY <1>2, <1>7, <2>1, CutLength, SizeFacts
    <3>4. up[c] = Cut(m, lo, hi)
      BY <1>7, <3>2, <3>3, ConcatEmptySeq
    <3> QED
      BY <1>3, <2>1, <3>3, <3>4
  <2> QED
    BY <2>2, <2>3
<1>10. /\ SubSeq(up[c], 1, k) = Cut(m, lo, lo + k)
       /\ SubSeq(up[c], k + 1, Len(up[c])) = Cut(m, lo + k, hi) \o q
  <2>1. PICK s : s = Cut(m, lo, hi) \o q
    OBVIOUS
  <2>2. SubSeq(s, 1, k) = Cut(m, lo, lo + k) /\ SubSeq(s, k + 1, Len(s)) = Cut(m, lo + k, hi) \o q
    <3>1. setup \in Setups /\ m \in Messages /\ lo \in 0 .. All /\ hi \in lo .. All /\ q \in Seq(Units) /\ k \in 1 .. hi - lo
      BY <1>2, <1>8, <1>9, SizeFacts
    <3>2. /\ SubSeq(Cut(m, lo, hi) \o q, 1, k) = Cut(m, lo, lo + k)
          /\ SubSeq(Cut(m, lo, hi) \o q, k + 1, Len(Cut(m, lo, hi) \o q)) = Cut(m, lo + k, hi) \o q
      BY ONLY <3>1, CutAhead
    <3> QED
      BY <2>1, <3>2
  <2> QED
    BY <1>7, <2>1, <2>2
<1>11. got[v] = Cut(m, 0, lo)
  BY <1>m, <1>7 DEF Core, FlowInv
<1>12. got'[v] = Cut(m, 0, lo + k) /\ Len(got'[v]) = lo + k
  <2>1. 0 \in 0 .. All /\ lo \in 0 .. All /\ lo + k \in lo .. All
    BY <1>2, <1>9
  <2>2. Cut(m, 0, lo) \o Cut(m, lo, lo + k) = Cut(m, 0, lo + k)
    BY <1>2, <2>1, CutJoin, SizeFacts
  <2> QED
    BY <1>3, <1>7, <1>10, <1>11, <2>2
<1>13. up'[c] = Cut(m, lo + k, hi) \o q
  BY <1>1, <1>10 DEF TypeInv, NetType
<1>14. FlowInv(c)'
  <2>1. \A n, a, b : Cut(n, a, b)' = Cut(n, a, b)
    BY <1>3, CutSame
  <2>2. All' = All
    BY <1>3, CutSame
  <2>3. Flow(Asks(c), <<"req", round[c]>>, Req(c), Srcv(c))'
    BY <1>0, <1>4, <1>5, <2>1, <2>2 DEF Core, FlowInv, Flow
  <2>4. Flow(Answers(c), <<"res", Took(c)>>, Srv(c), Rcv(c))'
    BY <1>0, <1>4, <1>5, <2>1, <2>2 DEF Core, FlowInv, Flow
  <2>5. (peer = c => got[Acc] = Cut(<<"hello", 0>>, 0, Len(got[Acc])))'
    BY <1>m, <1>12, <2>1
  <2>6. Where(Req(c))' = "done" => Asks(c)' /\ Len(got'[Srcv(c)]) < All'
    BY <1>0, <1>4, <1>5, <2>2 DEF Core, FlowInv
  <2> QED
    BY <2>3, <2>4, <2>5, <2>6 DEF FlowInv
<1>15. WireInv(c)'
  <2>1. HelloIn(c)' = hi
    BY <1>0, <1>m, <1>3, <1>4, HelloKept
  <2>2. HelloOut(c)' = lo + k
    BY <1>0, <1>1, <1>4, <1>12, <1>s DEF HelloOut
  <2>3. Cut(<<"hello", 0>>, HelloOut(c), HelloIn(c))' = Cut(m, lo + k, hi)
    BY <1>m, <1>3, <2>1, <2>2, CutSame
  <2>4. OnWay(Asks(c), <<"req", round[c]>>, Req(c), Srcv(c))' = q
    BY <1>0, <1>m, <1>3, <1>4, <1>5, CutSame DEF OnWay
  <2>5. OnWay(Answers(c), <<"res", Took(c)>>, Srv(c), Rcv(c))'
          = OnWay(Answers(c), <<"res", Took(c)>>, Srv(c), Rcv(c))
    BY <1>0, <1>3, <1>4, <1>5, CutSame DEF OnWay
  <2>6. (\A u \in WorksOf(c) : Res(u)' # -1) /\ Res(Acc)' # -1
    BY <1>3, <1>4, <1>7, SizeFacts
  <2>7. "done" \notin {Where(Req(c))', Where(Rcv(c))', Where(Srcv(c))'}
    BY <1>0, <1>4, <1>7
  <2>8. /\ up'[c] = (Cut(<<"hello", 0>>, HelloOut(c), HelloIn(c)) \o OnWay(Asks(c), <<"req", round[c]>>, Req(c), Srcv(c)))'
        /\ down'[c] = OnWay(Answers(c), <<"res", Took(c)>>, Srv(c), Rcv(c))'
    BY <1>1, <1>7, <1>13, <2>3, <2>4, <2>5
  <2>9. HelloOut(c)' <= HelloIn(c)'
    BY <1>9, <2>1, <2>2
  <2> QED
    BY <2>6, <2>7, <2>8, <2>9 DEF WireInv, WorksOf
<1> QED
  BY <1>6, <1>14, <1>15 DEF Core

-----------------------------------------------------------------------------
(* Messages taken from a light channel *)

LEMMA OthersView ==
  ASSUME NEW c \in Clients, NEW w, Others({w}), setup' = setup
  PROVE  \A u \in (WorksOf(c) \cup {Acc}) \ {w} :
              /\ Where(u)' = Where(u) /\ In(u)' = In(u) /\ Res(u)' = Res(u) /\ got'[u] = got[u]
              /\ Moved(u)' = Moved(u) /\ (Writing(u)' <=> Writing(u))
<1>1. WorksOf(c) \cup {Acc} \subseteq Works
  BY Names, AccName DEF WorksOf
<1> QED
  BY <1>1, SameView DEF Others

LEMMA LightWire ==
  ASSUME TypeInv, NEW c \in Clients, Core(c), NEW w \in {Req(c), Srv(c)}, Others({w}), setup' = setup,
         NetSame, c \in alive' => Res(w)' # -1 /\ Where(w)' # "done"
  PROVE  WireCalm(c)
<1>0. /\ w \notin {Clt(c), Rcv(c), Srcv(c), Acc}
      /\ {Clt(c), Rcv(c), Srcv(c), Acc} \subseteq (WorksOf(c) \cup {Acc}) \ {w}
      /\ WorksOf(c) = {Clt(c), Req(c), Rcv(c), Srcv(c), Srv(c)}
  BY Different DEF WorksOf
<1>1. \A u \in (WorksOf(c) \cup {Acc}) \ {w} :
        /\ Where(u)' = Where(u) /\ Res(u)' = Res(u) /\ got'[u] = got[u]
        /\ Moved(u)' = Moved(u) /\ (Writing(u)' <=> Writing(u))
  BY OthersView
<1>2. SUFFICES ASSUME c \in alive' PROVE WireCalm(c)
  BY DEF WireCalm
<1>3. c \in alive /\ up'[c] = up[c] /\ down'[c] = down[c] /\ peer' = peer
  BY <1>2 DEF NetSame
<1>4. HelloIn(c)' = HelloIn(c) /\ HelloOut(c)' = HelloOut(c)
  BY <1>0, <1>1, <1>3, HelloKept
<1>5. /\ \A u \in WorksOf(c) : Res(u) # -1
      /\ peer = c => Res(Acc) # -1
      /\ "done" \notin {Where(Req(c)), Where(Rcv(c)), Where(Srcv(c))}
  BY <1>3 DEF Core, WireInv
<1>6. \A u \in WorksOf(c) : Res(u)' # -1
  BY <1>1, <1>2, <1>5
<1>7. peer' = c => Res(Acc)' # -1
  BY <1>0, <1>1, <1>3, <1>5
<1>8. Where(Req(c))' # "done"
  <2>1. CASE w = Req(c)
    BY <1>2, <2>1
  <2>2. CASE w # Req(c)
    BY <1>0, <1>1, <1>5, <2>2
  <2> QED
    BY <2>1, <2>2
<1>9. Where(Rcv(c))' # "done" /\ Where(Srcv(c))' # "done"
  BY <1>0, <1>1, <1>5
<1> QED
  BY <1>2, <1>3, <1>4, <1>6, <1>7, <1>8, <1>9 DEF WireCalm

(* A work that asks its light channel has written its message, or cannot. *)
LEMMA ReceivesView ==
  ASSUME TypeInv, NEW c \in Clients, Core(c), NEW w \in {Req(c), Srv(c)}, Receives(w) \/ (pc[w] = "wait" /\ ret[w] = 0)
  PROVE  /\ Where(w) \in {"write", "wait"} \/ (Where(w) = "new" /\ w = Srv(c))
         /\ Receives(w) => Where(w) # "wait"
         /\ In(w) = All \/ c \notin alive
         /\ w = Req(c) => In(w) = All
<1>0. w \in Works /\ w \in WorksOf(c) /\ (w[1] = "request" <=> w = Req(c)) /\ (w[1] = "serve" <=> w = Srv(c))
  BY Names, Different DEF WorksOf
<1>1. CASE Writing(w) /\ Ended(w) /\ (w[1] = "request" => ret[w] # -1)
  <2>1. Where(w) = "write" /\ In(w) = Moved(w)
    BY <1>1 DEF Where, In
  <2>2. CASE ret[w] # -1
    <3>1. Res(w) # -1
      BY <1>1, <2>2, SizeFacts DEF Res
    <3>2. Moved(w) = All
      BY <1>0, <1>1, <3>1, EndedMoved
    <3> QED
      BY <2>1, <3>2
  <2>3. CASE ret[w] = -1
    <3>1. Res(w) = -1 /\ w # Req(c)
      BY <1>0, <1>1, <2>3 DEF Res
    <3>2. c \notin alive
      BY <1>0, <3>1 DEF Core, WireInv
    <3> QED
      BY <2>1, <3>1, <3>2
  <2> QED
    BY <2>2, <2>3
<1>2. CASE pc[w] = "new" /\ w[1] = "serve"
  BY <1>0, <1>2 DEF Where, Writing, Reading, In
<1>3. CASE pc[w] = "wait" /\ ret[w] = 0
  BY <1>3 DEF Where, Writing, Reading, In, Receives
<1> QED
  BY <1>1, <1>2, <1>3 DEF Receives

LEMMA SleepsCore ==
  ASSUME TypeInv, NEW c \in Clients, Core(c), NEW w \in {Req(c), Srv(c)}, Sleeps(w)
  PROVE  Core(c)'
<1>0. /\ WorksOf(c) = {Clt(c), Req(c), Rcv(c), Srcv(c), Srv(c)} /\ w \in WorksOf(c) /\ w \in Works
      /\ {Req(c), Rcv(c), Srcv(c), Srv(c), Acc} \ {w} \subseteq (WorksOf(c) \cup {Acc}) \ {w}
      /\ w \notin {Acc, Rcv(c), Srcv(c)} /\ Req(c) # Srv(c)
  BY Names, Different DEF WorksOf
<1>1. /\ Others({w}) /\ setup' = setup /\ NetSame /\ UNCHANGED <<msg_q, round, answered>>
      /\ msg_q[w] = <<>> /\ pc'[w] = "wait" /\ ret'[w] = Unset /\ got'[w] = got[w]
  BY Plainly DEF Sleeps, NetSame
<1>2. /\ Where(w) = "write" \/ (Where(w) = "new" /\ w = Srv(c))
      /\ In(w) = All \/ c \notin alive
  BY ReceivesView DEF Sleeps
<1>3. \A u \in (WorksOf(c) \cup {Acc}) \ {w} :
        /\ Where(u)' = Where(u) /\ In(u)' = In(u) /\ Res(u)' = Res(u) /\ got'[u] = got[u]
  BY <1>1, OthersView
<1>4. Where(w)' = "wait" /\ Res(w)' = Unset /\ In(w)' = All' /\ All' = All
  BY <1>1, CutSame DEF Where, Res, In, Writing, Reading
<1>5. got'[Srv(c)] = got[Srv(c)] /\ got'[Rcv(c)] = got[Rcv(c)] /\ got'[Srcv(c)] = got[Srcv(c)] /\ got'[Acc] = got[Acc]
  BY <1>0, <1>1, <1>3
<1>6. /\ Took(c)' = Took(c) /\ Dealt(c)' = Dealt(c) /\ Back(c)' = Back(c)
      /\ Asks(c)' = Asks(c) /\ Answers(c)' = Answers(c)
  BY <1>1, <1>5 DEF Took, Dealt, Back, Asks, Answers
<1>7. CountInv(c)'
  BY <1>1, <1>6 DEF Core, CountInv
<1>8. PlaceInv(c)'
  <2>1. CASE w = Req(c)
    <3>1. Where(Srv(c))' = Where(Srv(c)) /\ Res(Srv(c))' = Res(Srv(c))
      BY <1>0, <1>3, <2>1
    <3> QED
      BY <1>1, <1>2, <1>4, <1>6, <2>1, <3>1 DEF Core, PlaceInv
  <2>2. CASE w = Srv(c)
    <3>1. Where(Req(c))' = Where(Req(c)) /\ Res(Req(c))' = Res(Req(c))
      BY <1>0, <1>3, <2>2
    <3>2. Took(c) # 0
      <4>1. CASE Where(w) = "new"
        <5>1. Took(c) = 0 /\ Dealt(c) # 0
          BY <2>2, <4>1 DEF Core, PlaceInv
        <5>2. Len(msg_q[Srv(c)]) = 0
          BY <1>1, <2>2
        <5> QED
          BY <5>1, <5>2 DEF Dealt
      <4>2. CASE Where(w) = "write"
        BY <2>2, <4>2 DEF Core, PlaceInv
      <4> QED
        BY <1>2, <4>1, <4>2
    <3> QED
      BY <1>1, <1>4, <1>6, <2>2, <3>1, <3>2 DEF Core, PlaceInv
  <2> QED
    BY <2>1, <2>2
<1>9. \A u \in {Req(c), Srv(c)} : Stopped(u) /\ (c \in alive' => In(u)' = In(u))
  BY <1>0, <1>1, <1>2, <1>3, <1>4 DEF Stopped, NetSame
<1>10. FlowInv(c)'
  <2>1. Where(Req(c))' = "done" => Where(Req(c)) = "done"
    <3>1. CASE w = Req(c)
      BY <1>4, <3>1
    <3>2. CASE w # Req(c)
      BY <1>0, <1>3, <3>2
    <3> QED
      BY <3>1, <3>2
  <2>2. FlowInv(c) /\ peer' = peer
    BY <1>1 DEF Core, NetSame
  <2> QED
    BY <1>1, <1>5, <1>6, <1>9, <2>1, <2>2, FlowKept
<1>11. WireInv(c)'
  <2>1. WireCalm(c)
    <3>1. Res(w)' # -1 /\ Where(w)' # "done"
      BY <1>4, SizeFacts
    <3> QED
      BY <1>1, <3>1, LightWire
  <2>2. WireInv(c)
    BY DEF Core
  <2> QED
    BY <1>1, <1>5, <1>6, <1>9, <2>1, <2>2, WireKept
<1> QED
  BY <1>7, <1>8, <1>10, <1>11 DEF Core

(* A wait does not end without a message. *)
LEMMA WaitHolds ==
  ASSUME TypeInv, NEW c \in Clients, Core(c), NEW w \in {Req(c), Srv(c)}
  PROVE  ~GivesUp(w)
<1>1. SUFFICES ASSUME pc[w] = "wait", ret[w] = 0, msg_q[w] = <<>> PROVE FALSE
  BY DEF GivesUp
<1>2. Where(w) = "wait" /\ Res(w) # Unset
  BY <1>1, SizeFacts DEF Where, Res, Writing, Reading
<1> QED
  BY <1>1, <1>2 DEF Core, PlaceInv

(* When a request has been answered, all is at rest. *)
LEMMA AtRest ==
  ASSUME TypeInv, NEW c \in Clients, Core(c), Where(Req(c)) \in {"new", "timer"}
  PROVE  /\ round[c] = answered[c] /\ Back(c) = round[c] /\ Took(c) = round[c] /\ Dealt(c) = round[c]
         /\ ~Asks(c) /\ ~Answers(c) /\ msg_q[Req(c)] = <<>> /\ msg_q[Srv(c)] = <<>>
         /\ got[Srcv(c)] = <<>> /\ got[Rcv(c)] = <<>>
<1>1. /\ Took(c) \in Nat /\ Dealt(c) \in Nat /\ Back(c) \in Nat /\ round[c] \in Nat /\ answered[c] \in Nat
      /\ msg_q[Req(c)] \in Seq(Messages) /\ msg_q[Srv(c)] \in Seq(Messages)
      /\ Len(msg_q[Req(c)]) \in Nat /\ Len(msg_q[Srv(c)]) \in Nat
  BY CountTypes
<1>2. /\ answered[c] <= Back(c) /\ Back(c) <= Took(c) /\ Took(c) <= Dealt(c) /\ Dealt(c) <= round[c]
      /\ Where(Req(c)) = "new" => round[c] = 0
      /\ Where(Req(c)) = "timer" => round[c] = answered[c]
  BY DEF Core, CountInv, PlaceInv
<1>3. /\ round[c] = answered[c] /\ Back(c) = round[c] /\ Took(c) = round[c] /\ Dealt(c) = round[c]
  BY <1>1, <1>2
<1>4. Len(msg_q[Req(c)]) = 0 /\ Len(msg_q[Srv(c)]) = 0
  BY <1>1, <1>3 DEF Back, Dealt
<1>5. msg_q[Req(c)] = <<>> /\ msg_q[Srv(c)] = <<>>
  BY <1>1, <1>4, EmptySeq
<1>6. ~Asks(c) /\ ~Answers(c)
  BY <1>1, <1>3 DEF Asks, Answers
<1> QED
  BY <1>3, <1>5, <1>6 DEF Core, FlowInv, Flow

LEMMA RequestsCore ==
  ASSUME TypeInv, NEW c \in Clients, Core(c), Requests(c)
  PROVE  Core(c)'
<1> DEFINE w == Req(c)
<1>0. /\ w \in WorksOf(c) /\ w \in Works
      /\ {Rcv(c), Srcv(c), Srv(c), Acc, Clt(c)} \subseteq (WorksOf(c) \cup {Acc}) \ {w}
  BY Names, Different DEF WorksOf
<1>1. /\ Others({w}) /\ setup' = setup /\ NetSame /\ UNCHANGED <<msg_q, answered>>
      /\ pc'[w] = "whdr" /\ rem'[w] = HdrLen /\ ret'[w] = Unset
      /\ round' = [round EXCEPT ![c] = @ + 1]
      /\ pc[w] \in {"new", "timer"}
  BY Plainly DEF Requests, NetSame
<1>2. \A u \in {Rcv(c), Srcv(c), Srv(c), Acc, Clt(c)} :
        /\ Where(u)' = Where(u) /\ In(u)' = In(u) /\ Res(u)' = Res(u) /\ got'[u] = got[u]
  BY <1>0, <1>1, OthersView
<1>3. /\ Where(w) \in {"new", "timer"} /\ Where(w)' = "write" /\ Res(w)' = Unset /\ Writing(w)'
  BY <1>1, SizeFacts DEF Where, Res, Writing, Reading
<1>4. Moved(w)' = 0 /\ In(w)' = 0
  <2>1. Moved(w)' = 0
    BY <1>1, SizeFacts DEF Moved, Told, AtHeader
  <2> QED
    BY <1>3, <2>1 DEF In
<1>5. round'[c] = round[c] + 1 /\ round[c] \in Nat
  BY <1>1, CountTypes DEF TypeInv, LightType
<1>6. /\ round[c] = answered[c] /\ Back(c) = round[c] /\ Took(c) = round[c] /\ Dealt(c) = round[c]
      /\ ~Asks(c) /\ ~Answers(c) /\ msg_q[Req(c)] = <<>> /\ msg_q[Srv(c)] = <<>>
      /\ got[Srcv(c)] = <<>> /\ got[Rcv(c)] = <<>>
  BY <1>3, AtRest
<1>7. Took(c)' = Took(c) /\ Dealt(c)' = Dealt(c) /\ Back(c)' = Back(c)
  BY <1>1, <1>2 DEF Took, Dealt, Back
<1>8. Asks(c)' /\ ~Answers(c)'
  BY <1>5, <1>6, <1>7 DEF Asks, Answers
<1>9. CountInv(c)'
  BY <1>1, <1>5, <1>6, <1>7 DEF CountInv
<1>10. PlaceInv(c)'
  BY <1>1, <1>2, <1>3, <1>5, <1>6, <1>7 DEF Core, PlaceInv
<1>11. Cut(<<"req", round[c]>>, 0, 0)' = <<>>
  <2>1. <<"req", round'[c]>> \in Messages
    BY <1>5 DEF Messages
  <2>2. Cut(<<"req", round'[c]>>, 0, 0) = <<>>
    BY <2>1, CutNone, SizeFacts
  <2> QED
    BY <1>1, <2>2, CutSame
<1>12. FlowInv(c)'
  <2>1. \A n, a, b : Cut(n, a, b)' = Cut(n, a, b)
    BY <1>1, CutSame
  <2>2. All' = All
    BY <1>1, CutSame
  <2>3. Flow(Asks(c), <<"req", round[c]>>, Req(c), Srcv(c))'
    <3>1. got'[Srcv(c)] = <<>> /\ Len(<<>>) = 0
      BY <1>2, <1>6
    <3> QED
      BY <1>4, <1>8, <1>11, <3>1 DEF Flow
  <2>4. Flow(Answers(c), <<"res", Took(c)>>, Srv(c), Rcv(c))'
    BY <1>2, <1>6, <1>8, <2>2 DEF Core, FlowInv, Flow
  <2>5. (peer = c => got[Acc] = Cut(<<"hello", 0>>, 0, Len(got[Acc])))'
    BY <1>1, <1>2, <2>1 DEF NetSame, Core, FlowInv
  <2> QED
    BY <1>3, <2>3, <2>4, <2>5 DEF FlowInv
<1>13. WireInv(c)'
  <2>1. WireCalm(c)
    <3>1. Res(w)' # -1 /\ Where(w)' # "done"
      BY <1>3, SizeFacts
    <3> QED
      BY <1>1, <3>1, LightWire
  <2>2. SUFFICES ASSUME c \in alive' PROVE WireInv(c)'
    BY DEF WireInv
  <2>3. /\ c \in alive /\ up'[c] = up[c] /\ down'[c] = down[c]
        /\ HelloIn(c)' = HelloIn(c) /\ HelloOut(c)' = HelloOut(c)
        /\ "done" \notin {Where(Req(c))', Where(Rcv(c))', Where(Srcv(c))'}
        /\ \A u \in WorksOf(c) : Res(u)' # -1
        /\ peer' = c => Res(Acc)' # -1
    BY <2>1, <2>2 DEF WireCalm
  <2>4. /\ HelloOut(c) <= HelloIn(c)
        /\ up[c] = Cut(<<"hello", 0>>, HelloOut(c), HelloIn(c)) \o <<>> /\ down[c] = <<>>
    BY <1>6, <2>3 DEF Core, WireInv, OnWay
  <2>5. Cut(<<"hello", 0>>, HelloOut(c), HelloIn(c))' = Cut(<<"hello", 0>>, HelloOut(c), HelloIn(c))
    BY <1>1, <2>3, CutSame
  <2>6. OnWay(Asks(c), <<"req", round[c]>>, Req(c), Srcv(c))' = <<>>
    <3>1. got'[Srcv(c)] = <<>> /\ Len(<<>>) = 0
      BY <1>2, <1>6
    <3> QED
      BY <1>4, <1>8, <1>11, <3>1 DEF OnWay
  <2>7. OnWay(Answers(c), <<"res", Took(c)>>, Srv(c), Rcv(c))' = <<>>
    BY <1>8 DEF OnWay
  <2> QED
    BY <2>3, <2>4, <2>5, <2>6, <2>7 DEF WireInv, WorksOf
<1> QED
  BY <1>9, <1>10, <1>12, <1>13 DEF Core

LEMMA StopsCore ==
  ASSUME TypeInv, NEW c \in Clients, Core(c), Stops(c)
  PROVE  Core(c)'
<1> DEFINE w == Req(c)
<1>0. /\ w \in WorksOf(c) /\ w \in Works
      /\ {Rcv(c), Srcv(c), Srv(c), Acc, Clt(c)} \subseteq (WorksOf(c) \cup {Acc}) \ {w}
  BY Names, Different DEF WorksOf
<1>1. /\ Others({w}) /\ setup' = setup /\ NetSame /\ LightSame
      /\ pc'[w] = "done" /\ ret'[w] = Unset /\ Writing(w) /\ ret[w] = -1
  BY Plainly DEF Stops, Plain, NetSame
<1>2. \A u \in {Rcv(c), Srcv(c), Srv(c), Acc, Clt(c)} :
        /\ Where(u)' = Where(u) /\ In(u)' = In(u) /\ Res(u)' = Res(u) /\ got'[u] = got[u]
  BY <1>0, <1>1, OthersView
<1>3. Where(w) = "write" /\ Where(w)' = "done" /\ Res(w) = -1 /\ In(w)' = All' /\ In(w) = Moved(w)
  BY <1>1 DEF Where, Res, In, Writing, Reading
<1>4. c \notin alive'
  BY <1>0, <1>1, <1>3 DEF Core, WireInv, NetSame
<1>5. /\ Took(c)' = Took(c) /\ Dealt(c)' = Dealt(c) /\ Back(c)' = Back(c)
      /\ Asks(c)' = Asks(c) /\ Answers(c)' = Answers(c) /\ round' = round /\ answered' = answered /\ msg_q' = msg_q
  BY <1>1, <1>2 DEF LightSame, Took, Dealt, Back, Asks, Answers
<1>6. CountInv(c)' /\ PlaceInv(c)'
  BY <1>2, <1>3, <1>5 DEF Core, CountInv, PlaceInv
<1>7. FlowInv(c)'
  <2>1. Moved(w) \in 0 .. All /\ Moved(w) < All /\ All \in Nat
    BY <1>0, <1>1, MovedRange, SizeFacts
  <2>2. Asks(c) /\ Len(got[Srcv(c)]) < All
    <3>1. Flow(Asks(c), <<"req", round[c]>>, Req(c), Srcv(c))
      BY DEF Core, FlowInv
    <3>2. Asks(c)
      BY <1>3, <2>1, <3>1 DEF Flow
    <3>3. Len(got[Srcv(c)]) <= Moved(w) /\ Len(got[Srcv(c)]) \in Nat
      BY <1>3, <3>1, <3>2, ChannelTypes DEF Flow
    <3> QED
      BY <2>1, <3>2, <3>3
  <2>3. Stopped(Req(c)) /\ Stopped(Srv(c))
    <3>1. In(Req(c))' = All
      BY <1>1, <1>3, CutSame
    <3>2. In(Srv(c))' = In(Srv(c))
      BY <1>2
    <3> QED
      BY <3>1, <3>2 DEF Stopped
  <2>4. FlowInv(c) /\ peer' = peer
    BY <1>1 DEF Core, NetSame
  <2> QED
    BY <1>1, <1>2, <1>5, <2>2, <2>3, <2>4, FlowKept
<1>8. WireInv(c)'
  BY <1>4 DEF WireInv
<1> QED
  BY <1>6, <1>7, <1>8 DEF Core

LEMMA GetsResponse ==
  ASSUME TypeInv, NEW c \in Clients, Core(c), Gets(Req(c))
  PROVE  Core(c)'
<1> DEFINE w == Req(c)
<1>0. /\ w \in WorksOf(c) /\ w \in Works /\ w \in LightWorks /\ Srv(c) \in LightWorks /\ w # Srv(c)
      /\ {Rcv(c), Srcv(c), Srv(c), Acc, Clt(c)} \subseteq (WorksOf(c) \cup {Acc}) \ {w}
      /\ w[1] # "serve" /\ w[2] = c
  BY Names, Different DEF WorksOf
<1>1. /\ Receives(w) \/ (pc[w] = "wait" /\ ret[w] = 0)
      /\ msg_q[w] # <<>> /\ msg_q' = [msg_q EXCEPT ![w] = Tail(@)]
      /\ Uses(c, Head(msg_q[w]))
  BY <1>0 DEF Gets
<1>2. /\ Others({w}) /\ setup' = setup /\ NetSame /\ round' = round
      /\ pc'[w] = "timer" /\ ret'[w] = Unset
      /\ answered' = [answered EXCEPT ![c] = Head(msg_q[w])[2]]
  BY <1>1, Plainly DEF Uses, NetSame
<1>3. \A u \in {Rcv(c), Srcv(c), Srv(c), Acc, Clt(c)} :
        /\ Where(u)' = Where(u) /\ In(u)' = In(u) /\ Res(u)' = Res(u) /\ got'[u] = got[u]
  BY <1>0, <1>2, OthersView
<1>4. Where(w) \in {"write", "wait"} /\ In(w) = All
  BY <1>0, <1>1, ReceivesView
<1>5. Where(w)' = "timer" /\ Res(w)' = Unset /\ In(w)' = All
  <2>1. All' = All
    BY <1>2, CutSame
  <2> QED
    BY <1>2, <2>1 DEF Where, Res, In, Writing, Reading
<1>6. /\ Took(c) \in Nat /\ Dealt(c) \in Nat /\ Back(c) \in Nat /\ round[c] \in Nat /\ answered[c] \in Nat
      /\ answered \in [Clients -> Nat] /\ msg_q \in [LightWorks -> Seq(Messages)]
  BY CountTypes DEF TypeInv, LightType
<1>7. msg_q[w] = <<<<"res", Back(c)>>>>
  BY <1>1 DEF Core, CountInv
<1>8. Head(msg_q[w])[2] = Back(c) /\ Tail(msg_q[w]) = <<>> /\ Len(msg_q[w]) = 1
  BY <1>7
<1>9. msg_q'[w] = <<>> /\ msg_q'[Srv(c)] = msg_q[Srv(c)] /\ answered'[c] = Back(c)
  BY <1>0, <1>1, <1>2, <1>6, <1>8
<1>10. Back(c) = answered[c] + 1
  BY <1>8 DEF Back
<1>11. /\ answered[c] <= Back(c) /\ Back(c) <= Took(c) /\ Took(c) <= Dealt(c) /\ Dealt(c) <= round[c]
       /\ round[c] = answered[c] + 1
  BY <1>4 DEF Core, CountInv, PlaceInv
<1>12. Back(c) = round[c] /\ Took(c) = round[c] /\ Dealt(c) = round[c]
  BY <1>6, <1>10, <1>11
<1>13. Took(c)' = Took(c) /\ Dealt(c)' = Dealt(c)
  BY <1>3, <1>9 DEF Took, Dealt
<1>14. Back(c)' = Back(c)
  <2>1. Back(c)' = Back(c) + 0
    <3>1. Len(msg_q'[w]) = 0
      BY <1>9
    <3> QED
      BY <1>9, <3>1 DEF Back
  <2> QED
    BY <1>6, <2>1
<1>15. Asks(c)' = Asks(c) /\ Answers(c)' = Answers(c)
  BY <1>2, <1>13, <1>14 DEF Asks, Answers
<1>16. CountInv(c)'
  <2>1. msg_q[Srv(c)] = <<>> \/ msg_q[Srv(c)] = <<<<"req", Dealt(c)>>>>
    BY DEF Core, CountInv
  <2> QED
    BY <1>2, <1>6, <1>9, <1>12, <1>13, <1>14, <2>1 DEF CountInv
<1>17. PlaceInv(c)'
  BY <1>2, <1>3, <1>5, <1>9, <1>12, <1>13 DEF Core, PlaceInv
<1>18. FlowInv(c)'
  <2>1. Stopped(Req(c)) /\ Stopped(Srv(c))
    BY <1>3, <1>5 DEF Stopped
  <2>2. FlowInv(c) /\ peer' = peer
    BY <1>2 DEF Core, NetSame
  <2> QED
    BY <1>2, <1>3, <1>5, <1>13, <1>15, <2>1, <2>2, FlowKept
<1>19. WireInv(c)'
  <2>1. WireCalm(c)
    <3>1. Res(w)' # -1 /\ Where(w)' # "done"
      BY <1>5, SizeFacts
    <3> QED
      BY <1>2, <3>1, LightWire
  <2>2. WireInv(c)
    BY DEF Core
  <2> QED
    BY <1>2, <1>3, <1>4, <1>5, <1>13, <1>15, <2>1, <2>2, WireKept
<1> QED
  BY <1>16, <1>17, <1>18, <1>19 DEF Core

LEMMA GetsRequest ==
  ASSUME TypeInv, NEW c \in Clients, Core(c), Gets(Srv(c))
  PROVE  Core(c)'
<1> DEFINE w == Srv(c)
<1>0. /\ w \in WorksOf(c) /\ w \in Works /\ w \in LightWorks /\ Req(c) \in LightWorks /\ w # Req(c)
      /\ {Rcv(c), Srcv(c), Req(c), Acc, Clt(c)} \subseteq (WorksOf(c) \cup {Acc}) \ {w}
      /\ w[1] # "request" /\ w[2] = c
  BY Names, Different DEF WorksOf
<1>1. /\ Receives(w) \/ (pc[w] = "wait" /\ ret[w] = 0)
      /\ msg_q[w] # <<>> /\ msg_q' = [msg_q EXCEPT ![w] = Tail(@)]
      /\ Serves(c, Head(msg_q[w]))
  BY <1>0 DEF Gets
<1>2. /\ Others({w}) /\ setup' = setup /\ NetSame /\ round' = round /\ answered' = answered
      /\ pc'[w] = "whdr" /\ rem'[w] = HdrLen /\ ret'[w] = Unset
      /\ got'[w] = <<Head(msg_q[w])[2]>>
  BY <1>1, Plainly DEF Serves, NetSame
<1>3. \A u \in {Rcv(c), Srcv(c), Req(c), Acc, Clt(c)} :
        /\ Where(u)' = Where(u) /\ In(u)' = In(u) /\ Res(u)' = Res(u) /\ got'[u] = got[u]
  BY <1>0, <1>2, OthersView
<1>5. Where(w)' = "write" /\ Res(w)' = Unset /\ In(w)' = 0
  <2>1. Writing(w)' /\ ~Reading(w)'
    BY <1>2 DEF Writing, Reading
  <2>2. Moved(w)' = 0
    BY <1>2, SizeFacts DEF Moved, Told, AtHeader
  <2> QED
    BY <1>2, <2>1, <2>2 DEF Where, Res, In
<1>6. /\ Took(c) \in Nat /\ Dealt(c) \in Nat /\ Back(c) \in Nat /\ round[c] \in Nat /\ answered[c] \in Nat
      /\ msg_q \in [LightWorks -> Seq(Messages)]
      /\ msg_q[Req(c)] \in Seq(Messages) /\ Len(msg_q[Req(c)]) \in Nat
  BY CountTypes DEF TypeInv, LightType
<1>7. msg_q[w] = <<<<"req", Dealt(c)>>>>
  BY <1>1 DEF Core, CountInv
<1>8. Head(msg_q[w])[2] = Dealt(c) /\ Tail(msg_q[w]) = <<>> /\ Len(msg_q[w]) = 1
  BY <1>7
<1>9. msg_q'[w] = <<>> /\ msg_q'[Req(c)] = msg_q[Req(c)] /\ got'[w] = <<Dealt(c)>>
  BY <1>0, <1>1, <1>2, <1>6, <1>8
<1>10. Dealt(c) = Took(c) + 1
  BY <1>8 DEF Dealt
<1>11. /\ answered[c] <= Back(c) /\ Back(c) <= Took(c) /\ Took(c) <= Dealt(c) /\ Dealt(c) <= round[c]
       /\ round[c] <= answered[c] + 1
  BY DEF Core, CountInv
<1>12. Back(c) = answered[c] /\ Took(c) = answered[c] /\ Dealt(c) = round[c] /\ round[c] = answered[c] + 1
  BY <1>6, <1>10, <1>11
<1>13. Took(c)' = Dealt(c) /\ Back(c)' = Back(c)
  <2>1. got'[w] # <<>> /\ got'[w][1] = Dealt(c)
    BY <1>9
  <2> QED
    BY <1>2, <1>9, <2>1 DEF Took, Back
<1>14. Dealt(c)' = Dealt(c)
  <2>1. Dealt(c)' = Dealt(c) + 0
    <3>1. Len(msg_q'[w]) = 0
      BY <1>9
    <3> QED
      BY <1>13, <3>1 DEF Dealt
  <2> QED
    BY <1>6, <2>1
<1>15. ~Asks(c) /\ ~Asks(c)' /\ ~Answers(c) /\ Answers(c)'
  BY <1>2, <1>6, <1>12, <1>13, <1>14 DEF Asks, Answers
<1>16. CountInv(c)'
  <2>1. msg_q[Req(c)] = <<>> \/ msg_q[Req(c)] = <<<<"res", Back(c)>>>>
    BY DEF Core, CountInv
  <2> QED
    BY <1>2, <1>6, <1>9, <1>12, <1>13, <1>14, <2>1 DEF CountInv
<1>17. PlaceInv(c)'
  <2>1. Took(c)' # 0
    BY <1>6, <1>10, <1>13
  <2> QED
    BY <1>2, <1>3, <1>5, <1>9, <2>1 DEF Core, PlaceInv
<1>18. got[Srcv(c)] = <<>> /\ got[Rcv(c)] = <<>> /\ In(Req(c)) = All /\ Where(Req(c)) # "done"
  BY <1>15 DEF Core, FlowInv, Flow
<1>19. Cut(<<"res", Took(c)>>, 0, 0)' = <<>>
  <2>1. <<"res", Took(c)'>> \in Messages
    BY <1>6, <1>13 DEF Messages
  <2>2. Cut(<<"res", Took(c)'>>, 0, 0) = <<>>
    BY <2>1, CutNone, SizeFacts
  <2> QED
    BY <1>2, <2>2, CutSame
<1>20. got'[Rcv(c)] = <<>> /\ Len(<<>>) = 0
  BY <1>3, <1>18
<1>21. FlowInv(c)'
  <2>1. \A n, a, b : Cut(n, a, b)' = Cut(n, a, b)
    BY <1>2, CutSame
  <2>2. All' = All
    BY <1>2, CutSame
  <2>3. Flow(Asks(c), <<"req", round[c]>>, Req(c), Srcv(c))'
    BY <1>3, <1>15, <1>18, <2>2 DEF Flow
  <2>4. Flow(Answers(c), <<"res", Took(c)>>, Srv(c), Rcv(c))'
    BY <1>5, <1>15, <1>19, <1>20 DEF Flow
  <2>5. (peer = c => got[Acc] = Cut(<<"hello", 0>>, 0, Len(got[Acc])))'
    BY <1>2, <1>3, <2>1 DEF NetSame, Core, FlowInv
  <2>6. Where(Req(c))' # "done"
    BY <1>3, <1>18
  <2> QED
    BY <2>3, <2>4, <2>5, <2>6 DEF FlowInv
<1>22. WireInv(c)'
  <2>1. WireCalm(c)
    <3>1. Res(w)' # -1 /\ Where(w)' # "done"
      BY <1>5, SizeFacts
    <3> QED
      BY <1>2, <3>1, LightWire
  <2>2. SUFFICES ASSUME c \in alive' PROVE WireInv(c)'
    BY DEF WireInv
  <2>3. /\ c \in alive /\ up'[c] = up[c] /\ down'[c] = down[c]
        /\ HelloIn(c)' = HelloIn(c) /\ HelloOut(c)' = HelloOut(c)
        /\ "done" \notin {Where(Req(c))', Where(Rcv(c))', Where(Srcv(c))'}
        /\ \A u \in WorksOf(c) : Res(u)' # -1
        /\ peer' = c => Res(Acc)' # -1
    BY <2>1, <2>2 DEF WireCalm
  <2>4. /\ HelloOut(c) <= HelloIn(c)
        /\ up[c] = Cut(<<"hello", 0>>, HelloOut(c), HelloIn(c)) \o <<>> /\ down[c] = <<>>
    BY <1>15, <2>3 DEF Core, WireInv, OnWay
  <2>5. Cut(<<"hello", 0>>, HelloOut(c), HelloIn(c))' = Cut(<<"hello", 0>>, HelloOut(c), HelloIn(c))
    BY <1>2, <2>3, CutSame
  <2>6. OnWay(Asks(c), <<"req", round[c]>>, Req(c), Srcv(c))' = <<>>
    BY <1>15 DEF OnWay
  <2>7. OnWay(Answers(c), <<"res", Took(c)>>, Srv(c), Rcv(c))' = <<>>
    BY <1>5, <1>15, <1>19, <1>20 DEF OnWay
  <2> QED
    BY <2>3, <2>4, <2>5, <2>6, <2>7 DEF WireInv, WorksOf
<1> QED
  BY <1>16, <1>17, <1>21, <1>22 DEF Core

-----------------------------------------------------------------------------
(* A message is dealt *)

(* Only a work that has slept in its light channel waits there. *)
WaitInv == \A w \in LightWorks : pc[w] = "wait" => w \in handler

(* A message that has been read was due and has been written. *)
LEMMA ResponseRead ==
  ASSUME TypeInv, NEW c \in Clients, Core(c), Reading(Rcv(c)), ret[Rcv(c)] # -1, Ended(Rcv(c))
  PROVE  Answers(c) /\ In(Srv(c)) = All /\ Message(Rcv(c)) = <<"res", Took(c)>>
         /\ Len(got[Rcv(c)]) = All /\ ret[Rcv(c)] > 0
<1> DEFINE w == Rcv(c)
           m == <<"res", Took(c)>>
<1>1. w \in Works /\ w[1] # "serve" /\ Res(w) # -1
  BY Names, SizeFacts DEF Res
<1>2. Moved(w) = All /\ ret[w] > 0
  BY <1>1, EndedMoved
<1>3. Len(got[w]) = All /\ All \in Nat /\ All > 0
  BY <1>1, <1>2, SizeFacts DEF TypeInv, WorkInv, Sound, GotBy
<1>4. got[w] # <<>>
  BY <1>3
<1>5. Answers(c) /\ got[w] = Cut(m, 0, Len(got[w])) /\ Len(got[w]) <= In(Srv(c))
  BY <1>4 DEF Core, FlowInv, Flow
<1>6. In(Srv(c)) = All
  <2>1. In(Srv(c)) \in 0 .. All /\ All <= In(Srv(c))
    BY <1>3, <1>5, ChannelTypes
  <2> QED
    BY <1>3, <2>1
<1>7. Head(got[w])[1] = m
  <2>1. m \in Messages
    BY ChannelTypes
  <2>2. All \in 1 .. All
    BY <1>3
  <2> QED
    BY <1>3, <1>5, <2>1, <2>2, CutFirst, SizeFacts
<1> QED
  BY <1>2, <1>3, <1>5, <1>6, <1>7 DEF Message

LEMMA RequestRead ==
  ASSUME TypeInv, NEW c \in Clients, Core(c), Reading(Srcv(c)), ret[Srcv(c)] # -1, Ended(Srcv(c))
  PROVE  Asks(c) /\ In(Req(c)) = All /\ Message(Srcv(c)) = <<"req", round[c]>>
         /\ Len(got[Srcv(c)]) = All /\ ret[Srcv(c)] > 0
<1> DEFINE w == Srcv(c)
           m == <<"req", round[c]>>
<1>1. w \in Works /\ w[1] # "serve" /\ Res(w) # -1
  BY Names, SizeFacts DEF Res
<1>2. Moved(w) = All /\ ret[w] > 0
  BY <1>1, EndedMoved
<1>3. Len(got[w]) = All /\ All \in Nat /\ All > 0
  BY <1>1, <1>2, SizeFacts DEF TypeInv, WorkInv, Sound, GotBy
<1>4. got[w] # <<>>
  BY <1>3
<1>5. Asks(c) /\ got[w] = Cut(m, 0, Len(got[w])) /\ Len(got[w]) <= In(Req(c))
  BY <1>4 DEF Core, FlowInv, Flow
<1>6. In(Req(c)) = All
  <2>1. In(Req(c)) \in 0 .. All /\ All <= In(Req(c))
    BY <1>3, <1>5, ChannelTypes
  <2> QED
    BY <1>3, <2>1
<1>7. Head(got[w])[1] = m
  <2>1. m \in Messages
    BY ChannelTypes
  <2>2. All \in 1 .. All
    BY <1>3
  <2> QED
    BY <1>3, <1>5, <2>1, <2>2, CutFirst, SizeFacts
<1> QED
  BY <1>2, <1>3, <1>5, <1>6, <1>7 DEF Message

(* The work that runs was first in its queue. *)
LEMMA RunsFirst ==
  ASSUME TypeInv, QueueInv, NEW w \in Works, NEW news, Taken(w, news), NEW v
  PROVE  ~Precedes(works_q[Home(w)], v, w) /\ Home(w) \notin crashed /\ InQueue(works_q[Home(w)], w)
<1> DEFINE p == Home(w)
           q == works_q[p]
<1>1. p \in Procs /\ p \notin crashed /\ q # <<>> /\ Head(q) = w
  BY HomeType DEF Taken
<1>2. q \in Seq(Works) /\ Once(q) /\ \A i \in DOMAIN q : Home(q[i]) = p
  BY <1>1 DEF QueueInv, TypeInv, WorkType
<1> HIDE DEF q, p
<1>3. ~Precedes(q, v, w) /\ InQueue(q, w)
  BY <1>1, <1>2, Popped
<1> QED
  BY <1>1, <1>3 DEF q, p

(* While a response is due, nothing else is, and its request waits. *)
LEMMA ResponseDue ==
  ASSUME TypeInv, NEW c \in Clients, Core(c), Answers(c)
  PROVE  /\ round[c] = answered[c] + 1 /\ Took(c) = round[c] /\ Dealt(c) = round[c] /\ Back(c) = answered[c]
         /\ ~Asks(c) /\ msg_q[Req(c)] = <<>> /\ msg_q[Srv(c)] = <<>>
         /\ pc[Req(c)] \in {"whdr", "wbody", "wait"}
<1>1. /\ Took(c) \in Nat /\ Dealt(c) \in Nat /\ Back(c) \in Nat /\ round[c] \in Nat /\ answered[c] \in Nat
      /\ msg_q[Req(c)] \in Seq(Messages) /\ msg_q[Srv(c)] \in Seq(Messages)
      /\ Len(msg_q[Req(c)]) \in Nat /\ Len(msg_q[Srv(c)]) \in Nat
  BY CountTypes
<1>2. /\ answered[c] <= Back(c) /\ Back(c) <= Took(c) /\ Took(c) <= Dealt(c) /\ Dealt(c) <= round[c]
      /\ round[c] <= answered[c] + 1 /\ Back(c) < Took(c)
  BY DEF Core, CountInv, Answers
<1>3. /\ round[c] = answered[c] + 1 /\ Took(c) = round[c] /\ Dealt(c) = round[c] /\ Back(c) = answered[c]
  BY <1>1, <1>2
<1>4. Len(msg_q[Req(c)]) = 0 /\ Len(msg_q[Srv(c)]) = 0
  BY <1>1, <1>3 DEF Back, Dealt
<1>5. msg_q[Req(c)] = <<>> /\ msg_q[Srv(c)] = <<>>
  BY <1>1, <1>4, EmptySeq
<1>6. ~Asks(c)
  BY <1>1, <1>3 DEF Asks
<1>7. Where(Req(c)) \notin {"none", "new", "timer", "done"}
  BY <1>1, <1>3, <1>6 DEF Core, PlaceInv, FlowInv
<1>8. pc[Req(c)] \in PlacesOf("request")
  BY Names DEF TypeInv, WorkInv, Sound
<1>9. pc[Req(c)] \in {"whdr", "wbody", "wait"}
  BY <1>7, <1>8 DEF PlacesOf, Where, Writing, Reading
<1> QED
  BY <1>3, <1>5, <1>6, <1>9

LEMMA RequestDue ==
  ASSUME TypeInv, NEW c \in Clients, Core(c), Asks(c)
  PROVE  /\ round[c] = answered[c] + 1 /\ Took(c) = answered[c] /\ Dealt(c) = answered[c] /\ Back(c) = answered[c]
         /\ ~Answers(c) /\ msg_q[Req(c)] = <<>> /\ msg_q[Srv(c)] = <<>>
         /\ pc[Srv(c)] \in {"none", "whdr", "wbody", "wait"}
<1>1. /\ Took(c) \in Nat /\ Dealt(c) \in Nat /\ Back(c) \in Nat /\ round[c] \in Nat /\ answered[c] \in Nat
      /\ msg_q[Req(c)] \in Seq(Messages) /\ msg_q[Srv(c)] \in Seq(Messages)
      /\ Len(msg_q[Req(c)]) \in Nat /\ Len(msg_q[Srv(c)]) \in Nat
  BY CountTypes
<1>2. /\ answered[c] <= Back(c) /\ Back(c) <= Took(c) /\ Took(c) <= Dealt(c) /\ Dealt(c) < round[c]
      /\ round[c] <= answered[c] + 1
  BY DEF Core, CountInv, Asks
<1>3. /\ round[c] = answered[c] + 1 /\ Took(c) = answered[c] /\ Dealt(c) = answered[c] /\ Back(c) = answered[c]
  BY <1>1, <1>2
<1>4. Len(msg_q[Req(c)]) = 0 /\ Len(msg_q[Srv(c)]) = 0
  BY <1>1, <1>3 DEF Back, Dealt
<1>5. msg_q[Req(c)] = <<>> /\ msg_q[Srv(c)] = <<>>
  BY <1>1, <1>4, EmptySeq
<1>6. ~Answers(c)
  BY <1>1, <1>3 DEF Answers
<1>7. Where(Srv(c)) \notin {"new", "done"}
  BY <1>1, <1>3 DEF Core, PlaceInv
<1>8. pc[Srv(c)] \in PlacesOf("serve")
  BY Names DEF TypeInv, WorkInv, Sound
<1>9. pc[Srv(c)] \in {"none", "whdr", "wbody", "wait"}
  BY <1>7, <1>8 DEF PlacesOf, Where, Writing, Reading
<1> QED
  BY <1>3, <1>5, <1>6, <1>9

(* The work that a message wakes waits for it, or is new. *)
LEMMA ResponseAwaited ==
  ASSUME TypeInv, QueueInv, WaitInv, NEW c \in Clients, Core(c), OrderInv(c), Deals(Rcv(c), Req(c), FALSE)
  PROVE  pc[Req(c)] = "wait" /\ ret[Req(c)] = Unset /\ Req(c) \in handler /\ strays' = strays
<1> DEFINE w == Rcv(c)
           v == Req(c)
<1>1. /\ w \in Works /\ v \in LightWorks /\ Home(w) = c
      /\ Reading(w) /\ ret[w] # -1 /\ Ended(w) /\ Deal(v, Message(w)) /\ Taken(w, Woken(v))
  BY Names DEF Deals
<1>2. Answers(c) /\ ret[w] > 0
  BY <1>1, ResponseRead
<1>3. pc[v] \in {"whdr", "wbody", "wait"} /\ msg_q[v] = <<>>
  BY <1>2, ResponseDue
<1>4. ~Writing(v)
  <2>1. ~Precedes(works_q[Home(w)], v, w) /\ Home(w) \notin crashed
    BY <1>1, RunsFirst
  <2> QED
    BY <1>1, <1>2, <2>1 DEF OrderInv, Follows
<1>5. pc[v] = "wait"
  BY <1>3, <1>4 DEF Writing
<1>6. Where(v) = "wait" /\ Res(v) = ret[v]
  BY <1>5 DEF Where, Res, Writing, Reading
<1>7. ret[v] = Unset
  BY <1>3, <1>6 DEF Core, PlaceInv
<1>8. v \in handler
  BY <1>1, <1>5 DEF WaitInv
<1> QED
  BY <1>1, <1>5, <1>7, <1>8 DEF Deal

LEMMA RequestAwaited ==
  ASSUME TypeInv, AcceptInv, QueueInv, WaitInv, NEW c \in Clients, Core(c), OrderInv(c),
         Deals(Srcv(c), Srv(c), pc[Srv(c)] = "none")
  PROVE  /\ \/ pc[Srv(c)] = "wait" /\ ret[Srv(c)] = Unset /\ Srv(c) \in handler
            \/ pc[Srv(c)] = "none" /\ ret[Srv(c)] = Unset /\ Srv(c) \notin handler
         /\ strays' = strays
<1> DEFINE w == Srcv(c)
           v == Srv(c)
<1>1. /\ w \in Works /\ v \in LightWorks /\ v \in Works /\ Home(w) = Server
      /\ Reading(w) /\ ret[w] # -1 /\ Ended(w) /\ Deal(v, Message(w))
  BY Names DEF Deals
<1>2. Asks(c) /\ ret[w] > 0
  BY <1>1, RequestRead
<1>3. pc[v] \in {"none", "whdr", "wbody", "wait"} /\ msg_q[v] = <<>>
  BY <1>2, RequestDue
<1>4. ~Writing(v)
  <2>1. PICK news : Taken(w, news)
    BY DEF Deals
  <2>2. ~Precedes(works_q[Home(w)], v, w) /\ Home(w) \notin crashed
    BY <1>1, <2>1, RunsFirst
  <2> QED
    BY <1>1, <1>2, <2>2 DEF OrderInv, Follows
<1>5. CASE pc[v] = "wait"
  <2>1. Where(v) = "wait" /\ Res(v) = ret[v]
    BY <1>5 DEF Where, Res, Writing, Reading
  <2>2. ret[v] = Unset
    BY <1>3, <2>1 DEF Core, PlaceInv
  <2>3. v \in handler
    BY <1>1, <1>5 DEF WaitInv
  <2> QED
    BY <1>1, <1>5, <2>2, <2>3 DEF Deal
<1>6. CASE pc[v] = "none"
  <2>1. v \notin handler
    BY <1>6 DEF AcceptInv, StartInv
  <2>2. ret[v] = Unset
    BY <1>1, <1>6 DEF TypeInv, WorkInv, Sound, ResultOf
  <2> QED
    BY <1>1, <1>6, <2>1, <2>2 DEF Deal
<1> QED
  BY <1>3, <1>4, <1>5, <1>6 DEF Writing

LEMMA CutEnd == ASSUME setup \in Setups, NEW m \in Messages PROVE Cut(m, All, All) = <<>>
<1>1. All \in 0 .. All /\ All >= All
  BY SetupSize
<1> QED
  BY <1>1, CutLength

LEMMA DealtResponse ==
  ASSUME TypeInv, QueueInv, WaitInv, NEW c \in Clients, Core(c), OrderInv(c), Deals(Rcv(c), Req(c), FALSE)
  PROVE  Core(c)'
<1> DEFINE w == Rcv(c)
           v == Req(c)
           m == <<"res", Took(c)>>
<1>0. /\ {Srcv(c), Srv(c), Acc, Clt(c)} \subseteq Works \ {w, v}
      /\ w \in Works /\ v \in Works /\ v \in LightWorks /\ Srv(c) \in LightWorks /\ w # v /\ v # Srv(c)
  BY Names, AccName, Different
<1>1. /\ Others({w, v}) /\ setup' = setup /\ NetSame /\ round' = round /\ answered' = answered
      /\ Sets(w, "rhdr", HdrLen, <<>>, Unset)
      /\ Reading(w) /\ ret[w] # -1 /\ Ended(w) /\ Deal(v, Message(w))
      /\ pc'[v] = pc[v] /\ rem'[v] = rem[v] /\ got'[v] = got[v]
      /\ ret'[v] = IF v \in handler THEN 0 ELSE ret[v]
  BY DEF Deals
<1>2. pc[v] = "wait" /\ ret[v] = Unset /\ v \in handler
  BY ResponseAwaited
<1>3. Answers(c) /\ In(Srv(c)) = All /\ Message(w) = m /\ Len(got[w]) = All
  BY <1>1, ResponseRead
<1>4. /\ round[c] = answered[c] + 1 /\ Took(c) = round[c] /\ Dealt(c) = round[c] /\ Back(c) = answered[c]
      /\ ~Asks(c) /\ msg_q[v] = <<>> /\ msg_q[Srv(c)] = <<>>
  BY <1>3, ResponseDue
<1>5. \A u \in {Srcv(c), Srv(c), Acc, Clt(c)} :
        /\ Where(u)' = Where(u) /\ In(u)' = In(u) /\ Res(u)' = Res(u) /\ got'[u] = got[u]
        /\ (Writing(u)' <=> Writing(u)) /\ Moved(u)' = Moved(u)
  BY <1>0, <1>1, SameView DEF Others
<1>6. /\ Took(c) \in Nat /\ round[c] \in Nat /\ answered[c] \in Nat /\ msg_q \in [LightWorks -> Seq(Messages)]
  BY CountTypes DEF TypeInv, LightType
<1>7. msg_q'[v] = <<m>> /\ msg_q'[Srv(c)] = msg_q[Srv(c)]
  BY <1>0, <1>1, <1>3, <1>4, <1>6 DEF Deal
<1>8. Took(c)' = Took(c) /\ Dealt(c)' = Dealt(c)
  BY <1>5, <1>7 DEF Took, Dealt
<1>9. Back(c)' = Took(c)
  <2>1. Len(msg_q'[v]) = 1
    BY <1>7
  <2> QED
    BY <1>1, <1>4, <1>6, <2>1 DEF Back
<1>10. ~Asks(c)' /\ ~Answers(c)'
  BY <1>1, <1>4, <1>6, <1>8, <1>9 DEF Asks, Answers
<1>11. Where(v)' = "wait" /\ Res(v)' = 0 /\ In(v)' = All /\ In(v) = All /\ Where(v) = "wait"
  <2>1. All' = All
    BY <1>1, CutSame
  <2> QED
    BY <1>1, <1>2, <2>1 DEF Where, Res, In, Writing, Reading
<1>12. Where(w)' = "read" /\ Res(w)' = Unset /\ got'[w] = <<>>
  BY <1>1, SizeFacts DEF Sets, Where, Res, Writing, Reading
<1>13. CountInv(c)'
  <2>1. msg_q'[v] = <<<<"res", Back(c)'>>>>
    BY <1>7, <1>9
  <2> QED
    BY <1>1, <1>4, <1>6, <1>7, <1>8, <1>9, <2>1 DEF CountInv
<1>14. PlaceInv(c)'
  <2>1. 0 # Unset /\ <<m>> # <<>>
    BY SizeFacts
  <2> QED
    BY <1>1, <1>4, <1>5, <1>7, <1>8, <1>11, <2>1 DEF Core, PlaceInv
<1>15. FlowInv(c)'
  <2>1. \A n, a, b : Cut(n, a, b)' = Cut(n, a, b)
    BY <1>1, CutSame
  <2>2. All' = All
    BY <1>1, CutSame
  <2>3. Flow(Asks(c), <<"req", round[c]>>, Req(c), Srcv(c))'
    BY <1>4, <1>5, <1>10, <1>11, <2>2 DEF Core, FlowInv, Flow
  <2>4. Flow(Answers(c), <<"res", Took(c)>>, Srv(c), Rcv(c))'
    BY <1>3, <1>5, <1>10, <1>12, <2>2 DEF Flow
  <2>5. (peer = c => got[Acc] = Cut(<<"hello", 0>>, 0, Len(got[Acc])))'
    BY <1>1, <1>5, <2>1 DEF NetSame, Core, FlowInv
  <2> QED
    BY <1>11, <2>3, <2>4, <2>5 DEF FlowInv
<1>16. WireInv(c)'
  <2>1. SUFFICES ASSUME c \in alive' PROVE WireInv(c)'
    BY DEF WireInv
  <2>2. c \in alive /\ up' = up /\ down' = down /\ peer' = peer
    BY <1>1, <2>1 DEF NetSame
  <2>3. HelloIn(c)' = HelloIn(c) /\ HelloOut(c)' = HelloOut(c)
    BY <1>1, <1>5, <2>2, HelloKept
  <2>4. Cut(m, All, All) = <<>>
    <3>1. m \in Messages
      BY ChannelTypes
    <3> QED
      BY <3>1, CutEnd, SizeFacts
  <2>5. down[c] = <<>>
    BY <1>3, <2>2, <2>4 DEF Core, WireInv, OnWay
  <2>6. up[c] = Cut(<<"hello", 0>>, HelloOut(c), HelloIn(c)) \o <<>> /\ HelloOut(c) <= HelloIn(c)
    BY <1>4, <2>2 DEF Core, WireInv, OnWay
  <2>7. Cut(<<"hello", 0>>, HelloOut(c), HelloIn(c))' = Cut(<<"hello", 0>>, HelloOut(c), HelloIn(c))
    BY <1>1, <2>3, CutSame
  <2>8. /\ OnWay(Asks(c), <<"req", round[c]>>, Req(c), Srcv(c))' = <<>>
        /\ OnWay(Answers(c), <<"res", Took(c)>>, Srv(c), Rcv(c))' = <<>>
    BY <1>10 DEF OnWay
  <2>9. \A u \in WorksOf(c) : Res(u)' # -1
    <3>1. \A u \in {Srcv(c), Srv(c), Clt(c)} : Res(u) # -1
      BY <2>2 DEF Core, WireInv, WorksOf
    <3> QED
      BY <1>5, <1>11, <1>12, <3>1, SizeFacts DEF WorksOf
  <2>10. peer' = c => Res(Acc)' # -1
    BY <1>5, <2>2 DEF Core, WireInv
  <2>11. "done" \notin {Where(Req(c))', Where(Rcv(c))', Where(Srcv(c))'}
    BY <1>5, <1>11, <1>12, <2>2 DEF Core, WireInv
  <2> QED
    BY <2>2, <2>3, <2>5, <2>6, <2>7, <2>8, <2>9, <2>10, <2>11 DEF WireInv, WorksOf
<1> QED
  BY <1>13, <1>14, <1>15, <1>16 DEF Core

LEMMA DealtRequest ==
  ASSUME TypeInv, AcceptInv, QueueInv, WaitInv, NEW c \in Clients, Core(c), OrderInv(c),
         Deals(Srcv(c), Srv(c), pc[Srv(c)] = "none")
  PROVE  Core(c)'
<1> DEFINE w == Srcv(c)
           v == Srv(c)
           m == <<"req", round[c]>>
<1>0. /\ {Rcv(c), Req(c), Acc, Clt(c)} \subseteq Works \ {w, v}
      /\ w \in Works /\ v \in Works /\ v \in LightWorks /\ Req(c) \in LightWorks /\ w # v /\ v # Req(c)
  BY Names, AccName, Different
<1>1. /\ Others({w, v}) /\ setup' = setup /\ NetSame /\ round' = round /\ answered' = answered
      /\ Sets(w, "rhdr", HdrLen, <<>>, Unset)
      /\ Reading(w) /\ ret[w] # -1 /\ Ended(w) /\ Deal(v, Message(w))
      /\ pc'[v] = (IF pc[v] = "none" THEN "new" ELSE pc[v]) /\ rem'[v] = rem[v] /\ got'[v] = got[v]
      /\ ret'[v] = IF v \in handler THEN 0 ELSE ret[v]
  BY DEF Deals
<1>2. \/ pc[v] = "wait" /\ ret[v] = Unset /\ v \in handler
      \/ pc[v] = "none" /\ ret[v] = Unset /\ v \notin handler
  BY RequestAwaited
<1>3. Asks(c) /\ In(Req(c)) = All /\ Message(w) = m /\ Len(got[w]) = All
  BY <1>1, RequestRead
<1>4. /\ round[c] = answered[c] + 1 /\ Took(c) = answered[c] /\ Dealt(c) = answered[c] /\ Back(c) = answered[c]
      /\ ~Answers(c) /\ msg_q[v] = <<>> /\ msg_q[Req(c)] = <<>>
  BY <1>3, RequestDue
<1>5. \A u \in {Rcv(c), Req(c), Acc, Clt(c)} :
        /\ Where(u)' = Where(u) /\ In(u)' = In(u) /\ Res(u)' = Res(u) /\ got'[u] = got[u]
        /\ (Writing(u)' <=> Writing(u)) /\ Moved(u)' = Moved(u)
  BY <1>0, <1>1, SameView DEF Others
<1>6. /\ Took(c) \in Nat /\ round[c] \in Nat /\ answered[c] \in Nat /\ msg_q \in [LightWorks -> Seq(Messages)]
  BY CountTypes DEF TypeInv, LightType
<1>7. msg_q'[v] = <<m>> /\ msg_q'[Req(c)] = msg_q[Req(c)]
  BY <1>0, <1>1, <1>3, <1>4, <1>6 DEF Deal
<1>8. Took(c)' = Took(c) /\ Back(c)' = Back(c)
  BY <1>1, <1>7 DEF Took, Back
<1>9. Dealt(c)' = round[c]
  <2>1. Len(msg_q'[v]) = 1
    BY <1>7
  <2> QED
    BY <1>4, <1>6, <1>8, <2>1 DEF Dealt
<1>10. ~Asks(c)' /\ ~Answers(c)'
  BY <1>1, <1>4, <1>6, <1>8, <1>9 DEF Asks, Answers
<1>11. /\ In(v)' = All /\ In(v) = All /\ Res(v)' # -1
       /\ \/ Where(v) = "wait" /\ Where(v)' = "wait" /\ Res(v)' = 0
          \/ Where(v) = "none" /\ Where(v)' = "new"
  <2>1. All' = All
    BY <1>1, CutSame
  <2> QED
    BY <1>1, <1>2, <2>1, SizeFacts DEF Where, Res, In, Writing, Reading
<1>12. Where(w)' = "read" /\ Res(w)' = Unset /\ got'[w] = <<>> /\ Where(w) = "read"
  BY <1>1, SizeFacts DEF Sets, Where, Res, Writing, Reading
<1>13. CountInv(c)'
  <2>1. msg_q'[v] = <<<<"req", Dealt(c)'>>>>
    BY <1>7, <1>9
  <2> QED
    BY <1>1, <1>4, <1>6, <1>7, <1>8, <1>9, <2>1 DEF CountInv
<1>n. Where(Req(c)) # "done"
  BY <1>3, ChannelTypes DEF Core, FlowInv
<1>14. PlaceInv(c)'
  <2>1. 0 # Unset /\ <<m>> # <<>>
    BY SizeFacts
  <2>2. Where(v) = "wait" => Took(c) # 0
    BY DEF Core, PlaceInv
  <2>3. Where(v) = "none" => Took(c) = 0
    BY <1>4 DEF Core, PlaceInv
  <2>4. round[c] # 0
    BY <1>4, <1>6
  <2>5. Where(Req(c)) \in {"write", "wait", "done"} => round[c] = answered[c] + 1
    BY <1>4
  <2>6. Where(Req(c)) \notin {"none", "new", "timer"}
    BY <1>4, <1>6 DEF Core, PlaceInv
  <2>7. Where(Req(c)) = "wait" => (Res(Req(c)) = Unset <=> msg_q[Req(c)] = <<>>)
    BY DEF Core, PlaceInv
  <2>8. Where(Req(c))' = Where(Req(c)) /\ Res(Req(c))' = Res(Req(c))
    BY <1>5
  <2> QED
    BY <1>1, <1>7, <1>8, <1>9, <1>11, <2>1, <2>2, <2>3, <2>4, <2>5, <2>6, <2>7, <2>8 DEF PlaceInv
<1>15. FlowInv(c)'
  <2>1. \A n, a, b : Cut(n, a, b)' = Cut(n, a, b)
    BY <1>1, CutSame
  <2>2. All' = All
    BY <1>1, CutSame
  <2>3. Flow(Asks(c), <<"req", round[c]>>, Req(c), Srcv(c))'
    BY <1>3, <1>5, <1>10, <1>12, <2>2 DEF Flow
  <2>4. Flow(Answers(c), <<"res", Took(c)>>, Srv(c), Rcv(c))'
    BY <1>4, <1>5, <1>10, <1>11, <2>2 DEF Core, FlowInv, Flow
  <2>5. (peer = c => got[Acc] = Cut(<<"hello", 0>>, 0, Len(got[Acc])))'
    BY <1>1, <1>5, <2>1 DEF NetSame, Core, FlowInv
  <2>6. Where(Req(c))' # "done"
    BY <1>5, <1>n
  <2> QED
    BY <2>3, <2>4, <2>5, <2>6 DEF FlowInv
<1>16. WireInv(c)'
  <2>1. SUFFICES ASSUME c \in alive' PROVE WireInv(c)'
    BY DEF WireInv
  <2>2. c \in alive /\ up' = up /\ down' = down /\ peer' = peer
    BY <1>1, <2>1 DEF NetSame
  <2>3. HelloIn(c)' = HelloIn(c) /\ HelloOut(c)' = HelloOut(c)
    BY <1>1, <1>5, <1>12, <2>2, HelloKept
  <2>4. Cut(m, All, All) = <<>>
    <3>1. m \in Messages
      BY ChannelTypes
    <3> QED
      BY <3>1, CutEnd, SizeFacts
  <2>5. down[c] = <<>>
    BY <1>4, <2>2 DEF Core, WireInv, OnWay
  <2>6. up[c] = Cut(<<"hello", 0>>, HelloOut(c), HelloIn(c)) \o <<>> /\ HelloOut(c) <= HelloIn(c)
    BY <1>3, <2>2, <2>4 DEF Core, WireInv, OnWay
  <2>7. Cut(<<"hello", 0>>, HelloOut(c), HelloIn(c))' = Cut(<<"hello", 0>>, HelloOut(c), HelloIn(c))
    BY <1>1, <2>3, CutSame
  <2>8. /\ OnWay(Asks(c), <<"req", round[c]>>, Req(c), Srcv(c))' = <<>>
        /\ OnWay(Answers(c), <<"res", Took(c)>>, Srv(c), Rcv(c))' = <<>>
    BY <1>10 DEF OnWay
  <2>9. \A u \in WorksOf(c) : Res(u)' # -1
    <3>1. \A u \in {Req(c), Rcv(c), Clt(c)} : Res(u) # -1
      BY <2>2 DEF Core, WireInv, WorksOf
    <3> QED
      BY <1>5, <1>11, <1>12, <3>1, SizeFacts DEF WorksOf
  <2>10. peer' = c => Res(Acc)' # -1
    BY <1>5, <2>2 DEF Core, WireInv
  <2>11. "done" \notin {Where(Req(c))', Where(Rcv(c))', Where(Srcv(c))'}
    BY <1>5, <1>n, <1>12, <2>2 DEF Core, WireInv
  <2> QED
    BY <2>2, <2>3, <2>5, <2>6, <2>7, <2>8, <2>9, <2>10, <2>11 DEF WireInv, WorksOf
<1> QED
  BY <1>13, <1>14, <1>15, <1>16 DEF Core

-----------------------------------------------------------------------------
(* Every step *)

(* The steps that change more than one work, or begin or end a connection. *)
LargeStep(c) ==
  \/ Dials(c) \/ Refused(c) \/ Connected(c) \/ Begins(c)
  \/ Deals(Rcv(c), Req(c), FALSE) \/ Deals(Srcv(c), Srv(c), pc[Srv(c)] = "none")

LEMMA Sides ==
  ASSUME NEW c \in Clients, ClientSide(c) \/ ServerSide(c)
  PROVE  SmallStep(c) \/ LargeStep(c)
<1>1. CASE ClientSide(c)
  BY <1>1 DEF ClientSide, SmallStep, LargeStep
<1>2. CASE ServerSide(c)
  BY <1>2 DEF ServerSide, SmallStep, LargeStep
<1> QED
  BY <1>1, <1>2

LEMMA AccReads ==
  ASSUME TypeInv
  PROVE  /\ HearsUp(peer, Acc) => peer \in Clients
         /\ SetsUp => peer \in Clients
         /\ peer # None => peer \in Clients
<1>1. HearsUp(peer, Acc) \/ SetsUp => Reading(Acc)
  BY DEF HearsUp, SetsUp, Takes
<1> QED
  BY <1>1 DEF TypeInv, NetType

LEMMA SmallType ==
  ASSUME TypeInv, NEW c \in Clients, SmallStep(c)
  PROVE  TypeInv'
<1>0. /\ {Clt(c), Req(c), Rcv(c), Srcv(c), Srv(c)} \subseteq Works /\ Srcv(c) # Acc
  BY Names, Different
<1>1. CASE \E w \in {Clt(c), Req(c), Rcv(c), Srcv(c), Srv(c)} : Continues(w) \/ Fails(w) \/ Confirms(w)
  BY <1>0, <1>1, ContinuesType, FailsType, ConfirmsType
<1>2. CASE SendsUp(c, Clt(c)) \/ SendsUp(c, Req(c)) \/ SendsDown(c) \/ HearsDown(c)
  BY <1>2, SendsUpType, SendsDownType, HearsDownType
<1>3. CASE HearsUp(c, Srcv(c))
  BY <1>0, <1>3, HearsUpType
<1>4. CASE Timed(Req(c))
  BY <1>4, EndsType
<1>5. CASE \/ Greets(c) \/ Stops(c) \/ GivesUp(Req(c)) \/ GivesUp(Srv(c))
           \/ ReadsOn(Rcv(c)) \/ ReadsOn(Srcv(c)) \/ Leaves(Rcv(c)) \/ Leaves(Srcv(c))
  BY <1>5, PlainCases
<1>6. CASE Crashes(c) \/ Requests(c)
  BY <1>6, CrashesType, RequestsType
<1>7. CASE Gets(Req(c)) \/ Sleeps(Req(c))
  BY <1>7, LightStepType
<1>8. CASE Gets(Srv(c)) \/ Sleeps(Srv(c))
  BY <1>8, LightStepType
<1> QED
  BY <1>1, <1>2, <1>3, <1>4, <1>5, <1>6, <1>7, <1>8 DEF SmallStep

LEMMA SmallCore ==
  ASSUME TypeInv, AcceptInv, NEW c \in Clients, Core(c), SmallStep(c)
  PROVE  Core(c)'
<1>0. WorksOf(c) = {Clt(c), Req(c), Rcv(c), Srcv(c), Srv(c)}
  BY DEF WorksOf
<1>1. CASE \E w \in {Clt(c), Req(c), Rcv(c), Srcv(c), Srv(c)} : Continues(w) \/ Fails(w) \/ Confirms(w)
  BY <1>0, <1>1, MovingSteady, SteadyCore
<1>2. CASE SendsUp(c, Clt(c)) \/ SendsUp(c, Req(c)) \/ SendsDown(c) \/ HearsDown(c)
  BY <1>2, HelloSent, RequestSent, ResponseSent, ResponseHeard
<1>3. CASE HearsUp(c, Srcv(c))
  BY <1>3, RequestHeard
<1>4. CASE Timed(Req(c))
  BY <1>4, TimedSteady, SteadyCore
<1>5. CASE Greets(c) \/ Crashes(c)
  BY <1>5, ClientSteady, SteadyCore
<1>6. CASE Stops(c) \/ Requests(c)
  BY <1>6, StopsCore, RequestsCore
<1>7. CASE Gets(Req(c)) \/ Gets(Srv(c))
  BY <1>7, GetsResponse, GetsRequest
<1>8. CASE Sleeps(Req(c)) \/ Sleeps(Srv(c))
  BY <1>8, SleepsCore
<1>9. CASE GivesUp(Req(c)) \/ GivesUp(Srv(c))
  BY <1>9, WaitHolds
<1>10. CASE ReadsOn(Rcv(c)) \/ ReadsOn(Srcv(c)) \/ Leaves(Rcv(c)) \/ Leaves(Srcv(c))
  BY <1>10, PlainSteady, SteadyCore
<1> QED
  BY <1>1, <1>2, <1>3, <1>4, <1>5, <1>6, <1>7, <1>8, <1>9, <1>10 DEF SmallStep

LEMMA LargeType ==
  ASSUME TypeInv, AcceptInv, QueueInv, WaitInv, NEW c \in Clients, Core(c), OrderInv(c), LargeStep(c)
  PROVE  TypeInv'
<1>0. /\ Req(c) \in LightWorks /\ Srv(c) \in LightWorks /\ Rcv(c) \in Works /\ Srcv(c) \in Works
      /\ Rcv(c)[1] = "recv" /\ Srcv(c)[1] = "srecv"
  BY Names
<1>1. CASE Dials(c)
  BY <1>1, PlainCases
<1>2. CASE Refused(c) \/ Connected(c)
  BY <1>2, EndsType
<1>3. CASE Begins(c)
  <2>1. pc[Req(c)] = "none" /\ pc[Rcv(c)] = "none"
    BY <1>3 DEF Begins, Writing, AcceptInv, StartInv
  <2> QED
    BY <1>3, <2>1, BeginsType
<1>4. CASE Deals(Rcv(c), Req(c), FALSE)
  <2>1. pc[Req(c)] = "wait" /\ ret[Req(c)] = Unset
    BY <1>4, ResponseAwaited
  <2> QED
    BY <1>0, <1>4, <2>1, DealsType
<1>5. CASE Deals(Srcv(c), Srv(c), pc[Srv(c)] = "none")
  <2> DEFINE fresh == pc[Srv(c)] = "none"
  <2>1. Srv(c) \in handler => pc[Srv(c)] = "wait" /\ ret[Srv(c)] = Unset
    BY <1>5, RequestAwaited
  <2>2. fresh \in BOOLEAN /\ (fresh => pc[Srv(c)] = "none") /\ Deals(Srcv(c), Srv(c), fresh)
    BY <1>5
  <2> HIDE DEF fresh
  <2> QED
    BY <1>0, <2>1, <2>2, DealsType
<1> QED
  BY <1>1, <1>2, <1>3, <1>4, <1>5 DEF LargeStep

LEMMA LargeAccept ==
  ASSUME TypeInv, AcceptInv, NEW c \in Clients, LargeStep(c)
  PROVE  AcceptInv'
<1>1. CASE Dials(c) \/ Refused(c)
  BY <1>1, DialStart
<1>2. CASE Connected(c)
  BY <1>2, ConnectedStart
<1>3. CASE Begins(c)
  BY <1>3, BeginsStart
<1>4. CASE Deals(Rcv(c), Req(c), FALSE)
  BY <1>4, DealsStart
<1>5. CASE Deals(Srcv(c), Srv(c), pc[Srv(c)] = "none")
  <2> DEFINE fresh == pc[Srv(c)] = "none"
  <2>2. fresh \in BOOLEAN /\ fresh = (pc[Srv(c)] = "none") /\ Deals(Srcv(c), Srv(c), fresh)
    BY <1>5
  <2> HIDE DEF fresh
  <2> QED
    BY <2>2, DealsStart
<1> QED
  BY <1>1, <1>2, <1>3, <1>4, <1>5 DEF LargeStep

LEMMA LargeQueue ==
  ASSUME TypeInv, AcceptInv, QueueInv, WaitInv, EnoughRoom, NEW c \in Clients, Core(c), OrderInv(c), LargeStep(c)
  PROVE  QueueInv'
<1>0. /\ Req(c) \in Works /\ Srv(c) \in Works /\ Rcv(c) \in Works /\ Srcv(c) \in Works
      /\ Rcv(c) # Req(c) /\ Srcv(c) # Srv(c) /\ Home(Rcv(c)) = Home(Req(c)) /\ Home(Srcv(c)) = Home(Srv(c))
  BY Names, Different
<1>1. CASE Dials(c) \/ Refused(c) \/ Connected(c)
  BY <1>1, OtherQueue
<1>3. CASE Begins(c)
  <2>1. pc[Req(c)] = "none" /\ pc[Rcv(c)] = "none"
    BY <1>3 DEF Begins, Writing, AcceptInv, StartInv
  <2> QED
    BY <1>3, <2>1, BeginsQueue
<1>4. CASE Deals(Rcv(c), Req(c), FALSE)
  <2>1. pc[Req(c)] = "wait" /\ ret[Req(c)] = Unset
    BY <1>4, ResponseAwaited
  <2> QED
    BY <1>0, <1>4, <2>1, DealsQueue
<1>5. CASE Deals(Srcv(c), Srv(c), pc[Srv(c)] = "none")
  <2> DEFINE fresh == pc[Srv(c)] = "none"
  <2>1. Srv(c) \in handler => pc[Srv(c)] = "wait" /\ ret[Srv(c)] = Unset
    BY <1>5, RequestAwaited
  <2>2. /\ fresh \in BOOLEAN /\ (fresh => pc[Srv(c)] = "none") /\ Deals(Srcv(c), Srv(c), fresh)
        /\ Srv(c) \in handler => ~fresh
    BY <1>5, <2>1
  <2> HIDE DEF fresh
  <2> QED
    BY <1>0, <2>1, <2>2, DealsQueue
<1> QED
  BY <1>1, <1>3, <1>4, <1>5 DEF LargeStep

LEMMA LargeCore ==
  ASSUME TypeInv, AcceptInv, QueueInv, WaitInv, NEW c \in Clients, Core(c), OrderInv(c), LargeStep(c)
  PROVE  Core(c)'
<1>1. CASE Dials(c) \/ Refused(c)
  BY <1>1, ClientSteady, SteadyCore
<1>2. CASE Connected(c)
  BY <1>2, ConnectedCore
<1>3. CASE Begins(c)
  BY <1>3, BeginsSteady, SteadyCore
<1>4. CASE Deals(Rcv(c), Req(c), FALSE)
  BY <1>4, DealtResponse
<1>5. CASE Deals(Srcv(c), Srv(c), pc[Srv(c)] = "none")
  BY <1>5, DealtRequest
<1> QED
  BY <1>1, <1>2, <1>3, <1>4, <1>5 DEF LargeStep

LEMMA AccTypes ==
  ASSUME TypeInv, AcceptInv, AccSide
  PROVE  TypeInv' /\ AcceptInv'
<1>0. Acc \in Works
  BY AccName
<1>1. CASE Continues(Acc) \/ Fails(Acc)
  BY <1>0, <1>1, ContinuesType, FailsType, MovingStart
<1>2. CASE HearsUp(peer, Acc)
  BY <1>0, <1>2, AccReads, HearsUpType, HearsUpStart
<1>3. CASE Accepted
  BY <1>3, AcceptedType, AcceptedStart
<1>4. CASE Listens \/ ReadsFirst
  BY <1>4, AccPlain, AccStart
<1>5. CASE Dies
  BY <1>5, DiesType, AccStart
<1>6. CASE SetsUp
  <2>1. PICK c \in Clients : peer = c
    BY <1>6, AccReads
  <2>2. pc[Srcv(c)] = "none"
    BY <2>1 DEF AcceptInv, StartInv
  <2> QED
    BY <1>6, <2>1, <2>2, SetsUpType, SetsUpStart
<1> QED
  BY <1>1, <1>2, <1>3, <1>4, <1>5, <1>6 DEF AccSide

LEMMA AccQueue ==
  ASSUME TypeInv, AcceptInv, QueueInv, EnoughRoom, AccSide
  PROVE  QueueInv'
<1>0. Acc \in Works
  BY AccName
<1>1. CASE Continues(Acc) \/ Fails(Acc)
  BY <1>0, <1>1, MovingQueue
<1>2. CASE HearsUp(peer, Acc)
  BY <1>0, <1>2, AccReads, HearsUpQueue
<1>3. CASE Accepted \/ Listens \/ ReadsFirst \/ Dies
  <2>1. CASE Clients = {}
    <3>1. pc[Acc] = "accept" /\ ret[Acc] = Unset /\ backlog # <<>> => FALSE
      BY <2>1 DEF TypeInv, NetType
    <3>2. CASE Listens \/ ReadsFirst
      BY <1>0, <3>2, RunsQueue DEF Listens, ReadsFirst, Plain
    <3>3. CASE Dies
      <4>1. /\ Others({Acc}) /\ Taken(Acc, <<>>) /\ crashed' = crashed \cup {Home(Acc)} /\ <<>> \in Seq(Works)
        BY <3>3, AccName DEF Dies
      <4> QED
        BY <1>0, <4>1, CrashedQueue
    <3> QED
      BY <1>3, <3>1, <3>2, <3>3 DEF Accepted
  <2>2. CASE Clients # {}
    BY <1>3, <2>2, OtherQueue
  <2> QED
    BY <2>1, <2>2
<1>6. CASE SetsUp
  <2>1. PICK c \in Clients : peer = c
    BY <1>6, AccReads
  <2>2. pc[Srcv(c)] = "none"
    BY <2>1 DEF AcceptInv, StartInv
  <2> QED
    BY <1>6, <2>1, <2>2, SetsUpQueue
<1> QED
  BY <1>1, <1>2, <1>3, <1>6 DEF AccSide

LEMMA AccCore ==
  ASSUME TypeInv, AcceptInv, NEW c \in Clients, Core(c), AccSide
  PROVE  Core(c)'
<1>1. CASE \/ Continues(Acc) \/ Fails(Acc) \/ Accepted \/ Listens \/ ReadsFirst \/ Dies
           \/ peer # c /\ HearsUp(peer, Acc)
  BY <1>1, AccSteady, SteadyCore
<1>2. CASE peer = c /\ HearsUp(peer, Acc)
  BY <1>2, HelloHeard
<1>3. CASE SetsUp
  <2>1. PICK d \in Clients : peer = d
    BY <1>3, AccReads
  <2> QED
    BY <1>3, <2>1, SetsUpSteady, SteadyCore
<1> QED
  BY <1>1, <1>2, <1>3 DEF AccSide

LEMMA EffectTypes ==
  ASSUME TypeInv, AcceptInv, QueueInv, WaitInv, EnoughRoom, \A c \in Clients : Core(c) /\ OrderInv(c), Effect
  PROVE  TypeInv' /\ AcceptInv' /\ QueueInv'
<1>1. CASE \E c \in Clients : SmallStep(c)
  BY <1>1, SmallType, SmallStart, SmallQueue
<1>2. CASE \E c \in Clients : LargeStep(c)
  BY <1>2, LargeType, LargeAccept, LargeQueue
<1>3. CASE \E c \in Clients : Broken(c)
  BY <1>3, BrokenType, BrokenStart, OtherQueue
<1>4. CASE AccSide
  BY <1>4, AccTypes, AccQueue
<1> QED
  BY <1>1, <1>2, <1>3, <1>4, Sides DEF Effect

LEMMA EffectCore ==
  ASSUME TypeInv, AcceptInv, QueueInv, WaitInv, \A d \in Clients : Core(d) /\ OrderInv(d), Effect,
         NEW c \in Clients
  PROVE  Core(c)'
<1>1. ASSUME NEW d \in Clients, SmallStep(d) PROVE Core(c)'
  <2>1. CASE d = c
    BY <1>1, <2>1, SmallCore
  <2>2. CASE d # c
    BY <1>1, <2>2, SmallAlone, AloneSteady, SteadyCore
  <2> QED
    BY <2>1, <2>2
<1>2. ASSUME NEW d \in Clients, LargeStep(d) PROVE Core(c)'
  <2>1. CASE d = c
    BY <1>2, <2>1, LargeCore
  <2>2. CASE d # c
    <3>1. Alone(c, d)
      BY <1>2, <2>2, OtherAlone DEF LargeStep
    <3> QED
      BY <2>2, <3>1, AloneSteady, SteadyCore
  <2> QED
    BY <2>1, <2>2
<1>3. ASSUME NEW d \in Clients, Broken(d) PROVE Core(c)'
  <2>1. CASE d = c
    BY <1>3, <2>1, BrokenSteady, SteadyCore
  <2>2. CASE d # c
    <3>1. Alone(c, d)
      BY <1>3, <2>2, OtherAlone
    <3> QED
      BY <2>2, <3>1, AloneSteady, SteadyCore
  <2> QED
    BY <2>1, <2>2
<1>4. CASE AccSide
  BY <1>4, AccCore
<1> QED
  BY <1>1, <1>2, <1>3, <1>4, Sides DEF Effect

-----------------------------------------------------------------------------
(* The order of the works in the queues *)

Late(v, w) == Reading(w) /\ ret[w] > 0 /\ Writing(v)
(* Works stay in their order, but for the one that runs. *)
Ordered(x) ==
  \A p \in Procs \ crashed' :
    \A v, u : Precedes(works_q[p], v, u) /\ v # x => Precedes(works_q'[p], v, u)

LEMMA FollowsKept ==
  ASSUME NEW v, NEW w, NEW x, Home(w) \in Procs, Follows(v, w), Ordered(x), crashed \subseteq crashed',
         Late(v, w)' => Late(v, w) /\ v # x
  PROVE  Follows(v, w)'
<1>1. SUFFICES ASSUME Home(w) \notin crashed', Late(v, w)' PROVE Precedes(works_q'[Home(w)], v, w)
  BY DEF Follows, Late, Precedes
<1>2. Precedes(works_q[Home(w)], v, w)
  BY <1>1 DEF Follows, Late
<1> QED
  BY <1>1, <1>2 DEF Ordered

LEMMA LateSame ==
  ASSUME NEW v, NEW w, Same(v), Same(w)
  PROVE  Late(v, w)' <=> Late(v, w)
BY DEF Late, Same, Reading, Writing

LEMMA OrderedTaken ==
  ASSUME TypeInv, QueueInv, EnoughRoom, NEW w \in Works, NEW news \in Seq(Works), Taken(w, news),
         Once(news), crashed \subseteq crashed',
         \A i \in DOMAIN news : Home(news[i]) = Home(w) /\ ~Ready(news[i]) /\ pc[news[i]] # "new"
  PROVE  Ordered(w)
<1> DEFINE p == Home(w)
           q == works_q[p]
           t == works_q'[p]
<1>1. /\ \A v, u : Precedes(q, v, u) /\ v # w => Precedes(t, v, u)
      /\ \A r \in Procs \ {p} : works_q'[r] = works_q[r]
  BY TakenQueue
<1> QED
  BY <1>1 DEF Ordered

LEMMA OrderedRuns ==
  ASSUME TypeInv, QueueInv, EnoughRoom, NEW w \in Works, Taken(w, <<>>), crashed \subseteq crashed'
  PROVE  Ordered(w)
BY OrderedTaken, Nothing

(* A step of one work that runs. *)
Quiet(x, c) ==
  /\ x \in {Req(c), Rcv(c)} => ~Late(Req(c), Rcv(c))'
  /\ x \in {Srv(c), Srcv(c)} => ~Late(Srv(c), Srcv(c))'

LEMMA OneOrder ==
  ASSUME TypeInv, NEW c \in Clients, OrderInv(c), NEW x \in Works, Others({x}), Ordered(x),
         crashed \subseteq crashed', Quiet(x, c)
  PROVE  OrderInv(c)'
<1>1. /\ Req(c) \in Works /\ Rcv(c) \in Works /\ Srv(c) \in Works /\ Srcv(c) \in Works
      /\ Home(Rcv(c)) \in Procs /\ Home(Srcv(c)) \in Procs
  BY Names, AccName
<1>2. Late(Req(c), Rcv(c))' => Late(Req(c), Rcv(c)) /\ Req(c) # x
  <2>1. CASE x \in {Req(c), Rcv(c)}
    BY <2>1 DEF Quiet
  <2>2. CASE x \notin {Req(c), Rcv(c)}
    BY <1>1, <2>2, LateSame DEF Others
  <2> QED
    BY <2>1, <2>2
<1>3. Late(Srv(c), Srcv(c))' => Late(Srv(c), Srcv(c)) /\ Srv(c) # x
  <2>1. CASE x \in {Srv(c), Srcv(c)}
    BY <2>1 DEF Quiet
  <2>2. CASE x \notin {Srv(c), Srcv(c)}
    BY <1>1, <2>2, LateSame DEF Others
  <2> QED
    BY <2>1, <2>2
<1>4. Follows(Req(c), Rcv(c))'
  BY <1>1, <1>2, FollowsKept DEF OrderInv
<1>5. Follows(Srv(c), Srcv(c))'
  BY <1>1, <1>3, FollowsKept DEF OrderInv
<1> QED
  BY <1>4, <1>5 DEF OrderInv

(* A step of the io thread. *)
Behind(x, c, r) ==
  /\ x = Rcv(c) /\ r > 0 /\ Writing(Req(c)) => InQueue(works_q[c], Req(c))
  /\ x = Srcv(c) /\ r > 0 /\ Writing(Srv(c)) => InQueue(works_q[Server], Srv(c))

LEMMA CompletesOrder ==
  ASSUME TypeInv, QueueInv, EnoughRoom, NEW c \in Clients, OrderInv(c), NEW x \in Works, NEW g, NEW r,
         Completes(x, g, r), ret[x] = Unset \/ Sending(x), pc[x] # "new", Behind(x, c, r)
  PROVE  OrderInv(c)'
<1> DEFINE p == Home(x)
           q == works_q[p]
           t == works_q'[p]
<1>1. /\ Req(c) \in Works /\ Rcv(c) \in Works /\ Srv(c) \in Works /\ Srcv(c) \in Works
      /\ Home(Rcv(c)) = c /\ Home(Srcv(c)) = Server /\ c \in Procs /\ Server \in Procs
      /\ Req(c) # Rcv(c) /\ Srv(c) # Srcv(c)
  BY Names, AccName, Different
<1>2. /\ Others({x}) /\ pc'[x] = pc[x] /\ ret'[x] = r /\ AddSelfBack(x) /\ crashed' = crashed
  BY DEF Completes, Sets, RestSame
<1>3. /\ \A v, u : Precedes(q, v, u) => Precedes(t, v, u)
      /\ \A v : InQueue(q, v) => Precedes(t, v, x)
      /\ \A s \in Procs \ {p} : works_q'[s] = works_q[s]
  BY <1>2, BackQueue DEF Ready
<1>4. \A y : Ordered(y)
  BY <1>3 DEF Ordered
<1>5. ASSUME NEW v \in Works, NEW w \in Works, v # w, Home(w) \in Procs, Follows(v, w),
             x = w /\ r > 0 /\ Writing(v) => InQueue(works_q[Home(w)], v)
      PROVE  Follows(v, w)'
  <2>1. CASE x = w
    <3>1. SUFFICES ASSUME Late(v, w)' PROVE Precedes(works_q'[Home(w)], v, w)
      BY DEF Follows, Late, Precedes
    <3>2. r > 0 /\ Writing(v)
      <4>1. Same(v)
        BY <1>2, <1>5, <2>1 DEF Others
      <4> QED
        BY <1>2, <2>1, <3>1, <4>1 DEF Late, Same, Writing
    <3>3. InQueue(works_q[Home(w)], v)
      BY <1>5, <2>1, <3>2
    <3> QED
      BY <1>3, <2>1, <3>3
  <2>2. CASE x # w
    <3>1. Same(w) /\ pc'[v] = pc[v]
      BY <1>2, <1>5, <2>2 DEF Others, Same
    <3>2. Late(v, w)' => Late(v, w)
      BY <3>1 DEF Late, Same, Reading, Writing
    <3>3. PICK y : y # v
      BY <1>5
    <3> QED
      BY <1>2, <1>4, <1>5, <3>2, <3>3, FollowsKept
  <2> QED
    BY <2>1, <2>2
<1>6. Follows(Req(c), Rcv(c))'
  BY <1>1, <1>5 DEF OrderInv, Behind
<1>7. Follows(Srv(c), Srcv(c))'
  BY <1>1, <1>5 DEF OrderInv, Behind
<1> QED
  BY <1>6, <1>7 DEF OrderInv

(* While a work reads an answer, the other work of its end has written its message. *)
LEMMA WriterWhole ==
  ASSUME TypeInv, NEW c \in Clients, Core(c)
  PROVE  /\ Answers(c) => In(Req(c)) = All /\ got[Srcv(c)] = <<>>
         /\ Asks(c) => In(Srv(c)) = All /\ got[Rcv(c)] = <<>>
         /\ Reading(Rcv(c)) /\ ret[Rcv(c)] > 0 => Answers(c)
         /\ Reading(Srcv(c)) /\ ret[Srcv(c)] > 0 => Asks(c)
<1>1. Answers(c) => In(Req(c)) = All /\ got[Srcv(c)] = <<>>
  BY ResponseDue DEF Core, FlowInv, Flow
<1>2. Asks(c) => In(Srv(c)) = All /\ got[Rcv(c)] = <<>>
  BY RequestDue DEF Core, FlowInv, Flow
<1>3. ASSUME NEW w \in Works, w[1] # "serve", Reading(w), ret[w] > 0 PROVE got[w] # <<>>
  <2>1. Sound(w) /\ rem[w] \in Int /\ ret[w] \in Int
    BY DEF TypeInv, WorkInv, WorkType
  <2>2. Len(got[w]) = Moved(w) /\ rem[w] \in 1 .. Part(w)
    BY <1>3, <2>1 DEF Sound, GotBy, ResultOf
  <2>3. Moved(w) > 0
    BY <1>3, <2>1, <2>2, SizeFacts DEF Moved, Told, Part
  <2>4. Len(got[w]) # 0
    BY <2>2, <2>3
  <2> QED
    BY <2>4
<1>4. Reading(Rcv(c)) /\ ret[Rcv(c)] > 0 => Answers(c)
  BY <1>3, Names DEF Core, FlowInv, Flow
<1>5. Reading(Srcv(c)) /\ ret[Srcv(c)] > 0 => Asks(c)
  BY <1>3, Names DEF Core, FlowInv, Flow
<1> QED
  BY <1>1, <1>2, <1>4, <1>5

LEMMA WholeReady ==
  ASSUME TypeInv, NEW v \in Works, Writing(v), In(v) = All
  PROVE  ~Sending(v) => Ready(v) /\ ret[v] = rem[v] /\ ~AtHeader(v)
<1>0. SUFFICES ASSUME ~Sending(v) PROVE Ready(v) /\ ret[v] = rem[v] /\ ~AtHeader(v)
  OBVIOUS
<1>1. Sound(v) /\ rem[v] \in Int /\ ret[v] \in Int
  BY DEF TypeInv, WorkInv, WorkType
<1>2. rem[v] \in 1 .. Part(v) /\ ret[v] \in {Unset, -1} \cup (1 .. rem[v])
  BY <1>0, <1>1, SizeFacts DEF Sound, ResultOf, Sending
<1>3. Moved(v) = All
  BY DEF In
<1>4. ~AtHeader(v)
  BY <1>1, <1>2, <1>3, SizeFacts DEF Moved, Told, Part
<1>5. ret[v] = rem[v]
  BY <1>1, <1>2, <1>3, <1>4, SizeFacts DEF Moved, Told, Part
<1>6. ret[v] # Unset
  BY <1>1, <1>2, <1>5, SizeFacts
<1> QED
  BY <1>0, <1>4, <1>5, <1>6 DEF Ready, Writing

LEMMA QuietPlace ==
  ASSUME TypeInv, NEW c \in Clients, NEW x \in Works, NEW at, NEW n, NEW g, Runs(x, at, n, g),
         at \notin {"whdr", "wbody"} \/ x \notin {Req(c), Srv(c)}
  PROVE  Quiet(x, c)
<1>0. ~(Unset > 0)
  BY DEF Unset
<1>1. pc'[x] = at /\ ret'[x] = Unset
  BY Plainly
<1>2. Req(c) # Srcv(c) /\ Srv(c) # Rcv(c)
  BY Different
<1>3. x \in {Rcv(c), Srcv(c)} => ~(ret'[x] > 0)
  BY <1>0, <1>1
<1>4. x \in {Req(c), Srv(c)} => ~Writing(x)'
  BY <1>1 DEF Writing
<1> QED
  BY <1>3, <1>4 DEF Quiet, Late

LEMMA RunsOrder ==
  ASSUME TypeInv, QueueInv, EnoughRoom, NEW c \in Clients, OrderInv(c), NEW x \in Works, NEW at, NEW n, NEW g,
         Runs(x, at, n, g), Quiet(x, c)
  PROVE  OrderInv(c)'
<1>1. Others({x}) /\ Taken(x, <<>>) /\ crashed' = crashed
  BY Plainly
<1>2. Ordered(x)
  BY <1>1, OrderedRuns
<1> QED
  BY <1>1, <1>2, OneOrder

LEMMA ContinuesQuiet ==
  ASSUME TypeInv, NEW c \in Clients, Core(c), NEW x \in Works, Continues(x)
  PROVE  Quiet(x, c) /\ \E at, n, g : Runs(x, at, n, g)
<1>1. \E at, n, g : Runs(x, at, n, g)
  BY DEF Continues, Plain
<1>2. /\ Others({x}) /\ ret'[x] = Unset /\ (Writing(x)' <=> Writing(x))
      /\ ret[x] < rem[x] \/ AtHeader(x)
  <2>1. Others({x}) /\ ret'[x] = Unset
    BY <1>1, Plainly
  <2> QED
    BY <2>1, ContinuesView DEF Continues
<1>3. rem[x] \in Int /\ ret[x] \in Int
  BY DEF TypeInv, WorkType
<1>4. /\ Req(c) \in Works /\ Srv(c) \in Works /\ Rcv(c) \in Works /\ Srcv(c) \in Works
      /\ Req(c) # Rcv(c) /\ Srv(c) # Srcv(c) /\ Req(c) # Srcv(c) /\ Srv(c) # Rcv(c)
  BY Names, Different
<1>5. ~(ret'[x] > 0)
  BY <1>2, SizeFacts
<1>9. ~Sending(x)
  BY <1>3, SizeFacts DEF Continues, Sending
<1>6. ASSUME x = Req(c), Late(Req(c), Rcv(c))' PROVE FALSE
  <2>1. Same(Rcv(c))
    BY <1>2, <1>4, <1>6 DEF Others
  <2>2. Reading(Rcv(c)) /\ ret[Rcv(c)] > 0
    BY <1>6, <2>1 DEF Late, Same, Reading
  <2>3. Writing(x) /\ In(x) = All
    BY <1>2, <1>6, <2>2, WriterWhole DEF Late
  <2>4. ret[x] = rem[x] /\ ~AtHeader(x)
    BY <1>9, <2>3, WholeReady
  <2> QED
    BY <1>2, <1>3, <2>4
<1>7. ASSUME x = Srv(c), Late(Srv(c), Srcv(c))' PROVE FALSE
  <2>1. Same(Srcv(c))
    BY <1>2, <1>4, <1>7 DEF Others
  <2>2. Reading(Srcv(c)) /\ ret[Srcv(c)] > 0
    BY <1>7, <2>1 DEF Late, Same, Reading
  <2>3. Writing(x) /\ In(x) = All
    BY <1>2, <1>7, <2>2, WriterWhole DEF Late
  <2>4. ret[x] = rem[x] /\ ~AtHeader(x)
    BY <1>9, <2>3, WholeReady
  <2> QED
    BY <1>2, <1>3, <2>4
<1>8. Quiet(x, c)
  BY <1>5, <1>6, <1>7 DEF Quiet, Late
<1> QED
  BY <1>1, <1>8

LEMMA MovingOrder ==
  ASSUME TypeInv, QueueInv, EnoughRoom, NEW c \in Clients, Core(c), OrderInv(c), NEW x \in Works,
         Continues(x) \/ Fails(x) \/ Confirms(x)
  PROVE  OrderInv(c)'
<1>1. CASE Continues(x)
  BY <1>1, ContinuesQuiet, RunsOrder
<1>2. CASE Fails(x)
  <2>1. Completes(x, got[x], -1) /\ ret[x] = Unset /\ pc[x] # "new"
    BY <1>2 DEF Fails, Moving, Writing, Reading
  <2>2. Behind(x, c, -1)
    BY DEF Behind
  <2> QED
    BY <2>1, <2>2, CompletesOrder
<1>3. CASE Confirms(x)
  <2>1. Completes(x, got[x], Unset - ret[x]) /\ Sending(x) /\ pc[x] # "new" /\ ~Reading(x)
    BY <1>3 DEF Confirms, Sending, Writing, Reading
  <2>2. x \notin {Rcv(c), Srcv(c)}
    BY <1>3, Kinds, Names DEF Confirms, Sending
  <2>3. \A r : Behind(x, c, r)
    BY <2>2 DEF Behind
  <2> QED
    BY <2>1, <2>3, CompletesOrder
<1> QED
  BY <1>1, <1>2, <1>3

(* What a work reads is there only when the other work of its end has written. *)
LEMMA HearsOrder ==
  ASSUME TypeInv, AcceptInv, QueueInv, EnoughRoom, NEW c \in Clients, NEW d \in Clients, Core(c), OrderInv(c),
         HearsDown(d) \/ HearsUp(d, Srcv(d))
  PROVE  OrderInv(c)'
<1>0. /\ Req(c) \in Works /\ Srv(c) \in Works /\ Home(Req(c)) = c /\ Home(Srv(c)) = Server
      /\ c \in Procs /\ Server \in Procs
      /\ Rcv(d) \in Works /\ Srcv(d) \in Works /\ Home(Rcv(d)) = d /\ Home(Srcv(d)) = Server
  BY Names, AccName
<1>1. CASE HearsDown(d)
  <2>1. PICK k \in Nat : d \in alive /\ Takes(Rcv(d), down[d], k)
    BY <1>1 DEF HearsDown
  <2>2. /\ Completes(Rcv(d), got[Rcv(d)] \o SubSeq(down[d], 1, k), k) /\ ret[Rcv(d)] = Unset
        /\ pc[Rcv(d)] # "new" /\ AddSelfBack(Rcv(d)) /\ k >= 1 /\ k <= Len(down[d])
    BY <2>1 DEF Takes, Reading, Completes
  <2>3. ASSUME Rcv(d) = Rcv(c), Writing(Req(c)) PROVE InQueue(works_q[c], Req(c))
    <3>1. d = c
      BY <2>3, Different
    <3>2. down[c] # <<>>
      BY <2>2, <3>1
    <3>3. Answers(c)
      BY <2>1, <3>1, <3>2 DEF Core, WireInv, OnWay
    <3>6. ~Sending(Req(c))
      BY <1>0, <2>1, <3>1, Names DEF Takes, Busy
    <3>4. Ready(Req(c))
      BY <1>0, <2>3, <3>3, <3>6, WriterWhole, WholeReady
    <3>5. c \notin crashed
      BY <1>0, <2>2, <3>1 DEF AddSelfBack
    <3> QED
      BY <1>0, <3>4, <3>5 DEF QueueInv
  <2>4. Behind(Rcv(d), c, k)
    BY <2>3, Different DEF Behind
  <2> QED
    BY <1>0, <2>2, <2>4, CompletesOrder
<1>2. CASE HearsUp(d, Srcv(d))
  <2>1. PICK k \in Nat : d \in alive /\ Takes(Srcv(d), up[d], k)
    BY <1>2 DEF HearsUp
  <2>2. /\ Completes(Srcv(d), got[Srcv(d)] \o SubSeq(up[d], 1, k), k) /\ ret[Srcv(d)] = Unset
        /\ pc[Srcv(d)] # "new" /\ AddSelfBack(Srcv(d)) /\ k >= 1 /\ k <= Len(up[d]) /\ Reading(Srcv(d))
    BY <2>1 DEF Takes, Reading, Completes
  <2>3. ASSUME Srcv(d) = Srcv(c), Writing(Srv(c)) PROVE InQueue(works_q[Server], Srv(c))
    <3>1. d = c
      BY <2>3, Different
    <3>2. up[c] # <<>>
      BY <2>2, <3>1
    <3>3. HelloOut(c) = All
      <4>1. Where(Srcv(c)) = "read"
        BY <2>2, <3>1 DEF Where, Reading, Writing
      <4> QED
        BY <4>1 DEF HelloOut
    <3>4. Cut(<<"hello", 0>>, HelloOut(c), HelloIn(c)) = <<>>
      <4>0. HelloIn(c) \in 0 .. All /\ All \in Nat
        BY ChannelTypes
      <4>1. HelloIn(c) \in 0 .. All /\ All \in 0 .. All /\ All >= HelloIn(c)
        BY <4>0
      <4> QED
        BY <3>3, <4>1, HelloName, CutLength, SizeFacts
    <3>5. up[c] = <<>> \o OnWay(Asks(c), <<"req", round[c]>>, Req(c), Srcv(c))
      BY <2>1, <3>1, <3>4 DEF Core, WireInv
    <3>6. Asks(c)
      BY <3>2, <3>5 DEF OnWay
    <3>9. ~Sending(Srv(c))
      BY <1>0, <2>1, <3>1, Names DEF Takes, Busy
    <3>7. Ready(Srv(c))
      BY <1>0, <2>3, <3>6, <3>9, WriterWhole, WholeReady
    <3>8. Server \notin crashed
      BY <1>0, <2>2 DEF AddSelfBack
    <3> QED
      BY <1>0, <3>7, <3>8 DEF QueueInv
  <2>4. Behind(Srcv(d), c, k)
    BY <2>3, Different DEF Behind
  <2> QED
    BY <1>0, <2>2, <2>4, CompletesOrder
<1> QED
  BY <1>1, <1>2

LEMMA SendsOrder ==
  ASSUME NEW c \in Clients, NEW d \in Clients, OrderInv(c),
         SendsUp(d, Clt(d)) \/ SendsUp(d, Req(d)) \/ SendsDown(d)
  PROVE  OrderInv(c)'
<1>1. PICK x \in {Clt(d), Req(d), Srv(d)} : \E r : Gives(x, r)
  BY DEF SendsUp, SendsDown
<1>2. /\ x \notin {Rcv(c), Srcv(c)}
      /\ Req(c) \in Works /\ Rcv(c) \in Works /\ Srv(c) \in Works /\ Srcv(c) \in Works
  BY Names, Different
<1>3. Others({x}) /\ pc'[x] = pc[x] /\ works_q' = works_q /\ crashed' = crashed
  BY <1>1 DEF Gives, Sets, RestSame
<1>4. Same(Rcv(c)) /\ Same(Srcv(c)) /\ pc'[Req(c)] = pc[Req(c)] /\ pc'[Srv(c)] = pc[Srv(c)]
  BY <1>2, <1>3 DEF Others, Same
<1> QED
  BY <1>3, <1>4 DEF OrderInv, Follows, Precedes, Same, Reading, Writing

LEMMA EndsOrder ==
  ASSUME TypeInv, QueueInv, EnoughRoom, NEW c \in Clients, NEW d \in Clients, OrderInv(c),
         Timed(Req(d)) \/ Connected(d) \/ Refused(d)
  PROVE  OrderInv(c)'
<1>1. PICK x \in {Clt(d), Req(d), Srv(d)} :
        \E g, r : Completes(x, g, r) /\ ret[x] = Unset /\ pc[x] # "new"
  BY DEF Timed, Connected, Refused
<1>2. x \in Works /\ x \notin {Rcv(c), Srcv(c)}
  BY Names, Different
<1>3. \A r : Behind(x, c, r)
  BY <1>2 DEF Behind
<1> QED
  BY <1>1, <1>2, <1>3, CompletesOrder

LEMMA LightOrder ==
  ASSUME TypeInv, QueueInv, EnoughRoom, NEW c \in Clients, NEW d \in Clients, Core(c), OrderInv(c),
         \/ Requests(d) \/ Stops(d) \/ Gets(Req(d)) \/ Gets(Srv(d)) \/ Sleeps(Req(d)) \/ Sleeps(Srv(d))
         \/ GivesUp(Req(d)) \/ GivesUp(Srv(d))
         \/ Greets(d) \/ Dials(d) \/ ReadsOn(Rcv(d)) \/ ReadsOn(Srcv(d)) \/ Leaves(Rcv(d)) \/ Leaves(Srcv(d))
  PROVE  OrderInv(c)'
<1>0. /\ Clt(d) \in Works /\ Req(d) \in Works /\ Rcv(d) \in Works /\ Srcv(d) \in Works /\ Srv(d) \in Works
      /\ Req(d)[1] = "request" /\ Srv(d)[1] = "serve" /\ Req(d)[2] = d /\ Srv(d)[2] = d
      /\ {Clt(d), Rcv(d), Srcv(d)} \cap {Req(c), Srv(c)} = {}
      /\ Rcv(c) # Req(d) /\ Srcv(c) # Srv(d) /\ Rcv(c) \in Works /\ Srcv(c) \in Works
      /\ Srv(c) # Req(d) /\ Srcv(c) # Req(d) /\ Req(c) # Srv(d) /\ Rcv(c) # Srv(d)
  BY Names, Different
<1>1. CASE \/ Stops(d) \/ Gets(Req(d)) \/ Sleeps(Req(d)) \/ Sleeps(Srv(d)) \/ GivesUp(Req(d)) \/ GivesUp(Srv(d))
  <2>1. PICK x \in {Req(d), Srv(d)} :
          \E at, n, g : at \in {"done", "timer", "wait"} /\ Runs(x, at, n, g)
    <3>1. CASE Stops(d) \/ GivesUp(Req(d)) \/ GivesUp(Srv(d))
      BY <3>1 DEF Stops, GivesUp, Plain
    <3>2. CASE Gets(Req(d))
      BY <1>0, <3>2 DEF Gets, Uses
    <3>3. CASE Sleeps(Req(d)) \/ Sleeps(Srv(d))
      BY <3>3 DEF Sleeps
    <3> QED
      BY <1>1, <3>1, <3>2, <3>3
  <2>2. PICK at, n, g : at \in {"done", "timer", "wait"} /\ Runs(x, at, n, g)
    BY <2>1
  <2>3. Quiet(x, c)
    BY <1>0, <2>2, QuietPlace
  <2> QED
    BY <1>0, <2>2, <2>3, RunsOrder
<1>2. CASE Greets(d) \/ Dials(d) \/ ReadsOn(Rcv(d)) \/ ReadsOn(Srcv(d)) \/ Leaves(Rcv(d)) \/ Leaves(Srcv(d))
  <2>1. PICK x \in {Clt(d), Rcv(d), Srcv(d)} : \E at, n, g : Runs(x, at, n, g)
    BY <1>2 DEF Greets, Dials, ReadsOn, Leaves, Plain
  <2>2. PICK at, n, g : Runs(x, at, n, g)
    BY <2>1
  <2>3. x \in Works /\ x \notin {Req(c), Srv(c)}
    BY <1>0
  <2>4. Quiet(x, c)
    BY <2>2, <2>3, QuietPlace
  <2> QED
    BY <2>2, <2>3, <2>4, RunsOrder
<1>3. CASE Requests(d)
  <2>1. Runs(Req(d), "whdr", HdrLen, got[Req(d)]) /\ Others({Req(d)}) /\ pc[Req(d)] \in {"new", "timer"}
    BY <1>3, Plainly DEF Requests
  <2>2. ASSUME d = c PROVE ~Late(Req(c), Rcv(c))'
    <3>1. Same(Rcv(c))
      BY <1>0, <2>1 DEF Others
    <3>2. Where(Req(c)) \in {"new", "timer"}
      BY <2>1, <2>2 DEF Where, Writing, Reading
    <3>3. ~Answers(c)
      BY <3>2, AtRest
    <3>4. ~(Reading(Rcv(c)) /\ ret[Rcv(c)] > 0)
      BY <3>3, WriterWhole
    <3> QED
      BY <3>1, <3>4 DEF Late, Same, Reading
  <2>3. Quiet(Req(d), c)
    BY <1>0, <2>2, Different DEF Quiet
  <2> QED
    BY <1>0, <2>1, <2>3, RunsOrder
<1>4. CASE Gets(Srv(d))
  <2>1. msg_q[Srv(d)] # <<>> /\ \E m : Serves(d, m)
    BY <1>0, <1>4 DEF Gets
  <2>2. PICK g : Runs(Srv(d), "whdr", HdrLen, g)
    BY <2>1 DEF Serves
  <2>3. Others({Srv(d)})
    BY <2>2, Plainly
  <2>4. ASSUME d = c PROVE ~Late(Srv(c), Srcv(c))'
    <3>1. Same(Srcv(c))
      BY <1>0, <2>3 DEF Others
    <3>2. ~Asks(c)
      BY <2>1, <2>4, RequestDue
    <3>3. ~(Reading(Srcv(c)) /\ ret[Srcv(c)] > 0)
      BY <3>2, WriterWhole
    <3> QED
      BY <3>1, <3>3 DEF Late, Same, Reading
  <2>5. Quiet(Srv(d), c)
    BY <1>0, <2>4, Different DEF Quiet
  <2> QED
    BY <1>0, <2>2, <2>5, RunsOrder
<1> QED
  BY <1>1, <1>2, <1>3, <1>4

LEMMA ManyOrder ==
  ASSUME TypeInv, NEW c \in Clients, OrderInv(c), NEW x, Ordered(x), NEW W, Others(W),
         crashed \subseteq crashed', x \notin {Req(c), Srv(c)},
         W \cap {Req(c), Rcv(c)} = {} \/ ~Late(Req(c), Rcv(c))',
         W \cap {Srv(c), Srcv(c)} = {} \/ ~Late(Srv(c), Srcv(c))'
  PROVE  OrderInv(c)'
<1>1. /\ Req(c) \in Works /\ Rcv(c) \in Works /\ Srv(c) \in Works /\ Srcv(c) \in Works
      /\ Home(Rcv(c)) \in Procs /\ Home(Srcv(c)) \in Procs
  BY Names, AccName
<1>2. Late(Req(c), Rcv(c))' => Late(Req(c), Rcv(c)) /\ Req(c) # x
  <2>1. CASE W \cap {Req(c), Rcv(c)} = {}
    <3>1. Same(Req(c)) /\ Same(Rcv(c))
      BY <1>1, <2>1 DEF Others
    <3> QED
      BY <3>1, LateSame
  <2> QED
    BY <2>1
<1>3. Late(Srv(c), Srcv(c))' => Late(Srv(c), Srcv(c)) /\ Srv(c) # x
  <2>1. CASE W \cap {Srv(c), Srcv(c)} = {}
    <3>1. Same(Srv(c)) /\ Same(Srcv(c))
      BY <1>1, <2>1 DEF Others
    <3> QED
      BY <3>1, LateSame
  <2> QED
    BY <2>1
<1>4. Follows(Req(c), Rcv(c))'
  BY <1>1, <1>2, FollowsKept DEF OrderInv
<1>5. Follows(Srv(c), Srcv(c))'
  BY <1>1, <1>3, FollowsKept DEF OrderInv
<1> QED
  BY <1>4, <1>5 DEF OrderInv

LEMMA CrashesOrder ==
  ASSUME TypeInv, NEW c \in Clients, NEW d \in Clients, OrderInv(c), Crashes(d)
  PROVE  OrderInv(c)'
<1> DEFINE x == Clt(d)
<1>1. x \in Works /\ x \notin {Req(c), Rcv(c), Srv(c), Srcv(c)} /\ Home(x) = d
  BY Names, Different
<1>2. Others({x}) /\ crashed' = crashed \cup {d} /\ Taken(x, <<Req(d), Rcv(d)>>)
  BY DEF Crashes
<1>3. Ordered(x)
  <2>1. \A p \in Procs \ crashed' : works_q'[p] = works_q[p]
    BY <1>1, <1>2 DEF Taken, TypeInv, WorkType
  <2> QED
    BY <2>1 DEF Ordered
<1> QED
  BY <1>1, <1>2, <1>3, ManyOrder

LEMMA BeginsOrder ==
  ASSUME TypeInv, AcceptInv, QueueInv, EnoughRoom, NEW c \in Clients, NEW d \in Clients, OrderInv(c), Begins(d)
  PROVE  OrderInv(c)'
<1> DEFINE x == Clt(d)
           W == {x, Req(d), Rcv(d)}
           news == <<Req(d), Rcv(d)>>
<1>0. /\ x \in Works /\ x \notin {Req(c), Srv(c)} /\ Req(d) \in Works /\ Rcv(d) \in Works /\ Req(d) # Rcv(d)
      /\ Home(Req(d)) = Home(x) /\ Home(Rcv(d)) = Home(x)
      /\ W \cap {Srv(c), Srcv(c)} = {}
      /\ c # d => W \cap {Req(c), Rcv(c)} = {}
  BY Names, Different
<1>1. /\ pc'[Req(d)] = "new" /\ Taken(x, news) /\ crashed' = crashed /\ Writing(x)
  BY DEF Begins, RestSame
<1>2. Others(W)
  BY DEF Begins, Others, Same, TypeInv, WorkType
<1>3. pc[Req(d)] = "none" /\ pc[Rcv(d)] = "none"
  BY <1>1 DEF AcceptInv, StartInv, Writing
<1>4. news \in Seq(Works) /\ Once(news) /\ DOMAIN news = {1, 2} /\ news[1] = Req(d) /\ news[2] = Rcv(d)
  BY <1>0, PairOnce
<1>5. \A i \in DOMAIN news : Home(news[i]) = Home(x) /\ ~Ready(news[i]) /\ pc[news[i]] # "new"
  BY <1>0, <1>3, <1>4 DEF Ready
<1> HIDE DEF news, W
<1>6. Ordered(x)
  BY <1>0, <1>1, <1>4, <1>5, OrderedTaken
<1>7. c = d => ~Late(Req(c), Rcv(c))'
  BY <1>1 DEF Late, Writing
<1> QED
  BY <1>0, <1>1, <1>2, <1>6, <1>7, ManyOrder

LEMMA DealsOrder ==
  ASSUME TypeInv, AcceptInv, QueueInv, WaitInv, EnoughRoom, NEW c \in Clients, NEW d \in Clients,
         OrderInv(c), Core(d), OrderInv(d),
         Deals(Rcv(d), Req(d), FALSE) \/ Deals(Srcv(d), Srv(d), pc[Srv(d)] = "none")
  PROVE  OrderInv(c)'
<1>0. /\ Rcv(d) \in Works /\ Req(d) \in Works /\ Srcv(d) \in Works /\ Srv(d) \in Works
      /\ Home(Rcv(d)) = Home(Req(d)) /\ Home(Srcv(d)) = Home(Srv(d))
      /\ {Rcv(d), Srcv(d)} \cap {Req(c), Srv(c)} = {}
      /\ {Rcv(d), Req(d)} \cap {Srv(c), Srcv(c)} = {}
      /\ {Srcv(d), Srv(d)} \cap {Req(c), Rcv(c)} = {}
      /\ c # d => /\ {Rcv(d), Req(d)} \cap {Req(c), Rcv(c)} = {}
                  /\ {Srcv(d), Srv(d)} \cap {Srv(c), Srcv(c)} = {}
  BY Names, Different
<1>u. ~(Unset > 0)
  BY DEF Unset
<1>1. CASE Deals(Rcv(d), Req(d), FALSE)
  <2> DEFINE x == Rcv(d)
             news == Woken(Req(d))
  <2>1. Others({x, Req(d)}) /\ ret'[x] = Unset /\ Taken(x, news) /\ crashed' = crashed
    BY <1>1 DEF Deals, Sets
  <2>2. pc[Req(d)] = "wait" /\ ret[Req(d)] = Unset /\ Req(d) \in handler
    BY <1>1, ResponseAwaited
  <2>3. news = <<Req(d)>>
    BY <2>2 DEF Woken
  <2>4. news \in Seq(Works) /\ Once(news) /\ DOMAIN news = {1} /\ news[1] = Req(d)
    BY <1>0, <2>3, SingleOnce
  <2>5. \A i \in DOMAIN news : Home(news[i]) = Home(x) /\ ~Ready(news[i]) /\ pc[news[i]] # "new"
    BY <1>0, <2>2, <2>4 DEF Ready
  <2> HIDE DEF news
  <2>6. Ordered(x)
    BY <1>0, <2>1, <2>4, <2>5, OrderedTaken
  <2>7. c = d => ~Late(Req(c), Rcv(c))'
    BY <1>u, <2>1 DEF Late
  <2> QED
    BY <1>0, <2>1, <2>6, <2>7, ManyOrder
<1>2. CASE Deals(Srcv(d), Srv(d), pc[Srv(d)] = "none")
  <2> DEFINE x == Srcv(d)
             v == Srv(d)
             news == (IF pc[v] = "none" THEN <<v>> ELSE <<>>) \o Woken(v)
  <2>1. Others({x, v}) /\ ret'[x] = Unset /\ Taken(x, news) /\ crashed' = crashed
    BY <1>2 DEF Deals, Sets
  <2>2. \/ pc[v] = "wait" /\ ret[v] = Unset /\ v \in handler
        \/ pc[v] = "none" /\ ret[v] = Unset /\ v \notin handler
    BY <1>2, RequestAwaited
  <2>3. news = <<v>>
    <3>1. <<>> \o <<v>> = <<v>> /\ <<v>> \o <<>> = <<v>>
      OBVIOUS
    <3> QED
      BY <2>2, <3>1 DEF Woken
  <2> HIDE DEF news
  <2>4. news \in Seq(Works) /\ Once(news) /\ DOMAIN news = {1} /\ news[1] = v
    BY <1>0, <2>3, SingleOnce
  <2>5. \A i \in DOMAIN news : Home(news[i]) = Home(x) /\ ~Ready(news[i]) /\ pc[news[i]] # "new"
    BY <1>0, <2>2, <2>4 DEF Ready
  <2>6. Ordered(x)
    BY <1>0, <2>1, <2>4, <2>5, OrderedTaken
  <2>7. c = d => ~Late(Srv(c), Srcv(c))'
    BY <1>u, <2>1 DEF Late
  <2> QED
    BY <1>0, <2>1, <2>6, <2>7, ManyOrder
<1> QED
  BY <1>1, <1>2

LEMMA BrokenOrder ==
  ASSUME TypeInv, NEW c \in Clients, NEW d \in Clients, OrderInv(c), Broken(d)
  PROVE  OrderInv(c)'
<1>1. Others({}) /\ crashed' = crashed /\ works_q' = works_q
  BY DEF Broken, RestSame
<1>2. Ordered(Acc)
  BY <1>1 DEF Ordered
<1>3. Acc \notin {Req(c), Srv(c)}
  BY Different
<1> QED
  BY <1>1, <1>2, <1>3, ManyOrder

LEMMA AccOrder ==
  ASSUME TypeInv, AcceptInv, QueueInv, EnoughRoom, NEW c \in Clients, Core(c), OrderInv(c), AccSide
  PROVE  OrderInv(c)'
<1>0. Acc \in Works /\ Acc \notin {Req(c), Rcv(c), Srv(c), Srcv(c)} /\ Home(Acc) = Server /\ Req(c) # Srcv(c) /\ Srv(c) # Srcv(c)
  BY AccName, Different
<1>1. CASE Continues(Acc) \/ Fails(Acc)
  BY <1>0, <1>1, MovingOrder
<1>2. CASE HearsUp(peer, Acc) \/ Accepted
  <2>1. \E g, r : Completes(Acc, g, r) /\ ret[Acc] = Unset /\ pc[Acc] # "new"
    <3>1. CASE HearsUp(peer, Acc)
      BY <3>1 DEF HearsUp, Takes, Reading
    <3>2. CASE Accepted
      BY <3>2 DEF Accepted
    <3> QED
      BY <1>2, <3>1, <3>2
  <2>2. \A r : Behind(Acc, c, r)
    BY <1>0 DEF Behind
  <2> QED
    BY <1>0, <2>1, <2>2, CompletesOrder
<1>3. CASE Listens \/ ReadsFirst \/ Dies
  <2>1. Others({Acc}) /\ Taken(Acc, <<>>) /\ crashed \subseteq crashed'
    <3>1. CASE Listens \/ ReadsFirst
      BY <3>1, Plainly DEF Listens, ReadsFirst, Plain
    <3>2. CASE Dies
      BY <3>2 DEF Dies
    <3> QED
      BY <1>3, <3>1, <3>2
  <2>2. Ordered(Acc)
    BY <1>0, <2>1, OrderedRuns
  <2> QED
    BY <1>0, <2>1, <2>2, ManyOrder
<1>4. CASE SetsUp
  <2>1. PICK d \in Clients : peer = d
    BY <1>4, AccReads
  <2> DEFINE v == Srcv(d)
             news == <<v>>
  <2>2. /\ Others({Acc, v}) /\ Taken(Acc, news) /\ crashed' = crashed /\ pc'[v] = "new"
    BY <1>4, <2>1 DEF SetsUp, RestSame
  <2>3. pc[v] = "none"
    BY <2>1 DEF AcceptInv, StartInv
  <2>4. v \in Works /\ Home(v) = Server /\ v \notin {Req(c), Rcv(c), Srv(c)} /\ (c # d => v # Srcv(c))
    BY Names, Different
  <2>5. news \in Seq(Works) /\ Once(news) /\ DOMAIN news = {1} /\ news[1] = v
    BY <2>4, SingleOnce
  <2>6. \A i \in DOMAIN news : Home(news[i]) = Home(Acc) /\ ~Ready(news[i]) /\ pc[news[i]] # "new"
    BY <1>0, <2>3, <2>4, <2>5 DEF Ready
  <2> HIDE DEF news
  <2>7. Ordered(Acc)
    BY <1>0, <2>2, <2>5, <2>6, OrderedTaken
  <2>8. c = d => ~Late(Srv(c), Srcv(c))'
    BY <2>2 DEF Late, Reading
  <2>9. /\ {Acc, v} \cap {Req(c), Rcv(c)} = {}
        /\ c # d => {Acc, v} \cap {Srv(c), Srcv(c)} = {}
    BY <1>0, <2>4
  <2> QED
    BY <1>0, <2>2, <2>7, <2>8, <2>9, ManyOrder
<1> QED
  BY <1>1, <1>2, <1>3, <1>4 DEF AccSide

LEMMA EffectOrder ==
  ASSUME TypeInv, AcceptInv, QueueInv, WaitInv, EnoughRoom, \A d \in Clients : Core(d) /\ OrderInv(d), Effect,
         NEW c \in Clients
  PROVE  OrderInv(c)'
<1>1. ASSUME NEW d \in Clients, SmallStep(d) PROVE OrderInv(c)'
  <2>0. {Clt(d), Req(d), Rcv(d), Srcv(d), Srv(d)} \subseteq Works
    BY Names
  <2>1. CASE \E w \in {Clt(d), Req(d), Rcv(d), Srcv(d), Srv(d)} : Continues(w) \/ Fails(w) \/ Confirms(w)
    BY <2>0, <2>1, MovingOrder
  <2>6. CASE SendsUp(d, Clt(d)) \/ SendsUp(d, Req(d)) \/ SendsDown(d)
    BY <2>6, SendsOrder
  <2>2. CASE Timed(Req(d))
    BY <2>2, EndsOrder
  <2>3. CASE HearsDown(d) \/ HearsUp(d, Srcv(d))
    BY <2>3, HearsOrder
  <2>4. CASE Crashes(d)
    BY <2>4, CrashesOrder
  <2>5. CASE \/ Requests(d) \/ Stops(d) \/ Gets(Req(d)) \/ Gets(Srv(d)) \/ Sleeps(Req(d)) \/ Sleeps(Srv(d))
             \/ GivesUp(Req(d)) \/ GivesUp(Srv(d))
             \/ Greets(d) \/ ReadsOn(Rcv(d)) \/ ReadsOn(Srcv(d)) \/ Leaves(Rcv(d)) \/ Leaves(Srcv(d))
    BY <2>5, LightOrder
  <2> QED
    BY <1>1, <2>1, <2>2, <2>3, <2>4, <2>5, <2>6 DEF SmallStep
<1>2. ASSUME NEW d \in Clients, LargeStep(d) PROVE OrderInv(c)'
  <2>1. CASE Dials(d)
    BY <2>1, LightOrder
  <2>2. CASE Refused(d) \/ Connected(d)
    BY <2>2, EndsOrder
  <2>3. CASE Begins(d)
    BY <2>3, BeginsOrder
  <2>4. CASE Deals(Rcv(d), Req(d), FALSE) \/ Deals(Srcv(d), Srv(d), pc[Srv(d)] = "none")
    BY <2>4, DealsOrder
  <2> QED
    BY <1>2, <2>1, <2>2, <2>3, <2>4 DEF LargeStep
<1>3. ASSUME NEW d \in Clients, Broken(d) PROVE OrderInv(c)'
  BY <1>3, BrokenOrder
<1>4. CASE AccSide
  BY <1>4, AccOrder
<1> QED
  BY <1>1, <1>2, <1>3, <1>4, Sides DEF Effect

-----------------------------------------------------------------------------
(* The works that wait, and those that are woken *)

LEMMA WaitKept ==
  ASSUME WaitInv, NEW W, Others(W), handler \subseteq handler',
         \A w \in W \cap LightWorks : pc'[w] = "wait" => pc[w] = "wait" \/ w \in handler'
  PROVE  WaitInv'
<1>1. SUFFICES ASSUME NEW w \in LightWorks, pc'[w] = "wait" PROVE w \in handler'
  BY DEF WaitInv
<1>2. w \in Works
  BY LightNames
<1>3. CASE w \in W
  BY <1>1, <1>3 DEF WaitInv
<1>4. CASE w \notin W
  <2>1. pc[w] = "wait"
    BY <1>1, <1>2, <1>4 DEF Others, Same
  <2> QED
    BY <2>1 DEF WaitInv
<1> QED
  BY <1>3, <1>4

LEMMA WaitRuns ==
  ASSUME WaitInv, NEW w, NEW at, NEW n, NEW g, Runs(w, at, n, g), handler \subseteq handler',
         at # "wait" \/ w \in handler'
  PROVE  WaitInv'
<1>1. Others({w}) /\ pc'[w] = at
  BY Plainly
<1> QED
  BY <1>1, WaitKept

LEMMA WaitCompletes ==
  ASSUME WaitInv, NEW w, NEW g, NEW r, Completes(w, g, r)
  PROVE  WaitInv' /\ strays' = strays
<1>1. Others({w}) /\ pc'[w] = pc[w] /\ handler' = handler /\ strays' = strays
  BY DEF Completes, Sets, LightSame, RestSame
<1> QED
  BY <1>1, WaitKept

LEMMA MovingWait ==
  ASSUME WaitInv, NEW w, Continues(w) \/ Fails(w) \/ Confirms(w)
  PROVE  WaitInv' /\ strays' = strays
<1>1. CASE Continues(w)
  <2>1. PICK at, n, g : Plain(w, at, n, g) /\ at # "wait"
    BY <1>1 DEF Continues, Moving, Writing, Reading
  <2>2. Runs(w, at, n, g) /\ handler' = handler
    BY <2>1 DEF Plain, LightSame
  <2> QED
    BY <2>1, <2>2, WaitRuns, Plainly
<1>2. CASE Fails(w) \/ Confirms(w)
  BY <1>2, WaitCompletes DEF Fails, Confirms
<1> QED
  BY <1>1, <1>2

LEMMA SmallWait ==
  ASSUME WaitInv, NEW d \in Clients, SmallStep(d)
  PROVE  WaitInv' /\ strays' = strays
<1>1. CASE \E w \in {Clt(d), Req(d), Rcv(d), Srcv(d), Srv(d)} : Continues(w) \/ Fails(w) \/ Confirms(w)
  BY <1>1, MovingWait
<1>2. CASE SendsUp(d, Clt(d)) \/ SendsUp(d, Req(d)) \/ SendsDown(d)
  <2>1. PICK w, r : Gives(w, r)
    BY <1>2 DEF SendsUp, SendsDown
  <2>2. Others({w}) /\ pc'[w] = pc[w] /\ handler' = handler /\ strays' = strays
    BY <2>1 DEF Gives, Sets, LightSame, RestSame
  <2> QED
    BY <2>2, WaitKept
<1>9. CASE Timed(Req(d))
  BY <1>9, WaitCompletes DEF Timed
<1>3. CASE HearsDown(d) \/ HearsUp(d, Srcv(d))
  <2>1. \E w, g, r : Completes(w, g, r)
    BY <1>3 DEF HearsDown, HearsUp, Takes
  <2> QED
    BY <2>1, WaitCompletes
<1>4. CASE Crashes(d)
  <2>1. Others({Clt(d)}) /\ pc'[Clt(d)] = "done" /\ handler' = handler /\ strays' = strays
    BY <1>4 DEF Crashes, Sets, LightSame
  <2> QED
    BY <2>1, WaitKept
<1>5. CASE \/ Requests(d) \/ Stops(d) \/ Gets(Req(d)) \/ Gets(Srv(d))
           \/ GivesUp(Req(d)) \/ GivesUp(Srv(d))
           \/ Greets(d) \/ ReadsOn(Rcv(d)) \/ ReadsOn(Srcv(d)) \/ Leaves(Rcv(d)) \/ Leaves(Srcv(d))
  <2>1. \E w, at, n, g : Runs(w, at, n, g) /\ at # "wait" /\ handler' = handler
    <3>1. CASE Requests(d)
      BY <3>1 DEF Requests
    <3>2. CASE Gets(Req(d)) \/ Gets(Srv(d))
      BY <3>2 DEF Gets, Uses, Serves
    <3>3. CASE GivesUp(Req(d)) \/ GivesUp(Srv(d))
      BY <3>3 DEF GivesUp, Plain, LightSame
    <3>4. CASE Stops(d) \/ Greets(d) \/ ReadsOn(Rcv(d)) \/ ReadsOn(Srcv(d)) \/ Leaves(Rcv(d)) \/ Leaves(Srcv(d))
      BY <3>4 DEF Stops, Greets, ReadsOn, Leaves, Plain, LightSame
    <3> QED
      BY <1>5, <3>1, <3>2, <3>3, <3>4
  <2> QED
    BY <2>1, WaitRuns, Plainly
<1>6. ASSUME NEW w \in {Req(d), Srv(d)}, Sleeps(w) PROVE WaitInv' /\ strays' = strays
  <2>1. Runs(w, "wait", 0, got[w]) /\ handler' = handler \cup {w}
    BY <1>6 DEF Sleeps
  <2> QED
    BY <2>1, WaitRuns, Plainly
<1> QED
  BY <1>9, <1>1, <1>2, <1>3, <1>4, <1>5, <1>6 DEF SmallStep

LEMMA LargeWait ==
  ASSUME TypeInv, AcceptInv, QueueInv, WaitInv, NEW d \in Clients, Core(d), OrderInv(d), LargeStep(d)
  PROVE  WaitInv' /\ strays' = strays
<1>1. CASE Dials(d)
  <2>1. Runs(Clt(d), "connect", 0, got[Clt(d)]) /\ handler' = handler
    BY <1>1 DEF Dials, Plain, LightSame
  <2> QED
    BY <2>1, WaitRuns, Plainly
<1>2. CASE Refused(d) \/ Connected(d)
  <2>1. \E w, g, r : Completes(w, g, r)
    BY <1>2 DEF Refused, Connected
  <2> QED
    BY <2>1, WaitCompletes
<1>3. CASE Begins(d)
  <2>1. Others({Clt(d), Req(d), Rcv(d)})
    BY <1>3 DEF Begins, Others, Same, TypeInv, WorkType
  <2>2. /\ pc'[Clt(d)] = "done" /\ pc'[Req(d)] = "new" /\ pc'[Rcv(d)] = "new"
        /\ handler' = handler /\ strays' = strays
    BY <1>3 DEF Begins, LightSame, RestSame
  <2> QED
    BY <2>1, <2>2, WaitKept
<1>4. CASE Deals(Rcv(d), Req(d), FALSE)
  <2>1. /\ Others({Rcv(d), Req(d)}) /\ pc'[Rcv(d)] = "rhdr" /\ pc'[Req(d)] = pc[Req(d)] /\ handler' = handler
    BY <1>4 DEF Deals, Deal, Sets
  <2>2. strays' = strays
    BY <1>4, ResponseAwaited
  <2> QED
    BY <2>1, <2>2, WaitKept
<1>5. CASE Deals(Srcv(d), Srv(d), pc[Srv(d)] = "none")
  <2>1. /\ Others({Srcv(d), Srv(d)}) /\ pc'[Srcv(d)] = "rhdr" /\ pc'[Srv(d)] \in {"new", pc[Srv(d)]} /\ handler' = handler
    BY <1>5 DEF Deals, Deal, Sets
  <2>2. strays' = strays
    BY <1>5, RequestAwaited
  <2> QED
    BY <2>1, <2>2, WaitKept
<1> QED
  BY <1>1, <1>2, <1>3, <1>4, <1>5 DEF LargeStep

LEMMA AccWait ==
  ASSUME TypeInv, WaitInv, AccSide
  PROVE  WaitInv' /\ strays' = strays
<1>1. CASE Continues(Acc) \/ Fails(Acc)
  BY <1>1, MovingWait
<1>2. CASE HearsUp(peer, Acc) \/ Accepted
  <2>1. \E w, g, r : Completes(w, g, r)
    BY <1>2 DEF HearsUp, Takes, Accepted
  <2> QED
    BY <2>1, WaitCompletes
<1>3. CASE Listens \/ ReadsFirst
  <2>1. \E at, n, g : Runs(Acc, at, n, g) /\ at # "wait" /\ handler' = handler
    BY <1>3 DEF Listens, ReadsFirst, Plain, LightSame
  <2> QED
    BY <2>1, WaitRuns, Plainly
<1>4. CASE Dies
  <2>1. Others({Acc}) /\ pc'[Acc] = "done" /\ handler' = handler /\ strays' = strays
    BY <1>4 DEF Dies, Sets, LightSame
  <2> QED
    BY <2>1, WaitKept
<1>5. CASE SetsUp
  <2>1. /\ Others({Acc, Srcv(peer)}) /\ pc'[Acc] = "accept" /\ pc'[Srcv(peer)] = "new"
        /\ handler' = handler /\ strays' = strays
    BY <1>5 DEF SetsUp, Sets, LightSame, RestSame
  <2> QED
    BY <2>1, WaitKept
<1> QED
  BY <1>1, <1>2, <1>3, <1>4, <1>5 DEF AccSide

LEMMA EffectWait ==
  ASSUME TypeInv, AcceptInv, QueueInv, WaitInv, \A d \in Clients : Core(d) /\ OrderInv(d), Effect
  PROVE  WaitInv' /\ strays' = strays
<1>1. ASSUME NEW d \in Clients, Broken(d) PROVE WaitInv' /\ strays' = strays
  <2>1. Others({}) /\ handler' = handler /\ strays' = strays
    BY <1>1 DEF Broken, LightSame, RestSame
  <2> QED
    BY <2>1, WaitKept
<1> QED
  BY <1>1, Sides, SmallWait, LargeWait, AccWait DEF Effect

-----------------------------------------------------------------------------
(* The invariant *)

Inv == TypeInv /\ AcceptInv /\ WaitInv /\ WorksInv

LEMMA InvParts ==
  WorksInv <=> strays = {} /\ QueueInv /\ \A c \in Clients : Core(c) /\ OrderInv(c)
BY DEF WorksInv, LinkInv, Core

LEMMA StepInv ==
  ASSUME EnoughRoom, Inv, Next
  PROVE  Inv'
<1>1. TypeInv /\ AcceptInv /\ WaitInv /\ QueueInv /\ strays = {} /\ \A c \in Clients : Core(c) /\ OrderInv(c)
  BY InvParts DEF Inv
<1>2. Effect
  BY <1>1, StepEffect
<1>3. TypeInv' /\ AcceptInv' /\ QueueInv'
  BY <1>1, <1>2, EffectTypes
<1>4. WaitInv' /\ strays' = strays
  BY <1>1, <1>2, EffectWait
<1>5. \A c \in Clients : Core(c)'
  BY <1>1, <1>2, EffectCore
<1>6. \A c \in Clients : OrderInv(c)'
  BY <1>1, <1>2, EffectOrder
<1>7. WorksInv'
  BY <1>1, <1>3, <1>4, <1>5, <1>6 DEF WorksInv, LinkInv, Core
<1> QED
  BY <1>3, <1>4, <1>7 DEF Inv

(* Steps that change nothing. *)
LEMMA StillInv ==
  ASSUME Inv, UNCHANGED vars
  PROVE  Inv'
<1>1. UNCHANGED <<setup, pc, rem, got, ret, works_q, up, down, alive, backlog, peer, msg_q, handler,
                  round, answered, strays, crashed>>
  BY DEF vars, state, wvars, nvars, lvars
<1>2. /\ \A w : /\ (Sound(w)' <=> Sound(w)) /\ Where(w)' = Where(w) /\ In(w)' = In(w) /\ Res(w)' = Res(w)
                /\ (Writing(w)' <=> Writing(w)) /\ (Reading(w)' <=> Reading(w)) /\ (Ready(w)' <=> Ready(w))
                /\ Moved(w)' = Moved(w)
      /\ All' = All /\ \A m, a, b : Cut(m, a, b)' = Cut(m, a, b)
  BY <1>1, CutSame DEF Sound, ResultOf, GotBy, Part, Moved, Told, AtHeader, Where, In, Res, Writing, Reading, Ready, Sending, All
<1>3. TypeInv'
  BY <1>1, <1>2 DEF Inv, TypeInv, WorkType, WorkInv, NetType, LightType
<1>4. AcceptInv'
  BY <1>1 DEF Inv, AcceptInv, StartInv, Unconnected
<1>5. WaitInv'
  BY <1>1 DEF Inv, WaitInv
<1>6. QueueInv'
  BY <1>1, <1>2 DEF Inv, WorksInv, QueueInv
<1>7. ASSUME NEW c \in Clients PROVE LinkInv(c)'
  <2>0. LinkInv(c)
    BY DEF Inv, WorksInv
  <2>1. /\ Took(c)' = Took(c) /\ Dealt(c)' = Dealt(c) /\ Back(c)' = Back(c)
        /\ (Asks(c)' <=> Asks(c)) /\ (Answers(c)' <=> Answers(c))
        /\ HelloIn(c)' = HelloIn(c) /\ HelloOut(c)' = HelloOut(c)
    BY <1>1, <1>2 DEF Took, Dealt, Back, Asks, Answers, HelloIn, HelloOut
  <2>2. CountInv(c)'
    BY <1>1, <2>0, <2>1 DEF LinkInv, CountInv
  <2>3. PlaceInv(c)'
    BY <1>1, <1>2, <2>0, <2>1 DEF LinkInv, PlaceInv
  <2>4. FlowInv(c)'
    BY <1>1, <1>2, <2>0, <2>1 DEF LinkInv, FlowInv, Flow
  <2>5. WireInv(c)'
    BY <1>1, <1>2, <2>0, <2>1 DEF LinkInv, WireInv, OnWay, WorksOf
  <2>6. OrderInv(c)'
    BY <1>1, <1>2, <2>0 DEF LinkInv, OrderInv, Follows, Precedes
  <2> QED
    BY <2>2, <2>3, <2>4, <2>5, <2>6 DEF LinkInv
<1> QED
  BY <1>1, <1>3, <1>4, <1>5, <1>6, <1>7 DEF Inv, WorksInv

(* The start: the accepting work and the clients' are new and queued, nothing else is. *)
LEMMA InitType ==
  ASSUME Init
  PROVE  TypeInv
<1>1. /\ setup \in Setups /\ setup.on \subseteq Clients
  BY SetupSize DEF Init
<1>2. ASSUME NEW p \in Procs PROVE works_q[p] \in Seq(Works)
  <2>1. works_q[p] = CASE p = Server -> <<Acc>> [] p \in setup.on -> <<Clt(p)>> [] OTHER -> <<>>
    BY DEF Init, Acc, Clt
  <2>2. CASE p = Server
    <3>1. works_q[p] = <<Acc>> /\ <<Acc>> \in Seq(Works)
      BY <1>1, <2>1, <2>2, Constants, AccName
    <3> QED
      BY <3>1
  <2>3. CASE p # Server /\ p \in setup.on
    <3>1. works_q[p] = <<Clt(p)>> /\ Clt(p) \in Works
      BY <1>1, <2>1, <2>3, Names
    <3> QED
      BY <3>1
  <2>4. CASE p # Server /\ p \notin setup.on
    <3>1. works_q[p] = <<>> /\ <<>> \in Seq(Works)
      BY <2>1, <2>4
    <3> QED
      BY <3>1
  <2> QED
    BY <2>2, <2>3, <2>4
<1>3. WorkType
  <2>1. works_q = [p \in Procs |-> works_q[p]]
    BY DEF Init
  <2>2. works_q \in [Procs -> Seq(Works)]
    BY <1>2, <2>1
  <2>3. /\ DOMAIN pc = Works /\ DOMAIN rem = Works /\ DOMAIN got = Works /\ DOMAIN ret = Works
        /\ \A w \in Works : rem[w] \in Int /\ ret[w] \in Int
        /\ crashed \subseteq Procs
    BY DEF Init, Unset
  <2> QED
    BY <1>1, <2>2, <2>3 DEF WorkType
<1>4. WorkInv
  <2>1. SUFFICES ASSUME NEW w \in Works PROVE Sound(w)
    BY DEF WorkInv
  <2>2. /\ pc[w] = IF w[1] \in {"client", "accept"} THEN "new" ELSE "none"
        /\ got[w] = <<>> /\ ret[w] = Unset
    BY <2>1 DEF Init
  <2>3. w[1] \in {"client", "request", "recv", "srecv", "serve", "accept"}
    BY <2>1 DEF Works
  <2>4. pc[w] \in PlacesOf(w[1])
    BY <2>2, <2>3 DEF PlacesOf
  <2>5. ~Writing(w) /\ ~Reading(w)
    BY <2>2 DEF Writing, Reading
  <2>6. ResultOf(w)
    BY <2>2, <2>5 DEF ResultOf
  <2>7. GotBy(w)
    <3>1. <<>> \in Seq(Nat) /\ <<>> \in Seq(Units) /\ Len(<<>>) = 0
      OBVIOUS
    <3> QED
      BY <2>2, <2>5, <3>1 DEF GotBy
  <2> QED
    BY <2>4, <2>6, <2>7 DEF Sound
<1>5. NetType
  <2>1. pc[Acc] = "new"
    BY AccName DEF Init
  <2>2. <<>> \in Seq(Units) /\ <<>> \in Seq(Clients)
    OBVIOUS
  <2> QED
    BY <2>1, <2>2 DEF Init, NetType, Reading
<1>6. LightType
  <2>1. <<>> \in Seq(Messages)
    OBVIOUS
  <2> QED
    BY <2>1 DEF Init, LightType
<1> QED
  BY <1>3, <1>4, <1>5, <1>6 DEF TypeInv

LEMMA InitInv == ASSUME Init PROVE Inv
<1>1. TypeInv
  BY InitType
<1>2. ASSUME NEW c \in Clients
      PROVE  /\ pc[Clt(c)] = "new" /\ pc[Req(c)] = "none" /\ pc[Rcv(c)] = "none"
             /\ pc[Srcv(c)] = "none" /\ pc[Srv(c)] = "none"
             /\ got[Srcv(c)] = <<>> /\ got[Rcv(c)] = <<>> /\ got[Srv(c)] = <<>>
             /\ up[c] = <<>> /\ down[c] = <<>> /\ msg_q[Req(c)] = <<>> /\ msg_q[Srv(c)] = <<>>
             /\ round[c] = 0 /\ answered[c] = 0 /\ peer # c
  BY <1>2, Names, Constants DEF Init
<1>3. pc[Acc] = "new" /\ alive = {} /\ backlog = <<>> /\ peer = None /\ handler = {} /\ strays = {} /\ crashed = {}
  BY AccName DEF Init
<1>4. \A w \in Works : pc[w] \in {"new", "none"} /\ (pc[w] = "new" <=> w[1] \in {"client", "accept"})
  BY DEF Init
<1>5. AcceptInv
  <2>1. DOMAIN backlog = {}
    BY <1>3
  <2>2. \A c \in Clients : StartInv(c)
    BY <1>2, <1>3, <2>1 DEF StartInv
  <2> QED
    BY <1>3, <2>1, <2>2 DEF AcceptInv
<1>6. WaitInv
  BY <1>4, LightNames DEF WaitInv
<1>7. QueueInv
  <2>1. SUFFICES ASSUME NEW p \in Procs
                 PROVE  /\ Once(works_q[p])
                        /\ \A i \in DOMAIN works_q[p] : Home(works_q[p][i]) = p /\ pc[works_q[p][i]] = "new"
    BY <1>4 DEF QueueInv, Ready, InQueue
  <2>2. works_q[p] = CASE p = Server -> <<Acc>> [] p \in setup.on -> <<Clt(p)>> [] OTHER -> <<>>
    BY <2>1 DEF Init, Acc, Clt
  <2>3. CASE p = Server
    <3>0. setup.on \subseteq Clients
      BY SetupSize DEF Init
    <3>1. works_q[p] = <<Acc>>
      BY <2>2, <2>3, <3>0, Constants
    <3> QED
      BY <1>3, <2>3, <3>1, AccName DEF Once
  <2>4. CASE p # Server /\ p \in setup.on
    <3>1. works_q[p] = <<Clt(p)>>
      BY <2>2, <2>4
    <3>2. p \in Clients
      BY <2>1, <2>4 DEF Procs
    <3> QED
      BY <1>2, <3>1, <3>2, Names DEF Once
  <2>5. CASE p # Server /\ p \notin setup.on
    <3>1. works_q[p] = <<>>
      BY <2>2, <2>5
    <3> QED
      BY <3>1 DEF Once
  <2> QED
    BY <2>3, <2>4, <2>5
<1>8. ASSUME NEW c \in Clients PROVE LinkInv(c)
  <2>1. /\ \A w \in {Clt(c), Req(c), Rcv(c), Srcv(c), Srv(c)} : ~Writing(w) /\ ~Reading(w) /\ In(w) = All
        /\ \A w \in {Req(c), Rcv(c), Srcv(c), Srv(c)} : Where(w) = "none"
    BY <1>2 DEF Writing, Reading, In, Where
  <2>2. Took(c) = 0 /\ Dealt(c) = 0 /\ Back(c) = 0
    <3>1. Len(<<>>) = 0
      OBVIOUS
    <3> QED
      BY <1>2, <3>1 DEF Took, Dealt, Back
  <2>3. ~Asks(c) /\ ~Answers(c)
    BY <1>2, <2>2 DEF Asks, Answers
  <2>4. CountInv(c)
    BY <1>2, <2>2 DEF CountInv
  <2>5. PlaceInv(c)
    BY <1>2, <2>1, <2>2 DEF PlaceInv
  <2>6. FlowInv(c)
    BY <1>2, <2>1, <2>3 DEF FlowInv, Flow
  <2>7. WireInv(c)
    BY <1>3 DEF WireInv
  <2>8. OrderInv(c)
    BY <2>1 DEF OrderInv, Follows
  <2> QED
    BY <2>4, <2>5, <2>6, <2>7, <2>8 DEF LinkInv
<1> QED
  BY <1>1, <1>3, <1>5, <1>6, <1>7, <1>8 DEF Inv, WorksInv

LEMMA InvHolds == ASSUME EnoughRoom PROVE Spec => []Inv
<1>1. Init => Inv
  BY InitInv
<1>2. Inv /\ [Next]_vars => Inv'
  BY StepInv, StillInv
<1> QED
  BY <1>1, <1>2, PTL DEF Spec

-----------------------------------------------------------------------------
(* Theorems *)

(* Every work is in a place of its kind, with a result and units read that its operation
   can have, and the streams, queues and counters hold what belongs in them. *)
THEOREM TypeCorrect == ASSUME EnoughRoom PROVE Spec => []TypeInv
<1>1. Inv => TypeInv
  BY DEF Inv
<1> QED
  BY <1>1, InvHolds, PTL

(* Worker::do_cur_work resumes a work only for what it waits for: no message is dealt to
   a light channel, handler set, whose work is in a write or a timer. *)
THEOREM NoStrayWakeHolds == ASSUME EnoughRoom PROVE Spec => []NoStrayWake
<1>1. Inv => NoStrayWake
  BY DEF Inv, WorksInv, NoStrayWake
<1> QED
  BY <1>1, InvHolds, PTL

(* A client takes the response to the request it has just sent. *)
THEOREM OwnResponseHolds == ASSUME EnoughRoom PROVE Spec => []OwnResponse
<1>1. Inv => OwnResponse
  <2>1. SUFFICES ASSUME Inv, NEW c \in Clients PROVE answered[c] \in {round[c], round[c] - 1}
    BY DEF OwnResponse
  <2>2. TypeInv /\ CountInv(c)
    BY <2>1 DEF Inv, WorksInv, LinkInv
  <2>3. /\ answered[c] \in Nat /\ round[c] \in Nat /\ Back(c) \in Nat /\ Took(c) \in Nat /\ Dealt(c) \in Nat
    BY <2>2, CountTypes
  <2>4. answered[c] <= round[c] /\ round[c] <= answered[c] + 1
    BY <2>2, <2>3 DEF CountInv
  <2> QED
    BY <2>3, <2>4
<1> QED
  BY <1>1, InvHolds, PTL

LEMMA CutPrefix ==
  ASSUME TypeInv, NEW w \in Works, Reading(w), got[w] # <<>>, NEW m \in Messages,
         got[w] = Cut(m, 0, Len(got[w]))
  PROVE  IsPrefix(got[w], UnitsOf(Message(w)))
<1>1. w[1] # "serve"
  BY Kinds
<1>2. got[w] \in Seq(Units) /\ Len(got[w]) = Moved(w) /\ Moved(w) \in 0 .. All
  BY <1>1, MovedRange DEF TypeInv, WorkInv, Sound, GotBy
<1> DEFINE n == Len(got[w])
<1>3. n \in 1 .. All /\ All \in Nat
  BY <1>2, EmptySeq, SizeFacts
<1>4. Message(w) = m
  <2>1. Head(Cut(m, 0, n))[1] = m
    BY <1>3, CutFirst, SizeFacts
  <2> QED
    BY <2>1 DEF Message
<1>5. got[w] = SubSeq(UnitsOf(m), 1, n)
  BY DEF Cut
<1>6. SubSeq(got[w], 1, n) = got[w]
  BY <1>2, SubSeqFull
<1>7. Len(UnitsOf(m)) = All
  BY MessageUnits, SizeFacts
<1> QED
  BY <1>3, <1>4, <1>5, <1>6, <1>7 DEF IsPrefix

(* What a read has of a message is the beginning of one message. *)
THEOREM FramedHolds == ASSUME EnoughRoom PROVE Spec => []Framed
<1>1. Inv => Framed
  <2>1. SUFFICES ASSUME Inv, NEW w \in Works, Reading(w), got[w] # <<>>
                 PROVE  IsPrefix(got[w], UnitsOf(Message(w)))
    BY DEF Framed
  <2>2. TypeInv /\ \A c \in Clients : FlowInv(c)
    BY <2>1 DEF Inv, WorksInv, LinkInv
  <2>3. w[1] \in {"recv", "srecv", "accept"}
    BY <2>1, <2>2, Kinds
  <2>4. CASE w = Acc
    <3>1. PICK c \in Clients : peer = c
      BY <2>1, <2>2, <2>4 DEF TypeInv, NetType
    <3> QED
      BY <2>1, <2>2, <2>4, <3>1, HelloName, CutPrefix DEF FlowInv
  <2>5. CASE w # Acc
    <3>1. PICK c \in Clients : w = Rcv(c) \/ w = Srcv(c)
      BY <2>3, <2>5, WorkCases
    <3>2. CASE w = Rcv(c)
      <4>1. <<"res", Took(c)>> \in Messages
        BY <2>2, ChannelTypes
      <4>2. got[w] = Cut(<<"res", Took(c)>>, 0, Len(got[w]))
        BY <2>1, <2>2, <3>2 DEF FlowInv, Flow
      <4> QED
        BY <2>1, <2>2, <4>1, <4>2, CutPrefix
    <3>3. CASE w = Srcv(c)
      <4>1. <<"req", round[c]>> \in Messages
        BY <2>2, ChannelTypes
      <4>2. got[w] = Cut(<<"req", round[c]>>, 0, Len(got[w]))
        BY <2>1, <2>2, <3>3 DEF FlowInv, Flow
      <4> QED
        BY <2>1, <2>2, <4>1, <4>2, CutPrefix
    <3> QED
      BY <3>1, <3>2, <3>3
  <2> QED
    BY <2>4, <2>5
<1> QED
  BY <1>1, InvHolds, PTL

=============================================================================
