---------------------------- MODULE ImChat_proofs ----------------------------
(***************************************************************************)
(* The safety properties of ImChat, for any users, clients, commands typed  *)
(* and connections lost.                                                    *)
(*                                                                         *)
(* Layers, each preserved with the help of those above it:                  *)
(*   TypeInv    types; the requests in the queue are commands of a script   *)
(*              or attempts to pull, and the reader adds messages only for  *)
(*              a command that sends one                                    *)
(*   CallInv    the pull that the reader is calling stays the first of its  *)
(*              user's list, and only a user with an entry has pulls in it  *)
(*   FlowInv    each request waits or is served once, for somebody who      *)
(*              waits for it; a client has one pull under way at most; the  *)
(*              waiting pulls of a user are those suspended, each once,     *)
(*              and the one that is being called (RegisteredOnce)           *)
(*   OrderInv   what a client displayed, and what a pull of its found, are  *)
(*              parts of the messages of its user (InOrder)                 *)
(*   LogInv     a message is of a command that was made, and in no list     *)
(*              before the reader adds it; the two lists of a pair of users *)
(*              differ by the message that is being added, the last of the  *)
(*              receiver's (LogsAgree)                                      *)
(*   AnswerInv  a client is told of each command in turn, of those that are *)
(*              refused, too, and what it was told made the contacts that   *)
(*              the server has (ContactsAsTold)                             *)
(* A step is looked at through Effect: what a client does, an action of the *)
(* reader, of which those that end a command share Returns, or a pull's.    *)
(***************************************************************************)
EXTENDS ImChat, TLAPS

(* A request of a command of the script, or of an attempt to pull. *)
Good(r) == /\ r \in Request
           /\ r.op = "cmd" => r.n \in DOMAIN Script[r.c]
           /\ r.op = "pull" => r.n \in Attempt(r.c)
GoodRequest == {r \in Request : Good(r)}

Busy == {"serve", "notify", "pop", "copy", "notifySender", "popSender"}
Adding == {"notify", "pop", "copy", "notifySender", "popSender"}
Removing == {"pop", "popSender"}
ReaderState == [pc : {"idle"}] \cup [pc : Busy, req : GoodRequest]
PullPc == {"none", "queued", "find", "null", "read", "register", "push", "insert", "wait",
           "again", "answer", "lost"}
PullState == [pc : PullPc, from : Nat, list : Seq(Message)]

SetupType == setup \in Setups
ListType == /\ msgs \in [Users -> Seq(Message)]
            /\ waiting \in [Users -> Seq(Pulls)] /\ listed \subseteq Users
            /\ queue \in Seq(GoodRequest)
ReaderType == /\ rd \in ReaderState
              /\ rd.pc \in Adding => rd.req.op = "cmd" /\ Cmd.op = "send"
PullType == /\ DOMAIN co = Clients
            /\ \A c \in Clients : DOMAIN co[c] = Attempt(c)
            /\ \A c \in Clients : \A k \in Attempt(c) : co[c][k] \in PullState
Contact == [id : Users, name : Names]
Answers == [ok : BOOLEAN, list : SUBSET Contact]
AccountType == /\ users \subseteq Users /\ sessions \subseteq Users
               /\ contacts \in [Users -> SUBSET Contact]
               /\ told \in [Clients -> Seq(Answers)]
               /\ short \in Nat /\ refused \subseteq [c : Clients, n : Nat]
ClientType == /\ cmd \in [Clients -> [n : Nat, busy : BOOLEAN]]
              /\ pull \in [Clients -> [k : Nat, busy : BOOLEAN]]
              /\ \A c \in Clients : pull[c].k \in Attempt(c)
              /\ index \in [Clients -> Nat]
              /\ got \in [Clients -> Seq(Message)]

TypeInv == SetupType /\ ListType /\ ReaderType /\ PullType /\ ClientType /\ AccountType

-----------------------------------------------------------------------------
(* Sequences *)

LEMMA AppendFact ==
    ASSUME NEW S, NEW s \in Seq(S), NEW x \in S
    PROVE  /\ Append(s, x) \in Seq(S) /\ Len(Append(s, x)) = Len(s) + 1 /\ Len(s) \in Nat
           /\ DOMAIN s = 1 .. Len(s) /\ DOMAIN Append(s, x) = 1 .. Len(s) + 1
           /\ \A i \in 1 .. Len(s) : Append(s, x)[i] = s[i]
           /\ Append(s, x)[Len(s) + 1] = x
OBVIOUS

LEMMA TailFact ==
    ASSUME NEW S, NEW s \in Seq(S), s # <<>>
    PROVE  /\ Head(s) \in S /\ Tail(s) \in Seq(S) /\ Len(Tail(s)) = Len(s) - 1
           /\ Len(s) \in Nat \ {0} /\ DOMAIN s = 1 .. Len(s) /\ DOMAIN Tail(s) = 1 .. Len(s) - 1
           /\ Head(s) = s[1] /\ \A i \in 1 .. Len(s) - 1 : Tail(s)[i] = s[i + 1]
OBVIOUS

LEMMA EmptyFact == ASSUME NEW S PROVE <<>> \in Seq(S) /\ Len(<<>>) = 0 /\ DOMAIN <<>> = {}
OBVIOUS

(* The elements of s from i + 1. *)
LEMMA RestFact ==
    ASSUME NEW S, NEW s \in Seq(S), NEW i \in Nat
    PROVE  LET t == SubSeq(s, i + 1, Len(s))
           IN  /\ t \in Seq(S)
               /\ i <= Len(s) => Len(t) = Len(s) - i
               /\ \A j \in 1 .. Len(t) : t[j] = s[i + j]
OBVIOUS

LEMMA ConcatFact ==
    ASSUME NEW S, NEW s \in Seq(S), NEW t \in Seq(S)
    PROVE  /\ s \o t \in Seq(S) /\ Len(s \o t) = Len(s) + Len(t)
           /\ \A i \in 1 .. Len(s) : (s \o t)[i] = s[i]
           /\ \A i \in 1 .. Len(t) : (s \o t)[Len(s) + i] = t[i]
OBVIOUS

(* A sequence that agrees with another as far as it goes is a part of it. *)
LEMMA PrefixFact ==
    ASSUME NEW S, NEW s \in Seq(S), NEW t \in Seq(S), Len(t) <= Len(s),
           \A i \in 1 .. Len(t) : t[i] = s[i]
    PROVE  t = SubSeq(s, 1, Len(t))
<1> DEFINE u == SubSeq(s, 1, Len(t))
<1>1. u \in Seq(S) /\ Len(u) = Len(t) /\ \A i \in 1 .. Len(t) : u[i] = s[i]
  OBVIOUS
<1> HIDE DEF u
<1>2. u = t
  BY <1>1
<1> QED
  BY <1>2 DEF u

-----------------------------------------------------------------------------

LEMMA ConstantFacts ==
    /\ \A c \in Clients : UserOf[c] \in Users /\ Losses[c] \in Nat /\ 0 \in Attempt(c)
    /\ \A c \in Clients : \A k \in Attempt(c) : k \in Nat /\ [c |-> c, k |-> k] \in Pulls
    /\ \A p \in Pulls : p.c \in Clients /\ p.k \in Attempt(p.c) /\ p = [c |-> p.c, k |-> p.k]
<1>1. \A c \in Clients : UserOf[c] \in Users /\ Losses[c] \in Nat /\ 0 \in Attempt(c)
  BY ChatAssumption DEF Attempt
<1>2. \A c \in Clients : \A k \in Attempt(c) : k \in Nat /\ [c |-> c, k |-> k] \in Pulls
  BY DEF Attempt, Pulls
<1>3. \A p \in Pulls : p.c \in Clients /\ p.k \in Attempt(p.c) /\ p = [c |-> p.c, k |-> p.k]
  BY DEF Pulls
<1> QED
  BY <1>1, <1>2, <1>3

LEMMA ScriptFacts ==
    ASSUME SetupType
    PROVE  \A c \in Clients : /\ Script[c] \in Seq(Commands)
                              /\ \A n \in DOMAIN Script[c] : Script[c][n] \in Commands
                              /\ setup.api[c] \in {"grpc", "jsonrpc"}
<1>1. \A c \in Clients : Script[c] \in Seq(Commands) /\ setup.api[c] \in {"grpc", "jsonrpc"}
  BY ChatAssumption DEF SetupType, Script
<1> QED
  BY <1>1

LEMMA CommandFacts ==
    \A x \in Commands : /\ x.op = "send" => x.to \in Users
                        /\ x.op \in {"cont_add", "cont_del"} => x.id \in Users
                        /\ x.op = "cont_add" => x.name \in Names
BY DEF Commands

(* What the reader serves. *)
LEMMA ReaderFacts ==
    ASSUME TypeInv, rd.pc # "idle"
    PROVE  /\ rd.pc \in Busy /\ rd.req \in GoodRequest /\ Good(rd.req)
           /\ rd.req.c \in Clients /\ rd.req.n \in Nat /\ Me \in Users /\ Caller \in Clients
           /\ rd.req.op = "cmd" => Cmd \in Commands /\ rd.req.n \in DOMAIN Script[rd.req.c]
           /\ rd.req.op = "pull" => rd.req.n \in Attempt(rd.req.c)
<1>1. rd.pc \in Busy /\ rd.req \in GoodRequest /\ Good(rd.req)
  BY DEF TypeInv, ReaderType, ReaderState, GoodRequest
<1>2. rd.req.c \in Clients /\ rd.req.n \in Nat
  BY <1>1 DEF Good, Request
<1> QED
  BY <1>1, <1>2, ConstantFacts, ScriptFacts DEF Good, Cmd, Me, Caller, TypeInv

(* A step of a pull leaves the others alone. *)
LEMMA CoStep ==
    ASSUME PullType, NEW c \in Clients, NEW k \in Attempt(c), NEW r,
           co' = [co EXCEPT ![c][k] = r]
    PROVE  /\ co'[c][k] = r
           /\ \A d \in Clients : \A j \in Attempt(d) : d # c \/ j # k => co'[d][j] = co[d][j]
           /\ r \in PullState => PullType'
<1>1. DOMAIN co' = Clients /\ \A d \in Clients : DOMAIN co'[d] = Attempt(d)
  BY DEF PullType
<1>2. co'[c][k] = r /\ \A d \in Clients : \A j \in Attempt(d) : d # c \/ j # k => co'[d][j] = co[d][j]
  BY DEF PullType
<1> QED
  BY <1>1, <1>2 DEF PullType

(* A step that changes where a pull is. *)
LEMMA CoGoes ==
    ASSUME PullType, NEW c \in Clients, NEW k \in Attempt(c), NEW pc,
           co' = [co EXCEPT ![c][k].pc = pc]
    PROVE  /\ co'[c][k].pc = pc /\ co'[c][k].from = co[c][k].from /\ co'[c][k].list = co[c][k].list
           /\ \A d \in Clients : \A j \in Attempt(d) : d # c \/ j # k => co'[d][j] = co[d][j]
           /\ pc \in PullPc => PullType'
<1> DEFINE r == [co[c][k] EXCEPT !.pc = pc]
<1>1. co[c][k] \in PullState
  BY DEF PullType
<1>2. co' = [co EXCEPT ![c][k] = r]
  OBVIOUS
<1>3. r.pc = pc /\ r.from = co[c][k].from /\ r.list = co[c][k].list /\ (pc \in PullPc => r \in PullState)
  BY <1>1 DEF PullState
<1> HIDE DEF r
<1>4. /\ DOMAIN co' = Clients /\ \A d \in Clients : DOMAIN co'[d] = Attempt(d)
      /\ co'[c][k] = r
      /\ \A d \in Clients : \A j \in Attempt(d) : d # c \/ j # k => co'[d][j] = co[d][j]
  BY <1>2 DEF PullType
<1>5. pc \in PullPc => PullType'
  BY <1>3, <1>4 DEF PullType
<1> QED
  BY <1>3, <1>4, <1>5

-----------------------------------------------------------------------------
(* What a step does to the pulls, the queue and the reader: a command that the reader
   ends, its turn from the receiver to the sender, or an action as it stands. *)
Returns == /\ rd.pc # "idle" /\ rd.pc \notin Removing /\ rd.req.op = "cmd" /\ rd' = [pc |-> "idle"]
           /\ cmd' = [cmd EXCEPT ![Caller].busy = FALSE]
           /\ UNCHANGED <<short, refused, msgs, waiting, listed, queue, co, puller>>
Turn == /\ rd.pc = "notify" /\ Sender # Cmd.to
        /\ rd' = [rd EXCEPT !.pc = "copy"]
        /\ UNCHANGED <<short, refused, server, queue, co, client>>

Account == user_register \/ login \/ get_contact_list \/ add_contact \/ del_contact \/ Refuse
End == /\ rd.pc = "notifySender" \/ (rd.pc = "notify" /\ Sender = Cmd.to)
       /\ Return(TRUE, {}) /\ UNCHANGED server

LEMMA ReturnEffect == ASSUME TypeInv, Account \/ End PROVE Returns
<1>1. CASE Account
  <2>1. rd.pc = "serve" /\ rd.req.op = "cmd"
    BY <1>1 DEF Account, user_register, login, get_contact_list, add_contact, del_contact, Refuse,
                Serves
  <2>2. \E ok, list : Return(ok, list)
    BY <1>1 DEF Account, user_register, login, get_contact_list, add_contact, del_contact, Refuse
  <2>3. UNCHANGED <<msgs, waiting, listed>>
    BY <1>1 DEF Account, user_register, login, get_contact_list, add_contact, del_contact, Refuse,
                server, account
  <2> QED
    BY <2>1, <2>2, <2>3 DEF Returns, Return, Removing
<1>2. CASE End
  <2>1. rd.pc # "idle" /\ rd.req.op = "cmd"
    BY <1>2 DEF End, TypeInv, ReaderType, Adding
  <2> QED
    BY <1>2, <2>1 DEF End, Returns, Return, server, account, Removing
<1> QED
  BY <1>1, <1>2

LEMMA DoneEffect == ASSUME NotifyDone PROVE Turn \/ End
<1>1. rd.pc \in {"notify", "notifySender"} /\ Proceed /\ UNCHANGED server
  BY DEF NotifyDone
<1> QED
  BY <1>1 DEF Proceed, Turn, End, client

Effect == \/ \E c \in Clients : \/ Command(c) \/ CommandRefused(c)
                                 \/ Pull(c) \/ PullRefused(c) \/ Break(c)
          \/ Take \/ Account \/ Post \/ Copy \/ Notify \/ PopFront \/ Turn \/ End \/ StartPull
          \/ \E c \in Clients : \E k \in Attempt(c) : Coroutine(c, k)

LEMMA NextEffect == ASSUME Next PROVE Effect /\ setup' = setup
<1>1. setup' = setup
  BY DEF Next
<1>2. CASE \E c \in Clients : \/ Command(c) \/ CommandRefused(c)
                              \/ Pull(c) \/ PullRefused(c) \/ Break(c)
  BY <1>1, <1>2 DEF Effect
<1>3. CASE Reader
  BY <1>1, <1>3, DoneEffect DEF Effect, Reader, Account
<1>4. CASE \E p \in Pulls : Coroutine(p.c, p.k)
  BY <1>1, <1>4, ConstantFacts DEF Effect
<1> QED
  BY <1>2, <1>3, <1>4 DEF Next

-----------------------------------------------------------------------------
(* The type invariant *)

LEMMA TypeInit == Init => TypeInv
<1> SUFFICES ASSUME Init PROVE TypeInv
  OBVIOUS
<1> USE DEF Init
<1>1. ListType
  <2>1. \A S : <<>> \in Seq(S)
    OBVIOUS
  <2>2. msgs \in [Users -> Seq(Message)] /\ waiting \in [Users -> Seq(Pulls)]
    BY <2>1
  <2> QED
    BY <2>1, <2>2 DEF ListType
<1>2. SetupType /\ ReaderType
  BY DEF SetupType, ReaderType, ReaderState, Adding
<1>3. PullType
  <2>1. NoPull \in PullState
    BY EmptyFact DEF NoPull, PullState, PullPc
  <2>2. \A c \in Clients : co[c] = [k \in Attempt(c) |-> NoPull]
    OBVIOUS
  <2> QED
    BY <2>1, <2>2 DEF PullType
<1>4. ClientType
  <2>1. \A c \in Clients : pull[c].k \in Attempt(c)
    BY ConstantFacts
  <2>2. <<>> \in Seq(Message)
    OBVIOUS
  <2>3. got \in [Clients -> Seq(Message)]
    BY <2>2
  <2> QED
    BY <2>1, <2>3 DEF ClientType
<1>5. AccountType
  <2>1. <<>> \in Seq(Answers)
    OBVIOUS
  <2>2. told \in [Clients -> Seq(Answers)]
    BY <2>1
  <2> QED
    BY <2>2 DEF AccountType
<1> QED
  BY <1>1, <1>2, <1>3, <1>4, <1>5 DEF TypeInv

(* Whether the message is added does not change while the reader serves a request. *)
LEMMA SameSetup == ASSUME SetupType, setup' = setup
                   PROVE  SetupType' /\ Script' = Script /\ GoodRequest' = GoodRequest
<1>1. SetupType' /\ Script' = Script
  BY DEF SetupType, Script
<1>2. \A r : Good(r)' <=> Good(r)
  BY <1>1 DEF Good
<1> QED
  BY <1>1, <1>2 DEF GoodRequest

LEMMA IdleReader == ASSUME rd' = [pc |-> "idle"] PROVE ReaderType'
BY DEF ReaderType, ReaderState, Adding

(* The reader goes on with its request. *)
LEMMA BusyReader ==
    ASSUME TypeInv, setup' = setup, rd.pc # "idle", NEW pc \in Busy, rd' = [rd EXCEPT !.pc = pc],
           rd.req.op = "cmd", Cmd.op = "send"
    PROVE  /\ ReaderType' /\ rd'.pc = pc /\ rd'.req = rd.req /\ Cmd' = Cmd
<1>1. rd \in [pc : Busy, req : GoodRequest]
  BY DEF TypeInv, ReaderType, ReaderState
<1>2. rd' \in [pc : Busy, req : GoodRequest] /\ rd'.pc = pc /\ rd'.req = rd.req
  BY <1>1
<1>3. Cmd' = Cmd
  BY <1>2, SameSetup DEF Cmd, TypeInv
<1> QED
  BY <1>2, <1>3, SameSetup DEF ReaderType, ReaderState, TypeInv

(* What a client is told of a command. *)
LEMMA TellType ==
    ASSUME TypeInv, NEW c \in Clients, NEW op, NEW ok \in BOOLEAN, NEW list \in SUBSET Contact,
           Tell(c, op, Result(ok, list))
    PROVE  told' \in [Clients -> Seq(Answers)]
<1> DEFINE r == AnswerTo(c, op, Result(ok, list))
<1>1. Result(ok, list) \in Answers /\ Result(TRUE, {}) \in Answers /\ Result(FALSE, {}) \in Answers
  BY DEF Result, Answers
<1>1a. Result(ok, list).list \in SUBSET Contact
  BY <1>1 DEF Answers
<1>2. Result(TRUE, Result(ok, list).list) \in Answers
  BY <1>1a DEF Result, Answers
<1>3. r \in Answers
  <2>1. GrpcAnswer(op, Result(ok, list)) \in Answers
    BY <1>1, <1>2 DEF GrpcAnswer
  <2>2. JsonAnswer(op, Result(ok, list)) \in Answers
    BY <1>1 DEF JsonAnswer
  <2> QED
    BY <2>1, <2>2 DEF AnswerTo
<1>5. told' = [told EXCEPT ![c] = Append(@, r)]
  BY DEF Tell
<1> HIDE DEF r
<1>6. Append(told[c], r) \in Seq(Answers)
  BY <1>3 DEF TypeInv, AccountType
<1> QED
  BY <1>5, <1>6 DEF TypeInv, AccountType

LEMMA AnswerType ==
    ASSUME TypeInv, rd.pc = "serve" \/ rd.pc \in Adding, rd.req.op = "cmd", NEW ok \in BOOLEAN, NEW list \in SUBSET Contact,
           Return(ok, list)
    PROVE  told' \in [Clients -> Seq(Answers)] /\ UNCHANGED <<short, refused>>
<1>1. Caller \in Clients
  BY ReaderFacts DEF Adding
<1> QED
  BY <1>1, TellType DEF Return

LEMMA AccountStep == ASSUME TypeInv, Account \/ End PROVE AccountType'
<1> USE DEF TypeInv, AccountType
<1>a. rd.pc = "serve" \/ rd.pc \in Adding
  BY DEF Account, End, user_register, login, get_contact_list, add_contact, del_contact, Refuse,
         Serves, Adding
<1>b. rd.req.op = "cmd"
  BY DEF Account, End, user_register, login, get_contact_list, add_contact, del_contact, Refuse,
         Serves, Adding, ReaderType
<1>c. Me \in Users /\ Cmd \in Commands
  BY <1>a, <1>b, ReaderFacts DEF Adding
<1>d. {} \in SUBSET Contact /\ contacts[Me] \in SUBSET Contact
  BY <1>c
<1>1. CASE user_register
  BY <1>a, <1>b, <1>1, <1>c, <1>d, AnswerType DEF user_register
<1>2. CASE login
  <2>1. Exists(Me) \in BOOLEAN
    BY DEF Exists
  <2>2. told' \in [Clients -> Seq(Answers)]
    BY <1>a, <1>b, <1>2, <1>d, <2>1, AnswerType DEF login
  <2>3. UNCHANGED <<short, refused>>
    BY <1>2 DEF login, Return
  <2> QED
    BY <1>2, <1>c, <2>2, <2>3 DEF login, AddSession
<1>3. CASE get_contact_list
  <2>1. ContactsOf(Me).list \in SUBSET Contact /\ LoggedIn \in BOOLEAN
    BY <1>d DEF ContactsOf, Result, LoggedIn, Exists
  <2> QED
    BY <1>a, <1>b, <1>3, <2>1, AnswerType DEF get_contact_list, server, account
<1>4. CASE add_contact
  <2>1. Cmd.id \in Users /\ Cmd.name \in Names
    BY <1>4, <1>c, CommandFacts DEF add_contact, Serves
  <2>2. Others(Cmd.id) \cup {[id |-> Cmd.id, name |-> Cmd.name]} \in SUBSET Contact
    BY <1>d, <2>1 DEF Others, Contact
  <2>3. LoggedIn \in BOOLEAN
    BY DEF LoggedIn, Exists
  <2>4. told' \in [Clients -> Seq(Answers)]
    BY <1>a, <1>b, <1>4, <1>d, <2>3, AnswerType DEF add_contact
  <2> QED
    BY <1>4, <2>2, <2>4, <1>c DEF add_contact, Return
<1>5. CASE del_contact
  <2>2. Others(Cmd.id) \in SUBSET Contact
    BY <1>d DEF Others
  <2>3. LoggedIn \in BOOLEAN
    BY DEF LoggedIn, Exists
  <2>4. told' \in [Clients -> Seq(Answers)]
    BY <1>a, <1>b, <1>5, <1>d, <2>3, AnswerType DEF del_contact
  <2> QED
    BY <1>5, <2>2, <2>4, <1>c DEF del_contact, Return
<1>6. CASE Refuse
  BY <1>a, <1>b, <1>6, <1>c, <1>d, AnswerType DEF Refuse, server, account
<1>7. CASE End
  BY <1>a, <1>b, <1>7, <1>c, <1>d, AnswerType DEF End, server, account
<1> QED
  BY <1>1, <1>2, <1>3, <1>4, <1>5, <1>6, <1>7 DEF Account

(* A message that is added to a list. *)
LEMMA AddedType ==
    ASSUME TypeInv, rd.pc # "idle", rd.req.op = "cmd", Cmd.op = "send", NEW u \in Users,
           msgs' = [msgs EXCEPT ![u] = Append(@, Sent)]
    PROVE  Sent \in Message /\ msgs' \in [Users -> Seq(Message)]
<1>1. Sent \in Message
  BY ReaderFacts, CommandFacts DEF Sent, Message, Sender
<1>2. Append(msgs[u], Sent) \in Seq(Message)
  BY <1>1 DEF TypeInv, ListType
<1> QED
  BY <1>1, <1>2 DEF TypeInv, ListType

-----------------------------------------------------------------------------
LEMMA CommandType == ASSUME TypeInv, setup' = setup, NEW c \in Clients, Command(c) PROVE TypeInv'
<1> DEFINE r == [op |-> "cmd", c |-> c, n |-> cmd[c].n + 1]
<1>1. r \in GoodRequest
  <2>1. Script[c] \in Seq(Commands)
    BY ScriptFacts DEF TypeInv
  <2>2. cmd[c].n \in Nat
    BY DEF TypeInv, ClientType
  <2>3. cmd[c].n + 1 \in DOMAIN Script[c]
    BY <2>1, <2>2 DEF Command
  <2> QED
    BY <2>2, <2>3 DEF GoodRequest, Good, Request
<1>2. queue' = Append(queue, r)
  BY DEF Command
<1> HIDE DEF r
<1>3. ListType'
  BY <1>1, <1>2, SameSetup DEF Command, TypeInv, ListType, server, account
<1>4. SetupType' /\ ReaderType'
  BY SameSetup DEF Command, TypeInv, ReaderType, ReaderState, Cmd
<1>5. PullType' /\ AccountType'
  BY DEF Command, TypeInv, PullType, AccountType, server, account
<1>6. ClientType'
  BY DEF Command, TypeInv, ClientType, puller
<1> QED
  BY <1>3, <1>4, <1>5, <1>6 DEF TypeInv

LEMMA RefusedType == ASSUME TypeInv, setup' = setup, NEW c \in Clients, CommandRefused(c) PROVE TypeInv'
<1> DEFINE n == cmd[c].n + 1
<1>1. n \in Nat
  BY DEF TypeInv, ClientType
<1>2. short' \in Nat /\ refused' = refused \cup {[c |-> c, n |-> n]}
  BY DEF CommandRefused, Short, TypeInv, AccountType
<1>3. told' \in [Clients -> Seq(Answers)]
  <2>1. {} \in SUBSET Contact /\ FALSE \in BOOLEAN
    OBVIOUS
  <2> QED
    BY <2>1, TellType DEF CommandRefused
<1>4. cmd' \in [Clients -> [n : Nat, busy : BOOLEAN]]
  BY <1>1 DEF CommandRefused, TypeInv, ClientType
<1>5. AccountType'
  <2>1. refused' \subseteq [c : Clients, n : Nat]
    BY <1>1, <1>2 DEF TypeInv, AccountType
  <2> QED
    BY <1>2, <1>3, <2>1 DEF CommandRefused, TypeInv, AccountType, server, account
<1>6. SetupType' /\ ReaderType'
  BY SameSetup DEF CommandRefused, TypeInv, ReaderType, ReaderState, Cmd
<1>7. ListType' /\ PullType'
  BY SameSetup DEF CommandRefused, TypeInv, ListType, PullType, server, account
<1>8. ClientType'
  BY <1>4 DEF CommandRefused, TypeInv, ClientType, puller
<1> QED
  BY <1>5, <1>6, <1>7, <1>8 DEF TypeInv

LEMMA PullRefusedType == ASSUME TypeInv, setup' = setup, NEW c \in Clients, PullRefused(c) PROVE TypeInv'
<1>1. short' \in Nat
  BY DEF PullRefused, Short, TypeInv, AccountType
<1>2. SetupType' /\ ReaderType'
  BY SameSetup DEF PullRefused, TypeInv, ReaderType, ReaderState, Cmd
<1>3. ListType' /\ PullType' /\ ClientType'
  BY SameSetup DEF PullRefused, TypeInv, ListType, PullType, ClientType, server, account, client, puller
<1>4. AccountType'
  BY <1>1 DEF PullRefused, TypeInv, AccountType, server, account, client
<1> QED
  BY <1>2, <1>3, <1>4 DEF TypeInv

LEMMA CallType == ASSUME TypeInv, setup' = setup, NEW c \in Clients, Pull(c) PROVE TypeInv'
<1> DEFINE k == pull[c].k
           q == [pc |-> "queued", from |-> index[c], list |-> <<>>]
           r == [op |-> "pull", c |-> c, n |-> k]
<1>1. k \in Attempt(c) /\ k \in Nat /\ q \in PullState
  BY EmptyFact DEF TypeInv, ClientType, PullState, PullPc
<1>2. r \in GoodRequest
  BY <1>1 DEF GoodRequest, Good, Request
<1>3. queue' = Append(queue, r) /\ co' = [co EXCEPT ![c][k] = q]
  BY DEF Pull
<1> HIDE DEF r, q, k
<1>4. ListType'
  BY <1>2, <1>3, SameSetup DEF Pull, TypeInv, ListType, server, account
<1>5. SetupType' /\ ReaderType'
  BY SameSetup DEF Pull, TypeInv, ReaderType, ReaderState, Cmd
<1>6. PullType'
  BY <1>1, <1>3, CoStep DEF TypeInv
<1>7. AccountType'
  BY DEF Pull, TypeInv, AccountType, server, account
<1>8. ClientType'
  BY DEF Pull, TypeInv, ClientType
<1> QED
  BY <1>4, <1>5, <1>6, <1>7, <1>8 DEF TypeInv

LEMMA BreakType == ASSUME TypeInv, setup' = setup, NEW c \in Clients, Break(c) PROVE TypeInv'
<1>1. pull[c].k \in Nat /\ pull[c].k + 1 \in Attempt(c)
  <2>1. pull[c].k \in Attempt(c) /\ Losses[c] \in Nat /\ pull[c].k < Losses[c]
    BY ConstantFacts DEF Break, TypeInv, ClientType
  <2> QED
    BY <2>1 DEF Attempt
<1>2. ClientType'
  BY <1>1 DEF Break, TypeInv, ClientType
<1>3. ListType' /\ PullType' /\ AccountType'
  BY SameSetup DEF Break, TypeInv, ListType, PullType, AccountType, server, account
<1>4. SetupType' /\ ReaderType'
  BY SameSetup DEF Break, TypeInv, ReaderType, ReaderState, Cmd
<1> QED
  BY <1>2, <1>3, <1>4 DEF TypeInv

LEMMA TakeType == ASSUME TypeInv, setup' = setup, Take PROVE TypeInv'
<1>1. Head(queue) \in GoodRequest /\ Tail(queue) \in Seq(GoodRequest)
  BY TailFact DEF Take, TypeInv, ListType
<1>2. ListType'
  BY <1>1, SameSetup DEF Take, TypeInv, ListType, server, account
<1>3. SetupType' /\ ReaderType'
  BY <1>1, SameSetup DEF Take, TypeInv, ReaderType, ReaderState, Adding, Busy
<1>4. PullType' /\ ClientType' /\ AccountType'
  BY DEF Take, TypeInv, PullType, ClientType, AccountType, server, account, client, puller
<1> QED
  BY <1>2, <1>3, <1>4 DEF TypeInv

LEMMA ReturnType == ASSUME TypeInv, setup' = setup, Account \/ End PROVE TypeInv'
<1> USE ReturnEffect DEF Returns
<1>1. AccountType'
  BY AccountStep
<1>2. SetupType' /\ ReaderType'
  BY SameSetup, IdleReader DEF TypeInv
<1>3. ListType' /\ PullType'
  BY SameSetup DEF TypeInv, ListType, PullType
<1>4. ClientType'
  <2>1. cmd' \in [Clients -> [n : Nat, busy : BOOLEAN]]
    BY ReaderFacts DEF TypeInv, ClientType
  <2> QED
    BY <2>1 DEF TypeInv, ClientType, puller
<1> QED
  BY <1>1, <1>2, <1>3, <1>4 DEF TypeInv

LEMMA PostType == ASSUME TypeInv, setup' = setup, Post PROVE TypeInv'
<1>0. rd.pc # "idle" /\ rd.req.op = "cmd" /\ Cmd.op = "send" /\ Cmd.to \in Users
  BY ReaderFacts, CommandFacts DEF Post, Serves
<1>1. ReaderType'
  BY <1>0, BusyReader DEF Post, Busy
<1>2. ListType'
  BY <1>0, AddedType, SameSetup DEF Post, TypeInv, ListType
<1>3. SetupType' /\ PullType' /\ ClientType' /\ AccountType'
  BY SameSetup DEF Post, TypeInv, PullType, ClientType, AccountType, client, puller, account
<1> QED
  BY <1>1, <1>2, <1>3 DEF TypeInv

LEMMA CopyType == ASSUME TypeInv, setup' = setup, Copy PROVE TypeInv'
<1>0. rd.pc # "idle" /\ rd.req.op = "cmd" /\ Cmd.op = "send" /\ Sender \in Users
  BY ReaderFacts DEF Copy, TypeInv, ReaderType, Adding, Sender
<1>1. ReaderType'
  BY <1>0, BusyReader DEF Copy, Busy
<1>2. ListType'
  BY <1>0, AddedType, SameSetup DEF Copy, TypeInv, ListType
<1>3. SetupType' /\ PullType' /\ ClientType' /\ AccountType'
  BY SameSetup DEF Copy, TypeInv, PullType, ClientType, AccountType, client, puller, account
<1> QED
  BY <1>1, <1>2, <1>3 DEF TypeInv

LEMMA TurnType == ASSUME TypeInv, setup' = setup, Turn PROVE TypeInv'
<1>0. rd.pc # "idle" /\ rd.req.op = "cmd" /\ Cmd.op = "send"
  BY DEF Turn, TypeInv, ReaderType, Adding
<1>1. ReaderType'
  BY <1>0, BusyReader DEF Turn, Busy
<1>3. SetupType' /\ ListType' /\ PullType' /\ ClientType' /\ AccountType'
  BY SameSetup DEF Turn, TypeInv, ListType, PullType, ClientType, AccountType, client, puller,
                   server, account
<1> QED
  BY <1>1, <1>3 DEF TypeInv

(* Whose pulls are resumed, and the first of them. *)
LEMMA NotifiedFacts ==
    ASSUME TypeInv, rd.pc \in Adding
    PROVE  /\ Notified \in Users /\ Sender \in Users /\ Cmd.to \in Users
           /\ waiting[Notified] \in Seq(Pulls)
<1>1. rd.pc # "idle" /\ rd.req.op = "cmd" /\ Cmd.op = "send"
  BY DEF TypeInv, ReaderType, Adding
<1>2. Sender \in Users /\ Cmd.to \in Users
  BY <1>1, ReaderFacts, CommandFacts DEF Sender
<1> QED
  BY <1>2 DEF Notified, TypeInv, ListType

LEMMA NotifyFacts ==
    ASSUME TypeInv, Notify
    PROVE  LET p == Head(waiting[Notified])
           IN  /\ p \in Pulls /\ Notified \in Users /\ waiting[Notified] # <<>>
               /\ waiting[Notified] \in Seq(Pulls)
               /\ \E pc \in {"again", "lost"} : co' = [co EXCEPT ![p.c][p.k].pc = pc]
               /\ \/ rd.pc = "notify" /\ rd' = [rd EXCEPT !.pc = "pop"]
                  \/ rd.pc = "notifySender" /\ rd' = [rd EXCEPT !.pc = "popSender"]
               /\ short' \in Nat
               /\ UNCHANGED <<refused, server, queue, client>>
<1> DEFINE p == Head(waiting[Notified])
<1>1. rd.pc \in Adding /\ waiting[Notified] # <<>>
  BY DEF Notify, Adding
<1>2. p \in Pulls /\ Notified \in Users /\ waiting[Notified] \in Seq(Pulls)
  BY <1>1, NotifiedFacts, TailFact
<1> DEFINE c == p.c
           k == p.k
<1>3. \/ GoTo(c, k, "again") /\ UNCHANGED short
      \/ GoTo(c, k, "lost") /\ Short
  BY DEF Notify
<1> HIDE DEF p, c, k
<1>4. \E pc \in {"again", "lost"} : co' = [co EXCEPT ![c][k].pc = pc]
  BY <1>3 DEF GoTo
<1>5. short' \in Nat
  BY <1>3 DEF Short, TypeInv, AccountType
<1>6. \/ rd.pc = "notify" /\ rd' = [rd EXCEPT !.pc = "pop"]
      \/ rd.pc = "notifySender" /\ rd' = [rd EXCEPT !.pc = "popSender"]
  BY DEF Notify
<1>7. UNCHANGED <<refused, server, queue, client>>
  BY DEF Notify
<1> QED
  BY <1>1, <1>2, <1>4, <1>5, <1>6, <1>7 DEF p, c, k

LEMMA NotifyType == ASSUME TypeInv, setup' = setup, Notify PROVE TypeInv'
<1> DEFINE p == Head(waiting[Notified])
<1>1. p \in Pulls /\ Notified \in Users
  BY NotifyFacts
<1>3. ListType'
  BY NotifyFacts, SameSetup DEF TypeInv, ListType, server, account
<1>4. PullType'
  <2>1. PICK pc \in {"again", "lost"} : co' = [co EXCEPT ![p.c][p.k].pc = pc]
    BY NotifyFacts
  <2>2. p.c \in Clients /\ p.k \in Attempt(p.c) /\ pc \in PullPc
    BY <1>1, ConstantFacts DEF PullPc
  <2> HIDE DEF p
  <2> QED
    BY <2>1, <2>2, CoGoes DEF TypeInv
<1>5. ReaderType'
  <2>1. rd.pc # "idle" /\ rd.req.op = "cmd" /\ Cmd.op = "send"
    BY NotifyFacts DEF TypeInv, ReaderType, Adding
  <2>2. "pop" \in Busy /\ "popSender" \in Busy
    BY DEF Busy
  <2> QED
    BY <2>1, <2>2, NotifyFacts, BusyReader
<1>6. SetupType' /\ ClientType' /\ AccountType'
  BY NotifyFacts, SameSetup DEF TypeInv, ClientType, AccountType, client, puller, server, account
<1> QED
  BY <1>3, <1>4, <1>5, <1>6 DEF TypeInv

LEMMA PopFacts ==
    ASSUME TypeInv, PopFront
    PROVE  /\ rd.pc \in Removing /\ rd.pc \in Adding /\ Notified \in Users
           /\ waiting[Notified] \in Seq(Pulls)
           /\ waiting' = [waiting EXCEPT ![Notified] = Tail(@)]
           /\ \/ rd.pc = "pop" /\ rd' = [rd EXCEPT !.pc = "notify"]
              \/ rd.pc = "popSender" /\ rd' = [rd EXCEPT !.pc = "notifySender"]
           /\ UNCHANGED <<short, refused, account, msgs, listed, queue, co, client>>
<1>1. rd.pc \in Removing /\ rd.pc \in Adding
  BY DEF PopFront, Removes, Removing, Adding
<1> QED
  BY <1>1, NotifiedFacts DEF PopFront, Removes

LEMMA PopType == ASSUME TypeInv, setup' = setup, PopFront, waiting[Notified] # <<>> PROVE TypeInv'
<1>2. Tail(waiting[Notified]) \in Seq(Pulls)
  BY PopFacts, TailFact
<1>3. ListType'
  BY <1>2, PopFacts, SameSetup DEF TypeInv, ListType
<1>5. ReaderType'
  <2>1. rd.pc # "idle" /\ rd.req.op = "cmd" /\ Cmd.op = "send"
    BY PopFacts DEF TypeInv, ReaderType, Adding
  <2>2. "notify" \in Busy /\ "notifySender" \in Busy
    BY DEF Busy
  <2> QED
    BY <2>1, <2>2, PopFacts, BusyReader
<1>6. SetupType' /\ PullType' /\ ClientType' /\ AccountType'
  BY PopFacts, SameSetup DEF TypeInv, PullType, ClientType, AccountType, client, puller, account
<1> QED
  BY <1>3, <1>5, <1>6 DEF TypeInv

LEMMA StartFacts ==
    ASSUME TypeInv, StartPull
    PROVE  LET c == rd.req.c
               k == rd.req.n
           IN  /\ c \in Clients /\ k \in Attempt(c) /\ rd.pc = "serve" /\ rd.req.op = "pull"
               /\ \E pc \in {"find", "lost"} : co' = [co EXCEPT ![c][k].pc = pc]
               /\ rd' = [pc |-> "idle"] /\ short' \in Nat
               /\ UNCHANGED <<refused, server, queue, client>>
<1> DEFINE c == rd.req.c
           k == rd.req.n
<1>1. c \in Clients /\ k \in Attempt(c) /\ rd.pc = "serve" /\ rd.req.op = "pull"
  BY ReaderFacts DEF StartPull
<1>2. \/ GoTo(c, k, "find") /\ UNCHANGED short
      \/ GoTo(c, k, "lost") /\ Short
  BY DEF StartPull
<1>3. rd' = [pc |-> "idle"] /\ UNCHANGED <<refused, server, queue, client>>
  BY DEF StartPull
<1> HIDE DEF c, k
<1>4. \E pc \in {"find", "lost"} : co' = [co EXCEPT ![c][k].pc = pc]
  BY <1>2 DEF GoTo
<1>5. short' \in Nat
  BY <1>2 DEF Short, TypeInv, AccountType
<1> QED
  BY <1>1, <1>3, <1>4, <1>5 DEF c, k

LEMMA StartType == ASSUME TypeInv, setup' = setup, StartPull PROVE TypeInv'
<1> DEFINE c == rd.req.c
           k == rd.req.n
<1>1. PullType'
  <2>1. c \in Clients /\ k \in Attempt(c)
    BY StartFacts
  <2>2. PICK pc \in {"find", "lost"} : co' = [co EXCEPT ![c][k].pc = pc]
    BY StartFacts
  <2>3. pc \in PullPc
    BY DEF PullPc
  <2> HIDE DEF c, k
  <2> QED
    BY <2>1, <2>2, <2>3, CoGoes DEF TypeInv
<1>2. SetupType' /\ ReaderType'
  BY SameSetup, IdleReader, StartFacts DEF TypeInv
<1>3. ListType' /\ ClientType' /\ AccountType'
  BY SameSetup, StartFacts DEF TypeInv, ListType, ClientType, AccountType, client, puller, server, account
<1> QED
  BY <1>1, <1>2, <1>3 DEF TypeInv

(* What a pull finds. *)
LEMMA FoundFact ==
    ASSUME TypeInv, NEW c \in Clients, NEW k \in Attempt(c)
    PROVE  LET s == MessagesFrom(UserOf[c], co[c][k].from)
           IN  s \in Seq(Message) /\ co[c][k].from \in Nat /\ UserOf[c] \in Users
<1>1. msgs[UserOf[c]] \in Seq(Message) /\ UserOf[c] \in Users
  BY ConstantFacts DEF TypeInv, ListType
<1>2. co[c][k].from \in Nat
  BY DEF TypeInv, PullType, PullState
<1> QED
  BY <1>1, <1>2, RestFact DEF MessagesFrom

LEMMA CoroutineType ==
    ASSUME TypeInv, setup' = setup, NEW c \in Clients, NEW k \in Attempt(c), Coroutine(c, k)
    PROVE  TypeInv'
<1>0. /\ UNCHANGED <<short, refused, account, msgs, queue, rd, cmd, told>>
      /\ UNCHANGED <<puller>> \/ Answer(c, k)
      /\ UNCHANGED <<waiting, listed>> \/ PushBack(c, k) \/ Insert(c, k)
  BY DEF Coroutine, Find, Read, Register, PushBack, Insert, ReadAgain, Answer, server, client
<1>1. PullType'
  <2>1. CASE Find(c, k)
    <3> DEFINE pc == IF Exists(UserOf[c]) /\ UserOf[c] \in sessions THEN "read" ELSE "null"
    <3>1. co' = [co EXCEPT ![c][k].pc = pc] /\ pc \in PullPc
      BY <2>1 DEF Find, GoTo, PullPc
    <3> HIDE DEF pc
    <3> QED
      BY <3>1, CoGoes DEF TypeInv
  <2>2. CASE Register(c, k) \/ PushBack(c, k) \/ Insert(c, k)
    <3>1. \E pc \in {"push", "insert", "wait", "lost"} : GoTo(c, k, pc)
      BY <2>2 DEF Register, PushBack, Insert
    <3>2. PICK pc \in {"push", "insert", "wait", "lost"} : co' = [co EXCEPT ![c][k].pc = pc]
      BY <3>1 DEF GoTo
    <3>3. pc \in PullPc
      BY DEF PullPc
    <3> QED
      BY <3>2, <3>3, CoGoes DEF TypeInv
  <2>3. CASE Read(c, k) \/ ReadAgain(c, k) \/ Answer(c, k)
    <3>1. \E r \in PullState : co' = [co EXCEPT ![c][k] = r]
      <4>1. CASE Read(c, k)
        <5> DEFINE s == MessagesFrom(UserOf[c], co[c][k].from)
                   pc == IF s = <<>> THEN "register" ELSE "answer"
        <5>1. pc \in PullPc /\ s \in Seq(Message) /\ co[c][k].from \in Nat
          BY FoundFact DEF PullPc
        <5>2. co' = [co EXCEPT ![c][k] = [pc |-> pc, from |-> @.from, list |-> s]]
          BY <4>1 DEF Read
        <5>3. co' = [co EXCEPT ![c][k] = [pc |-> pc, from |-> co[c][k].from, list |-> s]]
          BY <5>2
        <5> HIDE DEF s, pc
        <5>4. [pc |-> pc, from |-> co[c][k].from, list |-> s] \in PullState
          BY <5>1 DEF PullState
        <5> QED
          BY <5>3, <5>4
      <4>2. CASE ReadAgain(c, k)
        BY <4>2, FoundFact DEF ReadAgain, PullState, PullPc
      <4>3. CASE Answer(c, k)
        BY <4>3, EmptyFact DEF Answer, NoPull, PullState, PullPc
      <4> QED
        BY <2>3, <4>1, <4>2, <4>3
    <3>2. PICK r \in PullState : co' = [co EXCEPT ![c][k] = r]
      BY <3>1
    <3> QED
      BY <3>2, CoStep DEF TypeInv
  <2> QED
    BY <2>1, <2>2, <2>3 DEF Coroutine
<1>2. ListType'
  <2>1. waiting' \in [Users -> Seq(Pulls)] /\ listed' \subseteq Users
    <3>1. CASE PushBack(c, k)
      <4>1. UserOf[c] \in Users /\ [c |-> c, k |-> k] \in Pulls
        BY ConstantFacts
      <4>2. Append(waiting[UserOf[c]], [c |-> c, k |-> k]) \in Seq(Pulls)
        BY <4>1, AppendFact DEF TypeInv, ListType
      <4> QED
        BY <3>1, <4>1, <4>2 DEF PushBack, TypeInv, ListType
    <3>2. CASE Insert(c, k)
      <4>1. UserOf[c] \in Users /\ [c |-> c, k |-> k] \in Pulls
        BY ConstantFacts
      <4>2. <<[c |-> c, k |-> k]>> \in Seq(Pulls)
        BY <4>1
      <4>3. UNCHANGED waiting \/ waiting' = [waiting EXCEPT ![UserOf[c]] = <<[c |-> c, k |-> k]>>]
        BY <3>2 DEF Insert
      <4>4. listed' = listed \cup {UserOf[c]}
        BY <3>2 DEF Insert
      <4> QED
        BY <4>1, <4>2, <4>3, <4>4 DEF TypeInv, ListType
    <3> QED
      BY <1>0, <3>1, <3>2 DEF TypeInv, ListType
  <2> QED
    BY <1>0, <2>1, SameSetup DEF TypeInv, ListType
<1>3. SetupType' /\ ReaderType' /\ AccountType'
  BY <1>0, SameSetup DEF TypeInv, ReaderType, ReaderState, Cmd, AccountType, account
<1>4. ClientType'
  <2>1. CASE Answer(c, k)
    <3>1. co[c][k].list \in Seq(Message) /\ index[c] \in Nat /\ got[c] \in Seq(Message)
      BY DEF TypeInv, PullType, PullState, ClientType
    <3>2. Len(co[c][k].list) \in Nat /\ got[c] \o co[c][k].list \in Seq(Message)
      BY <3>1
    <3>3. index[c] + Len(co[c][k].list) \in Nat
      BY <3>1, <3>2
    <3>4. index' \in [Clients -> Nat] /\ got' \in [Clients -> Seq(Message)]
      BY <2>1, <3>2, <3>3 DEF Answer, Counted, TypeInv, ClientType
    <3>5. /\ pull' \in [Clients -> [k : Nat, busy : BOOLEAN]]
          /\ \A d \in Clients : pull'[d].k = pull[d].k
      BY <2>1 DEF Answer, TypeInv, ClientType
    <3> QED
      BY <1>0, <3>4, <3>5 DEF TypeInv, ClientType
  <2>2. CASE UNCHANGED puller
    BY <1>0, <2>2 DEF TypeInv, ClientType, puller
  <2> QED
    BY <1>0, <2>1, <2>2
<1> QED
  BY <1>1, <1>2, <1>3, <1>4 DEF TypeInv

-----------------------------------------------------------------------------
(* A request that waits for the reader, or is served: nobody has answered it. *)
Pending(r) == IF r.op = "cmd" THEN cmd[r.c].busy /\ r.n = cmd[r.c].n ELSE At(r.c, r.n, "queued")
Asked == {r \in Request : Pending(r)}
Registered == {p \in Pulls : At(p.c, p.k, "wait") \/ Called(p)}
RequestInv == /\ \A i \in DOMAIN queue : queue[i] \in Asked
              /\ \A i, j \in DOMAIN queue : queue[i] = queue[j] => i = j
              /\ rd.pc # "idle" => rd.req \in Asked /\ \A i \in DOMAIN queue : queue[i] # rd.req
(* The client's attempts so far, and whether the last one is under way. *)
PullInv == \A c \in Clients : \A k \in Attempt(c) :
              /\ k > pull[c].k => At(c, k, "none")
              /\ k = pull[c].k => (pull[c].busy <=> ~At(c, k, "none"))
(* A user's waiting pulls, each once, and nothing else. *)
WaitInv == \A u \in Users :
              /\ \A i \in DOMAIN waiting[u] : /\ UserOf[waiting[u][i].c] = u
                                              /\ waiting[u][i] \in Registered
              /\ \A i, j \in DOMAIN waiting[u] : waiting[u][i] = waiting[u][j] => i = j
              /\ \A p \in Pulls : UserOf[p.c] = u /\ p \in Registered =>
                                     \E i \in DOMAIN waiting[u] : waiting[u][i] = p
(* There is an entry for every list of waiting pulls, and for those who go to add to one. *)
ListedInv == /\ \A u \in Users : waiting[u] # <<>> => u \in listed
             /\ \A c \in Clients : \A k \in Attempt(c) : At(c, k, "push") => UserOf[c] \in listed
(* The pull that is being called is the first, and does not come to wait again before it is
   removed. *)
Resumed == {"again", "answer", "none", "queued", "lost"}
HeadInv == rd.pc \in Removing =>
               /\ waiting[Notified] # <<>>
               /\ LET p == Head(waiting[Notified]) IN co[p.c][p.k].pc \in Resumed
CallInv == ListedInv /\ HeadInv
FlowInv == RequestInv /\ PullInv /\ WaitInv /\ CallInv

LEMMA QueueFacts == ASSUME TypeInv
                    PROVE  /\ DOMAIN queue = 1 .. Len(queue) /\ Len(queue) \in Nat
                           /\ \A i \in DOMAIN queue : queue[i] \in GoodRequest
BY DEF TypeInv, ListType

LEMMA GoodFacts == \A r \in GoodRequest : /\ r \in Request /\ r.op \in {"cmd", "pull"} /\ r.c \in Clients /\ r.n \in Nat
                                          /\ r.op = "pull" => r.n \in Attempt(r.c)
                                          /\ \A s \in GoodRequest : r.op = s.op /\ r.c = s.c /\ r.n = s.n => r = s
BY DEF GoodRequest, Good, Request

LEMMA SameRequests ==
    ASSUME TypeInv, RequestInv, queue' = queue, rd'.pc # "idle" => rd.pc # "idle" /\ rd'.req = rd.req,
           \A r \in GoodRequest : r \in Asked => r \in Asked'
    PROVE  RequestInv'
<1>1. rd.pc # "idle" => rd.req \in GoodRequest
  BY ReaderFacts
<1> QED
  BY <1>1, QueueFacts DEF RequestInv

LEMMA SamePulls ==
    ASSUME PullInv, pull' = pull,
           \A c \in Clients : \A k \in Attempt(c) : At(c, k, "none")' <=> At(c, k, "none")
    PROVE  PullInv'
BY DEF PullInv

LEMMA WaitStays ==
    ASSUME TypeInv, WaitInv, waiting' = waiting, \A p \in Pulls : p \in Registered' <=> p \in Registered
    PROVE  WaitInv'
<1>2. \A u \in Users : \A i \in DOMAIN waiting[u] : waiting[u][i] \in Pulls
  BY DEF TypeInv, ListType
<1> QED
  BY <1>2 DEF WaitInv

LEMMA SameWaiting ==
    ASSUME TypeInv, WaitInv, waiting' = waiting,
           \A c \in Clients : \A k \in Attempt(c) : At(c, k, "wait")' <=> At(c, k, "wait"),
           \A p \in Pulls : Called(p)' <=> Called(p)
    PROVE  WaitInv'
<1>1. \A p \in Pulls : p \in Registered' <=> p \in Registered
  BY ConstantFacts DEF Registered
<1> QED
  BY <1>1, WaitStays

(* Where one pull goes. *)
Goes(c, k, from, to) == /\ co[c][k].pc \in from /\ co'[c][k].pc \in to
                        /\ \A d \in Clients : \A j \in Attempt(d) :
                              d # c \/ j # k => co'[d][j] = co[d][j]

(* A pull looks for the user, for messages or for a list, or has been resumed. *)
Looks(c, k) == \/ Goes(c, k, {"find", "read", "register"},
                       {"null", "read", "register", "answer", "push", "insert"})
               \/ Goes(c, k, {"again"}, {"answer"})

LEMMA PcGoes ==
    ASSUME PullType, NEW c \in Clients, NEW k \in Attempt(c), NEW pc, NEW from, NEW to,
           co' = [co EXCEPT ![c][k].pc = pc], co[c][k].pc \in from, pc \in to
    PROVE  Goes(c, k, from, to)
<1>1. co'[c][k].pc = pc /\ \A d \in Clients : \A j \in Attempt(d) : d # c \/ j # k => co'[d][j] = co[d][j]
  BY DEF PullType
<1> QED
  BY <1>1 DEF Goes

LEMMA CoroutineGoes ==
    ASSUME TypeInv, NEW c \in Clients, NEW k \in Attempt(c), Coroutine(c, k)
    PROVE  /\ UNCHANGED <<short, refused, account, msgs, queue, rd, cmd, told>>
           /\ \/ Looks(c, k) /\ UNCHANGED <<waiting, listed, puller>>
              \/ PushBack(c, k) /\ Goes(c, k, {"push"}, {"wait"}) /\ UNCHANGED <<listed, puller>>
              \/ Insert(c, k) /\ Goes(c, k, {"insert"}, {"wait", "lost"}) /\ UNCHANGED puller
              \/ Answer(c, k) /\ Goes(c, k, {"answer", "null"}, {"none"}) /\ UNCHANGED <<waiting, listed>>
<1>0. UNCHANGED <<short, refused, account, msgs, queue, rd, cmd, told>>
  BY DEF Coroutine, Find, Read, Register, PushBack, Insert, ReadAgain, Answer, server, client
<1>1. CASE Find(c, k)
  <2> DEFINE pc == IF Exists(UserOf[c]) /\ UserOf[c] \in sessions THEN "read" ELSE "null"
  <2> DEFINE from == {"find", "read", "register"}
             to == {"null", "read", "register", "answer", "push", "insert"}
  <2>1. co' = [co EXCEPT ![c][k].pc = pc] /\ pc \in to /\ co[c][k].pc \in from
    BY <1>1 DEF Find, GoTo, At
  <2> HIDE DEF pc, from, to
  <2>2. Goes(c, k, from, to)
    BY <2>1, PcGoes DEF TypeInv
  <2>3. Looks(c, k)
    BY <2>2 DEF from, to, Looks
  <2> QED
    BY <1>0, <1>1, <2>3 DEF Find, server, client
<1>2. CASE Read(c, k)
  <2> DEFINE s == MessagesFrom(UserOf[c], co[c][k].from)
             r == [pc |-> IF s = <<>> THEN "register" ELSE "answer", from |-> co[c][k].from, list |-> s]
  <2>1. co' = [co EXCEPT ![c][k] = r] /\ r.pc \in {"register", "answer"} /\ co[c][k].pc = "read"
    BY <1>2 DEF Read, At
  <2> HIDE DEF r
  <2>2. Looks(c, k)
    BY <2>1, CoStep DEF TypeInv, Goes, Looks
  <2> QED
    BY <1>0, <1>2, <2>2 DEF Read, server, client
<1>3. CASE ReadAgain(c, k)
  <2> DEFINE r == [pc |-> "answer", from |-> co[c][k].from, list |-> MessagesFrom(UserOf[c], co[c][k].from)]
  <2>1. co' = [co EXCEPT ![c][k] = r] /\ r.pc = "answer" /\ co[c][k].pc = "again"
    BY <1>3 DEF ReadAgain, At
  <2> HIDE DEF r
  <2>3. co'[c][k] = r /\ \A d \in Clients : \A j \in Attempt(d) : d # c \/ j # k => co'[d][j] = co[d][j]
    BY <2>1 DEF TypeInv, PullType
  <2>2. Looks(c, k)
    BY <2>1, <2>3 DEF Goes, Looks
  <2> QED
    BY <1>0, <1>3, <2>2 DEF ReadAgain, server, client
<1>4. CASE Register(c, k)
  <2> DEFINE pc == IF UserOf[c] \in listed THEN "push" ELSE "insert"
  <2> DEFINE from == {"find", "read", "register"}
             to == {"null", "read", "register", "answer", "push", "insert"}
  <2>1. co' = [co EXCEPT ![c][k].pc = pc] /\ pc \in to /\ co[c][k].pc \in from
    BY <1>4 DEF Register, GoTo, At
  <2> HIDE DEF pc, from, to
  <2>2. Goes(c, k, from, to)
    BY <2>1, PcGoes DEF TypeInv
  <2>3. Looks(c, k)
    BY <2>2 DEF from, to, Looks
  <2> QED
    BY <1>0, <1>4, <2>3 DEF Register, server, client
<1>6. CASE PushBack(c, k)
  <2>1. co' = [co EXCEPT ![c][k].pc = "wait"] /\ co[c][k].pc \in {"push"} /\ "wait" \in {"wait"}
    BY <1>6 DEF PushBack, GoTo, At
  <2>2. Goes(c, k, {"push"}, {"wait"})
    BY <2>1, PcGoes DEF TypeInv
  <2> QED
    BY <1>0, <1>6, <2>2 DEF PushBack, client
<1>7. CASE Insert(c, k)
  <2>0. \E pc \in {"wait", "lost"} : GoTo(c, k, pc)
    BY <1>7 DEF Insert
  <2>1. PICK pc \in {"wait", "lost"} : co' = [co EXCEPT ![c][k].pc = pc]
    BY <2>0 DEF GoTo
  <2>2. co[c][k].pc \in {"insert"}
    BY <1>7 DEF Insert, At
  <2>3. Goes(c, k, {"insert"}, {"wait", "lost"})
    BY <2>1, <2>2, PcGoes DEF TypeInv
  <2> QED
    BY <1>0, <1>7, <2>3 DEF Insert, client
<1>5. CASE Answer(c, k)
  <2>1. co' = [co EXCEPT ![c][k] = NoPull] /\ NoPull.pc = "none" /\ co[c][k].pc \in {"answer", "null"}
    BY <1>5 DEF Answer, At, NoPull
  <2>2. Goes(c, k, {"answer", "null"}, {"none"})
    BY <2>1, CoStep DEF TypeInv, Goes
  <2> QED
    BY <1>0, <1>5, <2>2 DEF Answer, server
<1> QED
  BY <1>1, <1>2, <1>3, <1>4, <1>5, <1>6, <1>7 DEF Coroutine

LEMMA CallGoes ==
    ASSUME TypeInv, NEW c \in Clients, NEW k, k = pull[c].k, Pull(c)
    PROVE  /\ k \in Attempt(c) /\ co'[c][k] = [pc |-> "queued", from |-> index[c], list |-> <<>>]
           /\ \A d \in Clients : \A j \in Attempt(d) : d # c \/ j # k => co'[d][j] = co[d][j]
<1> DEFINE r == [pc |-> "queued", from |-> index[c], list |-> <<>>]
<1>1. k \in Attempt(c) /\ co' = [co EXCEPT ![c][k] = r]
  BY DEF Pull, TypeInv, ClientType
<1>2. co'[c][k] = r /\ \A d \in Clients : \A j \in Attempt(d) : d # c \/ j # k => co'[d][j] = co[d][j]
  BY <1>1 DEF TypeInv, PullType
<1> QED
  BY <1>1, <1>2

LEMMA NotifyGoes ==
    ASSUME TypeInv, FlowInv, Notify, NEW p, p = Head(waiting[Notified])
    PROVE  /\ p \in Pulls /\ p.c \in Clients /\ p.k \in Attempt(p.c)
           /\ Goes(p.c, p.k, {"wait"}, {"again", "lost"})
           /\ UserOf[p.c] = Notified /\ p = waiting[Notified][1] /\ 1 \in DOMAIN waiting[Notified]
<1>1. /\ p \in Pulls /\ Notified \in Users
      /\ p = waiting[Notified][1] /\ 1 \in DOMAIN waiting[Notified]
  BY NotifyFacts, TailFact
<1>1a. PICK pc \in {"again", "lost"} : co' = [co EXCEPT ![p.c][p.k].pc = pc]
  BY NotifyFacts
<1>2. p.c \in Clients /\ p.k \in Attempt(p.c)
  BY <1>1, ConstantFacts
<1>3. At(p.c, p.k, "wait") /\ UserOf[p.c] = Notified
  <2>1. p \in Registered /\ UserOf[p.c] = Notified
    BY <1>1 DEF FlowInv, WaitInv
  <2>2. ~Called(p)
    BY NotifyFacts DEF Called
  <2> QED
    BY <2>1, <2>2 DEF Registered
<1>4. Goes(p.c, p.k, {"wait"}, {"again", "lost"})
  BY <1>1a, <1>2, <1>3, PcGoes DEF TypeInv, At
<1> QED
  BY <1>1, <1>2, <1>3, <1>4

LEMMA StartGoes ==
    ASSUME TypeInv, FlowInv, StartPull, NEW c, NEW k, c = rd.req.c, k = rd.req.n
    PROVE  c \in Clients /\ k \in Attempt(c) /\ Goes(c, k, {"queued"}, {"find", "lost"})
<1>1. c \in Clients /\ k \in Attempt(c)
  BY StartFacts
<1>1a. PICK pc \in {"find", "lost"} : co' = [co EXCEPT ![c][k].pc = pc]
  BY StartFacts
<1>2. At(c, k, "queued")
  BY StartFacts DEF FlowInv, RequestInv, Asked, Pending
<1>3. Goes(c, k, {"queued"}, {"find", "lost"})
  BY <1>1, <1>1a, <1>2, PcGoes DEF TypeInv, At
<1> QED
  BY <1>1, <1>3

(* A pull that goes leaves a status alone that it neither had nor gets. *)
LEMMA GoesFrame ==
    ASSUME NEW c \in Clients, NEW k \in Attempt(c), NEW from, NEW to, Goes(c, k, from, to), NEW pc,
           pc \notin from, pc \notin to
    PROVE  \A d \in Clients : \A j \in Attempt(d) : At(d, j, pc)' <=> At(d, j, pc)
BY DEF Goes, At

LEMMA SamePending ==
    ASSUME cmd' = cmd, \A d \in Clients : \A j \in Attempt(d) : At(d, j, "queued")' <=> At(d, j, "queued")
    PROVE  \A r \in GoodRequest : r \in Asked <=> r \in Asked'
BY GoodFacts DEF Asked, Pending

-----------------------------------------------------------------------------
(* The pull that is called *)

LEMMA CallInit == Init => CallInv
<1> SUFFICES ASSUME Init PROVE CallInv
  OBVIOUS
<1>1. rd.pc = "idle" /\ \A u \in Users : waiting[u] = <<>>
  BY DEF Init
<1>2. \A c \in Clients : \A k \in Attempt(c) : co[c][k].pc = "none"
  BY DEF Init, NoPull
<1> QED
  BY <1>1, <1>2 DEF CallInv, ListedInv, HeadInv, Removing, At

(* A step that takes no pull to where it would add to a list. *)
LEMMA ListedStays ==
    ASSUME ListedInv, listed \subseteq listed',
           \A u \in Users : waiting'[u] # <<>> => waiting[u] # <<>> \/ u \in listed',
           \A c \in Clients : \A k \in Attempt(c) :
               At(c, k, "push")' => At(c, k, "push") \/ UserOf[c] \in listed
    PROVE  ListedInv'
<1>1. \A u \in Users : waiting'[u] # <<>> => u \in listed'
  BY DEF ListedInv
<1>2. \A c \in Clients : \A k \in Attempt(c) : At(c, k, "push")' => UserOf[c] \in listed'
  BY DEF ListedInv
<1> QED
  BY <1>1, <1>2 DEF ListedInv

(* Whose pulls are resumed depends on the request and on the reader's step. *)
LEMMA SameNotified ==
    ASSUME setup' = setup, rd'.req = rd.req,
           rd'.pc \in {"notify", "pop"} <=> rd.pc \in {"notify", "pop"}
    PROVE  Notified' = Notified
<1>1. Script' = Script
  BY DEF Script
<1>2. Cmd' = Cmd /\ Sender' = Sender
  BY <1>1 DEF Cmd, Sender, Me, Caller
<1> QED
  BY <1>2 DEF Notified

LEMMA HeadFacts ==
    ASSUME TypeInv, HeadInv, rd.pc \in Removing
    PROVE  /\ Notified \in Users /\ waiting[Notified] \in Seq(Pulls) /\ waiting[Notified] # <<>>
           /\ Head(waiting[Notified]) \in Pulls
<1>1. rd.pc \in Adding
  BY DEF Removing, Adding
<1> QED
  BY <1>1, NotifiedFacts, TailFact DEF HeadInv

(* The reader stays where it is, the called pull is first, and none that it may be goes
   elsewhere. *)
LEMMA HeadStays ==
    ASSUME TypeInv, HeadInv, setup' = setup, rd' = rd,
           rd.pc \in Removing => /\ waiting'[Notified] # <<>>
                                 /\ Head(waiting'[Notified]) = Head(waiting[Notified]),
           \A p \in Pulls : co[p.c][p.k].pc \in Resumed => co'[p.c][p.k].pc \in Resumed
    PROVE  HeadInv'
<1>1. Notified' = Notified
  BY SameNotified
<1> QED
  BY <1>1, HeadFacts DEF HeadInv

LEMMA HeadOver == ASSUME rd'.pc \notin Removing PROVE HeadInv'
BY DEF HeadInv

(* The steps of a client, and those of the reader that touch no list. *)
LEMMA QuietCall ==
    ASSUME TypeInv, CallInv, setup' = setup, UNCHANGED <<co, waiting, listed>>,
           rd' = rd \/ rd'.pc \notin Removing
    PROVE  CallInv'
<1>1. ListedInv'
  BY ListedStays DEF CallInv, At
<1>2. CASE rd' = rd
  <2>1. rd.pc \in Removing => waiting'[Notified] # <<>> /\ Head(waiting'[Notified]) = Head(waiting[Notified])
    BY DEF CallInv, HeadInv
  <2>2. \A p \in Pulls : co[p.c][p.k].pc \in Resumed => co'[p.c][p.k].pc \in Resumed
    OBVIOUS
  <2>3. HeadInv'
    BY <1>2, <2>1, <2>2, HeadStays DEF CallInv
  <2> QED
    BY <1>1, <2>3 DEF CallInv
<1>3. CASE rd'.pc \notin Removing
  BY <1>1, <1>3, HeadOver DEF CallInv
<1> QED
  BY <1>2, <1>3

LEMMA PullCall == ASSUME TypeInv, CallInv, setup' = setup, NEW c \in Clients, Pull(c) PROVE CallInv'
<1> DEFINE k == pull[c].k
<1>1. /\ k \in Attempt(c) /\ co'[c][k].pc = "queued"
      /\ \A d \in Clients : \A j \in Attempt(d) : d # c \/ j # k => co'[d][j] = co[d][j]
  <2>1. k \in Attempt(c) /\ co'[c][k] = [pc |-> "queued", from |-> index[c], list |-> <<>>]
        /\ \A d \in Clients : \A j \in Attempt(d) : d # c \/ j # k => co'[d][j] = co[d][j]
    BY CallGoes
  <2> QED
    BY <2>1
<1>2. UNCHANGED <<rd, waiting, listed>>
  BY DEF Pull, server
<1> HIDE DEF k
<1>3. ListedInv'
  BY <1>1, <1>2, ListedStays DEF CallInv, At
<1>4. \A p \in Pulls : co[p.c][p.k].pc \in Resumed => co'[p.c][p.k].pc \in Resumed
  BY <1>1, ConstantFacts DEF Resumed
<1>5. HeadInv'
  <2>1. rd.pc \in Removing => waiting'[Notified] # <<>> /\ Head(waiting'[Notified]) = Head(waiting[Notified])
    BY <1>2 DEF CallInv, HeadInv
  <2> QED
    BY <1>2, <1>4, <2>1, HeadStays DEF CallInv
<1> QED
  BY <1>3, <1>5 DEF CallInv

LEMMA NotifyCall == ASSUME TypeInv, CallInv, setup' = setup, Notify PROVE CallInv'
<1> DEFINE p == Head(waiting[Notified])
           c == p.c
           k == p.k
<1>1. p \in Pulls /\ c \in Clients /\ k \in Attempt(c) /\ waiting[Notified] # <<>>
  BY NotifyFacts, ConstantFacts
<1>2. PICK pc \in {"again", "lost"} : co' = [co EXCEPT ![c][k].pc = pc]
  BY NotifyFacts
<1>3. UNCHANGED <<waiting, listed>> /\ rd'.req = rd.req
      /\ (rd'.pc \in {"notify", "pop"} <=> rd.pc \in {"notify", "pop"})
  BY NotifyFacts DEF server, TypeInv, ReaderType, ReaderState
<1>4. Notified' = Notified
  BY <1>3, SameNotified
<1> HIDE DEF c, k
<1>5. /\ co'[c][k].pc = pc
      /\ \A d \in Clients : \A j \in Attempt(d) : d # c \/ j # k => co'[d][j] = co[d][j]
  BY <1>1, <1>2 DEF TypeInv, PullType
<1>6. ListedInv'
  BY <1>3, <1>5, ListedStays DEF CallInv, At
<1>7. HeadInv'
  BY <1>1, <1>3, <1>4, <1>5 DEF HeadInv, Resumed, c, k
<1> QED
  BY <1>6, <1>7 DEF CallInv

LEMMA PopCall == ASSUME TypeInv, CallInv, PopFront PROVE CallInv'
<1>1. rd'.pc \notin Removing /\ UNCHANGED <<co, listed>>
  BY PopFacts DEF Removing, TypeInv, ReaderType, ReaderState
<1>2. \A u \in Users : waiting'[u] # <<>> => waiting[u] # <<>>
  BY PopFacts DEF CallInv, HeadInv, TypeInv, ListType
<1>3. ListedInv'
  BY <1>1, <1>2, ListedStays DEF CallInv, At
<1> QED
  BY <1>1, <1>3, HeadOver DEF CallInv

LEMMA StartCall == ASSUME TypeInv, CallInv, StartPull PROVE CallInv'
<1> DEFINE c == rd.req.c
           k == rd.req.n
<1>1. c \in Clients /\ k \in Attempt(c) /\ rd'.pc \notin Removing /\ UNCHANGED <<waiting, listed>>
  BY StartFacts DEF server, Removing
<1>2. PICK pc \in {"find", "lost"} : co' = [co EXCEPT ![c][k].pc = pc]
  BY StartFacts
<1> HIDE DEF c, k
<1>5. /\ co'[c][k].pc = pc
      /\ \A d \in Clients : \A j \in Attempt(d) : d # c \/ j # k => co'[d][j] = co[d][j]
  BY <1>1, <1>2 DEF TypeInv, PullType
<1>6. ListedInv'
  BY <1>1, <1>5, ListedStays DEF CallInv, At
<1> QED
  BY <1>1, <1>6, HeadOver DEF CallInv

(* A pull adds itself to the list of its user, if it has an entry or gets one. *)
Enlists(c, k) ==
    /\ waiting' = [waiting EXCEPT ![UserOf[c]] = Append(@, [c |-> c, k |-> k])]
    /\ listed' = listed \cup {UserOf[c]}
    /\ Goes(c, k, {"push", "insert"}, {"wait"})

LEMMA PushEnlists ==
    ASSUME TypeInv, CallInv, NEW c \in Clients, NEW k \in Attempt(c), PushBack(c, k),
           Goes(c, k, {"push"}, {"wait"}), listed' = listed
    PROVE  Enlists(c, k)
<1>1. UserOf[c] \in listed
  BY DEF PushBack, CallInv, ListedInv
<1>2. Goes(c, k, {"push", "insert"}, {"wait"})
  BY DEF Goes
<1>3. waiting' = [waiting EXCEPT ![UserOf[c]] = Append(@, [c |-> c, k |-> k])]
  BY DEF PushBack
<1> QED
  BY <1>1, <1>2, <1>3 DEF Enlists

LEMMA InsertEnlists ==
    ASSUME TypeInv, CallInv, NEW c \in Clients, NEW k \in Attempt(c), Insert(c, k),
           Goes(c, k, {"insert"}, {"wait", "lost"})
    PROVE  \/ Enlists(c, k)
           \/ Goes(c, k, {"insert"}, {"lost"}) /\ UNCHANGED <<waiting, listed>>
<1> DEFINE u == UserOf[c]
<1>0. listed' = listed \cup {u}
  BY DEF Insert
<1>1. CASE u \in listed
  <2>1. GoTo(c, k, "lost") /\ UNCHANGED waiting
    BY <1>1 DEF Insert
  <2>2. co'[c][k].pc = "lost"
    BY <2>1 DEF GoTo, TypeInv, PullType
  <2>3. Goes(c, k, {"insert"}, {"lost"})
    BY <2>2 DEF Goes
  <2> QED
    BY <1>0, <1>1, <2>1, <2>3
<1>2. CASE u \notin listed
  <2>1. waiting' = [waiting EXCEPT ![u] = <<[c |-> c, k |-> k]>>] /\ GoTo(c, k, "wait")
    BY <1>2 DEF Insert
  <2>2. co'[c][k].pc = "wait"
    BY <2>1 DEF GoTo, TypeInv, PullType
  <2>3. Goes(c, k, {"push", "insert"}, {"wait"})
    BY <2>2 DEF Goes
  <2>4. u \in Users /\ waiting[u] = <<>>
    BY <1>2, ConstantFacts DEF CallInv, ListedInv
  <2>5. Append(<<>>, [c |-> c, k |-> k]) = <<[c |-> c, k |-> k]>>
    OBVIOUS
  <2>6. waiting' = [waiting EXCEPT ![u] = Append(@, [c |-> c, k |-> k])]
    BY <2>1, <2>4, <2>5
  <2> QED
    BY <1>0, <2>3, <2>6 DEF Enlists
<1> QED
  BY <1>1, <1>2

(* What a pull does to the lists. *)
LEMMA CoroutineCalls ==
    ASSUME TypeInv, CallInv, NEW c \in Clients, NEW k \in Attempt(c), Coroutine(c, k)
    PROVE  \/ Looks(c, k) /\ UNCHANGED <<waiting, listed, puller>>
           \/ Enlists(c, k) /\ UNCHANGED puller
           \/ Goes(c, k, {"insert"}, {"lost"}) /\ UNCHANGED <<waiting, listed, puller>>
           \/ Answer(c, k) /\ Goes(c, k, {"answer", "null"}, {"none"}) /\ UNCHANGED <<waiting, listed>>
BY CoroutineGoes, PushEnlists, InsertEnlists

LEMMA EnlistsFacts ==
    ASSUME TypeInv, NEW c \in Clients, NEW k \in Attempt(c), Enlists(c, k)
    PROVE  LET u == UserOf[c]
               p == [c |-> c, k |-> k]
               m == Len(waiting[u]) + 1
           IN  /\ u \in Users /\ waiting[u] \in Seq(Pulls)
               /\ waiting'[u] # <<>> /\ (waiting[u] # <<>> => Head(waiting'[u]) = Head(waiting[u]))
               /\ waiting'[u][m] = p
               /\ \A i \in DOMAIN waiting[u] : waiting'[u][i] = waiting[u][i] /\ i \in DOMAIN waiting'[u]
               /\ \A i \in DOMAIN waiting'[u] : i \in DOMAIN waiting[u] \/ i = m
               /\ m \notin DOMAIN waiting[u] /\ m \in DOMAIN waiting'[u]
               /\ \A v \in Users : v # u => waiting'[v] = waiting[v]
<1> DEFINE u == UserOf[c]
           p == [c |-> c, k |-> k]
           s == waiting[u]
<1>0. u \in Users /\ p \in Pulls /\ s \in Seq(Pulls) /\ DOMAIN waiting = Users
  BY ConstantFacts DEF TypeInv, ListType
<1>1. waiting' = [waiting EXCEPT ![u] = Append(@, p)]
  BY DEF Enlists
<1> HIDE DEF p
<1>2. waiting'[u] = Append(s, p) /\ \A v \in Users : v # u => waiting'[v] = waiting[v]
  BY <1>0, <1>1
<1> HIDE DEF u, s
<1>3. /\ DOMAIN Append(s, p) = 1 .. Len(s) + 1 /\ Append(s, p)[Len(s) + 1] = p
      /\ DOMAIN s = 1 .. Len(s) /\ Len(s) \in Nat /\ \A i \in 1 .. Len(s) : Append(s, p)[i] = s[i]
      /\ Append(s, p) \in Seq(Pulls) /\ Len(Append(s, p)) = Len(s) + 1
  BY <1>0, AppendFact
<1>4. Append(s, p) # <<>> /\ Head(Append(s, p)) = Append(s, p)[1]
  BY <1>3
<1>5. s # <<>> => Head(s) = s[1] /\ 1 \in 1 .. Len(s)
  BY <1>0, TailFact
<1> QED
  BY <1>0, <1>2, <1>3, <1>4, <1>5 DEF u, s, p

LEMMA CoroutineCall ==
    ASSUME TypeInv, CallInv, setup' = setup, NEW c \in Clients, NEW k \in Attempt(c), Coroutine(c, k)
    PROVE  CallInv'
<1>0. rd' = rd
  BY CoroutineGoes
<1>1. ASSUME NEW from, NEW to, Goes(c, k, from, to), from \cap Resumed = {} \/ to \subseteq Resumed
      PROVE  \A p \in Pulls : co[p.c][p.k].pc \in Resumed => co'[p.c][p.k].pc \in Resumed
  BY <1>1, ConstantFacts DEF Goes
<1>2. \A p \in Pulls : co[p.c][p.k].pc \in Resumed => co'[p.c][p.k].pc \in Resumed
  <2>1. \/ Goes(c, k, {"find", "read", "register"}, {"null", "read", "register", "answer", "push", "insert"})
        \/ Goes(c, k, {"again"}, {"answer"}) \/ Goes(c, k, {"push", "insert"}, {"wait"})
        \/ Goes(c, k, {"insert"}, {"lost"}) \/ Goes(c, k, {"answer", "null"}, {"none"})
    BY CoroutineCalls DEF Looks, Enlists
  <2>2. /\ {"find", "read", "register"} \cap Resumed = {} /\ {"answer"} \subseteq Resumed
        /\ {"push", "insert"} \cap Resumed = {} /\ {"insert"} \cap Resumed = {}
        /\ {"none"} \subseteq Resumed
    BY DEF Resumed
  <2> QED
    BY <1>1, <2>1, <2>2
<1>3. HeadInv'
  <2>1. ASSUME rd.pc \in Removing
        PROVE  waiting'[Notified] # <<>> /\ Head(waiting'[Notified]) = Head(waiting[Notified])
    <3>1. Notified \in Users /\ waiting[Notified] # <<>>
      BY <2>1, HeadFacts DEF CallInv
    <3>2. CASE Enlists(c, k)
      BY <3>1, <3>2, EnlistsFacts
    <3> QED
      BY <3>1, <3>2, CoroutineCalls
  <2> QED
    BY <1>0, <1>2, <2>1, HeadStays DEF CallInv
<1>4. ListedInv'
  <2>1. listed \subseteq listed' /\ \A u \in Users : waiting'[u] # <<>> => waiting[u] # <<>> \/ u \in listed'
    <3>1. CASE Enlists(c, k)
      BY <3>1, EnlistsFacts DEF Enlists
    <3> QED
      BY <3>1, CoroutineCalls
  <2>2. \A d \in Clients : \A j \in Attempt(d) : At(d, j, "push")' => At(d, j, "push") \/ UserOf[d] \in listed
    <3> SUFFICES ASSUME NEW d \in Clients, NEW j \in Attempt(d), At(d, j, "push")', ~At(d, j, "push")
                 PROVE  UserOf[d] \in listed
      OBVIOUS
    <3>1. d = c /\ j = k
      BY CoroutineGoes DEF At, Goes, Looks
    <3>2. CASE Register(c, k)
      <4> DEFINE pc == IF UserOf[c] \in listed THEN "push" ELSE "insert"
      <4>1. co' = [co EXCEPT ![c][k].pc = pc]
        BY <3>2 DEF Register, GoTo
      <4>2. co'[c][k].pc = pc
        <5> HIDE DEF pc
        <5> QED
          BY <4>1 DEF TypeInv, PullType
      <4> QED
        BY <3>1, <4>2 DEF At
    <3>3. CASE ~Register(c, k)
      <4>1. co'[c][k].pc # "push"
        <5>1. CASE Find(c, k)
          <6> DEFINE pc == IF Exists(UserOf[c]) /\ UserOf[c] \in sessions THEN "read" ELSE "null"
          <6>1. co' = [co EXCEPT ![c][k].pc = pc] /\ pc # "push"
            BY <5>1 DEF Find, GoTo
          <6> HIDE DEF pc
          <6> QED
            BY <6>1 DEF TypeInv, PullType
        <5>2. CASE Read(c, k)
          <6> DEFINE s == MessagesFrom(UserOf[c], co[c][k].from)
                     r == [pc |-> IF s = <<>> THEN "register" ELSE "answer", from |-> co[c][k].from, list |-> s]
          <6>1. co' = [co EXCEPT ![c][k] = r] /\ r.pc # "push"
            BY <5>2 DEF Read
          <6> HIDE DEF r
          <6> QED
            BY <6>1 DEF TypeInv, PullType
        <5>3. CASE PushBack(c, k) \/ Insert(c, k) \/ ReadAgain(c, k) \/ Answer(c, k)
          <6>1. ~(co[c][k].pc \in {"find", "read", "register"})
            BY <5>3 DEF PushBack, Insert, ReadAgain, Answer, At
          <6> QED
            BY <6>1, CoroutineGoes DEF Goes, Looks
        <5> QED
          BY <3>3, <5>1, <5>2, <5>3 DEF Coroutine
      <4> QED
        BY <3>1, <4>1 DEF At
    <3> QED
      BY <3>2, <3>3
  <2> QED
    BY <2>1, <2>2, ListedStays DEF CallInv
<1> QED
  BY <1>3, <1>4 DEF CallInv

LEMMA CallStep == TypeInv /\ CallInv /\ [Next]_vars => CallInv'
<1> SUFFICES ASSUME TypeInv, CallInv, [Next]_vars PROVE CallInv'
  OBVIOUS
<1>1. CASE Next
  <2>1. setup' = setup /\ Effect
    BY <1>1, NextEffect
  <2>2. CASE \E c \in Clients : Command(c) \/ CommandRefused(c) \/ PullRefused(c) \/ Break(c)
    <3>1. UNCHANGED <<co, waiting, listed, rd>>
      BY <2>2 DEF Command, CommandRefused, PullRefused, Break, server
    <3> QED
      BY <2>1, <3>1, QuietCall
  <2>3. CASE Take \/ Post \/ Copy \/ Turn
    <3>1. UNCHANGED <<co, waiting, listed>>
      BY <2>3 DEF Take, Post, Copy, Turn, server
    <3>2. rd'.pc \notin Removing
      BY <2>3 DEF Take, Post, Copy, Turn, Serves, Removing, TypeInv, ReaderType, ReaderState
    <3> QED
      BY <2>1, <3>1, <3>2, QuietCall
  <2>4. CASE Account \/ End
    <3>1. UNCHANGED <<co, waiting, listed>> /\ rd'.pc \notin Removing
      BY <2>4, ReturnEffect DEF Returns, Removing
    <3> QED
      BY <2>1, <3>1, QuietCall
  <2> QED
    BY <2>1, <2>2, <2>3, <2>4, PullCall, NotifyCall, PopCall, StartCall, CoroutineCall DEF Effect
<1>2. CASE UNCHANGED vars
  <2>1. UNCHANGED <<setup, co, waiting, listed, rd>>
    BY <1>2 DEF vars, state, server
  <2> QED
    BY <2>1, QuietCall
<1> QED
  BY <1>1, <1>2

LEMMA TypeStep == TypeInv /\ CallInv /\ [Next]_vars => TypeInv'
<1> SUFFICES ASSUME TypeInv, CallInv, [Next]_vars PROVE TypeInv'
  OBVIOUS
<1>1. CASE Next
  <2>1. setup' = setup /\ Effect
    BY <1>1, NextEffect
  <2>2. PopFront => waiting[Notified] # <<>>
    BY PopFacts DEF CallInv, HeadInv
  <2> QED
    BY <2>1, CommandType, RefusedType, CallType, PullRefusedType, BreakType, TakeType, ReturnType,
       PostType, CopyType, NotifyType, <2>2, PopType, TurnType, StartType, CoroutineType DEF Effect
<1>2. CASE UNCHANGED vars
  <2>1. SetupType' /\ ListType' /\ PullType' /\ ClientType' /\ AccountType'
    BY <1>2, SameSetup DEF vars, state, server, account, client, puller, TypeInv, ListType, PullType,
       ClientType, AccountType
  <2>2. ReaderType'
    BY <1>2, SameSetup DEF vars, state, TypeInv, ReaderType, ReaderState, Cmd
  <2> QED
    BY <2>1, <2>2 DEF TypeInv
<1> QED
  BY <1>1, <1>2

(* Types, and what the requests are: the queue holds commands of a script and attempts to
   pull, and the reader is where a request of that kind takes it. *)
THEOREM TypeCorrect == Spec => []TypeInv
<1>1. Init => TypeInv /\ CallInv
  BY TypeInit, CallInit
<1>2. TypeInv /\ CallInv /\ [Next]_vars => TypeInv' /\ CallInv'
  BY TypeStep, CallStep
<1> QED
  BY <1>1, <1>2, PTL DEF Spec

-----------------------------------------------------------------------------
(* The pull that the reader calls stays the same, or there is none. *)
LEMMA SameCalled == ASSUME setup' = setup, rd' = rd, waiting' = waiting
                    PROVE  \A p \in Pulls : Called(p)' <=> Called(p)
BY SameNotified DEF Called

LEMMA NoneCalled == ASSUME rd.pc \notin Removing, rd'.pc \notin Removing
                    PROVE  \A p \in Pulls : ~Called(p) /\ ~Called(p)'
BY DEF Called, Removing

LEMMA FlowInit == Init => FlowInv
<1> SUFFICES ASSUME Init PROVE FlowInv
  OBVIOUS
<1>1. queue = <<>> /\ rd.pc = "idle" /\ \A u \in Users : waiting[u] = <<>>
  BY DEF Init
<1>2. \A c \in Clients : \A k \in Attempt(c) : co[c][k].pc = "none" /\ ~pull[c].busy
  BY DEF Init, NoPull
<1>3. RequestInv
  BY <1>1 DEF RequestInv
<1>4. PullInv /\ CallInv
  BY <1>2, CallInit DEF PullInv, At
<1>5. WaitInv
  <2>1. Registered = {}
    BY <1>1, <1>2, ConstantFacts DEF Registered, At, Called
  <2>2. \A u \in Users : DOMAIN waiting[u] = {}
    BY <1>1, EmptyFact
  <2> QED
    BY <2>1, <2>2 DEF WaitInv
<1> QED
  BY <1>3, <1>4, <1>5 DEF FlowInv

(* A request that nobody has made before comes last. *)
LEMMA NewRequest ==
    ASSUME TypeInv, RequestInv, NEW r \in GoodRequest, r \notin Asked, queue' = Append(queue, r), rd' = rd,
           r \in Asked', \A s \in GoodRequest : s \in Asked => s \in Asked'
    PROVE  RequestInv'
<1>1. \A i \in DOMAIN queue : queue[i] # r /\ queue[i] \in GoodRequest
  BY QueueFacts DEF RequestInv
<1>2. rd.pc # "idle" => rd.req # r /\ rd.req \in GoodRequest
  BY ReaderFacts DEF RequestInv
<1>3. /\ DOMAIN queue' = 1 .. Len(queue) + 1 /\ queue'[Len(queue) + 1] = r
      /\ \A i \in DOMAIN queue : queue'[i] = queue[i]
  BY AppendFact DEF TypeInv, ListType
<1>4. \A i \in DOMAIN queue' : (i \in DOMAIN queue /\ queue'[i] = queue[i]) \/ i = Len(queue) + 1
  BY <1>3, QueueFacts
<1>5. \A i \in DOMAIN queue' : queue'[i] \in Asked'
  <2> SUFFICES ASSUME NEW i \in DOMAIN queue' PROVE queue'[i] \in Asked'
    OBVIOUS
  <2>1. CASE i \in DOMAIN queue /\ queue'[i] = queue[i]
    <3>1. queue[i] \in Asked /\ queue[i] \in GoodRequest
      BY <1>1, <2>1 DEF RequestInv
    <3> QED
      BY <2>1, <3>1
  <2>2. CASE i = Len(queue) + 1
    BY <1>3, <2>2
  <2> QED
    BY <1>4, <2>1, <2>2
<1>6. \A i, j \in DOMAIN queue' : queue'[i] = queue'[j] => i = j
  BY <1>1, <1>3, <1>4 DEF RequestInv
<1>7. rd.pc # "idle" => rd.req \in Asked /\ rd.req \in Asked' /\ \A i \in DOMAIN queue' : queue'[i] # rd.req
  BY <1>1, <1>2, <1>3, <1>4 DEF RequestInv
<1> QED
  BY <1>5, <1>6, <1>7 DEF RequestInv

LEMMA CommandFlow == ASSUME TypeInv, FlowInv, CallInv', setup' = setup, NEW c \in Clients, Command(c) PROVE FlowInv'
<1> DEFINE r == [op |-> "cmd", c |-> c, n |-> cmd[c].n + 1]
<1>0. /\ queue' = Append(queue, r) /\ cmd' = [cmd EXCEPT ![c] = [n |-> cmd[c].n + 1, busy |-> TRUE]]
      /\ UNCHANGED <<waiting, rd, co, pull>> /\ ~cmd[c].busy /\ cmd \in [Clients -> [n : Nat, busy : BOOLEAN]]
  BY DEF Command, server, puller, TypeInv, ClientType
<1>1. r \in GoodRequest
  <2>1. Script[c] \in Seq(Commands)
    BY ScriptFacts DEF TypeInv
  <2>2. cmd[c].n + 1 \in DOMAIN Script[c]
    BY <1>0, <2>1 DEF Command
  <2> QED
    BY <1>0, <2>2 DEF GoodRequest, Good, Request
<1>2. r \notin Asked /\ r \in Asked' /\ \A s \in GoodRequest : s \in Asked => s \in Asked'
  <2>1. r \notin Asked
    BY <1>0 DEF Asked, Pending
  <2>2. r \in Asked'
    BY <1>0, <1>1, GoodFacts DEF Asked, Pending
  <2>3. \A s \in GoodRequest : s \in Asked => s \in Asked'
    BY <1>0, GoodFacts DEF Asked, Pending, At
  <2> QED
    BY <2>1, <2>2, <2>3
<1> HIDE DEF r
<1>3. RequestInv'
  BY <1>0, <1>1, <1>2, NewRequest DEF FlowInv
<1>4. PullInv' /\ WaitInv'
  BY <1>0, SamePulls, SameWaiting, SameCalled DEF FlowInv, At
<1> QED
  BY <1>3, <1>4 DEF FlowInv

(* A command that is refused is none that the client waits for. *)
LEMMA RefusedFlow ==
    ASSUME TypeInv, FlowInv, CallInv', setup' = setup, NEW c \in Clients, CommandRefused(c) PROVE FlowInv'
<1>0. /\ cmd' = [cmd EXCEPT ![c].n = cmd[c].n + 1] /\ ~cmd[c].busy
      /\ cmd \in [Clients -> [n : Nat, busy : BOOLEAN]]
      /\ UNCHANGED <<waiting, queue, rd, co, pull>>
  BY DEF CommandRefused, server, puller, TypeInv, ClientType
<1>1. \A r \in GoodRequest : r \in Asked => r \in Asked'
  BY <1>0, GoodFacts DEF Asked, Pending, At
<1>2. RequestInv'
  BY <1>0, <1>1, SameRequests DEF FlowInv
<1>3. PullInv' /\ WaitInv'
  BY <1>0, SamePulls, SameWaiting, SameCalled DEF FlowInv, At
<1> QED
  BY <1>2, <1>3 DEF FlowInv

LEMMA PullRefusedFlow ==
    ASSUME TypeInv, FlowInv, CallInv', setup' = setup, NEW c \in Clients, PullRefused(c) PROVE FlowInv'
<1>0. UNCHANGED <<waiting, queue, rd, co, cmd, pull>>
  BY DEF PullRefused, server, client, puller
<1>1. RequestInv' /\ PullInv' /\ WaitInv'
  BY <1>0, SameRequests, SamePulls, SameWaiting, SameCalled DEF FlowInv, Asked, Pending, At
<1> QED
  BY <1>1 DEF FlowInv

LEMMA CallFlow == ASSUME TypeInv, FlowInv, CallInv', setup' = setup, NEW c \in Clients, Pull(c) PROVE FlowInv'
<1> SUFFICES ASSUME NEW k, k = pull[c].k PROVE FlowInv'
  OBVIOUS
<1>0. /\ queue' = Append(queue, [op |-> "pull", c |-> c, n |-> k]) /\ cmd' = cmd /\ rd' = rd
      /\ waiting' = waiting /\ pull' = [pull EXCEPT ![c].busy = TRUE] /\ ~pull[c].busy
      /\ pull \in [Clients -> [k : Nat, busy : BOOLEAN]] /\ k \in Nat /\ k \in Attempt(c)
  BY DEF Pull, server, TypeInv, ClientType
<1>1. /\ k \in Attempt(c) /\ co'[c][k].pc = "queued"
      /\ \A d \in Clients : \A j \in Attempt(d) : d # c \/ j # k => co'[d][j] = co[d][j]
  <2>1. co'[c][k] = [pc |-> "queued", from |-> index[c], list |-> <<>>]
        /\ \A d \in Clients : \A j \in Attempt(d) : d # c \/ j # k => co'[d][j] = co[d][j]
    BY CallGoes
  <2> QED
    BY <1>0, <2>1
<1>2. co[c][k].pc = "none"
  BY <1>0 DEF FlowInv, PullInv, At
<1> DEFINE r == [op |-> "pull", c |-> c, n |-> k]
<1>3. r \in GoodRequest
  BY <1>0 DEF GoodRequest, Good, Request
<1>4. r \notin Asked /\ r \in Asked' /\ \A s \in GoodRequest : s \in Asked => s \in Asked'
  <2>1. r \notin Asked
    BY <1>2 DEF Asked, Pending, At
  <2>2. r \in Asked'
    BY <1>1, <1>3, GoodFacts DEF Asked, Pending, At
  <2>3. \A s \in GoodRequest : s \in Asked => s \in Asked'
    BY <1>0, <1>1, <1>2, GoodFacts DEF Asked, Pending, At
  <2> QED
    BY <2>1, <2>2, <2>3
<1>5. RequestInv'
  <2> HIDE DEF r
  <2>1. queue' = Append(queue, r)
    BY <1>0 DEF r
  <2> QED
    BY <1>0, <1>3, <1>4, <2>1, NewRequest DEF FlowInv
<1>6. PullInv'
  BY <1>0, <1>1 DEF FlowInv, PullInv, At
<1>7. WaitInv'
  BY <1>0, <1>1, <1>2, SameWaiting, SameCalled DEF FlowInv, At
<1> QED
  BY <1>5, <1>6, <1>7 DEF FlowInv

LEMMA BreakFlow == ASSUME TypeInv, FlowInv, CallInv', setup' = setup, NEW c \in Clients, Break(c) PROVE FlowInv'
<1>0. /\ UNCHANGED <<waiting, queue, rd, co, cmd>> /\ pull' = [pull EXCEPT ![c] = [k |-> pull[c].k + 1, busy |-> FALSE]]
      /\ pull \in [Clients -> [k : Nat, busy : BOOLEAN]]
  BY DEF Break, server, TypeInv, ClientType
<1>1. RequestInv' /\ WaitInv'
  BY <1>0, SameRequests, SameWaiting, SameCalled DEF FlowInv, Asked, Pending, At
<1>2. PullInv'
  <2> SUFFICES ASSUME NEW d \in Clients, NEW k \in Attempt(d)
               PROVE  /\ k > pull'[d].k => co[d][k].pc = "none"
                      /\ k = pull'[d].k => (pull'[d].busy <=> co[d][k].pc # "none")
    BY <1>0 DEF PullInv, At
  <2>1. /\ k > pull[d].k => co[d][k].pc = "none"
        /\ k = pull[d].k => (pull[d].busy <=> co[d][k].pc # "none")
    BY DEF FlowInv, PullInv, At
  <2>2. k \in Nat /\ pull[d].k \in Nat /\ pull[c].k \in Nat
    BY <1>0, ConstantFacts
  <2>3. CASE d = c
    <3>1. pull'[d].k = pull[d].k + 1 /\ pull'[d].busy = FALSE
      BY <1>0, <2>3
    <3> QED
      BY <2>1, <2>2, <3>1
  <2>4. CASE d # c
    BY <1>0, <2>1, <2>4
  <2> QED
    BY <2>3, <2>4
<1> QED
  BY <1>1, <1>2 DEF FlowInv

LEMMA TakeFlow == ASSUME TypeInv, FlowInv, CallInv', setup' = setup, Take PROVE FlowInv'
<1>0. /\ UNCHANGED <<waiting, co, cmd, pull>> /\ rd' = [pc |-> "serve", req |-> queue[1]]
      /\ queue' = Tail(queue) /\ queue \in Seq(GoodRequest) /\ queue # <<>>
  BY TailFact DEF Take, server, client, puller, TypeInv, ListType
<1>1. /\ DOMAIN queue = 1 .. Len(queue) /\ DOMAIN queue' = 1 .. Len(queue) - 1 /\ Len(queue) \in Nat \ {0}
      /\ \A i \in 1 .. Len(queue) - 1 : queue'[i] = queue[i + 1] /\ i + 1 \in DOMAIN queue
  BY <1>0, TailFact
<1>2. rd'.pc = "serve" /\ rd'.req = queue[1] /\ 1 \in DOMAIN queue
  BY <1>0, <1>1
<1>3. RequestInv'
  BY <1>0, <1>1, <1>2 DEF FlowInv, RequestInv, Asked, Pending, At
<1>4. PullInv' /\ WaitInv'
  <2>1. rd.pc \notin Removing /\ rd'.pc \notin Removing
    BY <1>2 DEF Take, Removing
  <2> QED
    BY <1>0, <2>1, SamePulls, SameWaiting, NoneCalled DEF FlowInv, At
<1> QED
  BY <1>3, <1>4 DEF FlowInv

LEMMA ReturnFlow == ASSUME TypeInv, FlowInv, CallInv', setup' = setup, Returns PROVE FlowInv'
<1>0. /\ UNCHANGED <<waiting, queue, co, pull>> /\ rd'.pc = "idle" /\ rd.pc # "idle" /\ rd.req.op = "cmd"
      /\ cmd' = [cmd EXCEPT ![Caller].busy = FALSE] /\ cmd \in [Clients -> [n : Nat, busy : BOOLEAN]]
  BY DEF Returns, puller, TypeInv, ClientType
<1>1. rd.req \in GoodRequest /\ rd.req \in Asked /\ \A i \in DOMAIN queue : queue[i] # rd.req
  BY <1>0, ReaderFacts DEF FlowInv, RequestInv
<1>2. \A r \in GoodRequest : r # rd.req /\ r \in Asked => r \in Asked'
  BY <1>0, <1>1, GoodFacts DEF Asked, Pending, At, Caller
<1>3. \A i \in DOMAIN queue : queue[i] \in Asked /\ queue[i] \in Asked'
  BY <1>1, <1>2, QueueFacts DEF FlowInv, RequestInv
<1>4. RequestInv'
  BY <1>0, <1>3 DEF FlowInv, RequestInv
<1>5. PullInv' /\ WaitInv'
  <2>1. rd.pc \notin Removing /\ rd'.pc \notin Removing
    BY <1>0 DEF Returns, Removing
  <2> QED
    BY <1>0, <2>1, SamePulls, SameWaiting, NoneCalled DEF FlowInv, At
<1> QED
  BY <1>4, <1>5 DEF FlowInv

(* The reader goes on with its request. *)
LEMMA GoOnFlow ==
    ASSUME TypeInv, FlowInv, CallInv', rd.pc # "idle", rd.pc \notin Removing, NEW pc, pc \notin Removing,
           rd' = [rd EXCEPT !.pc = pc], UNCHANGED <<waiting, queue, co, client>>
    PROVE  FlowInv'
<1>0. UNCHANGED <<cmd, pull>> /\ rd'.req = rd.req /\ rd'.pc = pc
  BY DEF client, puller, TypeInv, ReaderType, ReaderState
<1>1. RequestInv' /\ PullInv' /\ WaitInv'
  BY <1>0, SameRequests, SamePulls, SameWaiting, NoneCalled DEF FlowInv, Asked, Pending, At
<1> QED
  BY <1>1 DEF FlowInv

LEMMA NotifyFlow == ASSUME TypeInv, FlowInv, CallInv', setup' = setup, Notify PROVE FlowInv'
<1> SUFFICES ASSUME NEW p, p = Head(waiting[Notified]) PROVE FlowInv'
  OBVIOUS
<1>0. /\ UNCHANGED <<queue, waiting, cmd, pull>> /\ rd'.req = rd.req /\ rd.pc # "idle"
      /\ rd.pc \notin Removing /\ rd'.pc \in Removing /\ waiting[Notified] # <<>>
      /\ (rd'.pc \in {"notify", "pop"} <=> rd.pc \in {"notify", "pop"})
  BY NotifyFacts DEF server, client, puller, TypeInv, ReaderType, ReaderState, Removing
<1>1. /\ p \in Pulls /\ p.c \in Clients /\ p.k \in Attempt(p.c)
      /\ Goes(p.c, p.k, {"wait"}, {"again", "lost"})
  BY NotifyGoes
<1>2. \A d \in Clients : \A j \in Attempt(d) : (At(d, j, "queued")' <=> At(d, j, "queued")) /\ (At(d, j, "none")' <=> At(d, j, "none"))
  BY <1>1 DEF Goes, At
<1>3. RequestInv' /\ PullInv'
  BY <1>0, <1>2, SamePending, SameRequests, SamePulls DEF FlowInv
<1>4. \A q \in Pulls : q \in Registered' <=> q \in Registered
  <2>1. Notified' = Notified
    BY <1>0, SameNotified
  <2>2. \A q \in Pulls : ~Called(q) /\ (Called(q)' <=> q = p)
    BY <1>0, <2>1 DEF Called, Removing
  <2>3. At(p.c, p.k, "wait") /\ \A q \in Pulls : q # p => (At(q.c, q.k, "wait")' <=> At(q.c, q.k, "wait"))
    BY <1>1, ConstantFacts DEF Goes, At
  <2> QED
    BY <1>1, <2>2, <2>3 DEF Registered
<1>5. WaitInv'
  BY <1>0, <1>4, WaitStays DEF FlowInv
<1> QED
  BY <1>3, <1>5 DEF FlowInv

LEMMA PopFlow == ASSUME TypeInv, FlowInv, CallInv', setup' = setup, PopFront PROVE FlowInv'
<1> SUFFICES ASSUME NEW p, p = Head(waiting[Notified]) PROVE FlowInv'
  OBVIOUS
<1> DEFINE u == Notified
<1>0. /\ UNCHANGED <<queue, co, cmd, pull>> /\ waiting' = [waiting EXCEPT ![u] = Tail(@)] /\ u \in Users
      /\ waiting[u] \in Seq(Pulls) /\ waiting[u] # <<>> /\ DOMAIN waiting = Users
      /\ rd.pc \in Removing /\ rd'.pc \notin Removing /\ rd.pc # "idle" /\ rd'.req = rd.req
  BY PopFacts DEF client, puller, TypeInv, ListType, ReaderType, ReaderState, Removing, FlowInv, CallInv, HeadInv
<1>1. /\ p \in Pulls /\ p = waiting[u][1] /\ 1 \in DOMAIN waiting[u] /\ ~At(p.c, p.k, "wait")
      /\ UserOf[p.c] = Notified
  <2>1. p \in Pulls /\ p = waiting[u][1] /\ 1 \in DOMAIN waiting[u]
    BY <1>0, TailFact
  <2>2. ~At(p.c, p.k, "wait")
    BY <1>0 DEF FlowInv, CallInv, HeadInv, Resumed, At
  <2>3. UserOf[p.c] = u
    BY <1>0, <2>1 DEF FlowInv, WaitInv
  <2> QED
    BY <2>1, <2>2, <2>3
<1>3. RequestInv' /\ PullInv'
  BY <1>0, SameRequests, SamePulls DEF FlowInv, Asked, Pending, At
<1>4. /\ DOMAIN waiting[u] = 1 .. Len(waiting[u]) /\ DOMAIN waiting'[u] = 1 .. Len(waiting[u]) - 1
      /\ \A i \in DOMAIN waiting'[u] : waiting'[u][i] = waiting[u][i + 1] /\ i + 1 \in DOMAIN waiting[u]
      /\ \A i \in DOMAIN waiting[u] : i # 1 => i - 1 \in DOMAIN waiting'[u] /\ (i - 1) + 1 = i
      /\ \A v \in Users : v # u => waiting'[v] = waiting[v]
  BY <1>0, TailFact
<1>5. p \notin Registered' /\ \A q \in Pulls : q # p => (q \in Registered' <=> q \in Registered)
  <2>1. \A q \in Pulls : ~Called(q)' /\ (Called(q) => q = p)
    BY <1>0 DEF Called, Removing
  <2>2. \A q \in Pulls : At(q.c, q.k, "wait")' <=> At(q.c, q.k, "wait")
    BY <1>0 DEF At
  <2> QED
    BY <1>1, <2>1, <2>2 DEF Registered
<1>6. \A i \in DOMAIN waiting[u] : i # 1 => waiting[u][i] # p
  <2>1. u \in Users /\ 1 \in DOMAIN waiting[u] /\ waiting[u][1] = p
    BY <1>0, <1>1
  <2>2. \A i, j \in DOMAIN waiting[u] : waiting[u][i] = waiting[u][j] => i = j
    BY <2>1 DEF FlowInv, WaitInv
  <2> QED
    BY <2>1, <2>2
<1>7. \A v \in Users : \A i \in DOMAIN waiting[v] : waiting[v][i] \in Pulls
  BY DEF TypeInv, ListType
<1> HIDE DEF u
<1>8. u = UserOf[p.c]
  BY <1>1 DEF u
<1>9. WaitInv'
  <2> SUFFICES ASSUME NEW v \in Users
               PROVE  /\ \A i \in DOMAIN waiting'[v] : /\ UserOf[waiting'[v][i].c] = v
                                                       /\ waiting'[v][i] \in Registered'
                      /\ \A i, j \in DOMAIN waiting'[v] : waiting'[v][i] = waiting'[v][j] => i = j
                      /\ \A q \in Pulls : UserOf[q.c] = v /\ q \in Registered' =>
                                             \E i \in DOMAIN waiting'[v] : waiting'[v][i] = q
    BY DEF WaitInv, At
  <2>a. /\ \A i \in DOMAIN waiting[v] : /\ UserOf[waiting[v][i].c] = v
                                       /\ waiting[v][i] \in Registered
        /\ \A i, j \in DOMAIN waiting[v] : waiting[v][i] = waiting[v][j] => i = j
        /\ \A q \in Pulls : UserOf[q.c] = v /\ q \in Registered =>
                               \E i \in DOMAIN waiting[v] : waiting[v][i] = q
    BY DEF FlowInv, WaitInv
  <2>1. CASE v # u
    <3>1. waiting'[v] = waiting[v] /\ \A i \in DOMAIN waiting[v] : waiting[v][i] # p /\ waiting[v][i] \in Pulls
      BY <1>4, <1>7, <1>8, <2>1, <2>a
    <3>2. \A i \in DOMAIN waiting'[v] : waiting'[v][i] \in Registered'
      BY <1>5, <2>a, <3>1 DEF At
    <3>3. \A q \in Pulls : UserOf[q.c] = v /\ q \in Registered' => q \in Registered
      BY <1>5, <1>8, <2>1
    <3> QED
      BY <2>a, <3>1, <3>2, <3>3
  <2>2. CASE v = u
    <3>1. \A i \in DOMAIN waiting'[u] : /\ UserOf[waiting'[u][i].c] = u
                                        /\ waiting'[u][i] \in Registered'
      <4> SUFFICES ASSUME NEW i \in DOMAIN waiting'[u]
                   PROVE  UserOf[waiting'[u][i].c] = u /\ waiting'[u][i] \in Registered'
        OBVIOUS
      <4>1. waiting'[u][i] = waiting[u][i + 1] /\ i + 1 \in DOMAIN waiting[u] /\ i + 1 # 1
        BY <1>4, <1>0
      <4>2. waiting[u][i + 1] \in Pulls /\ waiting[u][i + 1] # p
        BY <1>6, <1>7, <4>1, <2>2
      <4>3. UserOf[waiting[u][i + 1].c] = u /\ waiting[u][i + 1] \in Registered
        BY <2>2, <2>a, <4>1
      <4> QED
        BY <1>5, <4>1, <4>2, <4>3 DEF At
    <3>2. \A i, j \in DOMAIN waiting'[u] : waiting'[u][i] = waiting'[u][j] => i = j
      BY <1>0, <1>4, <2>2, <2>a
    <3>3. \A q \in Pulls : UserOf[q.c] = u /\ q \in Registered' => \E i \in DOMAIN waiting'[u] : waiting'[u][i] = q
      <4> SUFFICES ASSUME NEW q \in Pulls, UserOf[q.c] = u, q \in Registered'
                   PROVE  \E i \in DOMAIN waiting'[u] : waiting'[u][i] = q
        OBVIOUS
      <4>1. q # p /\ q \in Registered
        BY <1>5
      <4>2. PICK i \in DOMAIN waiting[u] : waiting[u][i] = q
        BY <2>2, <2>a, <4>1
      <4>3. i # 1
        BY <1>1, <4>1, <4>2 DEF u
      <4>4. i - 1 \in DOMAIN waiting'[u] /\ waiting'[u][i - 1] = waiting[u][i]
        BY <1>4, <4>3
      <4> QED
        BY <4>2, <4>4
    <3> QED
      BY <2>2, <3>1, <3>2, <3>3
  <2> QED
    BY <2>1, <2>2
<1> QED
  BY <1>3, <1>9 DEF FlowInv

LEMMA StartFlow == ASSUME TypeInv, FlowInv, CallInv', setup' = setup, StartPull PROVE FlowInv'
<1> SUFFICES ASSUME NEW c, NEW k, c = rd.req.c, k = rd.req.n PROVE FlowInv'
  OBVIOUS
<1>0. /\ UNCHANGED <<waiting, queue, cmd, pull>> /\ rd'.pc = "idle" /\ rd.pc # "idle" /\ rd.req.op = "pull"
      /\ rd.pc \notin Removing /\ rd'.pc \notin Removing
  BY StartFacts DEF server, client, puller, Removing
<1>1. c \in Clients /\ k \in Attempt(c) /\ Goes(c, k, {"queued"}, {"find", "lost"})
  BY StartGoes
<1>2. PullInv' /\ WaitInv'
  <2>1. \A d \in Clients : \A j \in Attempt(d) : /\ At(d, j, "none")' <=> At(d, j, "none")
                                                 /\ At(d, j, "wait")' <=> At(d, j, "wait")
    BY <1>1 DEF Goes, At
  <2> QED
    BY <1>0, <2>1, SamePulls, SameWaiting, NoneCalled DEF FlowInv
<1>3. rd.req \in GoodRequest /\ \A i \in DOMAIN queue : queue[i] # rd.req /\ queue[i] \in Asked /\ queue[i] \in GoodRequest
  BY <1>0, ReaderFacts, QueueFacts DEF FlowInv, RequestInv
<1>4. \A r \in GoodRequest : r # rd.req /\ r \in Asked => r \in Asked'
  BY <1>0, <1>1, <1>3, GoodFacts DEF Asked, Pending, At, Goes
<1>5. RequestInv'
  BY <1>0, <1>3, <1>4 DEF FlowInv, RequestInv
<1> QED
  BY <1>2, <1>5 DEF FlowInv

LEMMA EnlistWaiting ==
    ASSUME TypeInv, FlowInv, setup' = setup, rd' = rd, NEW c \in Clients, NEW k \in Attempt(c), Enlists(c, k)
    PROVE  WaitInv'
<1> DEFINE u == UserOf[c]
           p == [c |-> c, k |-> k]
<1>0. u \in Users /\ p \in Pulls /\ p.c = c /\ p.k = k /\ waiting[u] \in Seq(Pulls) /\ DOMAIN waiting = Users
  BY ConstantFacts DEF TypeInv, ListType
<1>1. \A q \in Pulls : Called(q)' <=> Called(q)
  <2>1. Notified' = Notified
    BY SameNotified
  <2>2. rd.pc \in Removing => /\ Notified \in Users /\ waiting[Notified] # <<>>
                              /\ waiting'[Notified] # <<>> /\ Head(waiting'[Notified]) = Head(waiting[Notified])
    BY HeadFacts, EnlistsFacts DEF FlowInv, CallInv
  <2> QED
    BY <2>1, <2>2 DEF Called, Removing
<1>2. p \notin Registered /\ p \in Registered'
  <2>1. co[c][k].pc \in {"push", "insert"} /\ co'[c][k].pc = "wait"
    BY DEF Enlists, Goes
  <2>2. ~Called(p)
    <3> SUFFICES ASSUME rd.pc \in Removing, Head(waiting[Notified]) = p PROVE FALSE
      BY DEF Called, Removing
    <3>1. co[c][k].pc \in Resumed
      BY <1>0 DEF FlowInv, CallInv, HeadInv
    <3> QED
      BY <2>1, <3>1 DEF Resumed
  <2> QED
    BY <1>0, <2>1, <2>2 DEF Registered, At
<1> HIDE DEF p
<1>3. \A q \in Pulls : q # p => (q \in Registered' <=> q \in Registered)
  <2> SUFFICES ASSUME NEW q \in Pulls, q # p PROVE q \in Registered' <=> q \in Registered
    OBVIOUS
  <2>1. q.c \in Clients /\ q.k \in Attempt(q.c) /\ (q.c # c \/ q.k # k)
    BY ConstantFacts DEF p
  <2>2. At(q.c, q.k, "wait")' <=> At(q.c, q.k, "wait")
    BY <2>1 DEF Enlists, Goes, At
  <2> QED
    BY <1>1, <2>2 DEF Registered
<1> DEFINE m == Len(waiting[u]) + 1
<1>4a. /\ waiting'[u][m] = p
       /\ \A i \in DOMAIN waiting[u] : waiting'[u][i] = waiting[u][i] /\ i \in DOMAIN waiting'[u]
       /\ \A i \in DOMAIN waiting'[u] : i \in DOMAIN waiting[u] \/ i = m
       /\ m \notin DOMAIN waiting[u] /\ m \in DOMAIN waiting'[u]
       /\ \A v \in Users : v # u => waiting'[v] = waiting[v]
  BY EnlistsFacts DEF p
<1>5. \A v \in Users : \A i \in DOMAIN waiting[v] : waiting[v][i] \in Pulls /\ waiting[v][i] # p
  BY <1>0, <1>2 DEF TypeInv, ListType, FlowInv, WaitInv
<1> HIDE DEF m
<1> SUFFICES ASSUME NEW v \in Users
             PROVE  /\ \A i \in DOMAIN waiting'[v] : /\ UserOf[waiting'[v][i].c] = v
                                                     /\ waiting'[v][i] \in Registered'
                    /\ \A i, j \in DOMAIN waiting'[v] : waiting'[v][i] = waiting'[v][j] => i = j
                    /\ \A q \in Pulls : UserOf[q.c] = v /\ q \in Registered' =>
                                           \E i \in DOMAIN waiting'[v] : waiting'[v][i] = q
  BY DEF WaitInv, At
<1>a. /\ \A i \in DOMAIN waiting[v] : /\ UserOf[waiting[v][i].c] = v
                                     /\ waiting[v][i] \in Registered
      /\ \A i, j \in DOMAIN waiting[v] : waiting[v][i] = waiting[v][j] => i = j
      /\ \A q \in Pulls : UserOf[q.c] = v /\ q \in Registered =>
                             \E i \in DOMAIN waiting[v] : waiting[v][i] = q
  BY DEF FlowInv, WaitInv
<1>b. \A i \in DOMAIN waiting[v] : waiting[v][i] \in Registered'
  BY <1>3, <1>5, <1>a DEF At
<1>6. CASE v # u
  <2>1. \A q \in Pulls : UserOf[q.c] = v /\ q \in Registered' => q \in Registered
    BY <1>0, <1>3, <1>6
  <2> QED
    BY <1>4a, <1>6, <1>a, <1>b, <2>1
<1>7. CASE v = u
  <2>1. \A i \in DOMAIN waiting'[u] : /\ UserOf[waiting'[u][i].c] = u
                                      /\ waiting'[u][i] \in Registered'
    <3> SUFFICES ASSUME NEW i \in DOMAIN waiting'[u]
                 PROVE  UserOf[waiting'[u][i].c] = u /\ waiting'[u][i] \in Registered'
      OBVIOUS
    <3>1. CASE i \in DOMAIN waiting[u]
      BY <1>4a, <1>7, <1>a, <1>b, <3>1 DEF At
    <3>2. CASE i = m
      BY <1>0, <1>2, <1>4a, <3>2 DEF At
    <3> QED
      BY <1>4a, <3>1, <3>2
  <2>2. \A i, j \in DOMAIN waiting'[u] : waiting'[u][i] = waiting'[u][j] => i = j
    BY <1>4a, <1>5, <1>7, <1>a
  <2>3. \A q \in Pulls : UserOf[q.c] = u /\ q \in Registered' => \E i \in DOMAIN waiting'[u] : waiting'[u][i] = q
    <3> SUFFICES ASSUME NEW q \in Pulls, UserOf[q.c] = u, q \in Registered'
                 PROVE  \E i \in DOMAIN waiting'[u] : waiting'[u][i] = q
      OBVIOUS
    <3>1. CASE q = p
      BY <1>4a, <3>1
    <3>2. CASE q # p
      <4>1. PICK i \in DOMAIN waiting[u] : waiting[u][i] = q
        BY <1>3, <1>7, <1>a, <3>2
      <4> QED
        BY <1>4a, <4>1
    <3> QED
      BY <3>1, <3>2
  <2> QED
    BY <1>7, <2>1, <2>2, <2>3
<1> QED
  BY <1>6, <1>7

LEMMA CoroutineFlow ==
    ASSUME TypeInv, FlowInv, CallInv', setup' = setup, NEW c \in Clients, NEW k \in Attempt(c), Coroutine(c, k)
    PROVE  FlowInv'
<1>0. UNCHANGED <<queue, rd, cmd>>
  BY CoroutineGoes
<1>1. CASE (Looks(c, k) \/ Goes(c, k, {"insert"}, {"lost"})) /\ UNCHANGED <<waiting, listed, puller>>
  <2>1. \A d \in Clients : \A j \in Attempt(d) : /\ At(d, j, "queued")' <=> At(d, j, "queued")
                                                 /\ At(d, j, "none")' <=> At(d, j, "none")
                                                 /\ At(d, j, "wait")' <=> At(d, j, "wait")
    BY <1>1 DEF Looks, Goes, At
  <2> QED
    BY <1>0, <1>1, <2>1, SamePending, SameRequests, SamePulls, SameWaiting, SameCalled DEF FlowInv, puller
<1>2. CASE Enlists(c, k) /\ UNCHANGED puller
  <2>1. \A d \in Clients : \A j \in Attempt(d) : /\ At(d, j, "queued")' <=> At(d, j, "queued")
                                                 /\ At(d, j, "none")' <=> At(d, j, "none")
    BY <1>2 DEF Enlists, Goes, At
  <2>2. RequestInv' /\ PullInv'
    BY <1>0, <1>2, <2>1, SamePending, SameRequests, SamePulls DEF FlowInv, puller
  <2> QED
    BY <1>0, <1>2, <2>2, EnlistWaiting DEF FlowInv
<1>3. CASE Answer(c, k) /\ Goes(c, k, {"answer", "null"}, {"none"}) /\ UNCHANGED <<waiting, listed>>
  <2>1. \A d \in Clients : \A j \in Attempt(d) : /\ At(d, j, "queued")' <=> At(d, j, "queued")
                                                 /\ At(d, j, "wait")' <=> At(d, j, "wait")
    BY <1>3 DEF Goes, At
  <2>2. RequestInv' /\ WaitInv'
    BY <1>0, <1>3, <2>1, SamePending, SameRequests, SameWaiting, SameCalled DEF FlowInv
  <2>3. co'[c][k].pc = "none" /\ \A d \in Clients : \A j \in Attempt(d) : d # c \/ j # k => co'[d][j] = co[d][j]
    BY <1>3 DEF Goes
  <2>4. \/ k = pull[c].k /\ pull' = [pull EXCEPT ![c].busy = FALSE]
        \/ k # pull[c].k /\ pull' = pull
    BY <1>3 DEF Answer
  <2>5. pull \in [Clients -> [k : Nat, busy : BOOLEAN]]
    BY DEF TypeInv, ClientType
  <2>6. PullInv'
    BY <2>3, <2>4, <2>5 DEF FlowInv, PullInv, At
  <2> QED
    BY <2>2, <2>6 DEF FlowInv
<1> QED
  BY <1>1, <1>2, <1>3, CoroutineCalls DEF FlowInv

LEMMA FlowStep == TypeInv /\ FlowInv /\ [Next]_vars => FlowInv'
<1> SUFFICES ASSUME TypeInv, FlowInv, [Next]_vars PROVE FlowInv'
  OBVIOUS
<1>1. CASE Next
  <2>1. setup' = setup /\ Effect
    BY <1>1, NextEffect
  <2>0. CallInv'
    BY CallStep DEF FlowInv
  <2>2. CASE Post \/ Copy \/ Turn
    <3>1. rd.pc # "idle" /\ rd.pc \notin Removing /\ \E pc : pc \notin Removing /\ rd' = [rd EXCEPT !.pc = pc]
      BY <2>2 DEF Post, Copy, Turn, Serves, Removing
    <3> QED
      BY <2>0, <2>2, <3>1, GoOnFlow DEF Post, Copy, Turn, server
  <2> QED
    BY <2>0, <2>1, <2>2, CommandFlow, RefusedFlow, CallFlow, PullRefusedFlow, BreakFlow, TakeFlow,
       ReturnEffect, ReturnFlow, NotifyFlow, PopFlow, StartFlow, CoroutineFlow DEF Effect
<1>2. CASE UNCHANGED vars
  <2>0. CallInv'
    BY CallStep DEF FlowInv
  <2>1. UNCHANGED <<setup, waiting, queue, rd, co, cmd, pull>>
    BY <1>2 DEF vars, state, server, client, puller
  <2>2. RequestInv' /\ PullInv' /\ WaitInv'
    BY <2>1, SameRequests, SamePulls, SameWaiting, SameCalled DEF FlowInv, Asked, Pending, At
  <2> QED
    BY <2>0, <2>2 DEF FlowInv
<1> QED
  BY <1>1, <1>2

(* No request is lost or taken twice between a client, the queue and the reader, and a
   client has at most one pull that it listens to. *)
THEOREM FlowCorrect == Spec => []FlowInv
<1>1. Init => FlowInv
  BY FlowInit
<1>2. TypeInv /\ FlowInv /\ [Next]_vars => FlowInv'
  BY FlowStep
<1> QED
  BY <1>1, <1>2, TypeCorrect, PTL DEF Spec

(* A pull is registered once, and only while it is suspended or being called, however the
   reader resumes and removes pulls while others register. *)
THEOREM RegisteredOnceHolds == Spec => []RegisteredOnce
<1>1. TypeInv /\ FlowInv => RegisteredOnce
  <2> SUFFICES ASSUME TypeInv, FlowInv PROVE RegisteredOnce
    OBVIOUS
  <2>1. ASSUME NEW u \in Users, NEW p \in Pulls, UserOf[p.c] = u
        PROVE  At(p.c, p.k, "wait") \/ Called(p) <=> \E i \in DOMAIN waiting[u] : waiting[u][i] = p
    <3>1. /\ \A i \in DOMAIN waiting[u] : waiting[u][i] \in Registered
          /\ p \in Registered => \E i \in DOMAIN waiting[u] : waiting[u][i] = p
      BY <2>1 DEF FlowInv, WaitInv
    <3> QED
      BY <3>1 DEF Registered
  <2>2. \A u \in Users : \A i, j \in DOMAIN waiting[u] : waiting[u][i] = waiting[u][j] => i = j
    BY DEF FlowInv, WaitInv
  <2> QED
    BY <2>1, <2>2 DEF RegisteredOnce
<1> QED
  BY <1>1, TypeCorrect, FlowCorrect, PTL

-----------------------------------------------------------------------------
(* What client c has displayed, and what a pull of its has found, are parts of the
   messages of its user. *)
Own(c) == msgs[UserOf[c]]
Shown(c) == /\ index[c] = Len(got[c]) /\ Len(got[c]) <= Len(Own(c))
            /\ \A i \in 1 .. Len(got[c]) : got[c][i] = Own(c)[i]
Found(c, k) == /\ co[c][k].from + Len(co[c][k].list) <= Len(Own(c))
               /\ \A i \in 1 .. Len(co[c][k].list) : co[c][k].list[i] = Own(c)[co[c][k].from + i]
               /\ k = pull[c].k /\ co[c][k].pc # "none" => co[c][k].from = index[c]
OrderInv == \A c \in Clients : Shown(c) /\ \A k \in Attempt(c) : Found(c, k)

(* Messages are added at the end of a list. *)
LEMMA MessagesGrow ==
    ASSUME TypeInv, setup' = setup, Effect
    PROVE  \A u \in Users : /\ Len(msgs[u]) \in Nat /\ Len(msgs'[u]) \in Nat /\ Len(msgs[u]) <= Len(msgs'[u])
                            /\ \A i \in 1 .. Len(msgs[u]) : msgs'[u][i] = msgs[u][i]
<1>0. msgs \in [Users -> Seq(Message)]
  BY DEF TypeInv, ListType
<1>1. ASSUME NEW u \in Users, NEW m \in Message, msgs' = [msgs EXCEPT ![u] = Append(@, m)]
      PROVE  \A v \in Users : /\ Len(msgs[v]) \in Nat /\ Len(msgs'[v]) \in Nat /\ Len(msgs[v]) <= Len(msgs'[v])
                              /\ \A i \in 1 .. Len(msgs[v]) : msgs'[v][i] = msgs[v][i]
  <2>1. msgs'[u] = Append(msgs[u], m) /\ \A v \in Users : v # u => msgs'[v] = msgs[v]
    BY <1>0, <1>1
  <2>2. \A v \in Users : Len(msgs[v]) \in Nat
    BY <1>0
  <2>3. Len(msgs'[u]) = Len(msgs[u]) + 1 /\ \A i \in 1 .. Len(msgs[u]) : msgs'[u][i] = msgs[u][i]
    BY <1>0, <2>1, AppendFact
  <2> QED
    BY <2>1, <2>2, <2>3
<1>2. CASE Post
  <2>1. rd.pc # "idle" /\ rd.req.op = "cmd" /\ Cmd.op = "send" /\ Cmd.to \in Users
    BY <1>2, ReaderFacts, CommandFacts DEF Post, Serves
  <2>2. Sent \in Message /\ msgs' = [msgs EXCEPT ![Cmd.to] = Append(@, Sent)]
    BY <1>2, <2>1, AddedType DEF Post
  <2> QED
    BY <1>1, <2>1, <2>2
<1>3. CASE Copy
  <2>1. rd.pc # "idle" /\ rd.req.op = "cmd" /\ Cmd.op = "send" /\ Sender \in Users
    BY <1>3, ReaderFacts DEF Copy, TypeInv, ReaderType, Adding, Sender
  <2>2. Sent \in Message /\ msgs' = [msgs EXCEPT ![Sender] = Append(@, Sent)]
    BY <1>3, <2>1, AddedType DEF Copy
  <2> QED
    BY <1>1, <2>1, <2>2
<1>4. CASE msgs' = msgs
  <2>1. \A u \in Users : Len(msgs[u]) \in Nat
    BY <1>0
  <2> QED
    BY <1>4, <2>1
<1>5. msgs' = msgs \/ Post \/ Copy
  <2>1. CASE \E c \in Clients : Command(c) \/ CommandRefused(c) \/ Pull(c) \/ PullRefused(c) \/ Break(c)
    BY <2>1 DEF Command, CommandRefused, Pull, PullRefused, Break, server
  <2>2. CASE Take \/ Notify \/ PopFront \/ Turn \/ StartPull
    BY <2>2 DEF Take, Notify, PopFront, Removes, Turn, StartPull, server
  <2>3. CASE Account \/ End
    BY <2>3, ReturnEffect DEF Returns
  <2>4. CASE \E c \in Clients : \E k \in Attempt(c) : Coroutine(c, k)
    BY <2>4, CoroutineGoes
  <2> QED
    BY <2>1, <2>2, <2>3, <2>4 DEF Effect
<1> QED
  BY <1>2, <1>3, <1>4, <1>5

LEMMA OwnFacts == ASSUME TypeInv, NEW c \in Clients
                  PROVE  /\ Own(c) \in Seq(Message) /\ got[c] \in Seq(Message) /\ index[c] \in Nat
                         /\ Len(Own(c)) \in Nat /\ Len(got[c]) \in Nat
                         /\ \A k \in Attempt(c) : /\ co[c][k] \in PullState /\ co[c][k].from \in Nat
                                                  /\ co[c][k].list \in Seq(Message) /\ Len(co[c][k].list) \in Nat
<1>1. Own(c) \in Seq(Message) /\ got[c] \in Seq(Message) /\ index[c] \in Nat
  BY ConstantFacts DEF TypeInv, ListType, ClientType, Own
<1>2. \A k \in Attempt(c) : co[c][k] \in PullState /\ co[c][k].from \in Nat /\ co[c][k].list \in Seq(Message)
  BY DEF TypeInv, PullType, PullState
<1> QED
  BY <1>1, <1>2

(* What is a part of the messages stays one. *)
LEMMA ShownStays ==
    ASSUME TypeInv, OrderInv, setup' = setup, Effect, NEW c \in Clients, index'[c] = index[c], got'[c] = got[c]
    PROVE  Shown(c)'
<1>1. /\ Len(Own(c)') \in Nat /\ Len(Own(c)) <= Len(Own(c)')
      /\ \A i \in 1 .. Len(Own(c)) : Own(c)'[i] = Own(c)[i]
  BY MessagesGrow, ConstantFacts DEF Own
<1>2. index[c] = Len(got[c]) /\ Len(got[c]) <= Len(Own(c)) /\ \A i \in 1 .. Len(got[c]) : got[c][i] = Own(c)[i]
  BY DEF OrderInv, Shown
<1>3. \A i \in 1 .. Len(got[c]) : i \in 1 .. Len(Own(c))
  BY <1>2, OwnFacts
<1> QED
  BY <1>1, <1>2, <1>3, OwnFacts DEF Shown

LEMMA FoundStays ==
    ASSUME TypeInv, OrderInv, setup' = setup, Effect, NEW c \in Clients, NEW k \in Attempt(c),
           co'[c][k].from = co[c][k].from, co'[c][k].list = co[c][k].list,
           k = pull'[c].k /\ co'[c][k].pc # "none" =>
               k = pull[c].k /\ co[c][k].pc # "none" /\ index'[c] = index[c]
    PROVE  Found(c, k)'
<1>1. /\ Len(Own(c)') \in Nat /\ Len(Own(c)) <= Len(Own(c)')
      /\ \A i \in 1 .. Len(Own(c)) : Own(c)'[i] = Own(c)[i]
  BY MessagesGrow, ConstantFacts DEF Own
<1>2. /\ co[c][k].from + Len(co[c][k].list) <= Len(Own(c))
      /\ \A i \in 1 .. Len(co[c][k].list) : co[c][k].list[i] = Own(c)[co[c][k].from + i]
      /\ k = pull[c].k /\ co[c][k].pc # "none" => co[c][k].from = index[c]
  BY DEF OrderInv, Found
<1>3. \A i \in 1 .. Len(co[c][k].list) : co[c][k].from + i \in 1 .. Len(Own(c))
  BY <1>2, OwnFacts
<1>4. co[c][k].from + Len(co[c][k].list) <= Len(Own(c)')
  BY <1>1, <1>2, OwnFacts
<1>5. \A i \in 1 .. Len(co[c][k].list) : co[c][k].list[i] = Own(c)'[co[c][k].from + i]
  BY <1>1, <1>2, <1>3
<1> QED
  BY <1>2, <1>4, <1>5 DEF Found

(* Steps of which no pull and no client takes notice. *)
LEMMA OrderStays ==
    ASSUME TypeInv, OrderInv, setup' = setup, Effect, UNCHANGED <<index, got, pull>>,
           \A c \in Clients : \A k \in Attempt(c) :
              /\ co'[c][k].from = co[c][k].from /\ co'[c][k].list = co[c][k].list
              /\ co'[c][k].pc # "none" => co[c][k].pc # "none"
    PROVE  OrderInv'
<1>1. \A c \in Clients : Shown(c)'
  BY ShownStays
<1>2. ASSUME NEW c \in Clients, NEW k \in Attempt(c) PROVE Found(c, k)'
  BY FoundStays
<1> QED
  BY <1>1, <1>2 DEF OrderInv

LEMMA CallOrder == ASSUME TypeInv, FlowInv, OrderInv, setup' = setup, Effect, NEW c \in Clients, Pull(c) PROVE OrderInv'
<1> SUFFICES ASSUME NEW k, k = pull[c].k PROVE OrderInv'
  OBVIOUS
<1>1. UNCHANGED <<index, got, msgs>> /\ pull' = [pull EXCEPT ![c].busy = TRUE]
      /\ pull \in [Clients -> [k : Nat, busy : BOOLEAN]]
  BY DEF Pull, server, TypeInv, ClientType
<1>2. /\ k \in Attempt(c) /\ co'[c][k] = [pc |-> "queued", from |-> index[c], list |-> <<>>]
      /\ \A d \in Clients : \A j \in Attempt(d) : d # c \/ j # k => co'[d][j] = co[d][j]
  BY CallGoes
<1>3. \A d \in Clients : Shown(d)'
  BY <1>1, ShownStays
<1>4. \A d \in Clients : \A j \in Attempt(d) : d # c \/ j # k => Found(d, j)'
  BY <1>1, <1>2, FoundStays
<1>5. Found(c, k)'
  <2>1. co'[c][k].from = index[c] /\ co'[c][k].list = <<>>
    BY <1>2
  <2>2. index[c] + 0 <= Len(Own(c)) /\ Len(<<>>) = 0
    BY OwnFacts DEF OrderInv, Shown
  <2> QED
    BY <1>1, <2>1, <2>2 DEF Found, Own
<1> QED
  BY <1>3, <1>4, <1>5 DEF OrderInv

LEMMA BreakOrder == ASSUME TypeInv, FlowInv, OrderInv, setup' = setup, Effect, NEW c \in Clients, Break(c) PROVE OrderInv'
<1>1. UNCHANGED <<index, got, msgs, co>> /\ pull' = [pull EXCEPT ![c] = [k |-> pull[c].k + 1, busy |-> FALSE]]
      /\ pull \in [Clients -> [k : Nat, busy : BOOLEAN]]
  BY DEF Break, server, TypeInv, ClientType
<1>2. \A k \in Attempt(c) : k = pull'[c].k => co[c][k].pc = "none"
  <2>1. pull'[c].k = pull[c].k + 1 /\ pull[c].k \in Nat
    BY <1>1
  <2> QED
    BY <2>1 DEF FlowInv, PullInv, At
<1>3. \A d \in Clients : Shown(d)'
  BY <1>1, ShownStays
<1>4. ASSUME NEW d \in Clients, NEW j \in Attempt(d) PROVE Found(d, j)'
  <2>1. j = pull'[d].k /\ co'[d][j].pc # "none" => j = pull[d].k /\ co[d][j].pc # "none"
    BY <1>1, <1>2
  <2> QED
    BY <1>1, <2>1, FoundStays
<1> QED
  BY <1>3, <1>4 DEF OrderInv

(* A list that a pull finds. *)
LEMMA ListFound ==
    ASSUME TypeInv, OrderInv, setup' = setup, Effect, NEW c \in Clients, NEW k \in Attempt(c), NEW pc,
           msgs' = msgs, UNCHANGED <<index, got, pull>>, co[c][k].pc # "none",
           co' = [co EXCEPT ![c][k] = [pc |-> pc, from |-> @.from,
                                       list |-> MessagesFrom(UserOf[c], @.from)]]
    PROVE  OrderInv'
<1> DEFINE s == MessagesFrom(UserOf[c], co[c][k].from)
           f == co[c][k].from
<1>1. /\ co'[c][k] = [pc |-> pc, from |-> f, list |-> s]
      /\ \A d \in Clients : \A j \in Attempt(d) : d # c \/ j # k => co'[d][j] = co[d][j]
  BY DEF TypeInv, PullType
<1>2. /\ f + Len(co[c][k].list) <= Len(Own(c))
      /\ k = pull[c].k => f = index[c]
  BY DEF OrderInv, Found
<1>3. s = SubSeq(Own(c), f + 1, Len(Own(c)))
  BY DEF MessagesFrom, Own
<1>4. f \in Nat /\ Own(c) \in Seq(Message) /\ f <= Len(Own(c)) /\ Len(Own(c)) \in Nat
  BY <1>2, OwnFacts
<1> HIDE DEF s, f
<1>5. f + Len(s) <= Len(Own(c)) /\ \A i \in 1 .. Len(s) : s[i] = Own(c)[f + i]
  BY <1>3, <1>4, RestFact
<1>6. co'[c][k].from = f /\ co'[c][k].list = s
  BY <1>1
<1>7. Found(c, k)'
  BY <1>2, <1>5, <1>6 DEF Found, Own
<1>8. \A d \in Clients : Shown(d)'
  BY ShownStays
<1>9. \A d \in Clients : \A j \in Attempt(d) : d # c \/ j # k => Found(d, j)'
  BY <1>1, FoundStays
<1> QED
  BY <1>7, <1>8, <1>9 DEF OrderInv

LEMMA AnswerOrder ==
    ASSUME TypeInv, FlowInv, OrderInv, setup' = setup, Effect, NEW c \in Clients, NEW k \in Attempt(c), Answer(c, k)
    PROVE  OrderInv'
<1>1. /\ co' = [co EXCEPT ![c][k] = NoPull] /\ msgs' = msgs /\ co[c][k].pc # "none"
  BY DEF Answer, server, At
<1>2. /\ co'[c][k] = NoPull
      /\ \A d \in Clients : \A j \in Attempt(d) : d # c \/ j # k => co'[d][j] = co[d][j]
  BY <1>1 DEF TypeInv, PullType
<1>3. Found(c, k)'
  <2>1. co'[c][k].from = 0 /\ co'[c][k].list = <<>> /\ co'[c][k].pc = "none" /\ Len(<<>>) = 0
    BY <1>2 DEF NoPull
  <2>2. Own(c)' = Own(c)
    BY <1>1 DEF Own
  <2> QED
    BY <1>1, <2>1, <2>2, OwnFacts DEF Found
<1>4. CASE k # pull[c].k /\ UNCHANGED <<pull, index, got>>
  <2>1. \A d \in Clients : Shown(d)'
    BY <1>4, ShownStays
  <2>2. \A d \in Clients : \A j \in Attempt(d) : d # c \/ j # k => Found(d, j)'
    BY <1>2, <1>4, FoundStays
  <2> QED
    BY <1>3, <2>1, <2>2 DEF OrderInv
<1>5. CASE /\ k = pull[c].k /\ pull' = [pull EXCEPT ![c].busy = FALSE]
           /\ Counted(c, co[c][k].list) /\ got' = [got EXCEPT ![c] = @ \o co[c][k].list]
  <2> DEFINE t == co[c][k].list
  <2>1. /\ index'[c] = index[c] + Len(t) /\ got'[c] = got[c] \o t
        /\ \A d \in Clients : d # c => index'[d] = index[d] /\ got'[d] = got[d]
        /\ \A d \in Clients : pull'[d].k = pull[d].k
    BY <1>5 DEF Counted, TypeInv, ClientType
  <2>2. \A d \in Clients : d # c => Shown(d)'
    BY <2>1, ShownStays
  <2>3. ASSUME NEW d \in Clients, NEW j \in Attempt(d), d # c \/ j # k PROVE Found(d, j)'
    <3>1. j = pull'[d].k /\ co'[d][j].pc # "none" =>
               j = pull[d].k /\ co[d][j].pc # "none" /\ index'[d] = index[d]
      BY <1>2, <1>5, <2>1, <2>3
    <3>2. co'[d][j] = co[d][j]
      BY <1>2, <2>3
    <3> QED
      BY <3>1, <3>2, FoundStays
  <2>4. Shown(c)'
    <3>1. /\ index[c] = Len(got[c]) /\ Len(got[c]) <= Len(Own(c))
          /\ \A i \in 1 .. Len(got[c]) : got[c][i] = Own(c)[i]
      BY DEF OrderInv, Shown
    <3>2. /\ index[c] + Len(t) <= Len(Own(c))
          /\ \A i \in 1 .. Len(t) : t[i] = Own(c)[index[c] + i]
      BY <1>1, <1>5 DEF OrderInv, Found
    <3>3. t \in Seq(Message) /\ got[c] \in Seq(Message) /\ Len(t) \in Nat /\ Len(got[c]) \in Nat
      BY OwnFacts
    <3> HIDE DEF t
    <3>4. /\ Len(got'[c]) = Len(got[c]) + Len(t)
          /\ \A i \in 1 .. Len(got[c]) : got'[c][i] = got[c][i]
          /\ \A i \in 1 .. Len(t) : got'[c][Len(got[c]) + i] = t[i]
      BY <2>1, <3>3, ConcatFact
    <3>5. \A i \in 1 .. Len(got'[c]) : got'[c][i] = Own(c)[i]
      <4> SUFFICES ASSUME NEW i \in 1 .. Len(got'[c]) PROVE got'[c][i] = Own(c)[i]
        OBVIOUS
      <4>1. CASE i \in 1 .. Len(got[c])
        BY <3>1, <3>4, <4>1
      <4>2. CASE i \notin 1 .. Len(got[c])
        <5> DEFINE j == i - Len(got[c])
        <5>1. j \in 1 .. Len(t) /\ i = Len(got[c]) + j
          BY <3>3, <3>4, <4>2
        <5> QED
          BY <3>1, <3>2, <3>4, <5>1
      <4> QED
        BY <4>1, <4>2
    <3> QED
      BY <1>1, <2>1, <3>1, <3>2, <3>4, <3>5 DEF Shown, Own
  <2> QED
    BY <1>3, <2>2, <2>3, <2>4 DEF OrderInv
<1> QED
  BY <1>4, <1>5 DEF Answer

LEMMA CoroutineOrder ==
    ASSUME TypeInv, FlowInv, OrderInv, setup' = setup, Effect, NEW c \in Clients, NEW k \in Attempt(c), Coroutine(c, k)
    PROVE  OrderInv'
<1>1. CASE Find(c, k) \/ Register(c, k) \/ PushBack(c, k) \/ Insert(c, k)
  <2>1. UNCHANGED <<index, got, pull>> /\ \E pc : co' = [co EXCEPT ![c][k].pc = pc] /\ co[c][k].pc # "none"
    BY <1>1 DEF Find, Register, PushBack, Insert, GoTo, client, puller, At
  <2>2. PICK pc : co' = [co EXCEPT ![c][k].pc = pc] /\ co[c][k].pc # "none"
    BY <2>1
  <2>3. \A d \in Clients : \A j \in Attempt(d) :
              /\ co'[d][j].from = co[d][j].from /\ co'[d][j].list = co[d][j].list
              /\ co'[d][j].pc # "none" => co[d][j].pc # "none"
    BY <2>2, OwnFacts DEF TypeInv, PullType, PullState
  <2> QED
    BY <2>1, <2>3, OrderStays
<1>2. CASE Read(c, k)
  <2>1. msgs' = msgs /\ UNCHANGED <<index, got, pull>> /\ co[c][k].pc # "none"
    BY <1>2 DEF Read, server, client, puller, At
  <2> DEFINE pc == IF MessagesFrom(UserOf[c], co[c][k].from) = <<>> THEN "register" ELSE "answer"
  <2>2. co' = [co EXCEPT ![c][k] = [pc |-> pc, from |-> @.from, list |-> MessagesFrom(UserOf[c], @.from)]]
    BY <1>2 DEF Read
  <2> HIDE DEF pc
  <2> QED
    BY <2>1, <2>2, ListFound
<1>3. CASE ReadAgain(c, k)
  <2>1. msgs' = msgs /\ UNCHANGED <<index, got, pull>> /\ co[c][k].pc # "none"
    BY <1>3 DEF ReadAgain, server, client, puller, At
  <2> QED
    BY <1>3, <2>1, ListFound DEF ReadAgain
<1> QED
  BY <1>1, <1>2, <1>3, AnswerOrder DEF Coroutine

LEMMA OrderStep == TypeInv /\ FlowInv /\ OrderInv /\ [Next]_vars => OrderInv'
<1> SUFFICES ASSUME TypeInv, FlowInv, OrderInv, [Next]_vars PROVE OrderInv'
  OBVIOUS
<1>1. CASE Next
  <2>1. setup' = setup /\ Effect
    BY <1>1, NextEffect
  <2>2. CASE \E c \in Clients : Command(c) \/ CommandRefused(c) \/ PullRefused(c)
    <3>1. UNCHANGED <<index, got, pull, co>>
      BY <2>2 DEF Command, CommandRefused, PullRefused, client, puller
    <3> QED
      BY <2>1, <3>1, OrderStays
  <2>3. CASE Take \/ Account \/ End \/ Post \/ Copy \/ PopFront \/ Turn
    <3>1. UNCHANGED <<index, got, pull, co>>
      BY <2>3, ReturnEffect, PopFacts DEF Take, Returns, Post, Copy, Turn, client, puller
    <3> QED
      BY <2>1, <3>1, OrderStays
  <2>4. CASE Notify
    <3> SUFFICES ASSUME NEW p, p = Head(waiting[Notified]) PROVE OrderInv'
      OBVIOUS
    <3>1. UNCHANGED <<index, got, pull>> /\ \E pc : co' = [co EXCEPT ![p.c][p.k].pc = pc]
      BY <2>4, NotifyFacts DEF client, puller
    <3>2. p.c \in Clients /\ p.k \in Attempt(p.c) /\ co[p.c][p.k].pc # "none"
      BY <2>4, NotifyGoes DEF Goes
    <3>3. \A d \in Clients : \A j \in Attempt(d) :
              /\ co'[d][j].from = co[d][j].from /\ co'[d][j].list = co[d][j].list
              /\ co'[d][j].pc # "none" => co[d][j].pc # "none"
      BY <3>1, <3>2, OwnFacts DEF TypeInv, PullType, PullState
    <3> QED
      BY <2>1, <3>1, <3>3, OrderStays
  <2>5. CASE StartPull
    <3> SUFFICES ASSUME NEW c, NEW k, c = rd.req.c, k = rd.req.n PROVE OrderInv'
      OBVIOUS
    <3>1. UNCHANGED <<index, got, pull>> /\ \E pc : co' = [co EXCEPT ![c][k].pc = pc]
      BY <2>5, StartFacts DEF client, puller
    <3>2. c \in Clients /\ k \in Attempt(c) /\ co[c][k].pc # "none"
      BY <2>5, StartGoes DEF Goes
    <3>3. \A d \in Clients : \A j \in Attempt(d) :
              /\ co'[d][j].from = co[d][j].from /\ co'[d][j].list = co[d][j].list
              /\ co'[d][j].pc # "none" => co[d][j].pc # "none"
      BY <3>1, <3>2, OwnFacts DEF TypeInv, PullType, PullState
    <3> QED
      BY <2>1, <3>1, <3>3, OrderStays
  <2> QED
    BY <2>1, <2>2, <2>3, <2>4, <2>5, CallOrder, BreakOrder, CoroutineOrder DEF Effect
<1>2. CASE UNCHANGED vars
  BY <1>2 DEF vars, state, server, client, puller, OrderInv, Shown, Found, Own
<1> QED
  BY <1>1, <1>2

LEMMA OrderInit == Init => OrderInv
<1> SUFFICES ASSUME Init, NEW c \in Clients, NEW k \in Attempt(c) PROVE Shown(c) /\ Found(c, k)
  BY ConstantFacts DEF OrderInv
<1>1. /\ got[c] = <<>> /\ index[c] = 0 /\ Own(c) = <<>> /\ co[c][k].from = 0 /\ co[c][k].list = <<>>
      /\ co[c][k].pc = "none" /\ Len(<<>>) = 0
  BY ConstantFacts DEF Init, Own, NoPull
<1> QED
  BY <1>1 DEF Shown, Found

(* A client displays its user's messages each once and in order, whatever connections break
   and however abandoned pulls are answered. *)
THEOREM InOrderHolds == Spec => []InOrder
<1>1. Init => OrderInv
  BY OrderInit
<1>2. TypeInv /\ FlowInv /\ OrderInv /\ [Next]_vars => OrderInv'
  BY OrderStep
<1>3. TypeInv /\ OrderInv => InOrder
  <2> SUFFICES ASSUME TypeInv, OrderInv, NEW c \in Clients
               PROVE  got[c] = SubSeq(msgs[UserOf[c]], 1, Len(got[c])) /\ index[c] = Len(got[c])
    BY DEF InOrder
  <2>1. /\ index[c] = Len(got[c]) /\ Len(got[c]) <= Len(Own(c))
        /\ \A i \in 1 .. Len(got[c]) : got[c][i] = Own(c)[i]
    BY DEF OrderInv, Shown
  <2> QED
    BY <2>1, OwnFacts, PrefixFact DEF Own
<1> QED
  BY <1>1, <1>2, <1>3, TypeCorrect, FlowCorrect, PTL DEF Spec

-----------------------------------------------------------------------------
(* The messages of a list. *)
Msgs(u) == {msgs[u][i] : i \in DOMAIN msgs[u]}
(* A message is of a command that has been made, and of the last one only if the reader
   has begun to add it. *)
PostInv == \A u \in Users : \A m \in Msgs(u) :
              /\ m \in Message /\ m.n <= cmd[m.by].n
              /\ m.n = cmd[m.by].n /\ cmd[m.by].busy => rd.pc \in Adding /\ m = Sent
(* The message between its two lists is the receiver's last. *)
Halfway == rd.pc \in {"notify", "pop", "copy"} /\ Sender # Cmd.to
LastInv == Halfway => /\ Sent \notin Msgs(Sender)
                      /\ \A m \in Msgs(Cmd.to) : m # Sent => Before(Cmd.to, m, Sent)
                      /\ \A m \in Msgs(Cmd.to) : ~Before(Cmd.to, Sent, m)
                      /\ Sent \in Msgs(Cmd.to)
(* The lists of two users, and the order of their messages. *)
OnceInv == \A u \in Users : \A i, j \in DOMAIN msgs[u] : msgs[u][i] = msgs[u][j] => i = j
PairInv == \A u, v \in Users :
              /\ Between(u, v) \ Unfinished = Between(v, u) \ Unfinished
              /\ \A m, n \in Between(u, v) : Before(u, m, n) => Before(v, m, n) \/ n \in Unfinished
LogInv == PostInv /\ LastInv /\ OnceInv /\ PairInv

LEMMA MsgsFacts ==
    ASSUME TypeInv
    PROVE  \A u \in Users : /\ \A m \in Msgs(u) : m \in Message /\ m.n \in Nat /\ m.by \in Clients
                            /\ msgs[u] \in Seq(Message) /\ DOMAIN msgs[u] = 1 .. Len(msgs[u]) /\ Len(msgs[u]) \in Nat
                            /\ \A v \in Users : Between(u, v) = {m \in Msgs(u) : {m.from, m.to} = {u, v}}
<1>1. \A u \in Users : msgs[u] \in Seq(Message)
  BY DEF TypeInv, ListType
<1>2. \A u \in Users : \A i \in DOMAIN msgs[u] : msgs[u][i] \in Message
  BY <1>1
<1>3. \A u \in Users : \A m \in Msgs(u) : m \in Message
  BY <1>2 DEF Msgs
<1>4. \A m \in Message : m.n \in Nat /\ m.by \in Clients
  BY DEF Message
<1>5. \A u, v \in Users : Between(u, v) = {m \in Msgs(u) : {m.from, m.to} = {u, v}}
  BY DEF Msgs, Between
<1>6. ASSUME NEW u \in Users PROVE DOMAIN msgs[u] = 1 .. Len(msgs[u]) /\ Len(msgs[u]) \in Nat
  <2>1. msgs[u] \in Seq(Message)
    BY <1>1
  <2> QED
    BY <2>1
<1>7. \A u \in Users : \A m \in Msgs(u) : m \in Message /\ m.n \in Nat /\ m.by \in Clients
  BY <1>3, <1>4
<1> QED
  BY <1>1, <1>5, <1>6, <1>7

(* A message that is added comes after the others. *)
LEMMA Added ==
    ASSUME TypeInv, NEW u \in Users, NEW x \in Message, msgs' = [msgs EXCEPT ![u] = Append(@, x)]
    PROVE  /\ Msgs(u)' = Msgs(u) \cup {x} /\ \A v \in Users : v # u => Msgs(v)' = Msgs(v) /\ msgs'[v] = msgs[v]
           /\ \A m, n : Before(u, m, n)' <=> Before(u, m, n) \/ (m \in Msgs(u) /\ n = x)
           /\ \A v \in Users : v # u => \A m, n : Before(v, m, n)' <=> Before(v, m, n)
           /\ OnceInv /\ x \notin Msgs(u) => OnceInv'
<1>1. /\ msgs[u] \in Seq(Message) /\ DOMAIN msgs[u] = 1 .. Len(msgs[u]) /\ Len(msgs[u]) \in Nat
      /\ msgs'[u] = Append(msgs[u], x) /\ \A v \in Users : v # u => msgs'[v] = msgs[v]
  BY MsgsFacts DEF TypeInv, ListType
<1> DEFINE k == Len(msgs[u]) + 1
<1>2. /\ DOMAIN msgs'[u] = DOMAIN msgs[u] \cup {k} /\ msgs'[u][k] = x
      /\ \A i \in DOMAIN msgs[u] : msgs'[u][i] = msgs[u][i] /\ i < k
      /\ ~(k < k) /\ k \notin DOMAIN msgs[u] /\ \A i \in DOMAIN msgs[u] : ~(k < i)
  BY <1>1, AppendFact
<1> HIDE DEF k
<1>3. Msgs(u)' = Msgs(u) \cup {x}
  <2>1. \A m : m \in Msgs(u)' <=> \E i \in DOMAIN msgs'[u] : m = msgs'[u][i]
    BY DEF Msgs
  <2>2. \A m : m \in Msgs(u) <=> \E i \in DOMAIN msgs[u] : m = msgs[u][i]
    BY DEF Msgs
  <2> QED
    BY <1>2, <2>1, <2>2
<1>4. \A v \in Users : v # u => Msgs(v)' = Msgs(v) /\ \A m, n : Before(v, m, n)' <=> Before(v, m, n)
  BY <1>1 DEF Msgs, Before
<1>5. ASSUME NEW m, NEW n PROVE Before(u, m, n)' <=> Before(u, m, n) \/ (m \in Msgs(u) /\ n = x)
  <2>1. Before(u, m, n)' <=> \E i, j \in DOMAIN msgs'[u] : i < j /\ msgs'[u][i] = m /\ msgs'[u][j] = n
    BY DEF Before
  <2>2. Before(u, m, n) <=> \E i, j \in DOMAIN msgs[u] : i < j /\ msgs[u][i] = m /\ msgs[u][j] = n
    BY DEF Before
  <2>3. m \in Msgs(u) <=> \E i \in DOMAIN msgs[u] : m = msgs[u][i]
    BY DEF Msgs
  <2>4. Before(u, m, n)' => Before(u, m, n) \/ (m \in Msgs(u) /\ n = x)
    <3> SUFFICES ASSUME NEW i \in DOMAIN msgs'[u], NEW j \in DOMAIN msgs'[u], i < j, msgs'[u][i] = m, msgs'[u][j] = n
                 PROVE  Before(u, m, n) \/ (m \in Msgs(u) /\ n = x)
      BY <2>1
    <3>1. i # k
      BY <1>2
    <3>2. i \in DOMAIN msgs[u] /\ msgs[u][i] = m
      BY <1>2, <3>1
    <3>3. CASE j = k
      BY <1>2, <2>3, <3>2, <3>3
    <3>4. CASE j # k
      BY <1>2, <2>2, <3>2, <3>4
    <3> QED
      BY <3>3, <3>4
  <2>5. Before(u, m, n) => Before(u, m, n)'
    BY <1>2, <2>1, <2>2
  <2>6. m \in Msgs(u) /\ n = x => Before(u, m, n)'
    BY <1>2, <2>1, <2>3
  <2> QED
    BY <2>4, <2>5, <2>6
<1>6. ASSUME OnceInv, x \notin Msgs(u) PROVE OnceInv'
  <2> SUFFICES ASSUME NEW v \in Users, NEW i \in DOMAIN msgs'[v], NEW j \in DOMAIN msgs'[v], msgs'[v][i] = msgs'[v][j]
               PROVE  i = j
    BY DEF OnceInv
  <2>1. CASE v # u
    BY <1>1, <1>6, <2>1 DEF OnceInv
  <2>2. CASE v = u
    <3>1. \A h \in DOMAIN msgs[u] : msgs[u][h] # x
      BY <1>6 DEF Msgs
    <3> QED
      BY <1>2, <1>6, <2>2, <3>1 DEF OnceInv
  <2> QED
    BY <2>1, <2>2
<1> QED
  BY <1>1, <1>3, <1>4, <1>5, <1>6

(* A message that nobody has posted yet is in no list. *)
LEMMA NotPosted == ASSUME TypeInv, FlowInv, PostInv, rd.pc = "serve", rd.req.op = "cmd", NEW u \in Users
                   PROVE  Sent \notin Msgs(u)
<1> SUFFICES ASSUME Sent \in Msgs(u) PROVE FALSE
  OBVIOUS
<1>1. Sent.by = rd.req.c /\ Sent.n = rd.req.n
  BY DEF Sent
<1>2. cmd[rd.req.c].busy /\ rd.req.n = cmd[rd.req.c].n
  BY ReaderFacts DEF FlowInv, RequestInv, Asked, Pending
<1>3. rd.pc \in Adding
  BY <1>1, <1>2 DEF PostInv
<1> QED
  BY <1>3 DEF Adding

(* Neither the lists nor what is between them changes. *)
LEMMA SameLogs ==
    ASSUME LogInv, msgs' = msgs, Unfinished' = Unfinished
    PROVE  OnceInv' /\ PairInv'
<1>1. \A u, v \in Users : Between(u, v)' = Between(u, v)
  BY DEF Between
<1>2. \A u \in Users : \A m, n : Before(u, m, n)' <=> Before(u, m, n)
  BY DEF Before
<1>3. OnceInv'
  BY DEF LogInv, OnceInv
<1>4. PairInv'
  BY <1>1, <1>2 DEF LogInv, PairInv
<1> QED
  BY <1>3, <1>4

LEMMA SameSent == ASSUME SetupType, setup' = setup, rd'.req = rd.req
                  PROVE  Sent' = Sent /\ Sender' = Sender /\ Cmd' = Cmd
<1>1. Cmd' = Cmd
  BY SameSetup DEF Cmd
<1> QED
  BY <1>1 DEF Sent, Sender, Me, Caller

LEMMA QuietLogs ==
    ASSUME TypeInv, LogInv, setup' = setup, msgs' = msgs, rd' = rd, cmd' = cmd
    PROVE  LogInv'
<1>0. Sent' = Sent /\ Sender' = Sender /\ Cmd' = Cmd
  BY SameSent DEF TypeInv
<1>1. Unfinished' = Unfinished
  BY <1>0 DEF Unfinished
<1>2. \A u \in Users : Msgs(u)' = Msgs(u)
  BY DEF Msgs
<1>3. PostInv'
  BY <1>0, <1>2 DEF LogInv, PostInv
<1>4. LastInv'
  BY <1>0 DEF LogInv, LastInv, Halfway, Msgs, Before
<1> QED
  BY <1>1, <1>3, <1>4, SameLogs DEF LogInv

LEMMA CommandLogs ==
    ASSUME TypeInv, LogInv, setup' = setup, NEW c \in Clients, Command(c) \/ CommandRefused(c)
    PROVE  LogInv'
<1>0. /\ UNCHANGED <<msgs, rd>> /\ cmd'[c].n = cmd[c].n + 1 /\ \A d \in Clients : d # c => cmd'[d] = cmd[d]
      /\ cmd \in [Clients -> [n : Nat, busy : BOOLEAN]]
  <2>1. UNCHANGED <<msgs, rd>> /\ cmd \in [Clients -> [n : Nat, busy : BOOLEAN]]
    BY DEF Command, CommandRefused, server, TypeInv, ClientType
  <2>2. CASE Command(c)
    BY <2>1, <2>2 DEF Command
  <2>3. CASE CommandRefused(c)
    BY <2>1, <2>3 DEF CommandRefused
  <2> QED
    BY <2>1, <2>2, <2>3
<1>1. Sent' = Sent /\ Sender' = Sender /\ Cmd' = Cmd
  BY <1>0, SameSent DEF TypeInv
<1>2. Unfinished' = Unfinished /\ \A u \in Users : Msgs(u)' = Msgs(u)
  BY <1>0, <1>1 DEF Unfinished, Msgs
<1>3. PostInv'
  <2> SUFFICES ASSUME NEW u \in Users, NEW m \in Msgs(u)
               PROVE  /\ m \in Message /\ m.n <= cmd'[m.by].n
                      /\ m.n = cmd'[m.by].n /\ cmd'[m.by].busy => rd'.pc \in Adding /\ m = Sent'
    BY <1>2 DEF PostInv
  <2>1. /\ m \in Message /\ m.n <= cmd[m.by].n /\ m.n \in Nat /\ m.by \in Clients
        /\ m.n = cmd[m.by].n /\ cmd[m.by].busy => rd.pc \in Adding /\ m = Sent
    BY MsgsFacts DEF LogInv, PostInv
  <2>2. CASE m.by = c
    <3>1. cmd'[m.by].n = cmd[m.by].n + 1 /\ cmd[m.by].n \in Nat
      BY <1>0, <2>1, <2>2
    <3> QED
      BY <2>1, <3>1
  <2>3. CASE m.by # c
    BY <1>0, <1>1, <2>1, <2>3
  <2> QED
    BY <2>2, <2>3
<1>4. LastInv'
  BY <1>0, <1>1 DEF LogInv, LastInv, Halfway, Msgs, Before
<1> QED
  BY <1>0, <1>2, <1>3, <1>4, SameLogs DEF LogInv

LEMMA TakeLogs == ASSUME TypeInv, LogInv, setup' = setup, Take PROVE LogInv'
<1>0. UNCHANGED <<msgs, cmd>> /\ rd.pc = "idle" /\ rd'.pc = "serve"
  BY DEF Take, server, client
<1>1. Unfinished = {} /\ Unfinished' = {} /\ ~Halfway'
  BY <1>0 DEF Unfinished, Halfway
<1>2. PostInv'
  BY <1>0 DEF LogInv, PostInv, Adding, Msgs
<1> QED
  BY <1>0, <1>1, <1>2, SameLogs DEF LogInv, LastInv

LEMMA ReturnLogs == ASSUME TypeInv, LogInv, setup' = setup, Account \/ End PROVE LogInv'
<1>0. /\ msgs' = msgs /\ cmd' = [cmd EXCEPT ![Caller].busy = FALSE] /\ rd'.pc = "idle"
      /\ cmd \in [Clients -> [n : Nat, busy : BOOLEAN]]
  BY ReturnEffect DEF Returns, TypeInv, ClientType
<1>1. ~Halfway
  BY DEF Account, End, user_register, login, get_contact_list, add_contact, del_contact, Refuse,
         Serves, Halfway
<1>2. Unfinished = {} /\ Unfinished' = {} /\ ~Halfway'
  BY <1>0, <1>1 DEF Unfinished, Halfway
<1>3. PostInv'
  <2> SUFFICES ASSUME NEW u \in Users, NEW m \in Msgs(u)
               PROVE  /\ m \in Message /\ m.n <= cmd'[m.by].n
                      /\ ~(m.n = cmd'[m.by].n /\ cmd'[m.by].busy)
    BY <1>0 DEF PostInv, Msgs
  <2>1. /\ m \in Message /\ m.n <= cmd[m.by].n /\ m.by \in Clients
        /\ m.n = cmd[m.by].n /\ cmd[m.by].busy => m.by = Caller
    BY MsgsFacts DEF LogInv, PostInv, Sent, Caller
  <2> QED
    BY <1>0, <2>1
<1> QED
  BY <1>0, <1>2, <1>3, SameLogs DEF LogInv, LastInv

LEMMA StartLogs == ASSUME TypeInv, LogInv, setup' = setup, StartPull PROVE LogInv'
<1>0. UNCHANGED <<msgs, cmd>> /\ rd.pc = "serve" /\ rd'.pc = "idle"
  BY DEF StartPull, server, client
<1>1. Unfinished = {} /\ Unfinished' = {} /\ ~Halfway'
  BY <1>0 DEF Unfinished, Halfway
<1>2. PostInv'
  BY <1>0 DEF LogInv, PostInv, Adding, Msgs
<1> QED
  BY <1>0, <1>1, <1>2, SameLogs DEF LogInv, LastInv

(* The reader goes on to call functions, to remove them or to copy the message. *)
LEMMA OnLogs ==
    ASSUME TypeInv, LogInv, setup' = setup, UNCHANGED <<msgs, cmd>>, rd'.req = rd.req,
           rd.pc \in Adding, rd'.pc \in Adding,
           rd.pc \in {"notify", "pop", "copy"} <=> rd'.pc \in {"notify", "pop", "copy"}
    PROVE  LogInv'
<1>1. Sent' = Sent /\ Sender' = Sender /\ Cmd' = Cmd
  BY SameSent DEF TypeInv
<1>2. Unfinished' = Unfinished /\ \A u \in Users : Msgs(u)' = Msgs(u)
  BY <1>1 DEF Unfinished, Msgs
<1>3. PostInv'
  BY <1>1, <1>2 DEF LogInv, PostInv
<1>4. LastInv'
  BY <1>1 DEF LogInv, LastInv, Halfway, Msgs, Before
<1> QED
  BY <1>2, <1>3, <1>4, SameLogs DEF LogInv

LEMMA NextFacts ==
    ASSUME TypeInv, Notify \/ PopFront \/ Turn
    PROVE  /\ UNCHANGED <<msgs, cmd>> /\ rd'.req = rd.req /\ rd.pc \in Adding /\ rd'.pc \in Adding
           /\ rd.pc \in {"notify", "pop", "copy"} <=> rd'.pc \in {"notify", "pop", "copy"}
           /\ rd.pc \in {"copy", "notifySender", "popSender"} => rd'.pc \in {"notifySender", "popSender"}
           /\ rd.pc \notin {"copy", "notifySender", "popSender"} =>
                 rd'.pc \in {"notify", "pop"} \/ Sender # Cmd.to
<1>1. UNCHANGED <<msgs, cmd>>
  BY NotifyFacts, PopFacts DEF Turn, server, client
<1>2. \/ rd.pc = "notify" /\ rd' = [rd EXCEPT !.pc = "pop"]
      \/ rd.pc = "notifySender" /\ rd' = [rd EXCEPT !.pc = "popSender"]
      \/ rd.pc = "pop" /\ rd' = [rd EXCEPT !.pc = "notify"]
      \/ rd.pc = "popSender" /\ rd' = [rd EXCEPT !.pc = "notifySender"]
      \/ rd.pc = "notify" /\ rd' = [rd EXCEPT !.pc = "copy"] /\ Sender # Cmd.to
  BY NotifyFacts, PopFacts DEF Turn
<1>3. rd \in ReaderState
  BY DEF TypeInv, ReaderType
<1> QED
  BY <1>1, <1>2, <1>3 DEF ReaderState, Adding

-----------------------------------------------------------------------------
(* Where the message is added: the pairs of lists it is between. *)
LEMMA PairStays ==
    ASSUME TypeInv, PairInv, NEW u \in Users, NEW x \in Message, msgs' = [msgs EXCEPT ![u] = Append(@, x)],
           Unfinished \subseteq {x}, Unfinished' \subseteq {x}, NEW v \in Users, NEW w \in Users,
           {x.from, x.to} # {v, w}
    PROVE  /\ Between(v, w)' \ Unfinished' = Between(w, v)' \ Unfinished'
           /\ \A m, n \in Between(v, w)' : Before(v, m, n)' => Before(w, m, n)' \/ n \in Unfinished'
<1>a. /\ Msgs(u)' = Msgs(u) \cup {x} /\ \A z \in Users : z # u => Msgs(z)' = Msgs(z)
      /\ \A m, n : Before(u, m, n)' <=> Before(u, m, n) \/ (m \in Msgs(u) /\ n = x)
      /\ \A z \in Users : z # u => \A m, n : Before(z, m, n)' <=> Before(z, m, n)
  BY Added
<1>1. \A z \in Users : Msgs(z)' = Msgs(z) \cup {x} \/ Msgs(z)' = Msgs(z)
  BY <1>a
<1>2. ASSUME NEW z \in Users, NEW m, NEW n, n # x PROVE Before(z, m, n)' <=> Before(z, m, n)
  <2>1. CASE z = u
    BY <1>a, <1>2, <2>1
  <2>2. CASE z # u
    BY <1>a, <2>2
  <2> QED
    BY <2>1, <2>2
<1>3. /\ Between(v, w)' = {m \in Msgs(v)' : {m.from, m.to} = {v, w}}
      /\ Between(w, v)' = {m \in Msgs(w)' : {m.from, m.to} = {w, v}}
      /\ Between(v, w) = {m \in Msgs(v) : {m.from, m.to} = {v, w}}
      /\ Between(w, v) = {m \in Msgs(w) : {m.from, m.to} = {w, v}}
  BY DEF Between, Msgs
<1>4. {x.from, x.to} # {w, v}
  OBVIOUS
<1>5. /\ Between(v, w)' = Between(v, w) /\ x \notin Between(v, w)
      /\ Between(w, v)' = Between(w, v) /\ x \notin Between(w, v)
  BY <1>1, <1>3, <1>4
<1>6. Between(v, w) = Between(w, v)
  <2>1. Between(v, w) \ Unfinished = Between(w, v) \ Unfinished
    BY DEF PairInv
  <2>2. /\ Between(v, w) \ Unfinished = Between(v, w)
        /\ Between(w, v) \ Unfinished = Between(w, v)
    BY <1>5
  <2> QED
    BY <2>1, <2>2
<1>7. \A m, n \in Between(v, w) : Before(v, m, n) => Before(w, m, n)
  <2>1. \A m, n \in Between(v, w) : Before(v, m, n) => Before(w, m, n) \/ n \in Unfinished
    BY DEF PairInv
  <2> QED
    BY <1>5, <2>1
<1>8. \A m, n \in Between(v, w)' : Before(v, m, n)' => Before(w, m, n)'
  BY <1>2, <1>5, <1>7
<1> QED
  BY <1>5, <1>6, <1>8

(* What is in a list where a message was added. *)
LEMMA AddedPosts ==
    ASSUME TypeInv, PostInv, NEW u \in Users, NEW x \in Message, msgs' = [msgs EXCEPT ![u] = Append(@, x)],
           cmd' = cmd, x = Sent, Sent' = Sent, rd'.pc \in Adding, x.n = cmd[x.by].n,
           rd.pc \in Adding \/ \A v \in Users : \A m \in Msgs(v) : ~(m.n = cmd[m.by].n /\ cmd[m.by].busy)
    PROVE  PostInv'
<1>0. Msgs(u)' = Msgs(u) \cup {x} /\ \A v \in Users : v # u => Msgs(v)' = Msgs(v)
  BY Added
<1>1. \A v \in Users : \A m \in Msgs(v)' : m = x \/ m \in Msgs(v)
  BY <1>0
<1>2. x.n <= cmd[x.by].n
  BY DEF TypeInv, ClientType, Message
<1> SUFFICES ASSUME NEW v \in Users, NEW m \in Msgs(v)'
             PROVE  /\ m \in Message /\ m.n <= cmd[m.by].n
                    /\ m.n = cmd[m.by].n /\ cmd[m.by].busy => m = Sent
  BY DEF PostInv
<1>3. CASE m = x
  BY <1>2, <1>3
<1>4. CASE m \in Msgs(v)
  BY <1>4 DEF PostInv
<1> QED
  BY <1>1, <1>3, <1>4

LEMMA PostLogs == ASSUME TypeInv, FlowInv, LogInv, setup' = setup, Post PROVE LogInv'
<1> SUFFICES ASSUME NEW s, NEW t, NEW x, s = Sender, t = Cmd.to, x = Sent PROVE LogInv'
  OBVIOUS
<1>0. /\ rd.pc = "serve" /\ rd.req.op = "cmd" /\ Cmd.op = "send" /\ rd'.pc = "notify" /\ rd'.req = rd.req /\ cmd' = cmd
      /\ s \in Users /\ t \in Users /\ x.from = s /\ x.to = t
  <2>1. rd.pc = "serve" /\ rd.req.op = "cmd" /\ Cmd.op = "send" /\ cmd' = cmd
    BY DEF Post, Serves, client
  <2>2. rd'.pc = "notify" /\ rd'.req = rd.req
    BY <2>1 DEF Post, TypeInv, ReaderType, ReaderState
  <2>3. s \in Users /\ t \in Users /\ x.from = s /\ x.to = t
    BY <2>1, ReaderFacts, CommandFacts DEF Sender, Sent
  <2> QED
    BY <2>1, <2>2, <2>3
<1>1. x \in Message /\ msgs' = [msgs EXCEPT ![t] = Append(@, x)]
  BY <1>0, AddedType DEF Post
<1>2. \A u \in Users : x \notin Msgs(u)
  BY <1>0, NotPosted DEF LogInv
<1>3. x = Sent' /\ s = Sender' /\ t = Cmd'.to
  BY <1>0, SameSent DEF TypeInv
<1>4. Unfinished = {} /\ ~Halfway
  BY <1>0 DEF Unfinished, Halfway
<1>5. Unfinished' = IF s # t THEN {x} ELSE {}
  BY <1>0, <1>3 DEF Unfinished
<1>6. /\ Msgs(t)' = Msgs(t) \cup {x} /\ \A v \in Users : v # t => Msgs(v)' = Msgs(v)
      /\ \A m, n : Before(t, m, n)' <=> Before(t, m, n) \/ (m \in Msgs(t) /\ n = x)
      /\ \A v \in Users : v # t => \A m, n : Before(v, m, n)' <=> Before(v, m, n)
      /\ OnceInv'
  BY <1>0, <1>1, <1>2, Added DEF LogInv
<1>7. PostInv'
  <2>1. x.n = cmd[x.by].n
    BY <1>0, ReaderFacts DEF FlowInv, RequestInv, Asked, Pending, Sent
  <2>2. \A v \in Users : \A m \in Msgs(v) : ~(m.n = cmd[m.by].n /\ cmd[m.by].busy)
    BY <1>0 DEF LogInv, PostInv, Adding
  <2>3. rd'.pc \in Adding
    BY <1>0 DEF Adding
  <2> QED
    BY <1>0, <1>1, <1>3, <2>1, <2>2, <2>3, AddedPosts DEF LogInv
<1>8. s # t => /\ x \notin Msgs(s)' /\ x \in Msgs(t)'
               /\ \A m \in Msgs(t)' : m # x => Before(t, m, x)'
               /\ \A m \in Msgs(t)' : ~Before(t, x, m)'
  <2>1. \A m : ~Before(t, x, m)
    <3>1. \A i \in DOMAIN msgs[t] : msgs[t][i] # x
      BY <1>0, <1>2 DEF Msgs
    <3> QED
      BY <3>1 DEF Before
  <2> QED
    BY <1>0, <1>2, <1>6, <2>1
<1>9. LastInv'
  <2>1. Halfway' => s # t
    BY <1>3 DEF Halfway
  <2>2. \A v \in Users : v \in {s, t} => Msgs(v)' = {msgs'[v][i] : i \in DOMAIN msgs'[v]}
    BY DEF Msgs
  <2>3. \A v \in Users : \A m, n : Before(v, m, n)' <=> \E i, j \in DOMAIN msgs'[v] : i < j /\ msgs'[v][i] = m /\ msgs'[v][j] = n
    BY DEF Before
  <2>4. Sender' = s /\ Cmd'.to = t /\ Sent' = x
    BY <1>3
  <2>5. /\ Sent' \notin {msgs'[Sender'][i] : i \in DOMAIN msgs'[Sender']} \/ s = t
    BY <1>0, <1>8, <2>2, <2>4
  <2> QED
    BY <1>0, <1>8, <2>1, <2>2, <2>3, <2>4, <2>5 DEF LastInv, Msgs, Before
<1>10. PairInv'
  <2> SUFFICES ASSUME NEW v \in Users, NEW w \in Users
               PROVE  /\ Between(v, w)' \ Unfinished' = Between(w, v)' \ Unfinished'
                      /\ \A m, n \in Between(v, w)' : Before(v, m, n)' => Before(w, m, n)' \/ n \in Unfinished'
    BY DEF PairInv
  <2>1. CASE {s, t} # {v, w}
    BY <1>0, <1>1, <1>4, <1>5, <2>1, PairStays DEF LogInv
  <2>2. CASE v = w
    BY <2>2
  <2>3. CASE {s, t} = {v, w} /\ v # w
    <3>1. s # t /\ Unfinished' = {x} /\ ((v = s /\ w = t) \/ (v = t /\ w = s))
      BY <1>5, <2>3
    <3>2. /\ Between(v, w)' = {m \in Msgs(v)' : {m.from, m.to} = {v, w}}
          /\ Between(w, v)' = {m \in Msgs(w)' : {m.from, m.to} = {v, w}}
          /\ Between(v, w) = {m \in Msgs(v) : {m.from, m.to} = {v, w}}
          /\ Between(w, v) = {m \in Msgs(w) : {m.from, m.to} = {v, w}}
      BY DEF Between, Msgs
    <3>3. /\ Between(v, w) = Between(w, v)
          /\ \A m, n \in Between(v, w) : Before(v, m, n) => Before(w, m, n)
      BY <1>4 DEF LogInv, PairInv
    <3>4. Between(v, w)' \ {x} = Between(v, w) /\ Between(w, v)' \ {x} = Between(w, v)
      BY <1>0, <1>2, <1>6, <3>1, <3>2
    <3>5. ASSUME NEW m \in Between(v, w)', NEW n \in Between(v, w)', Before(v, m, n)', n # x
          PROVE  Before(w, m, n)'
      <4>1. Before(v, m, n)
        BY <1>0, <1>6, <3>1, <3>5
      <4>2. m # x
        <5>1. \A i \in DOMAIN msgs[v] : msgs[v][i] # x
          BY <1>2 DEF Msgs
        <5> QED
          BY <4>1, <5>1 DEF Before
      <4>3. Before(w, m, n)
        BY <3>3, <3>4, <3>5, <4>1, <4>2
      <4> QED
        BY <1>0, <1>6, <3>1, <4>3
    <3> QED
      BY <3>1, <3>3, <3>4, <3>5
  <2> QED
    BY <2>1, <2>2, <2>3
<1> QED
  BY <1>6, <1>7, <1>9, <1>10 DEF LogInv

LEMMA CopyLogs == ASSUME TypeInv, FlowInv, LogInv, setup' = setup, Copy, Sender # Cmd.to PROVE LogInv'
<1> SUFFICES ASSUME NEW s, NEW t, NEW x, s = Sender, t = Cmd.to, x = Sent PROVE LogInv'
  OBVIOUS
<1>0. /\ rd.pc = "copy" /\ rd.req.op = "cmd" /\ Cmd.op = "send" /\ rd'.pc = "notifySender" /\ rd'.req = rd.req /\ cmd' = cmd
      /\ s \in Users /\ t \in Users /\ x.from = s /\ x.to = t /\ s # t
  <2>1. rd.pc = "copy" /\ rd.req.op = "cmd" /\ Cmd.op = "send" /\ cmd' = cmd
    BY DEF Copy, client, TypeInv, ReaderType, Adding
  <2>2. rd'.pc = "notifySender" /\ rd'.req = rd.req
    BY <2>1 DEF Copy, TypeInv, ReaderType, ReaderState
  <2>3. s \in Users /\ t \in Users /\ x.from = s /\ x.to = t
    BY <2>1, ReaderFacts, CommandFacts DEF Sender, Sent
  <2> QED
    BY <2>1, <2>2, <2>3
<1>1. x \in Message /\ msgs' = [msgs EXCEPT ![s] = Append(@, x)]
  BY <1>0, AddedType DEF Copy
<1>2. /\ x \notin Msgs(s) /\ x \in Msgs(t)
      /\ \A m \in Msgs(t) : m # x => Before(t, m, x)
      /\ \A m \in Msgs(t) : ~Before(t, x, m)
  BY <1>0 DEF LogInv, LastInv, Halfway
<1>3. x = Sent'
  BY <1>0, SameSent DEF TypeInv
<1>4. Unfinished = {x}
  BY <1>0 DEF Unfinished
<1>5. Unfinished' = {} /\ ~Halfway'
  BY <1>0 DEF Unfinished, Halfway
<1>6. /\ Msgs(s)' = Msgs(s) \cup {x} /\ \A v \in Users : v # s => Msgs(v)' = Msgs(v)
      /\ \A m, n : Before(s, m, n)' <=> Before(s, m, n) \/ (m \in Msgs(s) /\ n = x)
      /\ \A v \in Users : v # s => \A m, n : Before(v, m, n)' <=> Before(v, m, n)
      /\ OnceInv'
  BY <1>0, <1>1, <1>2, Added DEF LogInv
<1>7. PostInv'
  <2>1. x.n = cmd[x.by].n
    BY <1>0, ReaderFacts DEF FlowInv, RequestInv, Asked, Pending, Sent
  <2>3. rd'.pc \in Adding /\ rd.pc \in Adding
    BY <1>0 DEF Adding
  <2> QED
    BY <1>0, <1>1, <1>3, <2>1, <2>3, AddedPosts DEF LogInv
<1>10. PairInv'
  <2> SUFFICES ASSUME NEW v \in Users, NEW w \in Users
               PROVE  /\ Between(v, w)' \ Unfinished' = Between(w, v)' \ Unfinished'
                      /\ \A m, n \in Between(v, w)' : Before(v, m, n)' => Before(w, m, n)' \/ n \in Unfinished'
    BY DEF PairInv
  <2>1. CASE {s, t} # {v, w}
    BY <1>0, <1>1, <1>4, <1>5, <2>1, PairStays DEF LogInv
  <2>2. CASE v = w
    BY <2>2
  <2>3. CASE {s, t} = {v, w} /\ v # w
    <3>1. (v = s /\ w = t) \/ (v = t /\ w = s)
      BY <2>3
    <3>2. /\ Between(s, t)' = {m \in Msgs(s)' : {m.from, m.to} = {s, t}}
          /\ Between(t, s)' = {m \in Msgs(t)' : {m.from, m.to} = {t, s}}
          /\ Between(s, t) = {m \in Msgs(s) : {m.from, m.to} = {s, t}}
          /\ Between(t, s) = {m \in Msgs(t) : {m.from, m.to} = {t, s}}
      BY DEF Between, Msgs
    <3>3. /\ Between(s, t) \ {x} = Between(t, s) \ {x}
          /\ \A m, n \in Between(s, t) : Before(s, m, n) => Before(t, m, n) \/ n = x
          /\ \A m, n \in Between(t, s) : Before(t, m, n) => Before(s, m, n) \/ n = x
      BY <1>0, <1>4 DEF LogInv, PairInv
    <3>4. x \notin Between(s, t) /\ Between(s, t)' = Between(s, t) \cup {x}
          /\ Between(t, s)' = Between(t, s) /\ x \in Between(t, s)
      BY <1>0, <1>2, <1>6, <3>1, <3>2
    <3>5. Between(s, t)' = Between(t, s)'
      BY <3>3, <3>4
    <3>6. ASSUME NEW m \in Between(s, t)', NEW n \in Between(s, t)', Before(s, m, n)'
          PROVE  Before(t, m, n)'
      <4>1. CASE n = x /\ m \in Msgs(s)
        <5>1. m \in Msgs(t) /\ m # x
          BY <1>0, <1>2, <3>1, <3>2, <3>4, <3>5, <4>1
        <5> QED
          BY <1>0, <1>2, <1>6, <4>1, <5>1
      <4>2. CASE Before(s, m, n)
        <5>1. m # x /\ n # x
          <6>1. \A i \in DOMAIN msgs[s] : msgs[s][i] # x
            BY <1>2 DEF Msgs
          <6> QED
            BY <4>2, <6>1 DEF Before
        <5>2. m \in Between(s, t) /\ n \in Between(s, t)
          BY <3>4, <5>1
        <5> QED
          BY <1>0, <1>6, <3>3, <4>2, <5>1, <5>2
      <4> QED
        BY <1>6, <3>6, <4>1, <4>2
    <3>7. ASSUME NEW m \in Between(t, s)', NEW n \in Between(t, s)', Before(t, m, n)'
          PROVE  Before(s, m, n)'
      <4>1. Before(t, m, n)
        BY <1>0, <1>6, <3>7
      <4>2. m # x
        <5>1. n \in Msgs(t)
          BY <1>0, <3>1, <3>2, <3>4
        <5> QED
          BY <1>2, <4>1, <5>1
      <4>3. m \in Between(s, t)
        BY <3>3, <3>4, <4>2
      <4>4. m \in Msgs(s)
        BY <1>0, <3>1, <3>2, <4>3
      <4> QED
        BY <1>6, <3>3, <3>4, <4>1, <4>4
    <3> QED
      BY <3>1, <3>5, <3>6, <3>7
  <2> QED
    BY <2>1, <2>2, <2>3
<1> QED
  BY <1>5, <1>6, <1>7, <1>10 DEF LogInv, LastInv

(* A copy is made for a sender who is not the receiver. *)
CopyInv == rd.pc \in {"copy", "notifySender", "popSender"} => Sender # Cmd.to

LEMMA CopyStep == ASSUME TypeInv, CopyInv, setup' = setup, Effect PROVE CopyInv'
<1>1. ASSUME rd'.req = rd.req, rd'.pc \in {"copy", "notifySender", "popSender"} => Sender # Cmd.to PROVE CopyInv'
  BY <1>1, SameSent DEF CopyInv, TypeInv
<1>2. ASSUME rd'.pc \notin {"copy", "notifySender", "popSender"} PROVE CopyInv'
  BY <1>2 DEF CopyInv
<1>3. CASE rd' = rd
  BY <1>1, <1>3 DEF CopyInv
<1>4. CASE Take \/ Account \/ End \/ StartPull
  BY <1>2, <1>4, ReturnEffect DEF Take, Returns, StartPull
<1>5. CASE Post
  <2>1. rd'.pc = "notify"
    BY <1>5 DEF Post, Serves, TypeInv, ReaderType, ReaderState
  <2> QED
    BY <1>2, <2>1
<1>6. CASE Copy
  <2>1. rd'.req = rd.req
    BY <1>6 DEF Copy, TypeInv, ReaderType, ReaderState
  <2>2. Sender # Cmd.to
    BY <1>6 DEF Copy, CopyInv
  <2> QED
    BY <1>1, <2>1, <2>2
<1>7. CASE \E c \in Clients : Command(c) \/ CommandRefused(c) \/ Pull(c) \/ PullRefused(c) \/ Break(c)
  BY <1>3, <1>7 DEF Command, CommandRefused, Pull, PullRefused, Break
<1>8. CASE \E c \in Clients : \E k \in Attempt(c) : Coroutine(c, k)
  BY <1>3, <1>8, CoroutineGoes
<1>9. CASE Notify \/ PopFront \/ Turn
  BY <1>1, <1>9, NextFacts DEF CopyInv
<1> QED
  BY <1>4, <1>5, <1>6, <1>7, <1>8, <1>9 DEF Effect

LEMMA LogStep == TypeInv /\ FlowInv /\ LogInv /\ CopyInv /\ [Next]_vars => LogInv' /\ CopyInv'
<1> SUFFICES ASSUME TypeInv, FlowInv, LogInv, CopyInv, [Next]_vars PROVE LogInv' /\ CopyInv'
  OBVIOUS
<1>1. CASE Next
  <2>1. setup' = setup /\ Effect
    BY <1>1, NextEffect
  <2>2. CASE \E c \in Clients : Pull(c) \/ PullRefused(c) \/ Break(c)
    <3>1. UNCHANGED <<msgs, rd, cmd>>
      BY <2>2 DEF Pull, PullRefused, Break, server, client
    <3> QED
      BY <2>1, <2>2, <3>1, QuietLogs, CopyStep
  <2>3. CASE \E c \in Clients : \E k \in Attempt(c) : Coroutine(c, k)
    <3>1. UNCHANGED <<msgs, rd, cmd>>
      BY <2>3, CoroutineGoes
    <3> QED
      BY <2>1, <2>3, <3>1, QuietLogs, CopyStep
  <2>5. CASE Notify \/ PopFront \/ Turn
    BY <2>1, <2>5, NextFacts, OnLogs, CopyStep
  <2>4. CASE Copy
    <3>1. Sender # Cmd.to
      BY <2>4 DEF Copy, CopyInv
    <3> QED
      BY <2>1, <2>4, <3>1, CopyLogs, CopyStep
  <2> QED
    BY <2>1, <2>2, <2>3, <2>4, <2>5, CopyStep, CommandLogs, TakeLogs, ReturnLogs, PostLogs, StartLogs DEF Effect
<1>2. CASE UNCHANGED vars
  <2>1. setup' = setup /\ msgs' = msgs /\ rd' = rd /\ cmd' = cmd
    BY <1>2 DEF vars, state, server, client
  <2>2. CopyInv'
    BY <2>1, SameSent DEF CopyInv, TypeInv
  <2> QED
    BY <2>1, <2>2, QuietLogs
<1> QED
  BY <1>1, <1>2

LEMMA LogInit == Init => LogInv /\ CopyInv
<1> SUFFICES ASSUME Init PROVE LogInv /\ CopyInv
  OBVIOUS
<1>1. rd.pc = "idle" /\ \A u \in Users : DOMAIN msgs[u] = {}
  BY EmptyFact DEF Init
<1>2. Unfinished = {} /\ ~Halfway /\ CopyInv
  BY <1>1 DEF Unfinished, Halfway, CopyInv
<1>3. \A u \in Users : Msgs(u) = {}
  BY <1>1 DEF Msgs
<1>4. \A u, v \in Users : Between(u, v) = {}
  BY <1>1 DEF Between
<1>5. PostInv /\ LastInv /\ OnceInv
  BY <1>1, <1>2, <1>3 DEF PostInv, LastInv, OnceInv
<1>6. PairInv
  BY <1>4 DEF PairInv
<1> QED
  BY <1>2, <1>5, <1>6 DEF LogInv

(* Two users see the same conversation but for the message that is being added: each message
   once in each list, in the same order. *)
THEOREM LogsAgreeHolds == Spec => []LogsAgree
<1>1. Init => LogInv /\ CopyInv
  BY LogInit
<1>2. TypeInv /\ FlowInv /\ (LogInv /\ CopyInv) /\ [Next]_vars => (LogInv /\ CopyInv)'
  BY LogStep
<1>3. LogInv => LogsAgree
  BY DEF LogInv, OnceInv, PairInv, LogsAgree
<1> QED
  BY <1>1, <1>2, <1>3, TypeCorrect, FlowCorrect, PTL DEF Spec

-----------------------------------------------------------------------------
(* The contacts S after the i-th command of c, as it was told, and the function that
   Made(c) chooses. *)
Changed(x, ok, S) ==
    LET others == {y \in S : y.id # x.id}
    IN  IF ~ok THEN S
        ELSE CASE x.op = "cont_add" -> others \cup {[id |-> x.id, name |-> x.name]}
               [] x.op = "cont_del" -> others
               [] OTHER -> S
After(c, i, S) == Changed(Script[c][i], told[c][i].ok, S)
Makes(c, f) == f = [n \in 0 .. Len(told[c]) |-> IF n = 0 THEN {} ELSE After(c, n, f[n - 1])]

(* A client is told of each command, in turn. *)
ToldInv == \A c \in Clients : /\ cmd[c].busy => Len(told[c]) + 1 = cmd[c].n
                              /\ ~cmd[c].busy => Len(told[c]) = cmd[c].n
(* Only a user who has logged in has contacts. *)
OwnerInv == \A u \in Users : contacts[u] # {} => u \in users /\ u \in sessions
Sole(c) == setup.api[c] = "grpc" /\ (\A d \in Clients : UserOf[d] = UserOf[c] => d = c)
(* Only commands that the client has been told of have been refused, ... *)
RefusedInv == \A x \in refused : x.n <= Len(told[x.c])
(* ... and then the list is empty. *)
Listed(c, n, S) == IF [c |-> c, n |-> n] \in refused THEN {} ELSE S
(* What the commands have made, whichever function it is, is what the server has and
   what the client was told. *)
Agrees(c, f) == /\ f[Len(told[c])] = contacts[UserOf[c]]
                /\ \A n \in DOMAIN told[c] :
                      Script[c][n].op = "cont_list" => told[c][n].list = Listed(c, n, f[n - 1])
MadeInv == \A c \in Clients : Sole(c) => /\ \E f : Makes(c, f)
                                         /\ \A f : Makes(c, f) => Agrees(c, f)
AnswerInv == ToldInv /\ OwnerInv /\ RefusedInv /\ MadeInv

LEMMA NothingChanged == \A x, S : Changed(x, FALSE, S) = S
BY DEF Changed

LEMMA MadeIs == ASSUME NEW c, NEW f, Makes(c, f) PROVE Makes(c, Made(c))
<1>1. \E g : Makes(c, g)
  OBVIOUS
<1>2. Makes(c, CHOOSE g : Makes(c, g))
  BY <1>1
<1>3. Made(c) = CHOOSE g : Makes(c, g)
  BY DEF Made, Makes, After, Changed
<1> QED
  BY <1>2, <1>3

LEMMA ToldFacts == ASSUME TypeInv, NEW c \in Clients
                   PROVE  told[c] \in Seq(Answers) /\ Len(told[c]) \in Nat /\ DOMAIN told[c] = 1 .. Len(told[c])
<1>1. told[c] \in Seq(Answers)
  BY DEF TypeInv, AccountType
<1> QED
  BY <1>1

(* Of a client that is told nothing. *)
LEMMA SameMade ==
    ASSUME setup' = setup, NEW c \in Clients, told'[c] = told[c],
           \A n \in DOMAIN told[c] : [c |-> c, n |-> n] \in refused' <=> [c |-> c, n |-> n] \in refused,
           Sole(c) => contacts'[UserOf[c]] = contacts[UserOf[c]],
           Sole(c) => (\E f : Makes(c, f)) /\ \A f : Makes(c, f) => Agrees(c, f)
    PROVE  Sole(c)' => (\E f : Makes(c, f)') /\ \A f : Makes(c, f)' => Agrees(c, f)'
<1>1. Script' = Script /\ (Sole(c)' <=> Sole(c))
  BY DEF Script, Sole
<1>2. \A i, S : After(c, i, S)' = After(c, i, S)
  BY <1>1 DEF After
<1>3. \A f : Makes(c, f)' <=> Makes(c, f)
  BY <1>2 DEF Makes
<1>4. Sole(c) => \A f : Agrees(c, f) => Agrees(c, f)'
  BY <1>1 DEF Agrees, Listed
<1> QED
  BY <1>1, <1>3, <1>4

(* One more answer. *)
LEMMA MoreMade ==
    ASSUME setup' = setup, NEW c \in Clients, NEW k \in Nat \ {0},
           k - 1 = Len(told[c]), Len(told'[c]) = k, \A i \in 1 .. k - 1 : told'[c][i] = told[c][i]
    PROVE  /\ \A f : Makes(c, f)' => \E g : /\ Makes(c, g) /\ f[k] = Changed(Script[c][k], told'[c][k].ok, g[k - 1])
                                            /\ \A n \in 0 .. k - 1 : f[n] = g[n]
           /\ (\E g : Makes(c, g)) => \E f : Makes(c, f)'
<1>1. k - 1 = Len(told[c]) /\ k \in Nat /\ k # 0 /\ Len(told'[c]) = k
  OBVIOUS
<1>2. Script' = Script
  BY DEF Script
<1>3. \A i \in 1 .. k - 1 : \A S : After(c, i, S)' = After(c, i, S)
  BY <1>2 DEF After
<1>4. ASSUME NEW f, Makes(c, f)'
      PROVE  \E g : Makes(c, g) /\ f[k] = Changed(Script[c][k], told'[c][k].ok, g[k - 1]) /\ \A n \in 0 .. k - 1 : f[n] = g[n]
  <2> DEFINE g == [n \in 0 .. k - 1 |-> f[n]]
  <2>1. f = [n \in 0 .. k |-> IF n = 0 THEN {} ELSE After(c, n, f[n - 1])']
    BY <1>1, <1>4 DEF Makes
  <2>2. k # 0 /\ k \in 0 .. k /\ k - 1 \in 0 .. k - 1
    BY <1>1
  <2>3. f[k] = Changed(Script[c][k], told'[c][k].ok, f[k - 1])
    <3>1. f[k] = After(c, k, f[k - 1])'
      BY <2>1, <2>2
    <3> QED
      BY <1>1, <1>2, <3>1 DEF After
  <2>4. \A n \in 0 .. k - 1 : n # 0 => n - 1 \in 0 .. k - 1 /\ n \in 1 .. k - 1 /\ n \in 0 .. k
    BY <1>1
  <2>5. \A n \in 0 .. k - 1 : f[n] = IF n = 0 THEN {} ELSE After(c, n, g[n - 1])
    <3> SUFFICES ASSUME NEW n \in 0 .. k - 1 PROVE f[n] = IF n = 0 THEN {} ELSE After(c, n, g[n - 1])
      OBVIOUS
    <3>1. CASE n = 0
      <4>1. 0 \in 0 .. k
        BY <1>1
      <4> QED
        BY <2>1, <3>1, <4>1
    <3>2. CASE n # 0
      <4>1. n - 1 \in 0 .. k - 1 /\ n \in 1 .. k - 1 /\ n \in 0 .. k
        BY <2>4, <3>2
      <4>2. f[n] = After(c, n, f[n - 1])'
        BY <2>1, <3>2, <4>1
      <4>3. After(c, n, f[n - 1])' = After(c, n, f[n - 1])
        BY <1>3, <4>1
      <4>4. g[n - 1] = f[n - 1]
        BY <4>1
      <4> QED
        BY <3>2, <4>2, <4>3, <4>4
    <3> QED
      BY <3>1, <3>2
  <2>6. Makes(c, g)
    <3>1. g = [n \in 0 .. k - 1 |-> IF n = 0 THEN {} ELSE After(c, n, g[n - 1])]
      BY <2>5
    <3> QED
      BY <1>1, <3>1 DEF Makes
  <2>7. g[k - 1] = f[k - 1] /\ \A n \in 0 .. k - 1 : f[n] = g[n]
    BY <2>2
  <2> HIDE DEF g
  <2> QED
    BY <2>3, <2>6, <2>7
<1>5. ASSUME NEW g, Makes(c, g) PROVE \E f : Makes(c, f)'
  <2> SUFFICES ASSUME NEW a, a = After(c, k, g[k - 1])' PROVE \E f : Makes(c, f)'
    OBVIOUS
  <2> DEFINE f == [n \in 0 .. k |-> IF n = k THEN a ELSE g[n]]
  <2>1. g = [n \in 0 .. k - 1 |-> IF n = 0 THEN {} ELSE After(c, n, g[n - 1])]
    BY <1>1, <1>5 DEF Makes
  <2>2. \A n \in 0 .. k : f[n] = IF n = 0 THEN {} ELSE After(c, n, f[n - 1])'
    <3> SUFFICES ASSUME NEW n \in 0 .. k PROVE f[n] = IF n = 0 THEN {} ELSE After(c, n, f[n - 1])'
      OBVIOUS
    <3>0. k # 0 /\ k - 1 \in 0 .. k /\ k - 1 # k /\ 0 \in 0 .. k - 1
      BY <1>1
    <3>1. CASE n = k
      <4>1. f[k - 1] = g[k - 1]
        BY <3>0
      <4> QED
        BY <3>0, <3>1, <4>1
    <3>2. CASE n = 0
      BY <2>1, <3>0, <3>2
    <3>3. CASE n # k /\ n # 0
      <4>1. n \in 1 .. k - 1 /\ n \in 0 .. k - 1 /\ n - 1 \in 0 .. k /\ n - 1 # k /\ n - 1 \in 0 .. k - 1
        BY <1>1, <3>3
      <4>2. f[n] = g[n] /\ f[n - 1] = g[n - 1]
        BY <3>3, <4>1
      <4>3. g[n] = After(c, n, g[n - 1])
        BY <2>1, <3>3, <4>1
      <4>4. After(c, n, g[n - 1])' = After(c, n, g[n - 1])
        BY <1>3, <4>1
      <4> QED
        BY <3>3, <4>2, <4>3, <4>4
    <3> QED
      BY <3>1, <3>2, <3>3
  <2>3. f = [n \in 0 .. k |-> IF n = 0 THEN {} ELSE After(c, n, f[n - 1])']
    BY <2>2
  <2>4. Makes(c, f)'
    BY <1>1, <2>3 DEF Makes
  <2> HIDE DEF f
  <2> QED
    BY <2>4
<1> QED
  BY <1>4, <1>5

LEMMA AnswerFacts ==
    \A c, op : \A ok \in BOOLEAN : \A list \in SUBSET Contact : AnswerTo(c, op, Result(ok, list)) \in Answers
<1> SUFFICES ASSUME NEW c, NEW op, NEW ok \in BOOLEAN, NEW list \in SUBSET Contact
             PROVE  AnswerTo(c, op, Result(ok, list)) \in Answers
  OBVIOUS
<1>1. \A b \in BOOLEAN : \A l \in SUBSET Contact : Result(b, l) \in Answers /\ Result(b, l).list \in SUBSET Contact
  BY DEF Result, Answers
<1>2. GrpcAnswer(op, Result(ok, list)) \in Answers
  BY <1>1 DEF GrpcAnswer
<1>3. JsonAnswer(op, Result(ok, list)) \in Answers
  BY <1>1 DEF JsonAnswer
<1> QED
  BY <1>2, <1>3 DEF AnswerTo

(* What is told of a command that was refused. *)
LEMMA RefusedTold ==
    ASSUME NEW c, NEW op, NEW r, r = AnswerTo(c, op, Result(FALSE, {}))
    PROVE  /\ r \in Answers /\ r.list = {}
           /\ setup.api[c] = "grpc" /\ op \notin {"send", "cont_list"} => r.ok = FALSE
<1>1. r \in Answers
  <2>1. {} \in SUBSET Contact /\ FALSE \in BOOLEAN
    OBVIOUS
  <2> QED
    BY <2>1, AnswerFacts
<1>2. \A b : Result(b, {}).list = {}
  BY DEF Result
<1>3. Result(FALSE, {}).ok = FALSE
  BY DEF Result
<1>4. GrpcAnswer(op, Result(FALSE, {})).list = {}
  BY <1>2 DEF GrpcAnswer
<1>5. JsonAnswer(op, Result(FALSE, {})).list = {}
  BY <1>2 DEF JsonAnswer
<1>6. op \notin {"send", "cont_list"} => GrpcAnswer(op, Result(FALSE, {})).ok = FALSE
  BY <1>3 DEF GrpcAnswer
<1> QED
  BY <1>1, <1>4, <1>5, <1>6 DEF AnswerTo

(* What a command does to the contacts, and what is told of it. *)
LEMMA ReturnTold ==
    ASSUME TypeInv, FlowInv, AnswerInv, Account \/ End, NEW c, c = Caller, NEW k, k = Len(told[c]) + 1
    PROVE  \E r \in Answers :
              /\ c \in Clients /\ k = rd.req.n /\ cmd[c].busy /\ cmd[c].n = k
              /\ told' = [told EXCEPT ![c] = Append(@, r)]
              /\ \A u \in Users : u # UserOf[c] => contacts'[u] = contacts[u]
              /\ setup.api[c] = "grpc" =>
                    /\ contacts'[UserOf[c]] = Changed(Script[c][k], r.ok, contacts[UserOf[c]])
                    /\ Script[c][k].op = "cont_list" => r.list = contacts[UserOf[c]]
<1>a. rd.pc # "idle" /\ rd.req.op = "cmd" /\ (rd.pc = "serve" \/ rd.pc \in Adding)
  BY DEF Account, End, user_register, login, get_contact_list, add_contact, del_contact, Refuse,
         Serves, Adding, TypeInv, ReaderType
<1>b. c \in Clients /\ Me \in Users /\ Cmd \in Commands
  BY <1>a, ReaderFacts
<1>c. cmd[c].busy /\ cmd[c].n = rd.req.n /\ k = rd.req.n
  <2>1. cmd[c].busy /\ cmd[c].n = rd.req.n
    BY <1>a DEF FlowInv, RequestInv, Asked, Pending, Caller
  <2> QED
    BY <1>b, <2>1 DEF AnswerInv, ToldInv
<1>d. Cmd = Script[c][k] /\ Me = UserOf[c]
  BY <1>c DEF Cmd, Caller, Me
<1>e. {} \in SUBSET Contact /\ contacts[Me] \in SUBSET Contact /\ contacts \in [Users -> SUBSET Contact]
  BY <1>b DEF TypeInv, AccountType
<1>f. \A ok, list : Return(ok, list) => told' = [told EXCEPT ![c] = Append(@, AnswerTo(c, Cmd.op, Result(ok, list)))]
  BY DEF Return, Tell
<1>g. \A ok \in BOOLEAN : \A list \in SUBSET Contact : AnswerTo(c, Cmd.op, Result(ok, list)) \in Answers
  BY AnswerFacts
(* Where the contacts stay as they are, and are not asked for. *)
<1>h. ASSUME NEW ok \in BOOLEAN, Return(ok, {}), contacts' = contacts, Cmd.op \notin {"cont_add", "cont_del", "cont_list"}
      PROVE  \E r \in Answers : /\ told' = [told EXCEPT ![c] = Append(@, r)]
                                /\ contacts' = contacts
  BY <1>e, <1>f, <1>g, <1>h
<1> SUFFICES \E r \in Answers :
              /\ told' = [told EXCEPT ![c] = Append(@, r)]
              /\ \A u \in Users : u # UserOf[c] => contacts'[u] = contacts[u]
              /\ setup.api[c] = "grpc" =>
                    /\ contacts'[UserOf[c]] = Changed(Script[c][k], r.ok, contacts[UserOf[c]])
                    /\ Script[c][k].op = "cont_list" => r.list = contacts[UserOf[c]]
  BY <1>b, <1>c
<1>1. CASE user_register \/ login \/ Refuse \/ End
  <2>1. Cmd.op \notin {"cont_add", "cont_del", "cont_list"}
    BY <1>1 DEF user_register, login, Refuse, End, Serves, TypeInv, ReaderType, Adding
  <2>2. contacts' = contacts /\ \E ok \in BOOLEAN : Return(ok, {})
    <3>1. Exists(Me) \in BOOLEAN /\ (Me \notin users) \in BOOLEAN
      BY DEF Exists
    <3> QED
      BY <1>1, <3>1 DEF user_register, login, Refuse, End, server, account
  <2>3. PICK r \in Answers : told' = [told EXCEPT ![c] = Append(@, r)]
    BY <1>h, <2>1, <2>2
  <2>4. Changed(Script[c][k], r.ok, contacts[UserOf[c]]) = contacts[UserOf[c]] /\ Script[c][k].op # "cont_list"
    BY <1>d, <2>1 DEF Changed
  <2> QED
    BY <2>2, <2>3, <2>4
<1>2. CASE get_contact_list
  <2> DEFINE list == ContactsOf(Me).list
             r == AnswerTo(c, Cmd.op, Result(LoggedIn, list))
  <2>1. contacts' = contacts /\ Cmd.op = "cont_list" /\ Return(LoggedIn, list)
    BY <1>2 DEF get_contact_list, Serves, server, account
  <2>2. LoggedIn \in BOOLEAN /\ list \in SUBSET Contact
    BY <1>e DEF LoggedIn, Exists, ContactsOf, Result
  <2>3. r \in Answers /\ told' = [told EXCEPT ![c] = Append(@, r)]
    BY <1>f, <1>g, <2>1, <2>2
  <2>4. setup.api[c] = "grpc" => r.list = Result(LoggedIn, list).list
    BY <2>1 DEF AnswerTo, GrpcAnswer, Result
  <2>5. Result(LoggedIn, list).list = contacts[Me]
    <3>1. CASE LoggedIn
      BY <3>1 DEF Result, LoggedIn, ContactsOf
    <3>2. CASE ~LoggedIn
      <4>1. contacts[Me] = {}
        BY <1>b, <3>2 DEF AnswerInv, OwnerInv, LoggedIn, Exists
      <4> QED
        BY <3>2, <4>1 DEF Result
    <3> QED
      BY <3>1, <3>2
  <2>6. Changed(Script[c][k], r.ok, contacts[UserOf[c]]) = contacts[UserOf[c]]
    BY <1>d, <2>1 DEF Changed
  <2> HIDE DEF r, list
  <2> QED
    BY <1>d, <2>1, <2>3, <2>4, <2>5, <2>6
<1>3. CASE add_contact
  <2> DEFINE r == AnswerTo(c, Cmd.op, Result(LoggedIn, {}))
  <2>1. Cmd.op = "cont_add" /\ Return(LoggedIn, {}) /\ LoggedIn \in BOOLEAN
    BY <1>3 DEF add_contact, Serves, LoggedIn, Exists
  <2>2. r \in Answers /\ told' = [told EXCEPT ![c] = Append(@, r)]
    BY <1>e, <1>f, <1>g, <2>1
  <2>3. setup.api[c] = "grpc" => r.ok = LoggedIn
    BY <2>1 DEF AnswerTo, GrpcAnswer, Result
  <2>4. contacts' = IF LoggedIn
                    THEN [contacts EXCEPT ![Me] = Others(Cmd.id) \cup {[id |-> Cmd.id, name |-> Cmd.name]}]
                    ELSE contacts
    BY <1>3 DEF add_contact
  <2>5. /\ \A u \in Users : u # UserOf[c] => contacts'[u] = contacts[u]
        /\ contacts'[UserOf[c]] = IF LoggedIn THEN {y \in contacts[Me] : y.id # Cmd.id} \cup {[id |-> Cmd.id, name |-> Cmd.name]}
                                  ELSE contacts[Me]
    BY <1>b, <1>d, <1>e, <2>4 DEF Others
  <2>6. setup.api[c] = "grpc" => contacts'[UserOf[c]] = Changed(Script[c][k], r.ok, contacts[UserOf[c]])
    <3> HIDE DEF r
    <3>1. CASE LoggedIn
      BY <1>d, <2>1, <2>3, <2>5, <3>1 DEF Changed
    <3>2. CASE ~LoggedIn
      <4>1. setup.api[c] = "grpc" => r.ok = FALSE
        BY <2>1, <2>2, <2>3, <3>2 DEF Answers
      <4>2. contacts'[UserOf[c]] = contacts[UserOf[c]]
        BY <1>d, <2>5, <3>2
      <4> QED
        BY <4>1, <4>2, NothingChanged
    <3> QED
      BY <3>1, <3>2
  <2> HIDE DEF r
  <2> QED
    BY <1>d, <2>1, <2>2, <2>5, <2>6
<1>4. CASE del_contact
  <2> DEFINE r == AnswerTo(c, Cmd.op, Result(LoggedIn, {}))
  <2>1. Cmd.op = "cont_del" /\ Return(LoggedIn, {}) /\ LoggedIn \in BOOLEAN
    BY <1>4 DEF del_contact, Serves, LoggedIn, Exists
  <2>2. r \in Answers /\ told' = [told EXCEPT ![c] = Append(@, r)]
    BY <1>e, <1>f, <1>g, <2>1
  <2>3. setup.api[c] = "grpc" => r.ok = LoggedIn
    BY <2>1 DEF AnswerTo, GrpcAnswer, Result
  <2>4. contacts' = IF LoggedIn THEN [contacts EXCEPT ![Me] = Others(Cmd.id)] ELSE contacts
    BY <1>4 DEF del_contact
  <2>5. /\ \A u \in Users : u # UserOf[c] => contacts'[u] = contacts[u]
        /\ contacts'[UserOf[c]] = IF LoggedIn THEN {y \in contacts[Me] : y.id # Cmd.id} ELSE contacts[Me]
    BY <1>b, <1>d, <1>e, <2>4 DEF Others
  <2>6. setup.api[c] = "grpc" => contacts'[UserOf[c]] = Changed(Script[c][k], r.ok, contacts[UserOf[c]])
    <3> HIDE DEF r
    <3>1. CASE LoggedIn
      BY <1>d, <2>1, <2>3, <2>5, <3>1 DEF Changed
    <3>2. CASE ~LoggedIn
      <4>1. setup.api[c] = "grpc" => r.ok = FALSE
        BY <2>1, <2>2, <2>3, <3>2 DEF Answers
      <4>2. contacts'[UserOf[c]] = contacts[UserOf[c]]
        BY <1>d, <2>5, <3>2
      <4> QED
        BY <4>1, <4>2, NothingChanged
    <3> QED
      BY <3>1, <3>2
  <2> HIDE DEF r
  <2> QED
    BY <1>d, <2>1, <2>2, <2>5, <2>6
<1> QED
  BY <1>1, <1>2, <1>3, <1>4 DEF Account

LEMMA ReturnOwners == ASSUME TypeInv, AnswerInv, Account \/ End PROVE OwnerInv'
<1>0. /\ \A u \in Users : contacts[u] # {} => u \in users /\ u \in sessions
      /\ contacts \in [Users -> SUBSET Contact]
  BY DEF AnswerInv, OwnerInv, TypeInv, AccountType
<1>1. CASE user_register \/ login \/ get_contact_list \/ Refuse \/ End
  <2>1. contacts' = contacts /\ users \subseteq users' /\ sessions \subseteq sessions'
    BY <1>1 DEF user_register, login, AddSession, get_contact_list, Refuse, End, server, account
  <2> QED
    BY <1>0, <2>1 DEF OwnerInv
<1>2. CASE add_contact \/ del_contact
  <2>1. users' = users /\ sessions' = sessions
    BY <1>2 DEF add_contact, del_contact
  <2>2. \A u \in Users : contacts'[u] = contacts[u] \/ (u = Me /\ LoggedIn)
    BY <1>0, <1>2 DEF add_contact, del_contact
  <2> QED
    BY <1>0, <2>1, <2>2 DEF OwnerInv, LoggedIn, Exists
<1> QED
  BY <1>1, <1>2 DEF Account

(* A client is told of its next command. *)
LEMMA OneAnswer ==
    ASSUME TypeInv, AnswerInv, setup' = setup, NEW c \in Clients, NEW r \in Answers, NEW k, k = Len(told[c]) + 1,
           told' = [told EXCEPT ![c] = Append(@, r)],
           \A u \in Users : u # UserOf[c] => contacts'[u] = contacts[u],
           setup.api[c] = "grpc" =>
              /\ contacts'[UserOf[c]] = Changed(Script[c][k], r.ok, contacts[UserOf[c]])
              /\ Script[c][k].op = "cont_list" => r.list = IF [c |-> c, n |-> k] \in refused' THEN {} ELSE contacts[UserOf[c]],
           \A d \in Clients : \A n \in Nat :
              d # c \/ n # k => ([c |-> d, n |-> n] \in refused' <=> [c |-> d, n |-> n] \in refused)
    PROVE  MadeInv'
<1>2. /\ told[c] \in Seq(Answers) /\ Len(told[c]) \in Nat /\ DOMAIN told[c] = 1 .. Len(told[c])
  BY ToldFacts
<1>3. /\ told'[c] = Append(told[c], r) /\ \A d \in Clients : d # c => told'[d] = told[d]
  BY DEF TypeInv, AccountType
<1>4. /\ told'[c] \in Seq(Answers) /\ Len(told'[c]) = k /\ k \in Nat /\ k \in Nat \ {0} /\ k - 1 = Len(told[c])
      /\ DOMAIN told'[c] = 1 .. k
      /\ \A i \in 1 .. k - 1 : told'[c][i] = told[c][i]
      /\ told'[c][k] = r
  BY <1>2, <1>3, AppendFact
<1>7. Script' = Script /\ \A d \in Clients : Sole(d)' <=> Sole(d)
  BY DEF Script, Sole
<1>8. ASSUME Sole(c) PROVE (\E f : Makes(c, f)') /\ \A f : Makes(c, f)' => Agrees(c, f)'
  <2>1. (\E f : Makes(c, f)) /\ \A f : Makes(c, f) => Agrees(c, f)
    BY <1>8 DEF AnswerInv, MadeInv
  <2>2. /\ \A f : Makes(c, f)' => \E g : /\ Makes(c, g) /\ f[k] = Changed(Script[c][k], told'[c][k].ok, g[k - 1])
                                         /\ \A n \in 0 .. k - 1 : f[n] = g[n]
        /\ (\E g : Makes(c, g)) => \E f : Makes(c, f)'
    BY <1>4, MoreMade
  <2>3. ASSUME NEW f, Makes(c, f)' PROVE Agrees(c, f)'
    <3>1. PICK g : Makes(c, g) /\ f[k] = Changed(Script[c][k], told'[c][k].ok, g[k - 1]) /\ \A n \in 0 .. k - 1 : f[n] = g[n]
      BY <2>2, <2>3
    <3>2. /\ g[k - 1] = contacts[UserOf[c]]
          /\ \A n \in DOMAIN told[c] : Script[c][n].op = "cont_list" => told[c][n].list = Listed(c, n, g[n - 1])
      BY <1>4, <2>1, <3>1 DEF Agrees
    <3>3. f[k] = contacts'[UserOf[c]]
      BY <1>4, <1>8, <3>1, <3>2 DEF Sole
    <3>4. ASSUME NEW n \in 1 .. k, Script[c][n].op = "cont_list" PROVE told'[c][n].list = Listed(c, n, f[n - 1])'
      <4>1. n - 1 \in 0 .. k - 1 /\ f[n - 1] = g[n - 1]
        BY <1>4, <3>1
      <4>2. CASE n = k
        <5>1. r.list = IF [c |-> c, n |-> k] \in refused' THEN {} ELSE contacts[UserOf[c]]
          BY <1>8, <3>4, <4>2 DEF Sole
        <5> QED
          BY <1>4, <3>2, <4>1, <4>2, <5>1 DEF Listed
      <4>3. CASE n # k
        <5>1. n \in 1 .. k - 1 /\ n \in DOMAIN told[c] /\ n \in Nat
          BY <1>2, <1>4, <4>3
        <5>2. [c |-> c, n |-> n] \in refused' <=> [c |-> c, n |-> n] \in refused
          BY <4>3, <5>1
        <5>3. told'[c][n].list = Listed(c, n, g[n - 1])
          BY <1>4, <3>2, <3>4, <5>1
        <5> QED
          BY <4>1, <5>2, <5>3 DEF Listed
      <4> QED
        BY <4>2, <4>3
    <3> QED
      BY <1>4, <1>7, <3>3, <3>4 DEF Agrees
  <2> QED
    BY <2>1, <2>2, <2>3
<1>9. ASSUME NEW d \in Clients, d # c
      PROVE  Sole(d)' => (\E f : Makes(d, f)') /\ \A f : Makes(d, f)' => Agrees(d, f)'
  <2>1. Sole(d) => contacts'[UserOf[d]] = contacts[UserOf[d]]
    BY <1>9, ConstantFacts DEF Sole
  <2>2. Sole(d) => (\E f : Makes(d, f)) /\ \A f : Makes(d, f) => Agrees(d, f)
    BY DEF AnswerInv, MadeInv
  <2>3. \A n \in DOMAIN told[d] : [c |-> d, n |-> n] \in refused' <=> [c |-> d, n |-> n] \in refused
    BY <1>9, ToldFacts
  <2> QED
    BY <1>3, <1>9, <2>1, <2>2, <2>3, SameMade
<1>10. ASSUME NEW d \in Clients
       PROVE  Sole(d)' => (\E f : Makes(d, f)') /\ \A f : Makes(d, f)' => Agrees(d, f)'
  BY <1>7, <1>8, <1>9
<1> QED
  BY <1>10 DEF MadeInv

LEMMA ReturnAnswers == ASSUME TypeInv, FlowInv, AnswerInv, setup' = setup, Account \/ End PROVE AnswerInv'
<1> SUFFICES ASSUME NEW c, c = Caller, NEW k, k = Len(told[c]) + 1 PROVE AnswerInv'
  OBVIOUS
<1>1. PICK r \in Answers :
              /\ c \in Clients /\ k = rd.req.n /\ cmd[c].busy /\ cmd[c].n = k
              /\ told' = [told EXCEPT ![c] = Append(@, r)]
              /\ \A u \in Users : u # UserOf[c] => contacts'[u] = contacts[u]
              /\ setup.api[c] = "grpc" =>
                    /\ contacts'[UserOf[c]] = Changed(Script[c][k], r.ok, contacts[UserOf[c]])
                    /\ Script[c][k].op = "cont_list" => r.list = contacts[UserOf[c]]
  BY ReturnTold
<1>2. /\ told'[c] = Append(told[c], r) /\ \A d \in Clients : d # c => told'[d] = told[d]
      /\ cmd' = [cmd EXCEPT ![c].busy = FALSE] /\ cmd \in [Clients -> [n : Nat, busy : BOOLEAN]]
      /\ refused' = refused /\ refused \subseteq [c : Clients, n : Nat]
  BY <1>1, ReturnEffect DEF TypeInv, AccountType, ClientType, Returns
<1>3. Len(told[c]) \in Nat /\ Len(told'[c]) = k
  BY <1>1, <1>2, ToldFacts, AppendFact
<1>4. ToldInv'
  BY <1>1, <1>2, <1>3 DEF AnswerInv, ToldInv
<1>5. RefusedInv'
  BY <1>2, <1>3 DEF AnswerInv, RefusedInv
<1>6. [c |-> c, n |-> k] \notin refused'
  <2>1. k \in Nat /\ ~(k <= Len(told[c]))
    BY <1>3
  <2> QED
    BY <1>2, <2>1 DEF AnswerInv, RefusedInv
<1>7. MadeInv'
  BY <1>1, <1>2, <1>6, OneAnswer
<1> QED
  BY <1>4, <1>5, <1>7, ReturnOwners DEF AnswerInv

(* A command that is refused. *)
LEMMA RefusedAnswers ==
    ASSUME TypeInv, AnswerInv, setup' = setup, NEW c \in Clients, CommandRefused(c) PROVE AnswerInv'
<1> DEFINE k == cmd[c].n + 1
           op == Script[c][k].op
           r == AnswerTo(c, op, Result(FALSE, {}))
<1>1. /\ ~cmd[c].busy /\ cmd' = [cmd EXCEPT ![c].n = k] /\ cmd \in [Clients -> [n : Nat, busy : BOOLEAN]]
      /\ told' = [told EXCEPT ![c] = Append(@, r)]
      /\ refused' = refused \cup {[c |-> c, n |-> k]} /\ refused \subseteq [c : Clients, n : Nat]
      /\ UNCHANGED <<users, contacts, sessions>>
  BY DEF CommandRefused, Tell, server, account, TypeInv, ClientType, AccountType
<1>2. r \in Answers /\ r.list = {} /\ (setup.api[c] = "grpc" /\ op \notin {"send", "cont_list"} => r.ok = FALSE)
  BY RefusedTold
<1> HIDE DEF r
<1>3. k = Len(told[c]) + 1 /\ Len(told[c]) \in Nat /\ told[c] \in Seq(Answers) /\ k \in Nat
  BY <1>1, ToldFacts DEF AnswerInv, ToldInv
<1> HIDE DEF k
<1>4. told'[c] = Append(told[c], r) /\ (\A d \in Clients : d # c => told'[d] = told[d])
  BY <1>1 DEF TypeInv, AccountType
<1>5. Len(told'[c]) = k
  BY <1>2, <1>3, <1>4, AppendFact
<1>6. ToldInv'
  BY <1>1, <1>4, <1>5 DEF AnswerInv, ToldInv
<1>7. OwnerInv'
  BY <1>1 DEF AnswerInv, OwnerInv
<1>8. RefusedInv'
  <2> SUFFICES ASSUME NEW x \in refused' PROVE x.n <= Len(told'[x.c])
    BY DEF RefusedInv
  <2>1. CASE x = [c |-> c, n |-> k]
    BY <1>3, <1>5, <2>1
  <2>2. CASE x \in refused
    <3>1. x.c \in Clients /\ x.n \in Nat /\ x.n <= Len(told[x.c])
      BY <1>1, <2>2 DEF AnswerInv, RefusedInv
    <3> QED
      BY <1>3, <1>4, <1>5, <3>1
  <2> QED
    BY <1>1, <2>1, <2>2
<1>9. setup.api[c] = "grpc" => contacts'[UserOf[c]] = Changed(Script[c][k], r.ok, contacts[UserOf[c]])
  <2>1. CASE op \in {"send", "cont_list"}
    BY <1>1, <2>1 DEF Changed
  <2>2. CASE op \notin {"send", "cont_list"}
    <3>1. setup.api[c] = "grpc" => r.ok = FALSE
      BY <1>2, <2>2
    <3> QED
      BY <1>1, <3>1, NothingChanged
  <2> QED
    BY <2>1, <2>2
<1>10. r.list = IF [c |-> c, n |-> k] \in refused' THEN {} ELSE contacts[UserOf[c]]
  BY <1>1, <1>2
<1>11. \A d \in Clients : \A n \in Nat :
          d # c \/ n # k => ([c |-> d, n |-> n] \in refused' <=> [c |-> d, n |-> n] \in refused)
  <2>1. \A d \in Clients : \A n \in Nat : d # c \/ n # k => [c |-> d, n |-> n] # [c |-> c, n |-> k]
    <3> SUFFICES ASSUME NEW d \in Clients, NEW n \in Nat, [c |-> d, n |-> n] = [c |-> c, n |-> k] PROVE d = c /\ n = k
      OBVIOUS
    <3>1. [c |-> d, n |-> n].c = [c |-> c, n |-> k].c /\ [c |-> d, n |-> n].n = [c |-> c, n |-> k].n
      OBVIOUS
    <3> QED
      BY <3>1
  <2> QED
    BY <1>1, <2>1
<1>12. MadeInv'
  BY <1>1, <1>2, <1>3, <1>9, <1>10, <1>11, OneAnswer
<1> QED
  BY <1>6, <1>7, <1>8, <1>12 DEF AnswerInv

(* Steps that tell nobody anything. *)
LEMMA QuietAnswers ==
    ASSUME AnswerInv, setup' = setup, UNCHANGED <<users, sessions, contacts, told, refused>>, ToldInv'
    PROVE  AnswerInv'
<1>1. OwnerInv' /\ RefusedInv'
  BY DEF AnswerInv, OwnerInv, RefusedInv
<1>2. ASSUME NEW d \in Clients
      PROVE  Sole(d)' => (\E f : Makes(d, f)') /\ \A f : Makes(d, f)' => Agrees(d, f)'
  <2>1. Sole(d) => (\E f : Makes(d, f)) /\ \A f : Makes(d, f) => Agrees(d, f)
    BY DEF AnswerInv, MadeInv
  <2> QED
    BY <2>1, SameMade
<1>3. MadeInv'
  BY <1>2 DEF MadeInv
<1> QED
  BY <1>1, <1>3 DEF AnswerInv

LEMMA AnswerStep == TypeInv /\ FlowInv /\ AnswerInv /\ [Next]_vars => AnswerInv'
<1> SUFFICES ASSUME TypeInv, FlowInv, AnswerInv, [Next]_vars PROVE AnswerInv'
  OBVIOUS
<1>1. ASSUME setup' = setup, UNCHANGED <<account, cmd, told, refused>> PROVE AnswerInv'
  <2>1. ToldInv'
    BY <1>1 DEF AnswerInv, ToldInv
  <2> QED
    BY <1>1, <2>1, QuietAnswers DEF account
<1>2. CASE Next
  <2>1. setup' = setup /\ Effect
    BY <1>2, NextEffect
  <2>2. ASSUME NEW c \in Clients, Command(c) PROVE AnswerInv'
    <3>1. /\ cmd' = [cmd EXCEPT ![c] = [n |-> cmd[c].n + 1, busy |-> TRUE]] /\ ~cmd[c].busy
          /\ UNCHANGED <<account, told, refused>> /\ cmd \in [Clients -> [n : Nat, busy : BOOLEAN]]
      BY <2>2 DEF Command, server, TypeInv, ClientType
    <3>2. ToldInv'
      BY <3>1 DEF AnswerInv, ToldInv
    <3> QED
      BY <2>1, <3>1, <3>2, QuietAnswers DEF account
  <2>3. CASE \E c \in Clients : Pull(c) \/ PullRefused(c) \/ Break(c)
    <3>1. UNCHANGED <<account, cmd, told, refused>>
      BY <2>3 DEF Pull, PullRefused, Break, server, client
    <3> QED
      BY <1>1, <2>1, <3>1
  <2>4. CASE Take \/ Post \/ Copy \/ Notify \/ PopFront \/ Turn \/ StartPull
    <3>1. UNCHANGED <<account, cmd, told, refused>>
      BY <2>4 DEF Take, Post, Copy, Notify, PopFront, Removes, Turn, StartPull, server, client
    <3> QED
      BY <1>1, <2>1, <3>1
  <2>5. CASE \E c \in Clients : \E k \in Attempt(c) : Coroutine(c, k)
    <3>1. UNCHANGED <<account, cmd, told, refused>>
      BY <2>5, CoroutineGoes
    <3> QED
      BY <1>1, <2>1, <3>1
  <2> QED
    BY <2>1, <2>2, <2>3, <2>4, <2>5, ReturnAnswers, RefusedAnswers DEF Effect
<1>3. CASE UNCHANGED vars
  BY <1>1, <1>3 DEF vars, state, server, client
<1> QED
  BY <1>2, <1>3

LEMMA AnswerInit == Init => AnswerInv
<1> SUFFICES ASSUME Init PROVE AnswerInv
  OBVIOUS
<1>0. /\ \A c \in Clients : told[c] = <<>> /\ cmd[c].n = 0 /\ cmd[c].busy = FALSE
      /\ \A u \in Users : contacts[u] = {}
      /\ Len(<<>>) = 0 /\ refused = {}
  BY DEF Init
<1>1. ToldInv /\ OwnerInv /\ RefusedInv
  BY <1>0 DEF ToldInv, OwnerInv, RefusedInv
<1>2. ASSUME NEW c \in Clients PROVE (\E f : Makes(c, f)) /\ \A f : Makes(c, f) => Agrees(c, f)
  <2>0. Len(told[c]) = 0 /\ 0 .. 0 = {0} /\ DOMAIN told[c] = {} /\ contacts[UserOf[c]] = {}
    BY <1>0, EmptyFact, ConstantFacts
  <2>1. ASSUME NEW f, Makes(c, f) PROVE Agrees(c, f)
    <3>1. f = [n \in {0} |-> IF n = 0 THEN {} ELSE After(c, n, f[n - 1])]
      BY <2>0, <2>1 DEF Makes
    <3>2. f[0] = {}
      BY <3>1
    <3> QED
      BY <2>0, <3>2 DEF Agrees
  <2>2. \E f : Makes(c, f)
    <3> DEFINE f == [n \in {0} |-> {}]
    <3>1. f = [n \in {0} |-> IF n = 0 THEN {} ELSE After(c, n, f[n - 1])]
      OBVIOUS
    <3>2. Makes(c, f)
      BY <2>0, <3>1 DEF Makes
    <3> QED
      BY <3>2
  <2> QED
    BY <2>1, <2>2
<1>3. MadeInv
  BY <1>2 DEF MadeInv
<1> QED
  BY <1>1, <1>3 DEF AnswerInv

(* A sole gRPC client of a user gets the contact list that its commands, as it was told,
   have made, or an empty one where asking for it was refused. *)
THEOREM ContactsAsToldHolds == Spec => []ContactsAsTold
<1>1. Init => AnswerInv
  BY AnswerInit
<1>2. TypeInv /\ FlowInv /\ AnswerInv /\ [Next]_vars => AnswerInv'
  BY AnswerStep
<1>3. AnswerInv => ContactsAsTold
  <2> SUFFICES ASSUME AnswerInv, NEW c \in Clients,
                      setup.api[c] = "grpc", \A d \in Clients : UserOf[d] = UserOf[c] => d = c,
                      NEW n \in DOMAIN told[c], Script[c][n].op = "cont_list"
               PROVE  told[c][n].list = IF [c |-> c, n |-> n] \in refused THEN {} ELSE Made(c)[n - 1]
    BY DEF ContactsAsTold
  <2>1. (\E f : Makes(c, f)) /\ \A f : Makes(c, f) => Agrees(c, f)
    BY DEF AnswerInv, MadeInv, Sole
  <2>2. Makes(c, Made(c))
    BY <2>1, MadeIs
  <2>3. Agrees(c, Made(c))
    BY <2>1, <2>2
  <2> QED
    BY <2>3 DEF Agrees, Listed
<1> QED
  BY <1>1, <1>2, <1>3, TypeCorrect, FlowCorrect, PTL DEF Spec
=============================================================================
