------------------------------- MODULE ImChat -------------------------------
(***************************************************************************)
(* Users, sessions and chat messages of the IM server                       *)
(* (src/app_prod_im/prod_im_server_mod_main.cpp and the modules of its      *)
(* users and sessions) and the clients that send and pull messages.         *)
(*                                                                         *)
(* Requests reach the server through the operation queue, in order, and one *)
(* coroutine, the reader, serves them (OpService).  A pull is handed to a   *)
(* coroutine of its own, which runs beside the reader: it looks for new     *)
(* messages and, if there are none, registers to be resumed by the next.    *)
(* There is no lock between the two.  Every access to a list or map is one  *)
(* step here: two accesses that really overlap are a data race, and the     *)
(* model covers its outcomes in which each access has one of its two orders. *)
(* A call that returns (fut.get) is one step with its answer.               *)
(*                                                                         *)
(* Clients call by gRPC, as the client of this repository does, or by       *)
(* JSON-RPC; a JSON-RPC client is taken to make the same calls.             *)
(***************************************************************************)
EXTENDS Integers, Sequences

CONSTANTS Users,
          Clients,
          UserOf,     \* the user each client works for
          Names,      \* names for contacts
          Setups,     \* for each client, the commands typed (script) and how it calls
                      \* (api), and how often a pool or a queue is found full
                      \* (shortages): scripts and shortages are bounds
          Losses      \* the connections each client loses while it pulls: a bound

Commands == [op : {"reg", "login", "cont_list"}]
            \cup [op : {"cont_add"}, id : Users, name : Names]
            \cup [op : {"cont_del"}, id : Users]
            \cup [op : {"send"}, to : Users]

ASSUME ChatAssumption ==
    /\ UserOf \in [Clients -> Users]
    /\ \A s \in Setups : /\ s.script \in [Clients -> Seq(Commands)]
                         /\ s.api \in [Clients -> {"grpc", "jsonrpc"}]
                         /\ s.shortages \in Nat
    /\ Losses \in [Clients -> Nat]

VARIABLES
    setup,     \* the setup, chosen at the start
    crashed,   \* the server has dereferenced a null list
    short,     \* how often a pool or a queue has been full
    refused,   \* the commands that never reached the reader for that
    users,     \* m_users, the users registered
    contacts,  \* user_contacts of each user
    sessions,  \* m_user_sessions, the users logged in
    msgs,      \* user_chat_msg of each user
    waiting,   \* get_chat_msg_notify_func: the pulls to resume, by user
    listed,    \* the users who have an entry in it, though it be empty
    queue,     \* requests submitted and not yet taken by the reader
    rd,        \* the reader: its step, and the request it serves
    co,        \* the pulls, by client and attempt: step, msg_index, list found
    cmd,       \* the client's command thread: commands made, waiting for one?
    told,      \* what its commands returned
    pull,      \* the client's pull thread: attempt, waiting for it?
    index,     \* m_msg_index
    got        \* the messages the client has displayed

account == <<users, contacts, sessions>>
server == <<account, msgs, waiting, listed>>
puller == <<pull, index, got>>
client == <<cmd, told, puller>>
state == <<crashed, short, refused, server, queue, rd, co, client>>
vars == <<setup, state>>

Script == setup.script

Attempt(c) == 0 .. Losses[c]
Pulls == UNION {{[c |-> c, k |-> k] : k \in Attempt(c)} : c \in Clients}
Message == [from : Users, to : Users, by : Clients, n : Nat]

\* The n-th command of client c, or attempt n of its pulls.
Request == [op : {"cmd", "pull"}, c : Clients, n : Nat]

NoPull == [pc |-> "none", from |-> 0, list |-> <<>>]

At(c, k, pc) == co[c][k].pc = pc
GoTo(c, k, pc) == co' = [co EXCEPT ![c][k].pc = pc]

Init ==
    /\ setup \in Setups
    /\ crashed = FALSE
    /\ short = 0 /\ refused = {}
    /\ listed = {}
    /\ users = {} /\ sessions = {}
    /\ contacts = [u \in Users |-> {}]
    /\ msgs = [u \in Users |-> <<>>]
    /\ waiting = [u \in Users |-> <<>>]
    /\ queue = <<>>
    /\ rd = [pc |-> "idle"]
    /\ co = [c \in Clients |-> [k \in Attempt(c) |-> NoPull]]
    /\ cmd = [c \in Clients |-> [n |-> 0, busy |-> FALSE]]
    /\ told = [c \in Clients |-> <<>>]
    /\ pull = [c \in Clients |-> [k |-> 0, busy |-> FALSE]]
    /\ index = [c \in Clients |-> 0]
    /\ got = [c \in Clients |-> <<>>]

-----------------------------------------------------------------------------
(* A client: one thread for the commands, one that pulls in a loop *)

Command(c) ==
    LET n == cmd[c].n + 1
    IN  /\ ~cmd[c].busy /\ n <= Len(Script[c])
        /\ cmd' = [cmd EXCEPT ![c] = [n |-> n, busy |-> TRUE]]
        /\ queue' = Append(queue, [op |-> "cmd", c |-> c, n |-> n])
        /\ UNCHANGED <<crashed, short, refused, server, rd, co, told, puller>>

\* The request carries m_msg_index.
Pull(c) ==
    LET k == pull[c].k
    IN  /\ ~pull[c].busy
        /\ pull' = [pull EXCEPT ![c].busy = TRUE]
        /\ co' = [co EXCEPT ![c][k] = [pc |-> "queued", from |-> index[c], list |-> <<>>]]
        /\ queue' = Append(queue, [op |-> "pull", c |-> c, n |-> k])
        /\ UNCHANGED <<crashed, short, refused, server, rd, cmd, told, index, got>>

\* The connection breaks: the call fails and is made again, while the server
\* goes on with the first.
Break(c) ==
    /\ pull[c].busy /\ pull[c].k < Losses[c]
    /\ pull' = [pull EXCEPT ![c] = [k |-> @.k + 1, busy |-> FALSE]]
    /\ UNCHANGED <<crashed, short, refused, server, queue, rd, co, cmd, told, index, got>>

-----------------------------------------------------------------------------
(* The reader *)

Take ==
    /\ rd.pc = "idle" /\ queue # <<>>
    /\ rd' = [pc |-> "serve", req |-> Head(queue)]
    /\ queue' = Tail(queue)
    /\ UNCHANGED <<crashed, short, refused, server, co, client>>

\* The command that the reader serves.
Cmd == Script[rd.req.c][rd.req.n]
Serves(op) == rd.pc = "serve" /\ rd.req.op = "cmd" /\ Cmd.op = op

Caller == rd.req.c
Me == UserOf[Caller]

\* What a command returned: whether it succeeded, and its list, null where it failed.
Result(ok, list) == [ok |-> ok, list |-> IF ok THEN list ELSE {}]

\* What the client is told of it: gRPC sends an empty list for null, and 0 for a
\* message that was refused; JSON-RPC, too, for such a message, and sends an error for
\* a contact that was removed.
GrpcAnswer(op, r) == IF op \in {"send", "cont_list"} THEN Result(TRUE, r.list) ELSE r
JsonAnswer(op, r) ==
    CASE op = "send"     -> Result(TRUE, {})
      [] op = "cont_del" -> Result(FALSE, {})
      [] OTHER           -> r
AnswerTo(c, op, r) == IF setup.api[c] = "grpc" THEN GrpcAnswer(op, r) ELSE JsonAnswer(op, r)
\* JSON-RPC iterates over a list, also when it is null.
Dereferences(c, isNull) == setup.api[c] = "jsonrpc" /\ isNull

Tell(c, op, r) == told' = [told EXCEPT ![c] = Append(@, AnswerTo(c, op, r))]

\* alloc_msg or write_operation fails, or the task of a coroutine is dropped.
Short == short < setup.shortages /\ short' = short + 1

\* A command that is refused returns at once, with null where it asks for a list.
CommandRefused(c) ==
    LET n == cmd[c].n + 1
        op == Script[c][n].op
    IN  /\ ~cmd[c].busy /\ n <= Len(Script[c])
        /\ Short
        /\ refused' = refused \cup {[c |-> c, n |-> n]}
        /\ cmd' = [cmd EXCEPT ![c].n = n]
        /\ crashed' = Dereferences(c, op = "cont_list")
        /\ Tell(c, op, Result(FALSE, {}))
        /\ UNCHANGED <<server, queue, rd, co, puller>>

\* A pull that is refused is made again.
PullRefused(c) ==
    /\ ~pull[c].busy
    /\ Short
    /\ crashed' = Dereferences(c, TRUE)
    /\ UNCHANGED <<refused, server, queue, rd, co, client>>

\* The end of process_operation: the command's call returns.
Return(ok, list) ==
    /\ rd' = [pc |-> "idle"]
    /\ crashed' = Dereferences(Caller, Cmd.op = "cont_list" /\ ~ok)
    /\ Tell(Caller, Cmd.op, Result(ok, list))
    /\ cmd' = [cmd EXCEPT ![Caller].busy = FALSE]
    /\ UNCHANGED <<short, refused, queue, co, puller>>

Exists(u) == u \in users

user_register ==
    /\ Serves("reg")
    /\ users' = users \cup {Me}
    /\ Return(Me \notin users, {})
    /\ UNCHANGED <<sessions, contacts, msgs, waiting, listed>>

\* m_user_session.add: a session that is there is overwritten.
AddSession(u) == sessions' = sessions \cup {u}

login ==
    /\ Serves("login")
    /\ IF Exists(Me) THEN AddSession(Me) ELSE UNCHANGED sessions
    /\ Return(Exists(Me), {})
    /\ UNCHANGED <<users, contacts, msgs, waiting, listed>>

\* The commands on contacts look for the user and its session first.
LoggedIn == Exists(Me) /\ Me \in sessions
Others(id) == {x \in contacts[Me] : x.id # id}
\* user_contact_get_list: null for a user who is not there.
ContactsOf(u) == Result(Exists(u), contacts[u])

get_contact_list ==
    /\ Serves("cont_list")
    /\ Return(LoggedIn, ContactsOf(Me).list)
    /\ UNCHANGED server

\* Defect: a contact that is there keeps its name.
AddContactOnce ==
    /\ Serves("cont_add")
    /\ contacts' = IF LoggedIn /\ Others(Cmd.id) = contacts[Me]
                   THEN [contacts EXCEPT ![Me] = @ \cup {[id |-> Cmd.id, name |-> Cmd.name]}]
                   ELSE contacts
    /\ Return(LoggedIn, {})
    /\ UNCHANGED <<users, sessions, msgs, waiting, listed>>

add_contact ==
    /\ Serves("cont_add")
    /\ contacts' = IF LoggedIn
                   THEN [contacts EXCEPT ![Me] = Others(Cmd.id) \cup {[id |-> Cmd.id, name |-> Cmd.name]}]
                   ELSE contacts
    /\ Return(LoggedIn, {})
    /\ UNCHANGED <<users, sessions, msgs, waiting, listed>>

del_contact ==
    /\ Serves("cont_del")
    /\ contacts' = IF LoggedIn THEN [contacts EXCEPT ![Me] = Others(Cmd.id)] ELSE contacts
    /\ Return(LoggedIn, {})
    /\ UNCHANGED <<users, sessions, msgs, waiting, listed>>

\* client_send_chat_msg tests the sender and the receiver, but not the session.
Refuse ==
    /\ Serves("send")
    /\ ~Exists(Me) \/ ~Exists(Cmd.to)
    /\ Return(FALSE, {})
    /\ UNCHANGED server

Sender == Me
Sent == [from |-> Sender, to |-> Cmd.to, by |-> rd.req.c, n |-> rd.req.n]

\* The message is added to the receiver's list, ...
Post ==
    /\ Serves("send")
    /\ Exists(Sender) /\ Exists(Cmd.to)
    /\ msgs' = [msgs EXCEPT ![Cmd.to] = Append(@, Sent)]
    /\ rd' = [rd EXCEPT !.pc = "notify"]
    /\ UNCHANGED <<crashed, short, refused, account, waiting, listed, queue, co, client>>

\* ... and to the sender's, if that is another.
Copy ==
    /\ rd.pc = "copy"
    /\ msgs' = [msgs EXCEPT ![Sender] = Append(@, Sent)]
    /\ rd' = [rd EXCEPT !.pc = "notifySender"]
    /\ UNCHANGED <<crashed, short, refused, account, waiting, listed, queue, co, client>>

\* Whose waiting pulls the reader is resuming.
Notified == IF rd.pc \in {"notify", "pop"} THEN Cmd.to ELSE Sender
Notifying(u) == rd.pc \in {"notify", "pop", "notifySender", "popSender"} /\ Notified = u

\* Defect: a message to oneself is added twice.
ProceedTwice ==
    \/ rd.pc = "notify" /\ rd' = [rd EXCEPT !.pc = "copy"]
       /\ UNCHANGED <<crashed, short, refused, queue, co, client>>
    \/ rd.pc = "notifySender" /\ Return(TRUE, {})

\* The sender's turn comes after the receiver's, if that is another.
Proceed ==
    \/ /\ rd.pc = "notify" /\ Sender # Cmd.to
       /\ rd' = [rd EXCEPT !.pc = "copy"]
       /\ UNCHANGED <<crashed, short, refused, queue, co, client>>
    \/ /\ rd.pc = "notifySender" \/ Sender = Cmd.to
       /\ Return(TRUE, {})

\* After each addition the functions registered for that user are called, the oldest
\* first, unless the executor has no room for the coroutine's task, ...
Notify ==
    LET p == Head(waiting[Notified])
    IN  /\ rd.pc \in {"notify", "notifySender"} /\ waiting[Notified] # <<>>
        /\ \/ GoTo(p.c, p.k, "again") /\ UNCHANGED short
           \/ GoTo(p.c, p.k, "lost") /\ Short
        /\ rd' = [rd EXCEPT !.pc = IF @ = "notify" THEN "pop" ELSE "popSender"]
        /\ UNCHANGED <<crashed, refused, server, queue, client>>

Removes(rest) ==
    /\ rd.pc \in {"pop", "popSender"}
    /\ waiting' = [waiting EXCEPT ![Notified] = rest]
    /\ rd' = [rd EXCEPT !.pc = IF @ = "pop" THEN "notify" ELSE "notifySender"]
    /\ UNCHANGED <<crashed, short, refused, account, msgs, listed, queue, co, client>>

\* Defect: the last one is removed, which may have come after the call.
PopBack == Removes(SubSeq(waiting[Notified], 1, Len(waiting[Notified]) - 1))

\* ... and each is removed when it has been called, ...
PopFront == Removes(Tail(waiting[Notified]))

\* Defect: the reader goes on while functions are registered.
NotifyDoneEarly ==
    /\ rd.pc \in {"notify", "notifySender"}
    /\ Proceed
    /\ UNCHANGED server

\* ... until none is left.
NotifyDone ==
    /\ rd.pc \in {"notify", "notifySender"} /\ waiting[Notified] = <<>>
    /\ Proceed
    /\ UNCHANGED server

\* A pull gets a coroutine of its own, if there is room for its task, and the reader
\* goes on.
StartPull ==
    /\ rd.pc = "serve" /\ rd.req.op = "pull"
    /\ \/ GoTo(rd.req.c, rd.req.n, "find") /\ UNCHANGED short
       \/ GoTo(rd.req.c, rd.req.n, "lost") /\ Short
    /\ rd' = [pc |-> "idle"]
    /\ UNCHANGED <<crashed, refused, server, queue, client>>

Reader ==
    \/ Take \/ user_register \/ login \/ get_contact_list \/ add_contact \/ del_contact
    \/ Refuse \/ Post \/ Copy
    \/ Notify \/ PopFront \/ NotifyDone \/ StartPull

-----------------------------------------------------------------------------
(* co_func_get_chat_msg, in the coroutine of attempt k of client c *)

Find(c, k) ==
    /\ At(c, k, "find")
    /\ GoTo(c, k, IF Exists(UserOf[c]) /\ UserOf[c] \in sessions THEN "read" ELSE "null")
    /\ UNCHANGED <<crashed, short, refused, server, queue, rd, client>>

\* user_get_chat_msg_from
MessagesFrom(u, i) == SubSeq(msgs[u], i + 1, Len(msgs[u]))

Read(c, k) ==
    LET list == MessagesFrom(UserOf[c], co[c][k].from)
    IN  /\ At(c, k, "read")
        /\ co' = [co EXCEPT ![c][k] = [pc |-> IF list = <<>> THEN "register" ELSE "answer",
                                       from |-> @.from, list |-> list]]
        /\ UNCHANGED <<crashed, short, refused, server, queue, rd, client>>

\* cor_yield: the coroutine is suspended, and then its executor looks for the list of
\* its user ...
Register(c, k) ==
    /\ At(c, k, "register")
    /\ GoTo(c, k, IF UserOf[c] \in listed THEN "push" ELSE "insert")
    /\ UNCHANGED <<crashed, short, refused, server, queue, rd, client>>

\* ... to put the function that resumes it there, ...
PushBack(c, k) ==
    /\ At(c, k, "push")
    /\ waiting' = [waiting EXCEPT ![UserOf[c]] = Append(@, [c |-> c, k |-> k])]
    /\ GoTo(c, k, "wait")
    /\ UNCHANGED <<crashed, short, refused, account, msgs, listed, queue, rd, client>>

\* ... or into a new list; if the user has one by now, the function is dropped.
Insert(c, k) ==
    LET u == UserOf[c]
    IN  /\ At(c, k, "insert")
        /\ listed' = listed \cup {u}
        /\ \/ /\ u \notin listed
              /\ waiting' = [waiting EXCEPT ![u] = <<[c |-> c, k |-> k]>>]
              /\ GoTo(c, k, "wait")
           \/ /\ u \in listed
              /\ GoTo(c, k, "lost")
              /\ UNCHANGED waiting
        /\ UNCHANGED <<crashed, short, refused, account, msgs, queue, rd, client>>

ReadAgain(c, k) ==
    /\ At(c, k, "again")
    /\ co' = [co EXCEPT ![c][k] = [pc |-> "answer", from |-> @.from,
                                   list |-> MessagesFrom(UserOf[c], @.from)]]
    /\ UNCHANGED <<crashed, short, refused, server, queue, rd, client>>

\* Defect: m_msg_index counts calls instead of messages.
CountedCalls(c, list) == index' = [index EXCEPT ![c] = @ + (IF list = <<>> THEN 0 ELSE 1)]
\* m_msg_index counts the messages that the client got.
Counted(c, list) == index' = [index EXCEPT ![c] = @ + Len(list)]

\* The list goes back to the client, which counts and displays the messages.  Nobody
\* listens on a broken connection.  An empty list, or none, is a failed call.
Answer(c, k) ==
    /\ At(c, k, "answer") \/ At(c, k, "null")
    /\ co' = [co EXCEPT ![c][k] = NoPull]
    /\ crashed' = Dereferences(c, At(c, k, "null"))
    /\ \/ /\ k = pull[c].k
          /\ pull' = [pull EXCEPT ![c].busy = FALSE]
          /\ Counted(c, co[c][k].list)
          /\ got' = [got EXCEPT ![c] = @ \o co[c][k].list]
       \/ /\ k # pull[c].k
          /\ UNCHANGED <<pull, index, got>>
    /\ UNCHANGED <<short, refused, server, queue, rd, cmd, told>>

Coroutine(c, k) ==
    \/ Find(c, k) \/ Read(c, k)
    \/ Register(c, k) \/ PushBack(c, k) \/ Insert(c, k)
    \/ ReadAgain(c, k) \/ Answer(c, k)

-----------------------------------------------------------------------------

Next ==
    /\ ~crashed /\ UNCHANGED setup
    /\ \/ \E c \in Clients : \/ Command(c) \/ CommandRefused(c)
                             \/ Pull(c) \/ PullRefused(c) \/ Break(c)
       \/ Reader
       \/ \E p \in Pulls : Coroutine(p.c, p.k)

\* The server's executors run the reader and the coroutines; the pull thread
\* calls again.  Nobody has to type a command, and no connection has to break.
Fairness ==
    /\ WF_state(~crashed /\ Reader)
    /\ \A c \in Clients : WF_state(~crashed /\ Pull(c))
    /\ \A p \in Pulls : WF_state(~crashed /\ Coroutine(p.c, p.k))

Spec == Init /\ [][Next]_vars
FairSpec == Spec /\ Fairness

-----------------------------------------------------------------------------
(* Properties *)

\* The contacts that the first n commands of c made, as it was told.
Made(c) ==
    LET Step(i, S) ==
            LET x == Script[c][i]
                others == {y \in S : y.id # x.id}
            IN  IF ~told[c][i].ok THEN S
                ELSE CASE x.op = "cont_add" -> others \cup {[id |-> x.id, name |-> x.name]}
                       [] x.op = "cont_del" -> others
                       [] OTHER -> S
        f[n \in 0 .. Len(told[c])] == IF n = 0 THEN {} ELSE Step(n, f[n - 1])
    IN  f

(* A client that is its user's only one, and calls by gRPC, gets the contact list that
   its own commands have made, those that it was told have succeeded, however they
   interleave with the messages and pulls of others and whichever are refused for want
   of room; a list is empty only if nothing was made or if asking for it was refused,
   which the client cannot tell. *)
ContactsAsTold ==
    \A c \in Clients :
        setup.api[c] = "grpc" /\ (\A d \in Clients : UserOf[d] = UserOf[c] => d = c) =>
            \A n \in DOMAIN told[c] :
                Script[c][n].op = "cont_list" =>
                    told[c][n].list = IF [c |-> c, n |-> n] \in refused
                                      THEN {} ELSE Made(c)[n - 1]

(* A client displays its user's messages each once and in order, and its index
   is the number it has displayed, whatever connections break and however pulls,
   answers and new messages interleave. *)
InOrder ==
    \A c \in Clients :
        /\ got[c] = SubSeq(msgs[UserOf[c]], 1, Len(got[c]))
        /\ index[c] = Len(got[c])

\* The messages between u and v in the list of u, and which of two comes first there.
Between(u, v) == {m \in {msgs[u][i] : i \in DOMAIN msgs[u]} : {m.from, m.to} = {u, v}}
Before(u, m, n) == \E i, j \in DOMAIN msgs[u] : i < j /\ msgs[u][i] = m /\ msgs[u][j] = n

\* The message that the receiver's list has, and the sender's not yet.
Unfinished == IF rd.pc \in {"notify", "pop", "copy"} /\ Sender # Cmd.to THEN {Sent} ELSE {}

(* Two users see the same conversation: the messages between them are in both lists,
   each once and in the same order, but for one that the reader is adding. *)
LogsAgree ==
    /\ \A u \in Users : \A i, j \in DOMAIN msgs[u] : msgs[u][i] = msgs[u][j] => i = j
    /\ \A u, v \in Users :
          /\ Between(u, v) \ Unfinished = Between(v, u) \ Unfinished
          /\ \A m, n \in Between(u, v) : Before(u, m, n) => Before(v, m, n) \/ n \in Unfinished

\* The pull that the reader has called and not yet removed.
Called(p) == /\ rd.pc \in {"pop", "popSender"}
             /\ waiting[Notified] # <<>> /\ Head(waiting[Notified]) = p

(* A pull is registered once, and only while it waits or the reader is calling it,
   however many others register between the call and its removal: so it is resumed at
   most once for each registration, and none that waits is removed instead. *)
RegisteredOnce ==
    \A u \in Users :
        /\ \A i, j \in DOMAIN waiting[u] : waiting[u][i] = waiting[u][j] => i = j
        /\ \A p \in Pulls :
              UserOf[p.c] = u =>
                  (At(p.c, p.k, "wait") \/ Called(p)
                       <=> \E i \in DOMAIN waiting[u] : waiting[u][i] = p)

(* Every pull that is registered when a message for its user is added is
   answered, all the clients and broken attempts of that user among them, unless an
   executor has no room for it. *)
WaitersAnswered ==
    \A p \in Pulls :
        At(p.c, p.k, "wait") /\ Notifying(UserOf[p.c])
            ~> At(p.c, p.k, "none") \/ (At(p.c, p.k, "lost") /\ short > 0) \/ crashed

(* A pull does not wait while there are messages for it. *)
WaitsOnlyForNew ==
    \A p \in Pulls :
        At(p.c, p.k, "wait") =>
            \/ co[p.c][p.k].from >= Len(msgs[UserOf[p.c]])
            \/ Notifying(UserOf[p.c])
=============================================================================
