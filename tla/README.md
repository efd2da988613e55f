# Verification of cpp-toolkit

This directory holds TLA+ models of cpp-toolkit: its coroutine scheduler, mutex,
timed waits, channel and sockets, the lock-free ring they are built on, the hash
table with expiry and the timing wheel below it, the worker framework with the
messenger built on it, the chat room, and the instant-messaging server and client
(`app_prod_im`); with TLC configurations that check them and TLAPS proofs about
them. Paths below are relative to the repository; `src/src/...` holds the
implementation files and `src/include/...` the headers.

Contents: 1 the system · 2 the modules · 3 the runs · 4 bounds and fairness ·
5 what is proved · 6 what disagrees with the code's own statements · 7 what is
not modelled · 8 what is left to do.

## 1. The system

cpp-toolkit is a C++ library (coroutines over boost continuations, queues,
pools, a time wheel, a worker framework, a hash table with expiry) and programs
built with it.

| component | state | operations | works with |
|---|---|---|---|
| Coroutine scheduler, `mod_cor.cpp` | task queues, executors and their flags, each coroutine's continuation cell, joiners | `cor_create`, `cor_yield`, `join`, end of a coroutine, stealing, monitor | everything that suspends |
| Coroutine mutex, `mod_cor_mutex.cpp` | `m_lock_acquired`, `m_wait_cos` | `lock` (two halves), `unlock` | the scheduler resumes its waiters |
| Atomic ring, `atomic_queue.hpp` | two counters, a state byte and an element per slot | `try_push`, `try_pop`, `push`, `pop` | below every queue and pool |
| Timed yield, `mod_cor.cpp`, and time wheel, `mod_time_wheel.cpp` | slots, armed timers, the frame a resume function refers to | `cor_yield` with a timeout, cancel, tick | sockets, channel, `exec_test` |
| Channel and notification queue, `mod_cor_channel.hpp`, `mod_np_queue.hpp` | the ring, `m_is_notify_mode`, `m_notified`, `m_resume_f` | read with and without a timeout, write, for coroutines and threads | timed yield, coroutine mutex |
| Coroutine sockets, `mod_cor_net.hpp`, and their programs | operations under way, the place of each coroutine | connect, accept, read, write, UDP receive and send | timed yield |
| Timing wheel, `timeout.c` | wheels of slots, bit fields of populated slots, expired list | add, del, update, step, get, reset, wait time, iterate | the hash table |
| Hash table with expiry, `mod_hash_table.hpp` | entries, their timeouts | insert, find, del, destroy | timing wheel |
| Works, `mod_worker/`, and the messenger on them, `app_im` | works, queues, suspended works, handlers of light channels, the bytes in a socket | connect, accept, send, receive, wait | one io thread |
| Chat room, `app_chat` | queues of messages at both ends, recent messages, participants | type, deliver, join, leave | asio |
| Operation queue of the IM server, `prod_im_server_mod_main.cpp` | message pool, queue, notification flag, resume function, promises | synchronous API calls, `read_operation`, `process_operation` | gRPC/JSON-RPC threads on one side, a coroutine on the other |
| IM users, sessions, contacts, messages, `prod_im_server_mod_user_*.cpp`, and the client | maps of users and sessions, message lists, waiting pulls; `m_msg_index` | register, login, contacts, send, `get_chat_msg`; commands and the pull loop | the operation queue's reader and coroutines of their own |

### What is hard about it

* **A suspended coroutine is an object in a heap cell.** `lock()`, `join()` and
  `cor_yield()` move the caller's continuation into a cell first and then run
  on the *same* executor, on another stack, the code that makes the cell
  visible to others. From that moment another executor may move the
  continuation out, and everything the first executor still does is a race.
* **Stale references are normal.** A cell can be named by a waiter, by a task
  and by the executor at once; whoever comes second has to notice.
* **Frames that are gone.** A timed wait is resumed by an operation and by a
  timer, and both refer to variables of the call that waits.
* **Full queues.** `try_enqueue` on a full queue drops the only reference to a
  coroutine; the code says so in a `Fixme`.
* **Blocked threads.** A coroutine may block its executor. A monitor marks and
  replaces executors with flags that two threads write without synchronization.
* **Deciding to sleep.** The reader of the IM server's queue, the pull of a
  client, the channel's reader and the light channels all look for work, find none
  and arrange to be woken; whoever brings work in between must wake them.
* **Modular time.** The ring compares 32-bit counters by signed difference; the
  time wheel counts laps; the timing wheel computes the slots that an update has
  passed from bits of two times, which may also run backwards.
* **Messages in pieces.** A message crosses a socket in several writes and reads,
  and others share the socket.

`PROJECT.json` lists every hazard at its line, with the properties about it.

## 2. The modules

```
 CorMutex        <- CorMutex_proofs       MCCorMutex    (+ Orphan)
 CorSched        <- CorSched_proofs       MCCorSched
 CorWait  <-  CorNet, CorChannel  <-  CorPrograms  <- CorPrograms_proofs
                                          MCCorPrograms
 AtomicQueue     <- DataStructures_proofs                MCAtomicQueue
 TimerSet  <-refines-  HashTable, over TimingWheel
                       <- DataStructures_proofs          MCHashTable
 ImWorks         <- ImWorks_proofs        MCImWorks
 ChatRoom        <- ChatRoom_proofs       MCChatRoom
 OpService  <-refines-  ImOpQueue  <- ImOpQueue_proofs   MCImOpQueue (+ Lost)
    ^- promises what its clients use:  ImChat  <- ImChat_proofs  MCImChat (+ Missed)
```

`DataStructures_proofs` is about the ring and the wheel, which have in common the arithmetic of
remainders that their proofs rest on.

Definitions marked `Defect:` are mutated forms of an action. They are used by no
specification: each shows that some property would notice that bug. Beside
every property a comment names the behaviour it is about.

A module whose program can be used in several ways has a constant with the setups
(`Setups`, `Confs`, `Builds`), of which `Init` takes one: one run then covers them
all, and the properties are stated once.

### CorMutex: `cppt::cor_mutex_t`

`held[c]` is the number of the cell that holds the suspended coroutine *c*, and 0
while it runs; a waiter `[co, n, tq]` or a task `[co, n]` is *valid* when
`held[co] = n` (the code's `*(ele.c)`, `can_resume()`). Each executor has a
program counter. `FirstCas` is the first compare-and-swap and, if it fails, the
`callcc`; `Push`, `SecondCas`, `CheckCaller`, `MoveCaller` are the second half,
one action per access to shared state; `Unlock` and `WakeOne` are `unlock()`,
one action per iteration of its loop. `Dequeue`, `WorkSteal` and `Resume` are
the parts of the scheduler that can interfere (a theft of several tasks is one step
here; `CorSched` takes them one by one). `Yield` is a `cor_yield` inside the
critical section, which makes other coroutines contend.

### CorSched: `mod_cor.cpp`

A coroutine runs a program `Prog[c]` of creations, yields, joins and blocking
calls. `Create`, `Join`/`JoinReturns`, `Push`, `Check`, `Move`, `Yield`, `End`,
`Wake` are its operations, `Dequeue`, `StealSingle`, `StealHalf`, `StealOne`,
`Resume` the executor's, `Mark` and `Replace` the monitor's. A steal of several
tasks is one action per task, because other executors use both queues meanwhile.
`lost` collects coroutines dropped by a full queue and `crashed` is set by the
resumption of an empty continuation, after which the process does nothing more.

The plain booleans and the counter `gs_use_core`, written by several threads
without synchronization, are modelled by choice: `Mark` can fall on any task of
the executor, a creation can take any queue with room, and one that races with
another can miss it.

### AtomicQueue: `AtomicQueue2`, several producers and consumers

Counters are taken modulo `M` (2^32 in the code) and compared through
`SignedDiff`. A thread reads a counter, checks (`PushCheck`, `PopCheck`), claims a
ticket with a compare-and-swap (`PushClaim`, `PopClaim`) or, in the blocking
forms, with a fetch-and-add, and then spins on its slot's state
(`TakeForStore`, `TakeForLoad`) before it writes or reads the element. Writing and
emptying the element are separate states (`write`, `read`), so that two threads
at one element can be seen. `Blocking` is the set of threads that use the blocking
operations as well as the others. Memory is sequentially consistent. `Remap` is
`remap_index` as what it does: the position in a cache line and the number of
the line change places. `MCAtomicQueue` compares it with the bit operations.

### CorWait, CorNet, CorChannel, CorPrograms: waits with a timeout

`CorWait` is `co_yield_impl` and the time wheel. A wait of coroutine *c* has a
number; `Frame(c, n)` says that the call which waits has not returned. `Execute` takes a
task and runs its coroutine to the next wait, `Resume` is `resume_f`, called by an
operation's end, `Arm` adds the timer after the operation was started, `Tick` fires
the timers of the wheel's current slot. Timer and operation each queue a task; the
second one (`Leftover`) is dropped, or, when the coroutine waits again,
uses the frame of a call that has returned. That is undefined behaviour: the model
sets `undefined` and stops, so that nothing is claimed of what follows.

`CorNet` puts programs on it: the HTTP client and server, the UDP client and server,
and the sleeps of `exec_test`. A coroutine's place (`pc`) names the wait it is in,
and one operator per program (`ClientAfter`, `AcceptorAfter`, ...) gives the
next place from what the wait returned. The timed `read_some` and `write_some`
compare with 0 what is the number of bytes transferred (`Transfer`), so
that these programs take every transfer for a failure; the places behind it are in
the model and are not reached.

`CorChannel` is the channel: `Pop`, `Poll`, `WrapFunc` of the reader, which finds the queue
empty, sets the notify mode, polls again, suspends and then publishes `m_resume_f`;
`Push`, `Lock`, `Notify`, `CallResume` of a writer. It also has the forms with a thread as
writer (the reader suspends before it takes the lock) and with a thread as reader
(`Park`, `Unpark` at a condition variable).

`CorPrograms` composes the three: one wheel, one pool of timers, one setup of
programs.

### TimingWheel, HashTable, TimerSet

`TimingWheel` is `timeout.c` as operators on a record with the members of `struct
timeouts`; a bit field is the set of its one bits, and `RotL`, `RotR`, `Fls`, `Ctz`
are the operations on it. `Sched` puts a timeout into a slot of a wheel from its time
and the current one. `Update` is in the parts of `timeouts_update()`: `Passed` computes
the slots that the time has gone over, on each wheel that is looked at (`Turned`), `Gone` those of them that are
populated, `Todo` the list of their timeouts, `Rest` the wheel without them, and `AllAgain`
schedules them again, one after the other, or moves them to the expired list. `HashTable` uses it as `mod_hash_table.hpp` does (`Insert`, `Find`,
`Del`, `TimeoutUpdate`, `Destroy`, a clock in seconds), or directly, with repeating and absolute
timeouts and arbitrary times.

`TimerSet` is what a set of timeouts promises, with no wheels: each is due at a
time, and expires in the first update that reaches it. An update does nothing else (`Pass`).

### ImWorks: works and the messenger on them

Each process has a worker that runs one work at a time until it suspends, and an io
thread (`IoWrite`, `IoRead`, `IoConnect`, `IoAccept`, `IoTimer`). A message is `HdrLen`
units of its size and then its body; a write takes some of them, a read
what is there (`NextUnit`, `GoOn`). The receive work of either side hands a message
to the light channel (`Deal`), which stores it and queues the work that set the handler
(`Woken`). The handler is never removed, and a resume carries no identity: `strays`
collects the works that were resumed in a wait that was not theirs.

### ChatRoom

Both ends of a connection queue messages and write one at a time (`Queued`, `MoveUnit`,
`Written`), and read a header, then a body. The room delivers to its
participants and, to one that joins, the recent messages. Connections break, clients
leave, and a session that fails leaves the room (`GivesUp`).

### ImOpQueue and OpService: the IM server's main module

API threads call it synchronously: `Alloc`/`PoolPop`/`Grow` take a message from the
pool (two steps, as in `mempool::alloc`), `ReadFlag` reads
`m_op_msg_notification_on`, then either `Push`/`Store` outside the lock or
`Lock`/`PushLocked`/`StoreLocked`/`Notify` inside. `Fail` frees the message of a refused
call, `Return` is the end of `fut.get()`. The reader's actions are `Begin`, `Pop`,
`Reply`, `FreeMsg` and, when the queue is empty, `Suspend`, `Arm`, `ReaderLock`,
`Register`, `Resume`. A writer whose ticket exceeds the ring spins until the
reader pops; `Store` appends at once, which is where the element ends up in the
order of the tickets. An operation is its caller: what the handlers do with
users and messages is in `ImChat`.

`OpService` is what the threads are promised: submitted operations are answered
in order, each once, and the caller returns after its answer. `ImOpQueue`
implements it with `pending` mapped to the operation being served, if it is not
answered yet, followed by the queue.

### ImChat: users, sessions, contacts, messages, and the clients

A client has a command thread, which makes the commands of its script one after
the other (`Command`), and a pull thread, which calls `get_chat_msg` in a loop
(`Pull`) with the number of messages it has (`index[c]`). `Break` is a connection
that fails under a pull: the client calls again, while the server goes on
with the first attempt. Requests go through one queue, in order; that this is
what the operation queue provides is `OpService`, which `ImOpQueue` is proved to
implement.

The reader takes a request and executes its handler: `user_register`, `login`,
`get_contact_list`, `add_contact`, `del_contact`,
`Refuse` or `Post` for a message, then `Notify` once per registered pull of the
receiver, `Copy` into the sender's list unless the receiver is the same, and
`Notify` again. A pull becomes a coroutine (`StartPull`), which goes on beside the
reader: `Find` looks for the user and the session, `Read` for messages, `Register`
appends its resume function to `get_chat_msg_notify_func`, `ReadAgain` follows the
resumption, and `Answer` gives the list to the client if it is still listening.
Between two of these steps the reader may do anything, since nothing locks the two
against each other.

`told[c]` is what the client's commands returned. It is not always what was done:
both interfaces answer a refused message with 0, JSON-RPC answers a contact that was
removed with an error (`GrpcAnswer`, `JsonAnswer`) and iterates over a
list that is null for a user who is not logged in (`Dereferences`), with which
the server ends (`crashed`).

## 3. The runs

| run | states | what it shows |
|---|---|---|
| `mutex` | 843 780 | The builds with and without stealing. In both: `MutualExclusion`, at most one scheduling of each waiter (`ScheduledOnce`) and no lost wake-up (`NoLostWakeup`). Without stealing also `LockHasOwner`, `NoNullResume`, and that every `lock()` ends unless the full queue destroyed its caller (`EveryLockEnds`). |
| `mutex_orphan` | violation | With stealing the lock can be orphaned (section 6). |
| `sched` | 346 863 | Each coroutine runs in one place (`RunsOnce`), none is forgotten but those that a full queue dropped (`NoneForgotten`), `join()` outlasts a started coroutine, and every coroutine that does not block ends though others block their threads for ever (`OthersEnd`). |
| `ring` | 169 949 | No race on an element, conservation, `TicketsFit` (a claim of a try operation fits the ring), and `TryReturns` as long as the blocking operations stay within it. |
| `cor_programs` | 609 732 | Eight programs. Every wait with a timeout has a task, or a timer that fires exactly after its interval (`TimeoutIsDue`), and ends in time (`TimedWaitsEnd`); the channel's reader does not sleep over a message unless a writer is about to wake it (`NoMissedMessage`). |
| `hash_table` | 89 977 | The wheel implements `TimerSet` (`TimersSpec`), the library's own check holds (`WheelChecks`), and every entry of the table has a timeout that will end it (`EntryWillExpire`). |
| `im_works` | 165 891 | A work is resumed by what it waits for and by nothing else (`NoStrayWake`), messages are read whole although the works share the socket (`Framed`), each request gets its own response, and is answered unless its connection breaks. |
| `chat_room` | 220 777 | Everyone prints what the room delivered, whole, in order and without gaps (`HeardAsDelivered`), and what was delivered reaches all who stay (`DeliveredIsHeard`). |
| `op_queue` | 178 640 | Three threads, two calls each: `OneWakeup`, `PoolConserved`, the refinement `ServiceSpec`, `AnswersMatchCalls`, and the return of every call that saw the flag (`NotifiedCallReturns`). |
| `op_queue_lost` | violation | A call that did not see the flag may wait for ever. |
| `chat` | 593 525 | What a client displays is a prefix of its user's messages (`InOrder`), both lists of a conversation agree but for a message being added (`LogsAgree`), a gRPC client gets the contacts that it was told it has made (`ContactsAsTold`), a pull is registered exactly while it is suspended (`RegisteredOnce`), and all pulls registered at a message are answered (`WaitersAnswered`). |
| `chat_missed` | violation | A pull waits though a message for it was added (section 6). |

With stealing, `NoNullResume` does not hold in `CorSched`: `join()` tests
`*caller_c` and moves out of it in two steps (mod_cor.cpp:144-145), and a thief can
resume the joiner between them, after it was woken. The property is therefore stated
for programs without stealing, and nothing is said of what follows a crash. In the
same way `LockHasOwner` and `NoNullResume` of the mutex, and its liveness, are about
the build without stealing; the others hold in both.

## 4. Bounds and fairness

**Bounds.** `Rounds`, `Calls`, `Ops`, the scripts and the programs bound how
often each actor acts; `MaxExec` bounds the monitor, `MaxClock` the seconds of the
hash table's clock, `Losses` and the setups' `fragile` the connections that break; capacities
are small so that full and empty both occur.

* Two executors are the fewest for every race above (one in the second half of
  `lock()` or `join()`, the other waking or stealing); three coroutines let two
  wait at once, so that a stale waiter hides a valid one. Two rounds let a coroutine meet the
  stale entry of its own earlier wait. `m_wait_cos` has room for two, so that a
  third entry is refused; `mutex_orphan` has eight places, where nothing is refused.
* `sched` has three programs: one without stealing; one whose coroutines block
  both original executors at once, with room for one replacement; and one with queues
  of two and one joiner, where every operation meets a full queue.
* The ring has two slots and counters modulo 16 that start at 15: they wrap at the
  first ticket. Two threads on each side, of which one may run past the size with
  a blocking operation, make a slot's tickets collide. Rings of less than 4096 slots
  are not shuffled, so that this one has no need to be; see section 5 for `Remap`.
* The time wheel has four slots (60 in the code) and a timeout of three ticks, so that timers wrap; the pool
  has two timers (4096), so that a third wait finds it empty. Each of the eight setups
  has at most four coroutines.
* Three wheels of two slots (four of 64) hold seven units of time. Direct timers of 1, 3
  and 9 reach every wheel and go beyond the last; times that jump to 5, to 10 and back pass several slots, whole
  wheels, and all of them. Three timeouts and two keys let a repeated
  insertion leave an orphan, which expires under another entry.
* `im_works`: one client with three requests meets its own stale handler twice; two clients
  compete for the accepting work.
* `chat_room`: two lines against one recent message, so that the oldest is dropped.
* The pool of three in `op_queue` is exhausted when three threads have a message and the
  fourth call meets one that is answered and not yet freed.
* In `chat` the first setup has a login before the registration, a message
  that may come before its receiver exists, one to oneself, and messages in both
  directions while both pull; in the second alice changes her contacts while bob
  writes by JSON-RPC. One connection breaks once, so that two pulls of one user can wait
  together.

**Fairness.** Only weak fairness of threads: each executor, worker, io thread, API thread and
producer or consumer keeps running, as the operating system schedules them, and the
asio thread that ticks the time wheel is one of them. In `CorPrograms` each
coroutine's tasks are taken in the end (the queues are FIFO, and `OthersEnd` shows that
executors that block are replaced), and a writer that holds the channel's lock goes
on to release it.
There is none for the end of a network operation there, for `Unblock` (a blocking call need not return), for the commands of
a client or for the loss of a connection (nobody has to type, and none has to break), none for single
actions beyond those threads, and no strong fairness. That the monitor sees
an executor blocked for over a second is the guard of `Replace`, the passage of
time itself is not modelled. A lock of the operation queue is a `std::mutex`; with
a bounded number of calls weak fairness is enough for its waiters.

**Deadlock.** Checked in `sched`, where executors that have nothing to do have an action of their own
(`AllQuiet`); switched off where threads stop because the
bound on their calls is reached, where all pulls wait and nobody types, where a
table is destroyed, or where an orphaned lock, a dropped
coroutine, a crash or undefined behaviour leaves nothing to do.

## 5. What is proved

The theorems hold for every value of the constants that the named assumptions
allow: any number of coroutines, executors, threads, clients, slots, calls, messages and any
capacities. All proofs are checked by TLAPS (SMT, Zenon, and LS4 for the
temporal steps). A module's invariants are layers, each preserved with the help of
those above it; TLC checked each strengthened invariant on the module's run before it was proved.
Where a module has many actions, a step is first looked at through its *effect* (what it does to
the places, cells, waits or pulls that the invariant is about), and the invariant is proved for effects.

| module | theorem | argument |
|---|---|---|
| `CorMutex_proofs` | `TypeCorrect` | Inductive as stated, one lemma per action. |
| | `MutualExclusionHolds` | `MutexInv` adds `OwnerImpliesLocked`: whoever is inside, or won the second compare-and-swap, has `m_lock_acquired` set. Without it a free lock would not imply that nobody is inside. Holds with and without stealing. |
| | `ScheduledOnceHolds` | `PlaceInv`: a cell is in one place at most, the wait queue, one task queue or the hands of one executor, and a new cell was in none. A step moves a cell from one place to another, or drops it. |
| | `NoLostWakeupHolds` | `SomebodyComes`: an executor in the second half of `lock()` or in `unlock()`, or a coroutine that is to run and will try. `ResumeInv` says who can be resumed: a caller in the second half has been pushed, and is in `lock()`. Stale entries of the wait queue do not stop `WakeOne`. |
| | `NoNullResumeHolds` | Without stealing, `HomeInv`: every cell is at home with one executor, whose queue holds its task or to whose queue `unlock()` will move it, and the caller in the second half of `lock()` is at home with the executor that runs it, so nobody else resumes it. |
| | `LockHasOwnerHolds` | From `HomeInv`: the caller is still valid when the second compare-and-swap has succeeded, so the lock does not lose its owner. With stealing it does (`mutex_orphan`). |
| `CorSched_proofs` | `TypeCorrect` | `TypeInv`, in which an executor holds a coroutine exactly when it executes one and a cell exactly when it resumes one. |
| | `RunsOnceHolds` | `PlaceInv` as in the mutex, over task queues, joiners and hands; `HostInv`: a coroutine on an executor is in no cell and on no other executor. |
| | `JoinOutlastsHolds` | `CallerInv`: what `join()` has in `caller_c` is a cell of its caller; `WaitInv`: a joiner waits for the coroutine at which it is queued, and one that is queued to run, or about to be moved, for one that has stopped. |
| | `NoneForgottenHolds` | `KeptInv`: a coroutine that has not ended is executed, or its cell is queued, in hand, or among the joiners of a coroutine that has not stopped, is waking them, or will be found stopped by `join()`. `lost` has those that a full queue dropped. |
| | `NoNullResumeHolds` | Without stealing (and then without replacing executors) each queue belongs to one executor, and a caller that `join()` is about to move is named only by tasks and joiners of that executor's queue (`HomeInv`). |
| `DataStructures_proofs` | `RingTypeCorrect` | Uses that `% M` stays below `M` (`ModRange`, `IncRange`) and that a slot index is one (`SlotRange`). |
| | `NoDataRaceHolds` | `SlotGuarded`: a thread at an element finds the slot in the state it set, STORING or LOADING, so no other can take it, whatever tickets they hold. |
| | `ConservedHolds` | `ConservedInv`: an element about to be stored is new, a consumer's count is the number it got, and the three sets are finite, so that their cardinalities can be followed step by step. It needs `SlotGuarded` (what is stored goes to an empty slot) and nothing about the order of the tickets. |
| | `TicketsFitHolds` | Assumes `FewCalls`. `Counted`: the tickets taken from a counter are as many as the operations past their choice (`Picked`) at most, so both counters are within half a turn of where they started, and the signed differences of the code are those of the numbers of tickets (`TicketDiff`). `Aimed`: a ticket that fitted when it was checked fits until it is taken, because the other counter only advances (`Advanced`). |
| | `RemapPermutes` | An index is `(q * L + h) * L + l` in exactly one way (`IndexParts`, `QuotientUnique`), `Remap` exchanges `h` and `l` (`RemapSwaps`), so it is its own inverse and stays within every multiple of `L * L` (`RemapBound`), which a ring large enough to be shuffled is (`ShuffleFits`). |
| | `TableTypeCorrect` | `AllAgain` is the function that its recursion describes (`AllAgainIs`), and each call of the library keeps the type of `struct timeouts`. |
| | `OnOneListHolds` | A timeout is on one list, a slot or the expired ones, and there once (`OnOneList`), by the effect of `Del` and `Sched` on the lists. `Todo` has each timeout of the slots that are gone once, because the slots are apart. |
| | `EntryWillExpireHolds` | `TableInv`: the timeout of an entry names its key and is on a list; a timeout that is allocated names no key and is in no entry; only an open table has entries. |
| | `WheelChecksHold` | `WheelInv` is `OnOneList`, `BitsAgree` (a bit is set when its slot is populated) and `AllDue`: a timeout on wheel `w` is in the slot `WheelSlot(w, expires)`, its time is to come, and on the higher wheels its tick is not reached yet. `DueKept`: a timeout that an update leaves where it is remains so, because every tick between the two times is passed, though `Passed` counts them from the difference (`PassedTicks`), and a wheel that is not looked at has not ticked (`NotTurned`). `DueAtFirst`: `Sched`, which picks the wheel by the highest bit of the remaining time, makes it so. From `AllDue`, `WaitInTime`: the time to wait is not longer than that of the first timeout. |
| | `TimersSpecHolds` | The refinement of `TimerSet`, from `WheelInv` and the effect of `Update` (`UpdateIs`): what it leaves is not due, and what it takes off is scheduled by its time. `Insert`, `Find`, `DelKey`, `AddTimer`, `DelTimer` and `GetTimer` are `SetOne`, `TimeoutUpdate` is `Drain`, `Destroy` is `Close`, `UpdateTimers` is `Pass`, and the clock stutters. |
| `CorPrograms_proofs` | `TypeCorrect` | `TypeInv`, over the three modules that `CorPrograms` composes. |
| | `TimeoutIsDueHolds` | `WaitEffect` reduces the programs to six effects on the waits. `DueInv`: a timed wait has its task, or its timer, not canceled, is on the wheel at a slot whose distance and the timer's age make up the timeout (`Ahead`, `TickAhead`, `SlotForAhead`: arithmetic modulo the wheel's size), or is about to be put there with age 0 (`AgeInv`). |
| | `NoMissedMessageHolds` | `MissInv`: where the coroutines of a channel are (`PlaceInv`), that nothing resumes a wait that has not begun (`PastInv`, `StartInv`), and that a reader that sleeps before a queue with messages was resumed, or a writer that will see `m_resume_f` is on its way (`WakeInv`). Steps of all others are `Calm`. Uses that a queue has one reader. |
| `ChatRoom_proofs` | `TypeCorrect` | An end that writes has the message in front of its queue, one that reads a body has a header. |
| | `RoomHolds` | `RoomInv`: in each direction of a connection, the messages queued, being written, in the pipe, half read and taken are consecutive stretches of one sequence (`Stream`, `Link`): a client's lines, or the log from the message on that was the oldest recent one when the session joined. |
| | `HeardAsDeliveredHolds` | From `RoomInv`: what was taken is the beginning of that sequence, and the log has each client's lines in order (`LogInv`). |
| `ImWorks_proofs` | `TypeCorrect` | Every work is in a place of its kind, with a result its operation can have. |
| | `NoStrayWakeHolds` | `Inv`: of a connection's requests, those sent, dealt, taken, answered and told follow one another, at most one behind (`CountInv`, `PlaceInv`), so a message is due to a light channel only when its work waits or has begun to read. A work that is ready is in its worker's queue, once (`QueueInv`), and one that has read an answer stands behind the one that wrote the question (`OrderInv`), which therefore waits when the answer is dealt: nothing but this order protects the handler that is never removed. |
| | `FramedHolds` | `FlowInv`, `WireInv`: what has been written and not read is a stretch of the one message that is due, in each direction, behind what is left of the first message that the accepting work reads (`AcceptInv`). |
| | `OwnResponseHolds` | From `CountInv`. |
| `ImOpQueue_proofs` | `TypeCorrect` | Inductive, with the reader's message present exactly between pop and free. |
| | `OneWakeupHolds` | Inductive as stated. |
| | `PoolConservedHolds` | Inductive; `HandStep` relates a thread's move to the cardinality of the messages in hand. |
| | `AnswersMatchCallsHolds` | From `OneCallEach`: a thread has at most one operation, which is queued, served or answered while it waits. |
| | `ServiceHolds` | The refinement of `OpService`: `Store` and `StoreLocked` are `Submit`, `Reply` is `Answer`, `Return` is `Return`, all else stutters; `Pop` stutters because the operation moves from the queue's head into service. `OneCallEach` gives the guard of `Submit`. |
| `ImChat_proofs` | `TypeCorrect`, `FlowCorrect` | `TypeInv`: what is queued are commands of the script or attempts to pull. `FlowInv`: a request is queued or served once, and its client waits for it. |
| | `RegisteredOnceHolds` | In `FlowInv`: the pulls registered for a user are those that are suspended, each once (`WaitInv`). |
| | `InOrderHolds` | `OrderInv`: what a client displayed, and what a pull of its found, are parts of its user's messages, which only grow; a client listens to one pull at most. |
| | `LogsAgreeHolds` | `PostInv`: a message in a list is of a command that was made, and of the one being served only if the reader has added it, so each is in a list once. The lists of two users differ by the message that is being added, the last of the receiver's. Stated with sets and an order (`Before`), from which the equality of the sequences follows. |
| | `ContactsAsToldHolds` | `AnswerInv`: the client was told of each command in turn. What the told results make is a recursive function; the invariant speaks of every function that satisfies its equation. |

The induction theorems of the proof library take an operator as a parameter, which the provers cannot instantiate.
`DataStructures_proofs` uses that a set of numbers has a least one instead
(`WFMin`, `NatLessThanWellFounded`; `Least`, `Induction`, `InductionTo`): with it the functions
that a recursion or a fold of the community modules describes (the powers of two, `AllAgain`, `FlattenSeq`)
are shown to exist and are unfolded, and what they compute is proved along the sequence.

The assumptions say that bounds are numbers, that null values are not members of the sets they
complete, that sets of setups are sets of setups, and the following, which the code justifies. `PlacedOnce`: creating a
coroutine puts one task on one queue. `IsConf`: a program creates coroutines it has. `RingAssumption`:
a ring large enough to be shuffled is a multiple of the square of a line (both are powers of
two), and the counters' range is a multiple of the ring's size and at least twice that. `WaitAssumption`: a timeout is
shorter than a lap of the wheel, without which it would fire a lap early. `ProgramAssumption`: the queue of the channel has one reader, for
which mod_np_queue.hpp keeps one resume function. `PoolConservedHolds` and `ConservedHolds` need finitely many threads.
The theorems of `ImWorks` assume `EnoughRoom`: `works_q`, which holds 5001 works (mod_worker.hpp:42), has room for the works of
a process, two per connection and one that accepts. When it is full, `Pushed` drops the work as `add_work` does, and the order of the queue
no longer says who has been resumed. `Setups` bounds the requests by any number.

`WheelAssumption` and `TableAssumption` only say that bounds are numbers, and what is a member of what: the
theorems about the wheel hold for any number of wheels and slots, and for any times and intervals.
Times are natural numbers there: that the 64 bits of `timeout_t` wrap is not modelled.
`TicketsFitHolds` assumes `FewCalls`: that the producers, and the consumers, make less than half as many calls as
the counters have values, 2^31, from a moment when the ring is empty and nobody in a call, which can be any (`Start`). It stands for what
the code relies on, that no call stalls while so many others are made; with more of them a thread that stalls
with a ticket is overtaken by a whole turn of the counters, and its compare-and-swap succeeds.

Four of the proofs led to changes of a model. `Made` of `ImChat` had a `CASE` with overlapping guards, whose
value was TLC's choice; and `lock()` of `CorMutex` was seen to need that no coroutine starts twice (`PlacedOnce`);
`Pushed` of `ImWorks` was a fold, and says the same of a stretch of the sequence, about which the provers can reason; and
`TimingWheel` has the powers of two and the rescheduling of `Update` as recursive functions, and its parts named, for the same reason (its states are the same ones).
In `CorSched` an invariant that seemed right was not inductive: an executor about to move its caller can find it in the
same cell again, where it has yielded since, so `WaitInv` asks less of it.

**Only model-checked.** Liveness under fairness, which these provers do not reach: `EveryLockEnds`, `OthersEnd`, `TryReturns`,
`TimedWaitsEnd`, `EveryRequestAnswered`, `DeliveredIsHeard`, `NotifiedCallReturns` and `WaitersAnswered`. `CallerStaysValid`,
`EveryCallReturns` and `WaitsOnlyForNew` do not hold. Every invariant, action property and refinement
that a passing run checks is proved.

`TryReturns` excludes the states in which blocking pushes or pops hold tickets beyond
the ring (`Overrun`): a blocking push can then take the slot that a stalled
`try_push` has a ticket for, and the `try_push` waits for a pop like a blocking one.

## 6. Where the code disagrees with itself

* **`mutex_orphan`**: `lock()` takes `m_lock_acquired` for its caller and then asks
  whether the caller is still there. A thief may have resumed it after the push:
  the executor logs "caller_c wrongly became invalid!" and leaves with the
  lock set. Nobody releases it. Without stealing this cannot happen (`mutex`).
* **`op_queue_lost`**: a writer reads the flag as off; the reader arms it, finds
  the queue empty and registers; the writer pushes without the lock. The call
  waits until another call finds the flag on.
* **`chat_missed`**: a pull finds no message; the reader adds one and calls the
  functions that are registered; the pull registers. Its message is there, and it
  waits for the next one. That next message is then answered together with the
  first, so nothing is lost for good, but the last message of a conversation can stay
  unseen.

Met while modelling, and visible in the modules though no run is about them:

* `join()` returns at once when `m_co_started` is not set (`JoinReturns`), so whether
  it waits depends on which executor was faster; `exec_test` lets coroutines refer to a
  mutex on the stack of the coroutine that joins them.
* `exec_co` drops the task's reference to a coroutine's object after each run. One
  suspended in `join()` is then held by a bare continuation and runs on without its
  object unless its creator kept the handle.
* The timed `read_some` and `write_some` take every transfer of one byte or more for
  a failure (`Transfer`, mod_cor_net.hpp:74).
* The server of the messenger on works reads a connection's first message before it accepts
  the next connection (`Accept`), and uses a channel that could not be made
  (app_im.cpp:84) as if it were there.

## 7. What is not modelled

* Weak memory. The models assume sequential consistency.
* Third-party code: boost.context, asio, gRPC, the HTTP parser; what their operations
  deliver is modelled, at the places where the code uses it.
* `try_lock`, which nothing calls; `g_run_flag`, which nothing clears; the ring's
  other variants, which only the performance programs use; the synchronous calls of
  the sockets; the sub-works of `mod_worker_netio.cpp`, which no program uses.
* The handlers of a task queue when an executor is replaced: a blocked executor that
  was executing *stolen* work returns into a loop whose handlers belong to its
  successor (mod_cor.cpp:290). The hazard is listed; it needs the notification
  queue's handlers as state of the scheduler. An idle executor polls in `CorSched` instead of sleeping.
* What follows undefined behaviour: the use of a frame or of a null pointer ends a model.
* Wrong passwords; `user_del` and the session's `del`, which nothing calls; the client's
  contact cache, which nothing calls. In `ImChat` an access to a container is one
  step: two that overlap, which the code does not exclude, are undefined behaviour
  and listed as a hazard. Its requests take no message from the pool.
* The values of the hash table (`insert` never replaces one), and the relay over gRPC in the
  first half of the `app_im` files, a queue between two streams whose parts are modelled on their own.
* Demonstrations and measurements without state of their own (`app_worker` makes requests over
  the sockets of `ImWorks`, one after the other), placeholders whose functions are empty, the epoll
  worker that is compiled out, and logging.

## 8. What is left to do

1. Composition of `ImOpQueue` and `ImChat`: the pool's messages that waiting pulls keep, with
   abandoned pulls that use it up.
2. The sleeping executors of `CorSched`, with the handlers that a replaced executor
   shares with its successor.
3. The ring as a bounded buffer, an abstract specification of what its users rely on.
