----------------------------- MODULE AtomicQueue -----------------------------
(***************************************************************************)
(* atomic_queue::AtomicQueue2 in its multi-producer multi-consumer form     *)
(* (include/mod_atomic_queue/atomic_queue.hpp), the ring under every queue  *)
(* and pool of the toolkit.                                                 *)
(*                                                                         *)
(* An operation first takes a ticket, by advancing head or tail, and then   *)
(* works on the slot of its ticket; the state byte of the slot orders the   *)
(* operations that meet there.  The counters are unsigned and wrap at M,    *)
(* and neighbouring tickets are sent to slots of different cache lines.     *)
(***************************************************************************)
EXTENDS Integers, Sequences, FiniteSets

CONSTANTS Producers,   \* threads that push
          Consumers,   \* threads that pop
          Nil,         \* the content of a slot that was never written
          Size,        \* size_
          Line,        \* states in a cache line
          M,           \* 2^32: the counters' modulus
          Start,       \* where head and tail start
          Blocking,    \* threads that use the blocking push() and pop() as well
          Ops          \* operations per thread: bounds the model

Threads == Producers \cup Consumers
Slots == 0 .. Size - 1

ASSUME RingAssumption ==
    /\ Producers \cap Consumers = {}
    /\ Size \in Nat \ {0}
    \* both are powers of two
    /\ Line \in Nat \ {0} /\ (Size >= Line * Line => Size % (Line * Line) = 0)
    /\ M \in Nat /\ M % Size = 0 /\ 2 * Size <= M
    /\ Start \in 0 .. M - 1
    /\ Blocking \subseteq Threads
    /\ Ops \in Nat

VARIABLES
    head, tail,  \* the next ticket to push with, and to pop with
    state,       \* states_: the state of each slot
    elem,        \* elements_: the content of each slot
    pc,          \* where each thread is in its operation
    ticket,      \* its local head or tail
    ops,         \* operations each thread has started
    put,         \* the elements whose push has completed
    got          \* the elements each thread has popped, oldest first

vars == <<head, tail, state, elem, pc, ticket, ops, put, got>>

SlotState == {"EMPTY", "STORING", "STORED", "LOADING"}
Pc == {"idle", "pushCheck", "pushClaim", "popCheck", "popClaim",
       "store", "write", "load", "read"}

\* The element of the n-th operation of producer p.
Element == [by : Producers, n : Nat]

\* Defect: the counters do not wrap.
IncUnwrapped(x) == x + 1

Inc(x) == (x + 1) % M

\* static_cast<int>(a - b) of two unsigned counters.
SignedDiff(a, b) == LET d == (a - b) % M IN IF 2 * d >= M THEN d - M ELSE d

\* SHUFFLE_BITS, as a power: a ring of less than Line lines is not shuffled.
Shuffle == IF Size < Line * Line THEN 1 ELSE Line

\* remap_index: the position in the line and the line change places.
Remap(line, i) ==
    LET low == i % line
        high == (i \div line) % line
    IN  i + (high - low) + (low - high) * line

SlotOf(t) == Remap(Shuffle, ticket[t] % Size)

Init ==
    /\ head = Start /\ tail = Start
    /\ state = [s \in Slots |-> "EMPTY"]
    /\ elem = [s \in Slots |-> Nil]
    /\ pc = [t \in Threads |-> "idle"]
    /\ ticket = [t \in Threads |-> Start]
    /\ ops = [t \in Threads |-> 0]
    /\ put = {}
    /\ got = [t \in Threads |-> <<>>]

-----------------------------------------------------------------------------
(* Taking a ticket *)

Goto(t, l) == pc' = [pc EXCEPT ![t] = l]

Begin(t, ready) ==
    /\ pc[t] = "idle" /\ ops[t] < Ops
    /\ ops' = [ops EXCEPT ![t] = @ + 1]
    /\ Goto(t, ready)
    /\ UNCHANGED <<state, elem, put, got>>

TryPush(p) ==
    /\ Begin(p, "pushCheck")
    /\ ticket' = [ticket EXCEPT ![p] = head]
    /\ UNCHANGED <<head, tail>>

TryPop(c) ==
    /\ Begin(c, "popCheck")
    /\ ticket' = [ticket EXCEPT ![c] = tail]
    /\ UNCHANGED <<head, tail>>

\* The blocking forms take a ticket whether or not the queue is full or empty.
BlockingPush(p) ==
    /\ p \in Blocking
    /\ Begin(p, "store")
    /\ ticket' = [ticket EXCEPT ![p] = head]
    /\ head' = Inc(head)
    /\ UNCHANGED tail

BlockingPop(c) ==
    /\ c \in Blocking
    /\ Begin(c, "load")
    /\ ticket' = [ticket EXCEPT ![c] = tail]
    /\ tail' = Inc(tail)
    /\ UNCHANGED head

\* Defect: the full check lets one ticket too many through.
PushCheckLate(p) ==
    /\ pc[p] = "pushCheck"
    /\ Goto(p, IF SignedDiff(ticket[p], tail) > Size THEN "idle" ELSE "pushClaim")
    /\ UNCHANGED <<head, tail, state, elem, ticket, ops, put, got>>

\* Return FALSE when the loaded head is Size ahead of the tail read now.
PushCheck(p) ==
    /\ pc[p] = "pushCheck"
    /\ Goto(p, IF SignedDiff(ticket[p], tail) >= Size THEN "idle" ELSE "pushClaim")
    /\ UNCHANGED <<head, tail, state, elem, ticket, ops, put, got>>

\* compare_exchange loads the current head when it fails.
PushClaim(p) ==
    /\ pc[p] = "pushClaim"
    /\ \/ /\ head = ticket[p]
          /\ head' = Inc(head)
          /\ Goto(p, "store")
          /\ UNCHANGED ticket
       \/ /\ head # ticket[p]
          /\ ticket' = [ticket EXCEPT ![p] = head]
          /\ Goto(p, "pushCheck")
          /\ UNCHANGED head
    /\ UNCHANGED <<tail, state, elem, ops, put, got>>

PopCheck(c) ==
    /\ pc[c] = "popCheck"
    /\ Goto(c, IF SignedDiff(head, ticket[c]) <= 0 THEN "idle" ELSE "popClaim")
    /\ UNCHANGED <<head, tail, state, elem, ticket, ops, put, got>>

PopClaim(c) ==
    /\ pc[c] = "popClaim"
    /\ \/ /\ tail = ticket[c]
          /\ tail' = Inc(tail)
          /\ Goto(c, "load")
          /\ UNCHANGED ticket
       \/ /\ tail # ticket[c]
          /\ ticket' = [ticket EXCEPT ![c] = tail]
          /\ Goto(c, "popCheck")
          /\ UNCHANGED tail
    /\ UNCHANGED <<head, state, elem, ops, put, got>>

-----------------------------------------------------------------------------
(* Working on the slot *)

\* Defect: a slot is taken for storing while an element waits in it.
TakeForStoreAny(p) ==
    /\ pc[p] = "store"
    /\ state[SlotOf(p)] \in {"EMPTY", "STORED"}
    /\ state' = [state EXCEPT ![SlotOf(p)] = "STORING"]
    /\ Goto(p, "write")
    /\ UNCHANGED <<head, tail, elem, ticket, ops, put, got>>

\* do_push_any spins until its compare-and-swap takes the slot from EMPTY ...
TakeForStore(p) ==
    /\ pc[p] = "store"
    /\ state[SlotOf(p)] = "EMPTY"
    /\ state' = [state EXCEPT ![SlotOf(p)] = "STORING"]
    /\ Goto(p, "write")
    /\ UNCHANGED <<head, tail, elem, ticket, ops, put, got>>

\* ... assigns the element, and publishes it.
Write(p) ==
    /\ pc[p] = "write"
    /\ elem' = [elem EXCEPT ![SlotOf(p)] = [by |-> p, n |-> ops[p]]]
    /\ put' = put \cup {[by |-> p, n |-> ops[p]]}
    /\ state' = [state EXCEPT ![SlotOf(p)] = "STORED"]
    /\ Goto(p, "idle")
    /\ UNCHANGED <<head, tail, ticket, ops, got>>

\* Defect: a slot is taken without marking it, as the single-producer branch does.
TakeForLoadUnmarked(c) ==
    /\ pc[c] = "load"
    /\ state[SlotOf(c)] = "STORED"
    /\ Goto(c, "read")
    /\ UNCHANGED <<head, tail, state, elem, ticket, ops, put, got>>

\* do_pop_any spins until its compare-and-swap takes the slot from STORED ...
TakeForLoad(c) ==
    /\ pc[c] = "load"
    /\ state[SlotOf(c)] = "STORED"
    /\ state' = [state EXCEPT ![SlotOf(c)] = "LOADING"]
    /\ Goto(c, "read")
    /\ UNCHANGED <<head, tail, elem, ticket, ops, put, got>>

\* Defect: the slot is not emptied.
ReadKeepsSlot(c) ==
    /\ pc[c] = "read"
    /\ got' = [got EXCEPT ![c] = Append(@, elem[SlotOf(c)])]
    /\ Goto(c, "idle")
    /\ UNCHANGED <<head, tail, state, elem, ticket, ops, put>>

\* ... moves the element out, and empties the slot.
Read(c) ==
    /\ pc[c] = "read"
    /\ got' = [got EXCEPT ![c] = Append(@, elem[SlotOf(c)])]
    /\ state' = [state EXCEPT ![SlotOf(c)] = "EMPTY"]
    /\ Goto(c, "idle")
    /\ UNCHANGED <<head, tail, elem, ticket, ops, put>>

-----------------------------------------------------------------------------

Push(p) == \/ TryPush(p) \/ BlockingPush(p) \/ PushCheck(p) \/ PushClaim(p)
           \/ TakeForStore(p) \/ Write(p)
Pop(c) == \/ TryPop(c) \/ BlockingPop(c) \/ PopCheck(c) \/ PopClaim(c)
          \/ TakeForLoad(c) \/ Read(c)

Next == \/ \E p \in Producers : Push(p)
        \/ \E c \in Consumers : Pop(c)

\* The operating system runs every thread.
Fairness == /\ \A p \in Producers : WF_vars(Push(p))
            /\ \A c \in Consumers : WF_vars(Pop(c))

Spec == Init /\ [][Next]_vars
FairSpec == Spec /\ Fairness

-----------------------------------------------------------------------------
(* Properties *)

TypeOK ==
    /\ head \in 0 .. M - 1 /\ tail \in 0 .. M - 1
    /\ state \in [Slots -> SlotState]
    /\ elem \in [Slots -> Element \cup {Nil}]
    /\ pc \in [Threads -> Pc]
    /\ ticket \in [Threads -> 0 .. M - 1]
    /\ ops \in [Threads -> Nat]
    /\ put \subseteq Element
    /\ got \in [Threads -> Seq(Element \cup {Nil})]

(* The elements are plain objects: no two threads ever access the same element
   at the same time, though several may hold tickets of one slot. *)
NoDataRace ==
    \A t, u \in Threads :
        /\ pc[t] \in {"write", "read"} /\ pc[u] \in {"write", "read"}
        /\ SlotOf(t) = SlotOf(u)
        => t = u

\* Where a published element can be: in a slot until its consumer empties the
\* slot, or popped.
InRing == {s \in Slots : state[s] \in {"STORED", "LOADING"}}
Popped == {x \in Threads \X (1 .. Ops) : x[2] \in DOMAIN got[x[1]]}
PoppedElement(x) == got[x[1]][x[2]]

(* Every element whose push completed is at exactly one place, in one slot or
   popped once by one thread, and nothing else is: none is overwritten, popped
   twice or popped before it was stored, whatever tickets share a slot. *)
Conserved ==
    /\ {elem[s] : s \in InRing} \cup {PoppedElement(x) : x \in Popped} = put
    /\ Cardinality(InRing) + Cardinality(Popped) = Cardinality(put)

(* A ticket that try_push takes has a slot, and one that try_pop takes has a
   producer, though the other counter was read before the compare-and-swap, the
   counters wrap, and blocking operations run past both ends of the ring. *)
TicketsFit ==
    [][/\ \A p \in Producers : pc[p] = "pushClaim" /\ pc'[p] = "store" =>
                                 SignedDiff(head', tail') <= Size
       /\ \A c \in Consumers : pc[c] = "popClaim" /\ pc'[c] = "load" =>
                                 SignedDiff(head', tail') >= 0]_vars

\* Blocking operations have taken tickets beyond the slots, or beyond head.
Overrun == SignedDiff(head, tail) \notin 0 .. Size

(* A call of try_push or try_pop returns, unless blocking operations run past an
   end of the ring: one that spins on its slot waits for a thread that will
   release it. *)
TryReturns == \A t \in Threads \ Blocking : pc[t] # "idle" ~> pc[t] = "idle" \/ Overrun

=============================================================================
