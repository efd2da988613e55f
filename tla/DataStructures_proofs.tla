------------------------ MODULE DataStructures_proofs ------------------------
(***************************************************************************)
(* The ring and the timing wheel, whose proofs share their arithmetic.      *)
(*                                                                         *)
(* AtomicQueue: type correctness, the exclusion of data races on the        *)
(* elements and their conservation, for any number of threads, slots and    *)
(* operations, with the blocking operations and without them; that the      *)
(* shuffling of the slots is a permutation, for any size of ring and line;  *)
(* and that a ticket has a slot or a producer, for calls that do not turn   *)
(* the counters half round.                                                 *)
(*                                                                         *)
(* HashTable and its TimingWheel: type correctness, the library's own       *)
(* check, that every entry will expire, and that the wheel implements the   *)
(* set of timeouts, for any number of wheels, bits of a slot number,        *)
(* timeouts, keys and times.                                                *)
(***************************************************************************)
EXTENDS AtomicQueue, HashTable, FunctionTheorems, FiniteSetTheorems, SequenceTheorems,
        WellFoundedInduction, TLAPS

LEMMA ModRange == ASSUME NEW a \in Int, NEW b \in Nat \ {0}
                  PROVE  a % b \in 0 .. b - 1
  OBVIOUS

LEMMA Constants == Size \in Nat \ {0} /\ M \in Nat \ {0} /\ Start \in 0 .. M - 1
  BY RingAssumption

LEMMA IncRange == ASSUME NEW x \in 0 .. M - 1 PROVE Inc(x) \in 0 .. M - 1
  <1>1. x + 1 \in Int
    BY Constants
  <1>2. (x + 1) % M \in 0 .. M - 1
    BY <1>1, Constants, ModRange
  <1> QED
    BY <1>2 DEF Inc

LEMMA TimesMonotone ==
  ASSUME NEW a \in Nat, NEW b \in Nat, NEW c \in Nat, a <= b
  PROVE  a * c <= b * c /\ a * c \in Nat
  OBVIOUS

LEMMA DivMod == ASSUME NEW L \in Nat \ {0}, NEW i \in Nat
  PROVE /\ i \div L \in Nat /\ i % L \in 0 .. L - 1
        /\ i = (i \div L) * L + (i % L)
  OBVIOUS

LEMMA QuotientUnique == ASSUME NEW L \in Nat \ {0}, NEW q \in Int, NEW p \in Int,
   NEW a \in 0 .. L - 1, NEW b \in 0 .. L - 1, q * L + a = p * L + b
  PROVE q = p /\ a = b
  <1>1. CASE q < p
    <2>1. q + 1 <= p
      BY <1>1
    <2>2. (p - q) >= 1
      BY <2>1
    <2>3. (p - q) * L >= 1 * L
      BY <2>2, TimesMonotone
    <2>4. (p - q) * L = p * L - q * L
      OBVIOUS
    <2> QED
      BY <2>3, <2>4
  <1>2. CASE p < q
    <2>2. (q - p) >= 1
      BY <1>2
    <2>3. (q - p) * L >= 1 * L
      BY <2>2, TimesMonotone
    <2>4. (q - p) * L = q * L - p * L
      OBVIOUS
    <2> QED
      BY <2>3, <2>4
  <1> QED
    BY <1>1, <1>2

\* The index of position l of line h, in the q-th block of L lines of L positions.
Index(L, q, h, l) == (q * L + h) * L + l

LEMMA RemapSwaps ==
    ASSUME NEW L \in Nat \ {0}, NEW q \in Nat, NEW h \in 0 .. L - 1, NEW l \in 0 .. L - 1
    PROVE  Index(L, q, h, l) \in Nat /\ Remap(L, Index(L, q, h, l)) = Index(L, q, l, h)
  <1> DEFINE i == Index(L, q, h, l)
  <1>0. i = (q * L + h) * L + l
    BY DEF Index
  <1> HIDE DEF i
  <1>1. q * L + h \in Nat
    <2>1. q * L \in Nat
      BY TimesMonotone
    <2> QED
      BY <2>1
  <1>2. i \in Nat
    <2>1. (q * L + h) * L \in Nat
      BY <1>1, TimesMonotone
    <2> QED
      BY <2>1, <1>0
  <1>3. i \div L = q * L + h /\ i % L = l
    <2> DEFINE p == q * L + h  d == i \div L  m == i % L
    <2>1. d \in Nat /\ m \in 0 .. L - 1 /\ i = d * L + m
      BY <1>2, DivMod
    <2>2. p \in Nat /\ d * L + m = p * L + l
      BY <1>0, <1>1, <2>1
    <2> HIDE DEF p, d, m
    <2>3. d = p /\ m = l
      BY <2>1, <2>2, QuotientUnique
    <2> QED
      BY <2>3 DEF p, d, m
  <1>4. (i \div L) % L = h
    <2> DEFINE p == q * L + h  d == p \div L  m == p % L
    <2>1. d \in Nat /\ m \in 0 .. L - 1 /\ p = d * L + m
      BY <1>1, DivMod
    <2>2. d * L + m = q * L + h
      BY <2>1
    <2> HIDE DEF d, m
    <2>3. d = q /\ m = h
      BY <2>1, <2>2, QuotientUnique
    <2> QED
      BY <2>3, <1>3 DEF d, m
  <1>5. Remap(L, i) = i + (h - l) + (l - h) * L
    BY <1>3, <1>4 DEF Remap
  <1>6. (l - h) * L = l * L - h * L /\ (q * L + h) * L = (q * L) * L + h * L
      /\ (q * L + l) * L = (q * L) * L + l * L
    BY <1>1
  <1>7. Remap(L, i) = Index(L, q, l, h)
    BY <1>0, <1>2, <1>5, <1>6 DEF Index
  <1> QED
    BY <1>2, <1>7 DEF i

LEMMA IndexParts ==
    ASSUME NEW L \in Nat \ {0}, NEW i \in Nat
    PROVE  \E q \in Nat, h \in 0 .. L - 1, l \in 0 .. L - 1 : i = Index(L, q, h, l)
  <1> DEFINE p == i \div L
  <1>1. p \in Nat /\ i % L \in 0 .. L - 1 /\ i = p * L + (i % L)
    BY DivMod
  <1>2. p \div L \in Nat /\ p % L \in 0 .. L - 1 /\ p = (p \div L) * L + (p % L)
    BY <1>1, DivMod
  <1>3. i = ((p \div L) * L + (p % L)) * L + (i % L)
    BY <1>1, <1>2
  <1> QED
    BY <1>1, <1>2, <1>3 DEF Index

LEMMA RemapInverse ==
    ASSUME NEW L \in Nat \ {0}, NEW i \in Nat
    PROVE  Remap(L, i) \in Nat /\ Remap(L, Remap(L, i)) = i
  <1>1. PICK q \in Nat, h \in 0 .. L - 1, l \in 0 .. L - 1 : i = Index(L, q, h, l)
    BY IndexParts
  <1>2. Remap(L, i) = Index(L, q, l, h) /\ Index(L, q, l, h) \in Nat
    BY <1>1, RemapSwaps
  <1>3. Remap(L, Index(L, q, l, h)) = i
    BY <1>1, RemapSwaps
  <1> QED
    BY <1>2, <1>3

LEMMA RemapBound ==
    ASSUME NEW L \in Nat \ {0}, NEW k \in Nat, NEW i \in 0 .. k * (L * L) - 1
    PROVE  Remap(L, i) \in 0 .. k * (L * L) - 1
  <1>0. L * L \in Nat /\ k * (L * L) \in Nat
    BY TimesMonotone
  <1>1. PICK q \in Nat, h \in 0 .. L - 1, l \in 0 .. L - 1 : i = Index(L, q, h, l)
    <2>1. i \in Nat
      BY <1>0
    <2> QED
      BY <2>1, IndexParts
  <1>2. Remap(L, i) = (q * L + l) * L + h
    BY <1>1, RemapSwaps DEF Index
  <1>3. (q * L + h) * L = q * (L * L) + h * L /\ (q * L + l) * L = q * (L * L) + l * L
    OBVIOUS
  <1>4. q < k
    <2>1. SUFFICES ASSUME k <= q PROVE FALSE
      BY <1>0
    <2>2. k * (L * L) <= q * (L * L)
      BY <2>1, <1>0, TimesMonotone
    <2>3. h * L \in Nat
      BY TimesMonotone
    <2> QED
      BY <2>2, <2>3, <1>0, <1>1, <1>3 DEF Index
  <1>5. (q + 1) * (L * L) <= k * (L * L)
    <2>1. q + 1 <= k
      BY <1>4
    <2> QED
      BY <2>1, <1>0, TimesMonotone
  <1>6. (q + 1) * (L * L) = q * (L * L) + L * L
    BY <1>0
  <1>7. l * L <= (L - 1) * L /\ l * L \in Nat
    <2>1. L - 1 \in Nat /\ l <= L - 1 /\ l \in Nat
      OBVIOUS
    <2> QED
      BY <2>1, TimesMonotone
  <1>8. (L - 1) * L = L * L - L
    OBVIOUS
  <1>9. q * (L * L) \in Nat
    BY <1>0, TimesMonotone
  <1> QED
    BY <1>0, <1>2, <1>3, <1>5, <1>6, <1>7, <1>8, <1>9

LEMMA ShuffleFits == Shuffle \in Nat \ {0} /\ \E k \in Nat : Size = k * (Shuffle * Shuffle)
  <1>1. Line \in Nat \ {0} /\ Size \in Nat \ {0}
    BY RingAssumption
  <1>2. CASE Size < Line * Line
    <2>1. Shuffle = 1 /\ Size = Size * (1 * 1)
      BY <1>1, <1>2 DEF Shuffle
    <2> QED
      BY <1>1, <2>1
  <1>3. CASE Size >= Line * Line
    <2> DEFINE a == Line * Line
               k == Size \div a
    <2>1. a \in Nat \ {0}
      BY <1>1
    <2>2. Size % a = 0
      BY <1>3, RingAssumption
    <2>3. k \in Nat /\ Size = k * a + (Size % a)
      <3> HIDE DEF a
      <3> QED
        BY <1>1, <2>1, DivMod
    <2>4. Size = k * a
      <3> HIDE DEF k, a
      <3> QED
        BY <2>1, <2>2, <2>3
    <2>5. Shuffle = Line
      BY <1>1, <1>3 DEF Shuffle
    <2> QED
      BY <1>1, <2>3, <2>4, <2>5
  <1> QED
    BY <1>1, <1>2, <1>3

(* remap_index permutes the slots: it sends each to a slot, and no two to the same,
   so tickets that are less than Size apart never meet in a slot. *)
THEOREM RemapPermutes ==
    \A s \in Slots : /\ Remap(Shuffle, s) \in Slots
                      /\ \A r \in Slots : Remap(Shuffle, r) = Remap(Shuffle, s) => r = s
  <1>1. PICK k \in Nat : Size = k * (Shuffle * Shuffle)
    BY ShuffleFits
  <1>2. Shuffle \in Nat \ {0}
    BY ShuffleFits
  <1>3. \A s \in Slots : Remap(Shuffle, s) \in Slots
    BY <1>1, <1>2, RemapBound DEF Slots
  <1>4. Slots \subseteq Nat
    BY Constants DEF Slots
  <1>5. \A s \in Slots : Remap(Shuffle, Remap(Shuffle, s)) = s
    BY <1>2, <1>4, RemapInverse
  <1> QED
    BY <1>3, <1>5

LEMMA SlotRange == ASSUME TypeOK, NEW t \in Threads PROVE SlotOf(t) \in Slots
  <1>1. ticket[t] \in Int
    BY Constants DEF TypeOK
  <1>2. ticket[t] % Size \in Slots
    BY <1>1, Constants, ModRange DEF Slots
  <1> QED
    BY <1>2, RemapPermutes DEF SlotOf

LEMMA InitTypeOK == Init => TypeOK
  <1> SUFFICES ASSUME Init PROVE TypeOK
    OBVIOUS
  <1>1. <<>> \in Seq(Element \cup {Nil})
    OBVIOUS
  <1> QED
    BY <1>1, Constants DEF Init, TypeOK, SlotState, Pc

LEMMA TypeStep == TypeOK /\ [Next]_vars => TypeOK'
  <1> SUFFICES ASSUME TypeOK, [Next]_vars PROVE TypeOK'
    OBVIOUS
  <1> USE DEF Threads
  <1>1. ASSUME NEW p \in Producers, TryPush(p) PROVE TypeOK'
    BY <1>1 DEF TryPush, Begin, Goto, TypeOK, Pc
  <1>2. ASSUME NEW p \in Producers, BlockingPush(p) PROVE TypeOK'
    <2>1. Inc(head) \in 0 .. M - 1
      BY IncRange DEF TypeOK
    <2> QED
      BY <1>2, <2>1 DEF BlockingPush, Begin, Goto, TypeOK, Pc
  <1>3. ASSUME NEW p \in Producers, PushCheck(p) PROVE TypeOK'
    BY <1>3 DEF PushCheck, Goto, TypeOK, Pc
  <1>4. ASSUME NEW p \in Producers, PushClaim(p) PROVE TypeOK'
    <2>1. Inc(head) \in 0 .. M - 1
      BY IncRange DEF TypeOK
    <2> QED
      BY <1>4, <2>1 DEF PushClaim, Goto, TypeOK, Pc
  <1>5. ASSUME NEW p \in Producers, TakeForStore(p) PROVE TypeOK'
    BY <1>5 DEF TakeForStore, Goto, TypeOK, Pc, SlotState
  <1>6. ASSUME NEW p \in Producers, Write(p) PROVE TypeOK'
    <2>1. [by |-> p, n |-> ops[p]] \in Element
      BY DEF TypeOK, Element
    <2> QED
      BY <1>6, <2>1 DEF Write, Goto, TypeOK, Pc, SlotState
  <1>7. ASSUME NEW c \in Consumers, TryPop(c) PROVE TypeOK'
    BY <1>7 DEF TryPop, Begin, Goto, TypeOK, Pc
  <1>8. ASSUME NEW c \in Consumers, BlockingPop(c) PROVE TypeOK'
    <2>1. Inc(tail) \in 0 .. M - 1
      BY IncRange DEF TypeOK
    <2> QED
      BY <1>8, <2>1 DEF BlockingPop, Begin, Goto, TypeOK, Pc
  <1>9. ASSUME NEW c \in Consumers, PopCheck(c) PROVE TypeOK'
    BY <1>9 DEF PopCheck, Goto, TypeOK, Pc
  <1>10. ASSUME NEW c \in Consumers, PopClaim(c) PROVE TypeOK'
    <2>1. Inc(tail) \in 0 .. M - 1
      BY IncRange DEF TypeOK
    <2> QED
      BY <1>10, <2>1 DEF PopClaim, Goto, TypeOK, Pc
  <1>11. ASSUME NEW c \in Consumers, TakeForLoad(c) PROVE TypeOK'
    BY <1>11 DEF TakeForLoad, Goto, TypeOK, Pc, SlotState
  <1>12. ASSUME NEW c \in Consumers, Read(c) PROVE TypeOK'
    <2>1. elem[SlotOf(c)] \in Element \cup {Nil}
      BY SlotRange DEF TypeOK
    <2>2. Append(got[c], elem[SlotOf(c)]) \in Seq(Element \cup {Nil})
      BY <2>1 DEF TypeOK
    <2>3. got' \in [Threads -> Seq(Element \cup {Nil})]
      BY <1>12, <2>2 DEF Read, TypeOK
    <2> QED
      BY <1>12, <2>3 DEF Read, Goto, TypeOK, Pc, SlotState
  <1>13. CASE UNCHANGED vars
    BY <1>13 DEF vars, TypeOK
  <1> QED
    BY <1>1, <1>2, <1>3, <1>4, <1>5, <1>6, <1>7, <1>8, <1>9, <1>10, <1>11, <1>12,
       <1>13 DEF Next, Push, Pop

(* The state of the queue keeps its type through every operation: counters
   stay below M across the wrap, and slots hold elements that were pushed. *)
THEOREM RingTypeCorrect == Spec => []TypeOK
  <1> QED
    BY InitTypeOK, TypeStep, PTL DEF Spec

-----------------------------------------------------------------------------

\* A thread that is at an element has its slot in the state it put it in, and
\* is alone there.
Writing(t) == pc[t] = "write"
Reading(t) == pc[t] = "read"

SlotGuarded ==
    /\ \A t \in Threads : Writing(t) => state[SlotOf(t)] = "STORING"
    /\ \A t \in Threads : Reading(t) => state[SlotOf(t)] = "LOADING"
    /\ NoDataRace

LEMMA InitSlotGuarded == Init => SlotGuarded
  BY DEF Init, SlotGuarded, NoDataRace, Writing, Reading

\* Steps that neither enter nor leave an element, nor move a ticket in use.
LEMMA TicketStep ==
  ASSUME TypeOK, SlotGuarded, NEW t \in Threads, state' = state,
         ~Writing(t), ~Reading(t),
         NEW l \in Pc \ {"write", "read"}, pc' = [pc EXCEPT ![t] = l],
         NEW n \in 0 .. M - 1, ticket' = [ticket EXCEPT ![t] = n]
  PROVE  SlotGuarded'
  BY DEF TypeOK, SlotGuarded, NoDataRace, Writing, Reading, SlotOf

\* Steps of a thread on the slot of its ticket.
LEMMA SlotStep ==
  ASSUME TypeOK, SlotGuarded, NEW t \in Threads, ticket' = ticket,
         NEW s \in SlotState, state' = [state EXCEPT ![SlotOf(t)] = s],
         NEW l \in Pc, pc' = [pc EXCEPT ![t] = l],
         \/ l = "write" /\ s = "STORING" /\ state[SlotOf(t)] = "EMPTY"
         \/ l = "read" /\ s = "LOADING" /\ state[SlotOf(t)] = "STORED"
         \/ l = "idle" /\ (Writing(t) \/ Reading(t))
  PROVE  SlotGuarded'
  <1>1. \A u \in Threads : SlotOf(u)' = SlotOf(u) /\ SlotOf(u) \in Slots
    BY SlotRange DEF SlotOf
  <1>2. \A u \in Threads \ {t} : pc'[u] = pc[u]
    BY DEF TypeOK
  <1>3. pc'[t] = l /\ state'[SlotOf(t)] = s
    BY <1>1 DEF TypeOK
  <1>4. \A u \in Threads \ {t} : (Writing(u) \/ Reading(u)) => SlotOf(u) # SlotOf(t)
    BY DEF SlotGuarded, NoDataRace, Writing, Reading
  <1>5. \A u \in Threads \ {t} :
           (Writing(u) \/ Reading(u)) => state'[SlotOf(u)] = state[SlotOf(u)]
    BY <1>1, <1>4 DEF TypeOK
  <1>6. (\A u \in Threads : Writing(u) => state[SlotOf(u)] = "STORING")'
    BY <1>1, <1>2, <1>3, <1>5 DEF SlotGuarded, Writing, Reading
  <1>7. (\A u \in Threads : Reading(u) => state[SlotOf(u)] = "LOADING")'
    BY <1>1, <1>2, <1>3, <1>5 DEF SlotGuarded, Writing, Reading
  <1>8. NoDataRace'
    BY <1>1, <1>2, <1>3, <1>4 DEF SlotGuarded, NoDataRace, Writing, Reading
  <1> QED
    BY <1>6, <1>7, <1>8 DEF SlotGuarded

LEMMA GuardStep == TypeOK /\ SlotGuarded /\ [Next]_vars => SlotGuarded'
  <1> SUFFICES ASSUME TypeOK, SlotGuarded, [Next]_vars PROVE SlotGuarded'
    OBVIOUS
  <1> USE DEF Threads
  <1>0. \A t \in Threads : ticket = [ticket EXCEPT ![t] = ticket[t]]
    BY DEF TypeOK
  <1>1. ASSUME NEW p \in Producers, TryPush(p) \/ BlockingPush(p) PROVE SlotGuarded'
    BY <1>1, TicketStep DEF TryPush, BlockingPush, Begin, Goto, TypeOK, Pc, Writing, Reading
  <1>2. ASSUME NEW p \in Producers, PushCheck(p) PROVE SlotGuarded'
    BY <1>0, <1>2, TicketStep DEF PushCheck, Goto, TypeOK, Pc, Writing, Reading
  <1>3. ASSUME NEW p \in Producers, PushClaim(p) PROVE SlotGuarded'
    BY <1>0, <1>3, TicketStep DEF PushClaim, Goto, TypeOK, Pc, Writing, Reading
  <1>4. ASSUME NEW p \in Producers, TakeForStore(p) PROVE SlotGuarded'
    BY <1>4, SlotStep DEF TakeForStore, Goto, Pc, SlotState
  <1>5. ASSUME NEW p \in Producers, Write(p) PROVE SlotGuarded'
    BY <1>5, SlotStep DEF Write, Goto, Pc, SlotState, Writing
  <1>6. ASSUME NEW c \in Consumers, TryPop(c) \/ BlockingPop(c) PROVE SlotGuarded'
    BY <1>6, TicketStep DEF TryPop, BlockingPop, Begin, Goto, TypeOK, Pc, Writing, Reading
  <1>7. ASSUME NEW c \in Consumers, PopCheck(c) PROVE SlotGuarded'
    BY <1>0, <1>7, TicketStep DEF PopCheck, Goto, TypeOK, Pc, Writing, Reading
  <1>8. ASSUME NEW c \in Consumers, PopClaim(c) PROVE SlotGuarded'
    BY <1>0, <1>8, TicketStep DEF PopClaim, Goto, TypeOK, Pc, Writing, Reading
  <1>9. ASSUME NEW c \in Consumers, TakeForLoad(c) PROVE SlotGuarded'
    BY <1>9, SlotStep DEF TakeForLoad, Goto, Pc, SlotState
  <1>10. ASSUME NEW c \in Consumers, Read(c) PROVE SlotGuarded'
    BY <1>10, SlotStep DEF Read, Goto, Pc, SlotState, Reading
  <1>11. CASE UNCHANGED vars
    BY <1>11 DEF vars, SlotGuarded, NoDataRace, Writing, Reading, SlotOf
  <1> QED
    BY <1>1, <1>2, <1>3, <1>4, <1>5, <1>6, <1>7, <1>8, <1>9, <1>10, <1>11
       DEF Next, Push, Pop

(* No two threads are ever at the same element, however many hold tickets of
   its slot: the compare-and-swap on the slot's state is enough, and neither
   the full check, the empty check nor the counters matter for it. *)
THEOREM NoDataRaceHolds == Spec => []NoDataRace
  <1>1. SlotGuarded => NoDataRace
    BY DEF SlotGuarded
  <1> QED
    BY InitTypeOK, TypeStep, InitSlotGuarded, GuardStep, <1>1, PTL DEF Spec

-----------------------------------------------------------------------------
(* Conservation *)

\* What a producer is about to store was not stored before, and a consumer has room
\* in Popped for what it is about to pop.
Fresh == \A e \in put : e.n < ops[e.by] \/ (e.n = ops[e.by] /\ pc[e.by] = "idle")
Started == \A t \in Threads : /\ ops[t] <= Ops /\ Len(got[t]) <= ops[t]
                              /\ pc[t] # "idle" => Len(got[t]) < ops[t]
Finite == IsFiniteSet(InRing) /\ IsFiniteSet(Popped) /\ IsFiniteSet(put)

ConservedInv == Fresh /\ Started /\ Finite /\ Conserved

LEMMA InitConserved == Init => ConservedInv
  <1> SUFFICES ASSUME Init PROVE ConservedInv
    OBVIOUS
  <1>1. InRing = {} /\ put = {} /\ Popped = {}
    BY DEF Init, InRing, Popped
  <1>2. Fresh /\ Started
    BY <1>1, RingAssumption DEF Init, Fresh, Started
  <1>3. Finite
    BY <1>1, FS_EmptySet DEF Finite
  <1>4. Conserved
    <2>1. Cardinality({}) = 0
      BY FS_EmptySet
    <2>2. {elem[s] : s \in InRing} = {} /\ {PoppedElement(x) : x \in Popped} = {}
      BY <1>1
    <2> QED
      BY <1>1, <2>1, <2>2 DEF Conserved
  <1> QED
    BY <1>2, <1>3, <1>4 DEF ConservedInv

\* A step in which an operation starts, or moves without touching an element.
LEMMA NothingMoves ==
  ASSUME TypeOK, ConservedInv, NEW t \in Threads, NEW l \in Pc, pc' = [pc EXCEPT ![t] = l],
         \/ ops' = ops /\ pc[t] # "idle"
         \/ ops[t] < Ops /\ ops' = [ops EXCEPT ![t] = @ + 1],
         \A s \in Slots : state'[s] \in {"STORED", "LOADING"} <=> state[s] \in {"STORED", "LOADING"},
         elem' = elem, put' = put, got' = got
  PROVE  ConservedInv'
  <1>1. InRing' = InRing /\ Popped' = Popped
    BY DEF InRing, Popped
  <1>2. Finite'
    BY <1>1 DEF ConservedInv, Finite
  <1>3. Conserved'
    <2>1. \A x : PoppedElement(x)' = PoppedElement(x)
      BY DEF PoppedElement
    <2>2. {elem'[s] : s \in InRing} = {elem[s] : s \in InRing}
      OBVIOUS
    <2>3. {PoppedElement(x)' : x \in Popped} = {PoppedElement(x) : x \in Popped}
      BY <2>1
    <2> QED
      BY <1>1, <2>2, <2>3 DEF ConservedInv, Conserved
  <1>4. ASSUME NEW u \in Threads, u # t
        PROVE  ops'[u] = ops[u] /\ pc'[u] = pc[u]
    BY <1>4 DEF TypeOK
  <1>5. pc'[t] = l /\ ops[t] \in Nat /\ Len(got[t]) \in Nat /\ ops'[t] \in Nat
    BY DEF TypeOK
  <1>6. ops[t] <= ops'[t] /\ (ops'[t] = ops[t] => pc[t] # "idle")
    BY DEF TypeOK
  <1>7. Fresh'
    <2> SUFFICES ASSUME NEW e \in put
                 PROVE  e.n < ops'[e.by] \/ (e.n = ops'[e.by] /\ pc'[e.by] = "idle")
      BY DEF Fresh
    <2>1. e.by \in Threads /\ e.n \in Nat /\ (e.n < ops[e.by] \/ (e.n = ops[e.by] /\ pc[e.by] = "idle"))
      BY DEF TypeOK, Element, Threads, ConservedInv, Fresh
    <2>2. CASE e.by = t
      BY <1>5, <1>6, <2>1, <2>2
    <2>3. CASE e.by # t
      BY <1>4, <2>1, <2>3
    <2> QED
      BY <2>2, <2>3
  <1>8. Started'
    <2> SUFFICES ASSUME NEW u \in Threads
                 PROVE  /\ ops'[u] <= Ops /\ Len(got[u]) <= ops'[u]
                        /\ pc'[u] # "idle" => Len(got[u]) < ops'[u]
      BY DEF Started
    <2>1. /\ ops[u] <= Ops /\ Len(got[u]) <= ops[u]
          /\ pc[u] # "idle" => Len(got[u]) < ops[u]
      BY DEF ConservedInv, Started
    <2>2. CASE u # t
      BY <1>4, <2>1, <2>2
    <2>3. CASE u = t
      <3>1. CASE ops' = ops /\ pc[t] # "idle"
        BY <2>1, <2>3, <3>1
      <3>2. CASE ops[t] < Ops /\ ops' = [ops EXCEPT ![t] = @ + 1]
        <4>1. ops'[t] = ops[t] + 1
          BY <3>2 DEF TypeOK
        <4>2. Ops \in Nat
          BY RingAssumption
        <4> QED
          BY <1>5, <2>1, <2>3, <3>2, <4>1, <4>2
      <3> QED
        BY <3>1, <3>2
    <2> QED
      BY <2>2, <2>3
  <1> QED
    BY <1>2, <1>3, <1>7, <1>8 DEF ConservedInv

\* The element of p that is stored completes its push.
LEMMA WriteConserves ==
  ASSUME TypeOK, SlotGuarded, ConservedInv, NEW p \in Producers, Write(p)
  PROVE  ConservedInv'
  <1> DEFINE s == SlotOf(p)
             e == [by |-> p, n |-> ops[p]]
  <1>1. /\ p \in Threads /\ s \in Slots /\ e \in Element /\ e.by = p /\ e.n = ops[p]
        /\ state[s] = "STORING" /\ pc[p] = "write"
    BY SlotRange DEF Write, SlotGuarded, Writing, Threads, TypeOK, Element
  <1>2. /\ elem' = [elem EXCEPT ![s] = e] /\ put' = put \cup {e}
        /\ state' = [state EXCEPT ![s] = "STORED"] /\ pc' = [pc EXCEPT ![p] = "idle"]
        /\ ops' = ops /\ got' = got
    BY DEF Write, Goto
  <1> HIDE DEF s, e
  <1>3. s \notin InRing /\ InRing' = InRing \cup {s}
    BY <1>1, <1>2 DEF InRing, TypeOK
  <1>4. Popped' = Popped /\ \A x : PoppedElement(x)' = PoppedElement(x)
    BY <1>2 DEF Popped, PoppedElement
  <1>5. e \notin put
    <2> SUFFICES ASSUME e \in put PROVE FALSE
      OBVIOUS
    <2>1. e.n < ops[e.by] \/ (e.n = ops[e.by] /\ pc[e.by] = "idle")
      BY DEF ConservedInv, Fresh
    <2>2. ops[p] \in Nat
      BY <1>1 DEF TypeOK
    <2> QED
      BY <1>1, <2>1, <2>2
  <1>6. elem'[s] = e /\ \A r \in InRing : elem'[r] = elem[r]
    BY <1>1, <1>2, <1>3 DEF TypeOK, InRing
  <1>7. Finite'
    BY <1>2, <1>3, <1>4, FS_AddElement DEF ConservedInv, Finite
  <1>8. Conserved'
    <2>1. {elem'[r] : r \in InRing \cup {s}} = {elem[r] : r \in InRing} \cup {e}
      BY <1>6
    <2>2. {PoppedElement(x)' : x \in Popped} = {PoppedElement(x) : x \in Popped}
      BY <1>4
    <2>3. {elem[r] : r \in InRing}' \cup {PoppedElement(x) : x \in Popped}' = put'
      BY <1>2, <1>3, <1>4, <2>1, <2>2 DEF ConservedInv, Conserved
    <2>4. /\ Cardinality(InRing \cup {s}) = Cardinality(InRing) + 1
          /\ Cardinality(put \cup {e}) = Cardinality(put) + 1
      BY <1>3, <1>5, FS_AddElement DEF ConservedInv, Finite
    <2>5. Cardinality(InRing) \in Nat /\ Cardinality(Popped) \in Nat /\ Cardinality(put) \in Nat
      BY FS_CardinalityType DEF ConservedInv, Finite
    <2>6. Cardinality(InRing) + Cardinality(Popped) = Cardinality(put)
      BY DEF ConservedInv, Conserved
    <2>7. Cardinality(InRing') + Cardinality(Popped') = Cardinality(put')
      BY <1>2, <1>3, <1>4, <2>4, <2>5, <2>6
    <2> QED
      BY <2>3, <2>7 DEF Conserved
  <1>9. \A t \in Threads : pc'[t] = pc[t] \/ (t = p /\ pc'[t] = "idle")
    BY <1>1, <1>2 DEF TypeOK
  <1>10. Started'
    BY <1>1, <1>2, <1>9 DEF ConservedInv, Started
  <1>11. Fresh'
    <2> SUFFICES ASSUME NEW f \in put \cup {e}
                 PROVE  f.n < ops[f.by] \/ (f.n = ops[f.by] /\ pc'[f.by] = "idle")
      BY <1>2 DEF Fresh
    <2>1. CASE f = e
      BY <1>1, <1>2, <2>1 DEF TypeOK
    <2>2. CASE f \in put
      <3>1. f.by \in Threads /\ (f.n < ops[f.by] \/ (f.n = ops[f.by] /\ pc[f.by] = "idle"))
        BY <2>2 DEF TypeOK, Element, Threads, ConservedInv, Fresh
      <3> QED
        BY <1>9, <3>1
    <2> QED
      BY <2>1, <2>2
  <1> QED
    BY <1>7, <1>8, <1>10, <1>11 DEF ConservedInv

\* The element of a slot becomes the last one popped by c.
LEMMA ReadConserves ==
  ASSUME TypeOK, SlotGuarded, ConservedInv, NEW c \in Consumers, Read(c)
  PROVE  ConservedInv'
  <1> DEFINE s == SlotOf(c)
             k == Len(got[c]) + 1
  <1>1. /\ c \in Threads /\ s \in Slots /\ state[s] = "LOADING" /\ pc[c] = "read"
    BY SlotRange DEF Read, SlotGuarded, Reading, Threads
  <1>2. /\ got' = [got EXCEPT ![c] = Append(@, elem[s])]
        /\ state' = [state EXCEPT ![s] = "EMPTY"] /\ pc' = [pc EXCEPT ![c] = "idle"]
        /\ ops' = ops /\ elem' = elem /\ put' = put
    BY DEF Read, Goto
  <1>3. /\ got[c] \in Seq(Element \cup {Nil}) /\ elem[s] \in Element \cup {Nil}
        /\ Len(got[c]) \in Nat /\ DOMAIN got[c] = 1 .. Len(got[c]) /\ ops[c] \in Nat /\ Ops \in Nat
    BY <1>1, RingAssumption DEF TypeOK
  <1>4. Len(got[c]) < ops[c] /\ ops[c] <= Ops
    BY <1>1 DEF ConservedInv, Started
  <1>5. k \in 1 .. Ops /\ k \notin DOMAIN got[c] /\ k = Len(got[c]) + 1
    BY <1>3, <1>4
  <1> HIDE DEF s, k
  <1>6. s \in InRing /\ InRing' = InRing \ {s}
    BY <1>1, <1>2 DEF InRing, TypeOK
  <1>7. /\ got'[c] = Append(got[c], elem[s]) /\ \A t \in Threads \ {c} : got'[t] = got[t]
    BY <1>1, <1>2 DEF TypeOK
  <1>8. /\ DOMAIN got'[c] = DOMAIN got[c] \cup {k} /\ Len(got'[c]) = Len(got[c]) + 1
        /\ got'[c][k] = elem[s] /\ \A i \in DOMAIN got[c] : got'[c][i] = got[c][i]
    BY <1>3, <1>5, <1>7
  <1>16. PICK x0 \in Threads \X (1 .. Ops) : x0 = <<c, k>>
    BY <1>1, <1>5
  <1>9. x0 \notin Popped /\ Popped' = Popped \cup {x0}
    <2>1. x0 \in Threads \X (1 .. Ops) /\ x0[1] = c /\ x0[2] = k
      BY <1>1, <1>5, <1>16
    <2>2. x0 \notin Popped
      BY <1>5, <2>1 DEF Popped
    <2>3. ASSUME NEW x \in Threads \X (1 .. Ops)
          PROVE  x[2] \in DOMAIN got'[x[1]] <=> (x[2] \in DOMAIN got[x[1]] \/ x = x0)
      <3>1. CASE x[1] = c
        BY <1>8, <2>1, <3>1
      <3>2. CASE x[1] # c
        BY <1>7, <2>1, <3>2
      <3> QED
        BY <3>1, <3>2
    <2> QED
      BY <2>1, <2>2, <2>3 DEF Popped
  <1>10. /\ PoppedElement(x0)' = elem[s]
         /\ \A x \in Popped : PoppedElement(x)' = PoppedElement(x)
    <2>1. PoppedElement(x0)' = elem[s]
      <3>1. x0[1] = c /\ x0[2] = k
        BY <1>16
      <3> QED
        BY <1>8, <3>1 DEF PoppedElement
    <2>2. ASSUME NEW x \in Popped
          PROVE  got'[x[1]][x[2]] = got[x[1]][x[2]]
      <3>1. x[1] \in Threads /\ x[2] \in DOMAIN got[x[1]]
        BY DEF Popped
      <3>2. CASE x[1] = c
        BY <1>8, <3>1, <3>2
      <3>3. CASE x[1] # c
        BY <1>7, <3>1, <3>3
      <3> QED
        BY <3>2, <3>3
    <2> QED
      BY <2>1, <2>2 DEF PoppedElement
  <1>11. Finite'
    BY <1>2, <1>6, <1>9, FS_AddElement, FS_RemoveElement DEF ConservedInv, Finite
  <1>12. Conserved'
    <2>1. {elem[r] : r \in InRing} = {elem[r] : r \in InRing \ {s}} \cup {elem[s]}
      BY <1>6
    <2>2. {PoppedElement(x)' : x \in Popped \cup {x0}} = {PoppedElement(x) : x \in Popped} \cup {elem[s]}
      <3>1. \A x \in Popped \cup {x0} : PoppedElement(x)' = IF x \in Popped THEN PoppedElement(x) ELSE elem[s]
        BY <1>9, <1>10
      <3> QED
        BY <1>9, <3>1
    <2>3. {elem[r] : r \in InRing}' \cup {PoppedElement(x) : x \in Popped}' = put'
      BY <1>2, <1>6, <1>9, <2>1, <2>2 DEF ConservedInv, Conserved
    <2>4. /\ Cardinality(InRing \ {s}) = Cardinality(InRing) - 1
          /\ Cardinality(Popped \cup {x0}) = Cardinality(Popped) + 1
      BY <1>6, <1>9, FS_AddElement, FS_RemoveElement DEF ConservedInv, Finite
    <2>5. Cardinality(InRing) \in Nat /\ Cardinality(Popped) \in Nat /\ Cardinality(put) \in Nat
      BY FS_CardinalityType DEF ConservedInv, Finite
    <2>6. Cardinality(InRing) + Cardinality(Popped) = Cardinality(put)
      BY DEF ConservedInv, Conserved
    <2>7. Cardinality(InRing') + Cardinality(Popped') = Cardinality(put')
      BY <1>2, <1>6, <1>9, <2>4, <2>5, <2>6
    <2> QED
      BY <2>3, <2>7 DEF Conserved
  <1>13. \A t \in Threads : pc'[t] = pc[t] \/ (t = c /\ pc'[t] = "idle")
    BY <1>1, <1>2 DEF TypeOK
  <1>14. Started'
    <2> SUFFICES ASSUME NEW t \in Threads
                 PROVE  /\ ops[t] <= Ops /\ Len(got'[t]) <= ops[t]
                        /\ pc'[t] # "idle" => Len(got'[t]) < ops[t]
      BY <1>2 DEF Started
    <2>1. /\ ops[t] <= Ops /\ Len(got[t]) <= ops[t]
          /\ pc[t] # "idle" => Len(got[t]) < ops[t]
      BY DEF ConservedInv, Started
    <2>2. CASE t = c
      <3>1. pc'[t] = "idle"
        BY <1>1, <1>2, <2>2 DEF TypeOK
      <3>2. Len(got'[t]) <= ops[t]
        BY <1>3, <1>4, <1>8, <2>2
      <3> QED
        BY <2>1, <3>1, <3>2
    <2>3. CASE t # c
      BY <1>7, <1>13, <2>1, <2>3
    <2> QED
      BY <2>2, <2>3
  <1>15. Fresh'
    <2> SUFFICES ASSUME NEW f \in put
                 PROVE  f.n < ops[f.by] \/ (f.n = ops[f.by] /\ pc'[f.by] = "idle")
      BY <1>2 DEF Fresh
    <2>1. f.by \in Threads /\ (f.n < ops[f.by] \/ (f.n = ops[f.by] /\ pc[f.by] = "idle"))
      BY DEF TypeOK, Element, Threads, ConservedInv, Fresh
    <2> QED
      BY <1>13, <2>1
  <1> QED
    BY <1>11, <1>12, <1>14, <1>15 DEF ConservedInv

LEMMA ConservedStep == TypeOK /\ SlotGuarded /\ ConservedInv /\ [Next]_vars => ConservedInv'
  <1> SUFFICES ASSUME TypeOK, SlotGuarded, ConservedInv, [Next]_vars PROVE ConservedInv'
    OBVIOUS
  <1> USE DEF Threads
  <1>1. ASSUME NEW p \in Producers, TryPush(p) \/ BlockingPush(p) PROVE ConservedInv'
    BY <1>1, NothingMoves DEF TryPush, BlockingPush, Begin, Goto, Pc
  <1>2. ASSUME NEW p \in Producers, PushCheck(p) \/ PushClaim(p) PROVE ConservedInv'
    BY <1>2, NothingMoves DEF PushCheck, PushClaim, Goto, Pc
  <1>3. ASSUME NEW c \in Consumers, TryPop(c) \/ BlockingPop(c) PROVE ConservedInv'
    BY <1>3, NothingMoves DEF TryPop, BlockingPop, Begin, Goto, Pc
  <1>4. ASSUME NEW c \in Consumers, PopCheck(c) \/ PopClaim(c) PROVE ConservedInv'
    BY <1>4, NothingMoves DEF PopCheck, PopClaim, Goto, Pc
  <1>5. ASSUME NEW p \in Producers, TakeForStore(p) PROVE ConservedInv'
    <2>1. \A s \in Slots : state'[s] \in {"STORED", "LOADING"} <=> state[s] \in {"STORED", "LOADING"}
      BY <1>5 DEF TakeForStore, TypeOK
    <2> QED
      BY <1>5, <2>1, NothingMoves DEF TakeForStore, Goto, Pc
  <1>6. ASSUME NEW c \in Consumers, TakeForLoad(c) PROVE ConservedInv'
    <2>1. \A s \in Slots : state'[s] \in {"STORED", "LOADING"} <=> state[s] \in {"STORED", "LOADING"}
      BY <1>6 DEF TakeForLoad, TypeOK
    <2> QED
      BY <1>6, <2>1, NothingMoves DEF TakeForLoad, Goto, Pc
  <1>7. CASE UNCHANGED vars
    BY <1>7 DEF vars, ConservedInv, Fresh, Started, Finite, Conserved, InRing, Popped, PoppedElement
  <1> QED
    BY <1>1, <1>2, <1>3, <1>4, <1>5, <1>6, <1>7, WriteConserves, ReadConserves DEF Next, Push, Pop

(* Every element whose push completed is in one slot or was popped once: however many
   tickets meet in a slot, none is overwritten before it is popped or popped twice. *)
THEOREM ConservedHolds == Spec => []Conserved
  <1>1. ConservedInv => Conserved
    BY DEF ConservedInv
  <1> QED
    BY InitTypeOK, TypeStep, InitSlotGuarded, GuardStep, InitConserved, ConservedStep, <1>1, PTL DEF Spec

-----------------------------------------------------------------------------
(* Induction *)

Below == {p \in Nat \X Nat : p[1] < p[2]}

LEMMA BelowIsWellFounded == IsWellFoundedOn(Below, Nat)
  BY NatLessThanWellFounded DEF OpToRel, Below

(* The library states induction for an operator, which the provers cannot instantiate;
   of a set of numbers it says as much. *)
LEMMA Least ==
  ASSUME NEW S, S \subseteq Nat, S # {}
  PROVE  \E n \in S : \A m \in S : n <= m
  <1>1. PICK n \in S : \A m \in S : ~ (<<m, n>> \in Below)
    BY BelowIsWellFounded, WFMin
  <1>2. ASSUME NEW m \in S PROVE n <= m
    <2>1. SUFFICES ASSUME m < n PROVE <<m, n>> \in Below
      <3>1. m \in Nat /\ n \in Nat
        BY <1>1
      <3>2. <<m, n>> \notin Below
        BY <1>1
      <3> QED
        BY <3>1, <3>2
    <2>2. <<m, n>> \in Nat \X Nat /\ <<m, n>>[1] = m /\ <<m, n>>[2] = n
      BY <1>1
    <2> QED
      BY <2>1, <2>2 DEF Below
  <1> QED
    BY <1>2

LEMMA Induction ==
  ASSUME NEW S, 0 \in S, \A n \in S \cap Nat : n + 1 \in S
  PROVE  Nat \subseteq S
  <1> SUFFICES ASSUME Nat \ S # {} PROVE FALSE
    OBVIOUS
  <1>1. PICK n \in Nat \ S : \A m \in Nat \ S : n <= m
    BY Least
  <1>2. n # 0 /\ n - 1 \in Nat
    BY <1>1
  <1>3. n - 1 \in S
    BY <1>1, <1>2
  <1>4. (n - 1) + 1 \in S
    BY <1>2, <1>3
  <1> QED
    BY <1>1, <1>2, <1>4

LEMMA InductionTo ==
  ASSUME NEW S, NEW k \in Nat, 0 \in S, \A n \in 0 .. k - 1 : n \in S => n + 1 \in S
  PROVE  0 .. k \subseteq S
  <1> DEFINE P == S \cup {n \in Nat : n > k}
  <1>1. 0 \in P /\ \A n \in P \cap Nat : n + 1 \in P
    OBVIOUS
  <1> HIDE DEF P
  <1>2. Nat \subseteq P
    BY <1>1, Induction
  <1> QED
    BY <1>2 DEF P

LEMMA Greatest ==
  ASSUME NEW S, NEW k \in Nat, S \subseteq 0 .. k, S # {}
  PROVE  \E n \in S : \A m \in S : m <= n
  <1> DEFINE P == {k - n : n \in S}
  <1>1. P \subseteq Nat /\ P # {}
    <2>1. PICK n \in S : TRUE
      OBVIOUS
    <2>2. k - n \in P
      OBVIOUS
    <2>3. ASSUME NEW m \in S PROVE k - m \in Nat
      OBVIOUS
    <2> QED
      BY <2>2, <2>3
  <1> HIDE DEF P
  <1>2. PICK p \in P : \A q \in P : p <= q
    BY <1>1, Least
  <1>3. PICK n \in S : p = k - n
    BY <1>2 DEF P
  <1>4. ASSUME NEW m \in S PROVE m <= n
    <2>1. k - m \in P
      BY DEF P
    <2> QED
      BY <1>2, <1>3, <2>1
  <1> QED
    BY <1>3, <1>4

LEMMA MinIs ==
  ASSUME NEW S, S \subseteq Nat, S # {}
  PROVE  Min(S) \in S /\ \A m \in S : Min(S) <= m
  BY Least DEF Min

LEMMA MaxOf ==
  ASSUME NEW S, NEW k \in Nat, S \subseteq 0 .. k, S # {}
  PROVE  Max(S) \in S /\ \A m \in S : m <= Max(S)
  BY Greatest DEF Max

LEMMA MinOfTwo ==
  ASSUME NEW a \in Nat, NEW b \in Nat
  PROVE  Min({a, b}) \in {a, b} /\ Min({a, b}) <= a /\ Min({a, b}) <= b
  BY MinIs

LEMMA MaxOfTwo ==
  ASSUME NEW a \in Nat, NEW b \in Nat
  PROVE  Max({a, b}) \in {a, b} /\ Max({a, b}) >= a /\ Max({a, b}) >= b
  <1>1. {a, b} \subseteq 0 .. (a + b) /\ {a, b} # {}
    OBVIOUS
  <1> QED
    BY <1>1, MaxOf

-----------------------------------------------------------------------------
(* Powers of two, and the ticks of the wheels *)

Bits == WheelBit * WheelNum

LEMMA BitsType == Bits \in Nat /\ WheelBit \in Nat \ {0} /\ WheelNum \in Nat \ {0} /\ Never \in Nat
  <1>1. \A a, b \in Nat : a * b \in Nat
    OBVIOUS
  <1> QED
    BY <1>1, WheelAssumption DEF Bits

(* The recursive function exists. *)
LEMMA PowerEquation == Pow2 = [n \in 0 .. Bits |-> IF n = 0 THEN 1 ELSE 2 * Pow2[n - 1]]
  <1> DEFINE Is(f, m) == f = [n \in 0 .. m |-> IF n = 0 THEN 1 ELSE 2 * f[n - 1]]
             S == {m \in Nat : \E f : Is(f, m)}
  <1>1. 0 \in S
    <2>1. Is([n \in 0 .. 0 |-> 1], 0)
      OBVIOUS
    <2> QED
      BY <2>1
  <1>2. ASSUME NEW m \in S \cap Nat PROVE m + 1 \in S
    <2>1. PICK f : Is(f, m)
      BY <1>2
    <2> DEFINE g == [n \in 0 .. (m + 1) |-> IF n <= m THEN f[n] ELSE 2 * f[m]]
    <2>2. ASSUME NEW n \in 0 .. (m + 1) PROVE g[n] = IF n = 0 THEN 1 ELSE 2 * g[n - 1]
      BY <1>2, <2>1
    <2>3. Is(g, m + 1)
      BY <2>2
    <2> HIDE DEF g, Is
    <2> QED
      BY <2>3
  <1> HIDE DEF S
  <1>3. Bits \in S
    BY <1>1, <1>2, Induction, BitsType
  <1>4. \E f : f = [n \in 0 .. Bits |-> IF n = 0 THEN 1 ELSE 2 * f[n - 1]]
    BY <1>3 DEF S
  <1> QED
    BY <1>4 DEF Pow2, Bits

LEMMA PowerStep ==
  /\ Pow2[0] = 1
  /\ \A n \in 0 .. Bits - 1 : Pow2[n + 1] = 2 * Pow2[n]
  <1>1. Pow2[0] = 1
    BY PowerEquation, BitsType
  <1>2. ASSUME NEW n \in 0 .. Bits - 1 PROVE Pow2[n + 1] = 2 * Pow2[n]
    <2>1. n + 1 \in 0 .. Bits /\ n + 1 # 0 /\ (n + 1) - 1 = n
      BY BitsType
    <2> QED
      BY <2>1, PowerEquation
  <1> QED
    BY <1>1, <1>2

LEMMA PowerType == \A n \in 0 .. Bits : Pow2[n] \in Nat \ {0}
  <1> DEFINE S == {n \in Nat : Pow2[n] \in Nat \ {0}}
  <1>1. 0 \in S
    BY PowerStep
  <1>2. ASSUME NEW n \in 0 .. Bits - 1, n \in S PROVE n + 1 \in S
    BY <1>2, PowerStep
  <1>3. 0 .. Bits \subseteq S
    <2> HIDE DEF S
    <2> QED
      BY <1>1, <1>2, InductionTo, BitsType
  <1> QED
    BY <1>3

LEMMA PowerSum ==
  ASSUME NEW a \in Nat, NEW b \in Nat, a + b <= Bits
  PROVE  Pow2[a + b] = Pow2[a] * Pow2[b]
  <1> DEFINE S == {n \in Nat : a + n <= Bits => Pow2[a + n] = Pow2[a] * Pow2[n]}
  <1>0. \A n \in Nat : a + n <= Bits => a + n \in 0 .. Bits /\ n \in 0 .. Bits
    BY BitsType
  <1>1. 0 \in S
    <2>1. a <= Bits => a \in 0 .. Bits /\ a + 0 = a
      BY BitsType
    <2> QED
      BY <2>1, PowerStep, PowerType
  <1>2. ASSUME NEW n \in S \cap Nat PROVE n + 1 \in S
    <2>1. SUFFICES ASSUME a + (n + 1) <= Bits PROVE Pow2[a + (n + 1)] = Pow2[a] * Pow2[n + 1]
      BY <1>2
    <2>2. a + (n + 1) = (a + n) + 1 /\ a + n \in 0 .. Bits - 1 /\ n \in 0 .. Bits - 1 /\ a \in 0 .. Bits
      BY <2>1, BitsType
    <2>3. Pow2[a + (n + 1)] = 2 * Pow2[a + n] /\ Pow2[n + 1] = 2 * Pow2[n]
      BY <2>2, PowerStep
    <2>4. Pow2[a + n] = Pow2[a] * Pow2[n]
      BY <1>2, <2>2, BitsType
    <2>5. Pow2[a] \in Nat /\ Pow2[n] \in Nat
      BY <2>2, PowerType, BitsType
    <2>6. \A x, y \in Nat : 2 * (x * y) = x * (2 * y)
      OBVIOUS
    <2> QED
      BY <2>3, <2>4, <2>5, <2>6
  <1>3. Nat \subseteq S
    <2> HIDE DEF S
    <2> QED
      BY <1>1, <1>2, Induction
  <1> QED
    BY <1>3

LEMMA PowerMonotone ==
  ASSUME NEW a \in 0 .. Bits, NEW b \in 0 .. Bits, a <= b
  PROVE  Pow2[a] <= Pow2[b]
  <1>1. b - a \in 0 .. Bits /\ a + (b - a) = b
    BY BitsType
  <1>2. Pow2[b] = Pow2[a] * Pow2[b - a]
    BY <1>1, PowerSum, BitsType
  <1>3. Pow2[a] \in Nat /\ Pow2[b - a] \in Nat \ {0}
    BY <1>1, PowerType
  <1>4. \A x \in Nat, y \in Nat \ {0} : x <= x * y
    OBVIOUS
  <1> QED
    BY <1>2, <1>3, <1>4

LEMMA WheelBits ==
  ASSUME NEW w \in 0 .. WheelNum
  PROVE  /\ WheelBit * w \in 0 .. Bits
         /\ w < WheelNum => WheelBit * (w + 1) = WheelBit * w + WheelBit /\ WheelBit * (w + 1) <= Bits
  <1>1. \A a, b, c \in Nat : b <= c => a * b <= a * c /\ a * b \in Nat /\ a * (b + 1) = a * b + a
    OBVIOUS
  <1>2. w \in Nat /\ w + 1 \in Nat /\ w <= WheelNum /\ (w < WheelNum => w + 1 <= WheelNum)
    BY BitsType
  <1>3. WheelBit * w <= Bits /\ WheelBit * w \in Nat
    BY <1>1, <1>2, BitsType DEF Bits
  <1>4. w < WheelNum => WheelBit * (w + 1) <= Bits /\ WheelBit * (w + 1) = WheelBit * w + WheelBit
    BY <1>1, <1>2, BitsType DEF Bits
  <1> QED
    BY <1>3, <1>4, BitsType

LEMMA WheelLenType == WheelLen \in Nat \ {0} /\ WheelBit \in 0 .. Bits
  <1>1. 1 \in 0 .. WheelNum /\ 0 \in 0 .. WheelNum /\ WheelBit * 1 = WheelBit
    BY BitsType
  <1>2. WheelBit \in 0 .. Bits
    BY <1>1, WheelBits
  <1> QED
    BY <1>2, PowerType DEF WheelLen

LEMMA WidthIs ==
  /\ \A w \in 0 .. WheelNum : Width[w] = Pow2[WheelBit * w] /\ Width[w] \in Nat \ {0}
  /\ Width[0] = 1
  /\ \A w \in Wheel : Width[w + 1] = Width[w] * WheelLen
  <1>1. \A w \in 0 .. WheelNum : Width[w] = Pow2[WheelBit * w] /\ Width[w] \in Nat \ {0}
    BY WheelBits, PowerType DEF Width
  <1>2. Width[0] = 1
    <2>1. 0 \in 0 .. WheelNum /\ WheelBit * 0 = 0
      BY BitsType
    <2> QED
      BY <1>1, <2>1, PowerStep
  <1>3. ASSUME NEW w \in Wheel PROVE Width[w + 1] = Width[w] * WheelLen
    <2>1. w \in 0 .. WheelNum /\ w + 1 \in 0 .. WheelNum /\ w < WheelNum
      BY BitsType DEF Wheel
    <2>2. WheelBit * w \in Nat /\ WheelBit * w + WheelBit <= Bits /\ WheelBit * (w + 1) = WheelBit * w + WheelBit
      BY <2>1, WheelBits
    <2>3. Pow2[WheelBit * w + WheelBit] = Pow2[WheelBit * w] * Pow2[WheelBit]
      BY <2>2, PowerSum, BitsType
    <2> QED
      BY <1>1, <2>1, <2>2, <2>3 DEF WheelLen
  <1> QED
    BY <1>1, <1>2, <1>3

-----------------------------------------------------------------------------
(* Lists of timeouts *)

Single(q) == \A i, j \in 1 .. Len(q) : q[i] = q[j] => i = j

LEMMA RemoveAtIs ==
  ASSUME NEW S, NEW q \in Seq(S), NEW k \in 1 .. Len(q)
  PROVE  /\ RemoveAt(q, k) \in Seq(S) /\ Len(RemoveAt(q, k)) = Len(q) - 1
         /\ \A j \in 1 .. Len(q) - 1 : RemoveAt(q, k)[j] = IF j < k THEN q[j] ELSE q[j + 1]
  <1> DEFINE a == SubSeq(q, 1, k - 1)
             b == SubSeq(q, k + 1, Len(q))
  <1>0. Len(q) \in Nat /\ \A i \in 1 .. Len(q) : q[i] \in S
    BY LenProperties, ElementOfSeq
  <1>1. a \in Seq(S) /\ Len(a) = k - 1 /\ \A i \in 1 .. k - 1 : a[i] = q[i]
    BY <1>0
  <1>2. b \in Seq(S) /\ Len(b) = Len(q) - k /\ \A i \in 1 .. Len(q) - k : b[i] = q[k + i]
    BY <1>0
  <1>3. RemoveAt(q, k) = a \o b
    BY DEF RemoveAt
  <1> HIDE DEF a, b
  <1>i. k \in Int /\ Len(q) \in Int /\ 1 <= k /\ k <= Len(q)
    BY <1>0
  <1>4. a \o b \in Seq(S) /\ Len(a \o b) = Len(q) - 1
    <2>1. a \o b \in Seq(S) /\ Len(a \o b) = Len(a) + Len(b)
      BY <1>1, <1>2, ConcatProperties
    <2> QED
      BY <1>1, <1>2, <1>i, <2>1
  <1>5. ASSUME NEW j \in 1 .. Len(q) - 1 PROVE (a \o b)[j] = IF j < k THEN q[j] ELSE q[j + 1]
    <2>1. (a \o b)[j] = IF j <= Len(a) THEN a[j] ELSE b[j - Len(a)]
      BY <1>0, <1>1, <1>2, <1>i, ConcatProperties
    <2>i. j \in Int /\ j <= Len(q) - 1
      BY <1>i
    <2>2. CASE j < k
      BY <1>0, <1>1, <2>1, <2>2
    <2>3. CASE j >= k
      <3>1. j - (k - 1) \in 1 .. Len(q) - k /\ k + (j - (k - 1)) = j + 1 /\ ~(j <= Len(a))
        BY <1>0, <1>1, <2>3
      <3> QED
        BY <1>1, <1>2, <2>1, <2>3, <3>1
    <2>4. j < k \/ j >= k
      BY <1>i, <2>i
    <2> QED
      BY <2>2, <2>3, <2>4, Zenon
  <1> QED
    BY <1>3, <1>4, <1>5

LEMMA WithoutOther ==
  ASSUME NEW q, NEW to, ~Contains(q, to)
  PROVE  Without(q, to) = q
  BY DEF Without

LEMMA WithoutIs ==
  ASSUME NEW S, NEW q \in Seq(S), NEW to, Single(q)
  PROVE  /\ Without(q, to) \in Seq(S) /\ Single(Without(q, to))
         /\ \A u : Contains(Without(q, to), u) <=> Contains(q, u) /\ u # to
  <1>1. CASE ~Contains(q, to)
    BY <1>1, WithoutOther
  <1>2. CASE Contains(q, to)
    <2>0. Len(q) \in Nat /\ DOMAIN q = 1 .. Len(q)
      BY LenProperties
    <2>1. PICK k \in 1 .. Len(q) : q[k] = to /\ Without(q, to) = RemoveAt(q, k)
      BY <1>2, <2>0 DEF Without, Contains
    <2> DEFINE r == Without(q, to)
    <2>2. r \in Seq(S) /\ Len(r) = Len(q) - 1
          /\ \A j \in 1 .. Len(q) - 1 : r[j] = IF j < k THEN q[j] ELSE q[j + 1]
      BY <2>1, RemoveAtIs
    <2> HIDE DEF r
    <2>3. Single(r)
      BY <2>0, <2>2 DEF Single
    <2>4. ASSUME NEW u, Contains(r, u) PROVE Contains(q, u) /\ u # to
      <3>1. PICK j \in 1 .. Len(q) - 1 : r[j] = u
        BY <2>2, <2>4 DEF Contains
      <3>2. CASE j < k
        BY <2>0, <2>1, <2>2, <3>1, <3>2 DEF Contains, Single
      <3>3. CASE j >= k
        <4>1. j + 1 \in 1 .. Len(q) /\ j + 1 # k /\ q[j + 1] = u
          BY <2>0, <2>2, <3>1, <3>3
        <4> QED
          BY <2>1, <4>1 DEF Contains, Single
      <3> QED
        BY <2>0, <3>2, <3>3
    <2>5. ASSUME NEW u, Contains(q, u), u # to PROVE Contains(r, u)
      <3>1. PICK i \in 1 .. Len(q) : q[i] = u
        BY <2>5 DEF Contains
      <3>2. i # k
        BY <2>1, <2>5, <3>1
      <3>3. CASE i < k
        <4>1. i \in 1 .. Len(q) - 1 /\ r[i] = u
          BY <2>0, <2>2, <3>1, <3>3
        <4> QED
          BY <2>2, <4>1 DEF Contains
      <3>4. CASE i > k
        <4>1. i - 1 \in 1 .. Len(q) - 1 /\ ~(i - 1 < k) /\ (i - 1) + 1 = i
          BY <2>0, <3>1, <3>4
        <4>2. r[i - 1] = u
          BY <2>2, <3>1, <4>1
        <4> QED
          BY <2>2, <4>1, <4>2 DEF Contains
      <3> QED
        BY <2>0, <3>2, <3>3, <3>4
    <2> QED
      BY <2>2, <2>3, <2>4, <2>5 DEF r
  <1> QED
    BY <1>1, <1>2

LEMMA AppendIs ==
  ASSUME NEW S, NEW q \in Seq(S), NEW to \in S
  PROVE  /\ Append(q, to) \in Seq(S) /\ Append(q, to) # <<>>
         /\ \A u : Contains(Append(q, to), u) <=> Contains(q, u) \/ u = to
         /\ Single(q) /\ ~Contains(q, to) => Single(Append(q, to))
  <1>1. /\ Append(q, to) \in Seq(S) /\ Len(Append(q, to)) = Len(q) + 1 /\ Len(q) \in Nat
        /\ \A i \in 1 .. Len(q) : Append(q, to)[i] = q[i]
        /\ Append(q, to)[Len(q) + 1] = to
    BY AppendProperties, LenProperties
  <1>2. \A u : Contains(Append(q, to), u) <=> Contains(q, u) \/ u = to
    BY <1>1 DEF Contains
  <1>3. Single(q) /\ ~Contains(q, to) => Single(Append(q, to))
    BY <1>1 DEF Contains, Single
  <1>4. Append(q, to) # <<>>
    BY <1>1
  <1> QED
    BY <1>1, <1>2, <1>3, <1>4

LEMMA EmptyHasNone == Single(<<>>) /\ \A u : ~Contains(<<>>, u)
  BY DEF Single, Contains

LEMMA NotEmpty ==
  ASSUME NEW S, NEW q \in Seq(S)
  PROVE  q # <<>> <=> \E u \in S : Contains(q, u)
  <1>1. Len(q) \in Nat /\ (q = <<>> <=> Len(q) = 0) /\ \A i \in 1 .. Len(q) : q[i] \in S
    BY LenProperties, EmptySeq, ElementOfSeq
  <1>2. Len(q) # 0 => Contains(q, q[1]) /\ q[1] \in S
    BY <1>1 DEF Contains
  <1> QED
    BY <1>1, <1>2 DEF Contains

LEMMA ContainedInSet ==
  ASSUME NEW S, NEW q \in Seq(S), NEW u, Contains(q, u)
  PROVE  u \in S
  BY ElementOfSeq DEF Contains

LEMMA HeadTailIs ==
  ASSUME NEW S, NEW q \in Seq(S), q # <<>>, Single(q)
  PROVE  /\ Head(q) \in S /\ Contains(q, Head(q)) /\ Tail(q) \in Seq(S) /\ Single(Tail(q))
         /\ \A u : Contains(Tail(q), u) <=> Contains(q, u) /\ u # Head(q)
  <1>1. /\ Len(q) \in Nat \ {0} /\ Head(q) = q[1] /\ Head(q) \in S
        /\ Tail(q) \in Seq(S) /\ Len(Tail(q)) = Len(q) - 1
        /\ \A i \in 1 .. Len(q) - 1 : Tail(q)[i] = q[i + 1]
    BY HeadTailProperties, LenProperties, EmptySeq
  <1>2. Contains(q, Head(q))
    BY <1>1 DEF Contains
  <1>3. Single(Tail(q))
    BY <1>1 DEF Single
  <1>4. ASSUME NEW u, Contains(Tail(q), u) PROVE Contains(q, u) /\ u # Head(q)
    <2>1. PICK i \in 1 .. Len(q) - 1 : q[i + 1] = u
      BY <1>1, <1>4 DEF Contains
    <2> QED
      BY <1>1, <2>1 DEF Contains, Single
  <1>5. ASSUME NEW u, Contains(q, u), u # Head(q) PROVE Contains(Tail(q), u)
    <2>1. PICK i \in 1 .. Len(q) : q[i] = u
      BY <1>5 DEF Contains
    <2>2. i - 1 \in 1 .. Len(q) - 1 /\ (i - 1) + 1 = i
      BY <1>1, <1>5, <2>1
    <2> QED
      BY <1>1, <2>1, <2>2 DEF Contains
  <1> QED
    BY <1>1, <1>2, <1>3, <1>4, <1>5

-----------------------------------------------------------------------------
(* The recursive functions exist *)

LEMMA ConcatHas ==
  ASSUME NEW S, NEW p \in Seq(S), NEW q \in Seq(S)
  PROVE  p \o q \in Seq(S) /\ \A u : Contains(p \o q, u) <=> Contains(p, u) \/ Contains(q, u)
  <1>1. /\ p \o q \in Seq(S) /\ Len(p \o q) = Len(p) + Len(q) /\ Len(p) \in Nat /\ Len(q) \in Nat
        /\ \A i \in 1 .. Len(p) + Len(q) : (p \o q)[i] = IF i <= Len(p) THEN p[i] ELSE q[i - Len(p)]
    BY ConcatProperties, LenProperties
  <1>2. ASSUME NEW u, Contains(p \o q, u) PROVE Contains(p, u) \/ Contains(q, u)
    <2>1. PICK i \in 1 .. Len(p) + Len(q) : (p \o q)[i] = u
      BY <1>1, <1>2 DEF Contains
    <2>2. CASE i <= Len(p)
      BY <1>1, <2>1, <2>2 DEF Contains
    <2>3. CASE i > Len(p)
      <3>1. i - Len(p) \in 1 .. Len(q) /\ q[i - Len(p)] = u
        BY <1>1, <2>1, <2>3
      <3> QED
        BY <3>1 DEF Contains
    <2> QED
      BY <1>1, <2>2, <2>3
  <1>3. ASSUME NEW u, Contains(p, u) PROVE Contains(p \o q, u)
    <2>1. PICK i \in 1 .. Len(p) : p[i] = u
      BY <1>3 DEF Contains
    <2>2. i \in 1 .. Len(p) + Len(q) /\ (p \o q)[i] = u
      BY <1>1, <2>1
    <2> QED
      BY <1>1, <2>2 DEF Contains
  <1>4. ASSUME NEW u, Contains(q, u) PROVE Contains(p \o q, u)
    <2>1. PICK i \in 1 .. Len(q) : q[i] = u
      BY <1>4 DEF Contains
    <2>2. i + Len(p) \in 1 .. Len(p) + Len(q) /\ ~(i + Len(p) <= Len(p)) /\ (i + Len(p)) - Len(p) = i
      BY <1>1
    <2>3. (p \o q)[i + Len(p)] = u
      BY <1>1, <2>1, <2>2
    <2> QED
      BY <1>1, <2>2, <2>3 DEF Contains
  <1> QED
    BY <1>1, <1>2, <1>3, <1>4

LEMMA FlattenHas ==
  ASSUME NEW S, NEW n \in Nat \ {0}, NEW q \in [1 .. n -> Seq(S)]
  PROVE  /\ FlattenSeq(q) \in Seq(S)
         /\ \A u : Contains(FlattenSeq(q), u) <=> \E i \in 1 .. n : Contains(q[i], u)
  <1> DEFINE Is(f, m) == f = [i \in 1 .. m |-> IF i = 1 THEN q[i] ELSE f[i - 1] \o q[i]]
             S1 == {m \in Nat : \E f : Is(f, m)}
  <1>0. q \in Seq(Seq(S)) /\ Len(q) = n
    <2>1. q \in Seq(Seq(S))
      BY SeqDef
    <2> QED
      BY <2>1, LenProperties
  <1>1. 0 \in S1
    <2>1. Is([i \in 1 .. 0 |-> 1], 0)
      OBVIOUS
    <2> QED
      BY <2>1
  <1>2. ASSUME NEW m \in S1 \cap Nat PROVE m + 1 \in S1
    <2>1. PICK f : Is(f, m)
      BY <1>2
    <2> DEFINE g == [i \in 1 .. (m + 1) |-> IF i <= m THEN f[i] ELSE IF i = 1 THEN q[i] ELSE f[m] \o q[m + 1]]
    <2>2. ASSUME NEW i \in 1 .. (m + 1) PROVE g[i] = IF i = 1 THEN q[i] ELSE g[i - 1] \o q[i]
      <3>1. CASE i <= m
        <4>1. i \in 1 .. m /\ (i # 1 => i - 1 \in 1 .. (m + 1) /\ i - 1 <= m)
          BY <1>2, <3>1
        <4>2. g[i] = f[i] /\ (i # 1 => g[i - 1] = f[i - 1])
          BY <3>1, <4>1
        <4>3. f[i] = IF i = 1 THEN q[i] ELSE f[i - 1] \o q[i]
          BY <2>1, <4>1
        <4> HIDE DEF g, Is
        <4> QED
          BY <4>2, <4>3
      <3>2. CASE i > m
        <4>1. i = m + 1 /\ ~(i <= m) /\ (i # 1 => m \in 1 .. (m + 1) /\ i - 1 = m)
          BY <1>2, <3>2
        <4>2. i # 1 => g[m] = f[m]
          BY <1>2, <4>1
        <4>3. g[i] = IF i = 1 THEN q[i] ELSE f[m] \o q[m + 1]
          BY <4>1
        <4> HIDE DEF g, Is
        <4> QED
          BY <4>1, <4>2, <4>3
      <3> QED
        BY <1>2, <3>1, <3>2
    <2>3. Is(g, m + 1)
      <3>1. g = [i \in 1 .. (m + 1) |-> g[i]]
        OBVIOUS
      <3> HIDE DEF g
      <3> QED
        BY <2>2, <3>1
    <2> HIDE DEF g, Is
    <2> QED
      BY <2>3
  <1>3. n \in S1
    <2> HIDE DEF S1
    <2> QED
      BY <1>1, <1>2, Induction
  <1> DEFINE f == CHOOSE f : Is(f, n)
  <1>4. Is(f, n)
    BY <1>3
  <1>5. FlattenSeq(q) = f[n]
    BY <1>0 DEF FlattenSeq
  <1> HIDE DEF f
  <1> DEFINE Good(m) == /\ f[m + 1] \in Seq(S)
                        /\ \A u : Contains(f[m + 1], u) <=> \E i \in 1 .. m + 1 : Contains(q[i], u)
             S2 == {m \in Nat : Good(m)}
  <1>6. f[1] = q[1] /\ \A m \in 1 .. n - 1 : f[m + 1] = f[m] \o q[m + 1]
    <2>1. f[1] = q[1]
      BY <1>4
    <2>2. ASSUME NEW m \in 1 .. n - 1 PROVE f[m + 1] = f[m] \o q[m + 1]
      <3>1. m + 1 \in 1 .. n /\ m + 1 # 1 /\ (m + 1) - 1 = m
        OBVIOUS
      <3> QED
        BY <1>4, <3>1
    <2> QED
      BY <2>1, <2>2
  <1> HIDE DEF Is
  <1>7. 0 \in S2
    <2>1. 1 .. 0 + 1 = {1} /\ 0 + 1 = 1
      OBVIOUS
    <2>2. q[1] \in Seq(S)
      OBVIOUS
    <2> QED
      BY <1>6, <2>1, <2>2
  <1>8. ASSUME NEW m \in 0 .. (n - 1) - 1, m \in S2 PROVE m + 1 \in S2
    <2>1. m + 1 \in 1 .. n - 1 /\ m + 1 \in Nat
      OBVIOUS
    <2>2. f[(m + 1) + 1] = f[m + 1] \o q[(m + 1) + 1]
      BY <1>6, <2>1
    <2>3. q[(m + 1) + 1] \in Seq(S) /\ Good(m)
      BY <1>8, <2>1
    <2>4. /\ f[(m + 1) + 1] \in Seq(S)
          /\ \A u : Contains(f[(m + 1) + 1], u) <=> Contains(f[m + 1], u) \/ Contains(q[(m + 1) + 1], u)
      BY <2>2, <2>3, ConcatHas
    <2>5. ASSUME NEW u
          PROVE  (\E i \in 1 .. (m + 1) + 1 : Contains(q[i], u))
                 <=> (\E i \in 1 .. m + 1 : Contains(q[i], u)) \/ Contains(q[(m + 1) + 1], u)
      <3>1. 1 .. (m + 1) + 1 = (1 .. m + 1) \cup {(m + 1) + 1}
        BY <2>1
      <3> QED
        BY <3>1
    <2>6. Good(m + 1)
      BY <2>3, <2>4, <2>5
    <2> QED
      BY <2>1, <2>6
  <1>9. n - 1 \in S2 /\ (n - 1) + 1 = n
    <2> HIDE DEF S2
    <2>1. n - 1 \in Nat /\ n - 1 \in 0 .. n - 1
      OBVIOUS
    <2>2. 0 .. n - 1 \subseteq S2
      BY <1>7, <1>8, <2>1, InductionTo
    <2> QED
      BY <2>1, <2>2
  <1> QED
    BY <1>5, <1>9

LEMMA AllAgainSteps ==
  ASSUME NEW U, NEW todo, Len(todo) \in Nat
  PROVE  \E f : /\ f[0] = U /\ f[Len(todo)] = AllAgain(U, todo)
                /\ \A i \in 0 .. Len(todo) - 1 : f[i + 1] = Again(f[i], todo[i + 1])
  <1> DEFINE n == Len(todo)
             Is(f, m) == f = [i \in 0 .. m |-> IF i = 0 THEN U ELSE Again(f[i - 1], todo[i])]
             S == {m \in Nat : \E f : Is(f, m)}
  <1>1. 0 \in S
    <2>1. Is([i \in 0 .. 0 |-> U], 0)
      OBVIOUS
    <2> QED
      BY <2>1
  <1>2. ASSUME NEW m \in S \cap Nat PROVE m + 1 \in S
    <2>1. PICK f : Is(f, m)
      BY <1>2
    <2> DEFINE g == [i \in 0 .. (m + 1) |-> IF i <= m THEN f[i] ELSE Again(f[m], todo[m + 1])]
    <2>2. ASSUME NEW i \in 0 .. (m + 1) PROVE g[i] = IF i = 0 THEN U ELSE Again(g[i - 1], todo[i])
      <3>1. CASE i <= m
        <4>1. i \in 0 .. m /\ (i # 0 => i - 1 \in 0 .. (m + 1) /\ i - 1 <= m)
          BY <1>2, <3>1
        <4>2. g[i] = f[i] /\ (i # 0 => g[i - 1] = f[i - 1])
          BY <3>1, <4>1
        <4>3. f[i] = IF i = 0 THEN U ELSE Again(f[i - 1], todo[i])
          BY <2>1, <4>1
        <4> HIDE DEF g, Is
        <4> QED
          BY <4>2, <4>3
      <3>2. CASE i > m
        <4>1. i = m + 1 /\ ~(i <= m) /\ i # 0 /\ m \in 0 .. (m + 1) /\ i - 1 = m
          BY <1>2, <3>2
        <4>2. g[m] = f[m]
          BY <1>2, <4>1
        <4>3. g[i] = Again(f[m], todo[m + 1])
          BY <4>1
        <4> HIDE DEF g, Is
        <4> QED
          BY <4>1, <4>2, <4>3
      <3> QED
        BY <1>2, <3>1, <3>2
    <2>3. Is(g, m + 1)
      <3>1. g = [i \in 0 .. (m + 1) |-> g[i]]
        OBVIOUS
      <3> HIDE DEF g
      <3> QED
        BY <2>2, <3>1
    <2> HIDE DEF g, Is
    <2> QED
      BY <2>3
  <1>3. n \in S
    <2> HIDE DEF S
    <2> QED
      BY <1>1, <1>2, Induction
  <1> DEFINE f == CHOOSE f : Is(f, n)
  <1>4. Is(f, n)
    BY <1>3
  <1>5. AllAgain(U, todo) = f[n]
    BY DEF AllAgain
  <1> HIDE DEF f
  <1>6. f[0] = U
    BY <1>4
  <1>7. ASSUME NEW i \in 0 .. n - 1 PROVE f[i + 1] = Again(f[i], todo[i + 1])
    <2>1. i + 1 \in 0 .. n /\ i + 1 # 0 /\ (i + 1) - 1 = i
      OBVIOUS
    <2> QED
      BY <1>4, <2>1
  <1> QED
    BY <1>5, <1>6, <1>7

-----------------------------------------------------------------------------
(* Quotients and remainders *)

LEMMA QuotientBelow ==
  ASSUME NEW t \in Nat, NEW d \in Nat \ {0}, NEW k \in Nat
  PROVE  k <= t \div d <=> k * d <= t
  <1> DEFINE q == t \div d  r == t % d
  <1>1. q \in Nat /\ r \in 0 .. d - 1 /\ t = q * d + r
    BY DivMod
  <1> HIDE DEF q, r
  <1>2. CASE k <= q
    <2>1. k * d <= q * d
      BY <1>1, <1>2, TimesMonotone
    <2> QED
      BY <1>1, <1>2, <2>1
  <1>3. CASE k > q
    <2>1. (q + 1) * d <= k * d
      BY <1>1, <1>3, TimesMonotone
    <2>2. (q + 1) * d = q * d + d
      BY <1>1
    <2>3. q * d \in Nat
      BY <1>1, TimesMonotone
    <2> QED
      BY <1>1, <1>3, <2>1, <2>2, <2>3
  <1>4. k <= q <=> k * d <= t
    BY <1>1, <1>2, <1>3
  <1> QED
    BY <1>4 DEF q

LEMMA QuotientMonotone ==
  ASSUME NEW a \in Nat, NEW b \in Nat, NEW d \in Nat \ {0}, a <= b
  PROVE  a \div d <= b \div d
  <1>1. a \div d \in Nat /\ b \div d \in Nat
    BY DivMod
  <1>2. (a \div d) * d <= a
    BY <1>1, QuotientBelow
  <1>3. (a \div d) * d \in Nat
    BY <1>1, TimesMonotone
  <1>4. (a \div d) * d <= b
    BY <1>2, <1>3
  <1> QED
    BY <1>1, <1>4, QuotientBelow

LEMMA QuotientOfQuotient ==
  ASSUME NEW t \in Nat, NEW d \in Nat \ {0}, NEW c \in Nat \ {0}
  PROVE  (t \div d) \div c = t \div (d * c) /\ d * c \in Nat \ {0}
  <1> DEFINE a == (t \div d) \div c  b == t \div (d * c)
  <1>0. d * c \in Nat \ {0}
    BY TimesMonotone
  <1>1. t \div d \in Nat /\ a \in Nat /\ b \in Nat
    BY <1>0, DivMod
  <1>2. ASSUME NEW k \in Nat PROVE k <= a <=> k <= b
    <2>1. k * c \in Nat /\ (k * c) * d = k * (d * c)
      <3>1. \A x, y, z \in Nat : (x * y) * z = x * (z * y)
        OBVIOUS
      <3> QED
        BY <3>1, TimesMonotone
    <2>2. k <= a <=> k * c <= t \div d
      BY <1>1, QuotientBelow
    <2>3. k * c <= t \div d <=> (k * c) * d <= t
      BY <2>1, QuotientBelow
    <2>4. k <= b <=> k * (d * c) <= t
      BY <1>0, QuotientBelow
    <2> QED
      BY <2>1, <2>2, <2>3, <2>4
  <1> HIDE DEF a, b
  <1>3. a <= b /\ b <= a
    BY <1>1, <1>2
  <1>4. a = b
    BY <1>1, <1>3
  <1> QED
    BY <1>0, <1>4 DEF a, b

LEMMA QuotientOfSum ==
  ASSUME NEW a \in Nat, NEW b \in Nat, NEW d \in Nat \ {0}
  PROVE  /\ (a + b) \div d <= (a \div d) + (b \div d) + 1
         /\ (a \div d) + (b \div d) <= (a + b) \div d
  <1> DEFINE p == a \div d  q == b \div d
  <1>1. /\ p \in Nat /\ q \in Nat /\ a % d \in 0 .. d - 1 /\ b % d \in 0 .. d - 1
        /\ a = p * d + (a % d) /\ b = q * d + (b % d)
    BY DivMod
  <1> HIDE DEF p, q
  <1>2. (p + q) * d = p * d + q * d /\ (p + q + 2) * d = p * d + q * d + d + d
        /\ p * d \in Nat /\ q * d \in Nat
    BY <1>1, TimesMonotone
  <1>3. ~ (p + q + 2 <= (a + b) \div d)
    <2>1. ~ ((p + q + 2) * d <= a + b)
      BY <1>1, <1>2
    <2>2. p + q + 2 \in Nat /\ a + b \in Nat
      BY <1>1
    <2> QED
      BY <2>1, <2>2, QuotientBelow
  <1>4. p + q <= (a + b) \div d
    <2>1. (p + q) * d <= a + b
      BY <1>1, <1>2
    <2>2. p + q \in Nat /\ a + b \in Nat
      BY <1>1
    <2> QED
      BY <2>1, <2>2, QuotientBelow
  <1>5. (a + b) \div d \in Nat
    <2>1. a + b \in Nat
      OBVIOUS
    <2> QED
      BY <2>1, DivMod
  <1> QED
    BY <1>1, <1>3, <1>4, <1>5 DEF p, q

LEMMA IntDivMod ==
  ASSUME NEW L \in Nat \ {0}, NEW i \in Int
  PROVE  /\ i \div L \in Int /\ i % L \in 0 .. L - 1
         /\ i = (i \div L) * L + (i % L)
  OBVIOUS

LEMMA RemainderIs ==
  ASSUME NEW L \in Nat \ {0}, NEW i \in Int, NEW q \in Int, NEW r \in 0 .. L - 1, i = q * L + r
  PROVE  i % L = r
  <1> DEFINE p == i \div L  m == i % L
  <1>1. p \in Int /\ m \in 0 .. L - 1 /\ i = p * L + m
    BY IntDivMod
  <1> HIDE DEF p, m
  <1>2. m = r
    BY <1>1, QuotientUnique
  <1> QED
    BY <1>2 DEF m

LEMMA RemainderShift ==
  ASSUME NEW L \in Nat \ {0}, NEW a \in Int, NEW n \in Int
  PROVE  ((a % L) - n) % L = (a - n) % L
  <1> DEFINE q == a \div L  r == a % L
  <1>1. q \in Int /\ r \in 0 .. L - 1 /\ a = q * L + r
    BY IntDivMod
  <1> HIDE DEF q, r
  <1> DEFINE p == (r - n) \div L  s == (r - n) % L
  <1>2. p \in Int /\ s \in 0 .. L - 1 /\ r - n = p * L + s
    <2>1. r - n \in Int
      BY <1>1
    <2> QED
      BY <2>1, IntDivMod
  <1> HIDE DEF p, s
  <1>3. (q + p) * L = q * L + p * L /\ q + p \in Int
    BY <1>1, <1>2
  <1>4. a - n = (q + p) * L + s /\ a - n \in Int
    <2>1. q * L \in Int /\ p * L \in Int
      BY <1>1, <1>2
    <2> QED
      BY <1>1, <1>2, <1>3, <2>1
  <1>5. (a - n) % L = s
    BY <1>2, <1>3, <1>4, RemainderIs
  <1> QED
    BY <1>5 DEF s, r

LEMMA RemainderOfMultiple ==
  ASSUME NEW L \in Nat \ {0}, NEW q \in Int
  PROVE  (q * L) % L = 0
  <1>1. q * L \in Int /\ q * L = q * L + 0 /\ 0 \in 0 .. L - 1
    OBVIOUS
  <1> QED
    BY <1>1, RemainderIs

LEMMA RemainderAtMost ==
  ASSUME NEW L \in Nat \ {0}, NEW i \in Nat
  PROVE  i % L <= i
  <1> DEFINE q == i \div L  r == i % L
  <1>1. q \in Nat /\ r \in 0 .. L - 1 /\ i = q * L + r
    BY DivMod
  <1> HIDE DEF q, r
  <1>2. q * L \in Nat
    BY <1>1, TimesMonotone
  <1>3. r <= i
    BY <1>1, <1>2
  <1> QED
    BY <1>3 DEF r

-----------------------------------------------------------------------------
(* The tickets of the ring *)

\* The tickets taken before a counter has a value, and the operations of some threads that
\* are past the choice of their ticket: each takes one ticket at most.
Taken(x) == (x - Start) % M
Choosing(t) == pc[t] \in {"pushCheck", "pushClaim", "popCheck", "popClaim"}
Picked(ts) == {x \in ts \X (1 .. Ops) : x[2] < ops[x[1]] \/ (x[2] = ops[x[1]] /\ ~Choosing(x[1]))}

\* So few calls, from a moment when the ring was empty and no call under way, that the counters
\* do not go half round: a thread that stalls with a ticket is not overtaken by a whole turn.
FewCalls == /\ IsFiniteSet(Producers) /\ 2 * (Cardinality(Producers) * Ops) < M
            /\ IsFiniteSet(Consumers) /\ 2 * (Cardinality(Consumers) * Ops) < M

Counted == /\ Taken(head) <= Cardinality(Picked(Producers))
           /\ Taken(tail) <= Cardinality(Picked(Consumers))

\* A thread's ticket is not ahead of its counter, and one that was found to fit still does,
\* because the other counter only advances.
AimedAt(t, place, x, h, l) ==
    /\ t \in Producers => Taken(x) <= Taken(h)
    /\ t \in Producers /\ place = "pushClaim" => Taken(x) < Taken(l) + Size
    /\ t \in Consumers => Taken(x) <= Taken(l)
    /\ t \in Consumers /\ place = "popClaim" => Taken(x) < Taken(h)

Aimed == \A t \in Threads : AimedAt(t, pc[t], ticket[t], head, tail)

Calls == \A t \in Threads : ops[t] <= Ops /\ (pc[t] # "idle" => ops[t] >= 1)

\* Each thread makes the calls of its kind.
Kinds == /\ \A p \in Producers : pc[p] \in {"idle", "pushCheck", "pushClaim", "store", "write"}
         /\ \A c \in Consumers : pc[c] \in {"idle", "popCheck", "popClaim", "load", "read"}

FitInv == TypeOK /\ Calls /\ Kinds /\ Counted /\ Aimed

LEMMA TakenType == ASSUME NEW x \in 0 .. M - 1 PROVE Taken(x) \in 0 .. M - 1
  BY Constants, ModRange DEF Taken

LEMMA TakenNext ==
  ASSUME NEW x \in 0 .. M - 1, Taken(x) + 1 < M
  PROVE  Taken(Inc(x)) = Taken(x) + 1
  <1> DEFINE q == (x - Start) \div M  r == (x - Start) % M
  <1>1. x \in Int /\ Start \in Int /\ x - Start \in Int /\ x + 1 \in Int /\ M \in Nat \ {0}
    BY Constants
  <1>2. q \in Int /\ r \in 0 .. M - 1 /\ x - Start = q * M + r
    BY <1>1, IntDivMod
  <1>3. r + 1 < M
    BY DEF Taken
  <1>4. Taken(Inc(x)) = ((x + 1) - Start) % M
    BY <1>1, RemainderShift DEF Taken, Inc
  <1> HIDE DEF q, r
  <1>5. q * M \in Int
    BY <1>1, <1>2
  <1>6. (x + 1) - Start = q * M + (r + 1) /\ r + 1 \in 0 .. M - 1 /\ (x + 1) - Start \in Int
    BY <1>1, <1>2, <1>3, <1>5
  <1>7. ((x + 1) - Start) % M = r + 1
    BY <1>1, <1>2, <1>6, RemainderIs
  <1> QED
    BY <1>4, <1>7 DEF r, Taken

LEMMA DiffIs ==
  ASSUME NEW a \in 0 .. M - 1, NEW b \in 0 .. M - 1, 2 * Taken(a) < M, 2 * Taken(b) < M
  PROVE  SignedDiff(a, b) = Taken(a) - Taken(b)
  <1> DEFINE q == (a - Start) \div M  r == (a - Start) % M
             p == (b - Start) \div M  s == (b - Start) % M
  <1>1. a \in Int /\ b \in Int /\ Start \in Int /\ a - Start \in Int /\ b - Start \in Int
        /\ a - b \in Int /\ M \in Nat \ {0}
    BY Constants
  <1>2. /\ q \in Int /\ r \in 0 .. M - 1 /\ a - Start = q * M + r
        /\ p \in Int /\ s \in 0 .. M - 1 /\ b - Start = p * M + s
    BY <1>1, IntDivMod
  <1>3. 2 * r < M /\ 2 * s < M
    BY DEF Taken
  <1> HIDE DEF q, r, p, s
  <1>4. /\ q * M \in Int /\ p * M \in Int /\ (q - p) * M = q * M - p * M
        /\ (q - p - 1) * M = q * M - p * M - M /\ q - p \in Int /\ q - p - 1 \in Int
    BY <1>1, <1>2
  <1>5. SignedDiff(a, b) = r - s
    <2>1. CASE r >= s
      <3>1. a - b = (q - p) * M + (r - s) /\ r - s \in 0 .. M - 1
        BY <1>1, <1>2, <1>4, <2>1
      <3>2. (a - b) % M = r - s
        BY <1>1, <1>4, <3>1, RemainderIs
      <3>3. 2 * (r - s) < M
        BY <1>1, <1>2, <1>3, <2>1
      <3> QED
        BY <1>1, <1>2, <3>2, <3>3 DEF SignedDiff
    <2>2. CASE r < s
      <3>1. a - b = (q - p - 1) * M + (M + r - s) /\ M + r - s \in 0 .. M - 1
        BY <1>1, <1>2, <1>4, <2>2
      <3>2. (a - b) % M = M + r - s
        BY <1>1, <1>4, <3>1, RemainderIs
      <3>3. 2 * (M + r - s) >= M /\ (M + r - s) - M = r - s
        BY <1>1, <1>2, <1>3, <2>2
      <3> QED
        BY <1>1, <1>2, <3>2, <3>3 DEF SignedDiff
    <2> QED
      BY <1>1, <1>2, <2>1, <2>2
  <1> QED
    BY <1>5 DEF r, s, Taken

LEMMA CardinalityGrows ==
  ASSUME NEW A, NEW B, IsFiniteSet(B), A \subseteq B
  PROVE  /\ Cardinality(A) <= Cardinality(B)
         /\ \A x \in B \ A : Cardinality(A) + 1 <= Cardinality(B)
  <1>1. IsFiniteSet(A) /\ Cardinality(A) <= Cardinality(B)
    BY FS_Subset
  <1>2. ASSUME NEW x \in B \ A PROVE Cardinality(A) + 1 <= Cardinality(B)
    <2>1. Cardinality(A \cup {x}) = Cardinality(A) + 1
      BY <1>1, FS_AddElement
    <2>2. A \cup {x} \in SUBSET B
      OBVIOUS
    <2> QED
      BY <2>1, <2>2, FS_Subset
  <1> QED
    BY <1>1, <1>2

\* The counters are within half a turn.
LEMMA HalfTurn ==
  ASSUME FewCalls, NEW S \in {Producers, Consumers}, NEW A \in SUBSET (S \X (1 .. Ops))
  PROVE  /\ IsFiniteSet(A) /\ Cardinality(A) \in Nat
         /\ \A x \in 0 .. M - 1 : Taken(x) <= Cardinality(A) => Taken(x) \in Nat /\ 2 * Taken(x) < M
  <1>1. Ops \in Nat /\ IsFiniteSet(S) /\ 2 * (Cardinality(S) * Ops) < M
    BY RingAssumption DEF FewCalls
  <1>2. IsFiniteSet(1 .. Ops) /\ Cardinality(1 .. Ops) = Ops
    BY <1>1, FS_Interval
  <1>3. IsFiniteSet(S \X (1 .. Ops)) /\ Cardinality(S \X (1 .. Ops)) = Cardinality(S) * Ops
    BY <1>1, <1>2, FS_Product
  <1>4. IsFiniteSet(A) /\ Cardinality(A) <= Cardinality(S) * Ops
    BY <1>3, FS_Subset
  <1>5. Cardinality(A) \in Nat /\ Cardinality(S \X (1 .. Ops)) \in Nat
    BY <1>3, <1>4, FS_CardinalityType
  <1>6. 2 * Cardinality(A) < M
    BY <1>1, <1>3, <1>4, <1>5, Constants
  <1> QED
    BY <1>4, <1>5, <1>6, TakenType, Constants

\* An operation stays past the choice of its ticket.
LEMMA PickedStays ==
  ASSUME TypeOK, [Next]_vars, NEW S \in {Producers, Consumers}
  PROVE  /\ Picked(S) \subseteq Picked(S)'
         /\ Picked(S)' \in SUBSET (S \X (1 .. Ops)) /\ Picked(S) \in SUBSET (S \X (1 .. Ops))
  <1> DEFINE Stays(t) == \/ ops'[t] = ops[t] /\ (Choosing(t)' => Choosing(t))
                         \/ ops'[t] = ops[t] + 1
  <1>1. \A t \in Threads : Stays(t)
    <2> USE DEF Threads
    <2>1. ASSUME NEW t \in Threads, TryPush(t) \/ TryPop(t) \/ BlockingPush(t) \/ BlockingPop(t)
          PROVE  \A u \in Threads : Stays(u)
      BY <2>1 DEF TryPush, TryPop, BlockingPush, BlockingPop, Begin, Goto, Choosing, TypeOK
    <2>2. ASSUME NEW t \in Threads, PushCheck(t) \/ PopCheck(t) \/ PushClaim(t) \/ PopClaim(t)
          PROVE  \A u \in Threads : Stays(u)
      BY <2>2 DEF PushCheck, PopCheck, PushClaim, PopClaim, Goto, Choosing, TypeOK
    <2>3. ASSUME NEW t \in Threads, TakeForStore(t) \/ TakeForLoad(t) \/ Write(t) \/ Read(t)
          PROVE  \A u \in Threads : Stays(u)
      BY <2>3 DEF TakeForStore, TakeForLoad, Write, Read, Goto, Choosing, TypeOK
    <2>4. CASE UNCHANGED vars
      BY <2>4 DEF vars, Choosing
    <2> QED
      BY <2>1, <2>2, <2>3, <2>4 DEF Next, Push, Pop
  <1>2. \A t \in Threads : ops[t] \in Nat
    BY DEF TypeOK
  <1> HIDE DEF Stays
  <1>3. ASSUME NEW t \in S, NEW i \in 1 .. Ops, i < ops[t] \/ (i = ops[t] /\ ~Choosing(t))
        PROVE  i < ops'[t] \/ (i = ops'[t] /\ ~Choosing(t)')
    <2>1. t \in Threads
      BY DEF Threads
    <2>2. i \in Nat /\ ops[t] \in Nat /\ Stays(t)
      BY <1>1, <1>2, <2>1
    <2> QED
      BY <1>3, <2>2 DEF Stays
  <1> QED
    BY <1>3 DEF Picked

\* A counter moves by one, for an operation that was choosing its ticket, or not at all.
HeadMoves == \/ head' = head
             \/ head' = Inc(head) /\ \E x \in Picked(Producers)' : x \notin Picked(Producers)
TailMoves == \/ tail' = tail
             \/ tail' = Inc(tail) /\ \E x \in Picked(Consumers)' : x \notin Picked(Consumers)

LEMMA CountersMove == FitInv /\ Calls' /\ [Next]_vars => HeadMoves /\ TailMoves
  <1> SUFFICES ASSUME FitInv, Calls', [Next]_vars PROVE HeadMoves /\ TailMoves
    OBVIOUS
  <1> USE DEF Threads, FitInv
  <1>1. ASSUME NEW p \in Producers, BlockingPush(p) PROVE HeadMoves /\ TailMoves
    <2>1. <<p, ops[p] + 1>> \in Picked(Producers)' /\ <<p, ops[p] + 1>> \notin Picked(Producers)
      BY <1>1, RingAssumption DEF BlockingPush, Begin, Goto, TypeOK, Picked, Choosing
    <2> QED
      BY <1>1, <2>1 DEF BlockingPush, HeadMoves, TailMoves
  <1>2. ASSUME NEW c \in Consumers, BlockingPop(c) PROVE HeadMoves /\ TailMoves
    <2>1. <<c, ops[c] + 1>> \in Picked(Consumers)' /\ <<c, ops[c] + 1>> \notin Picked(Consumers)
      BY <1>2, RingAssumption DEF BlockingPop, Begin, Goto, TypeOK, Picked, Choosing
    <2> QED
      BY <1>2, <2>1 DEF BlockingPop, HeadMoves, TailMoves
  <1>3. ASSUME NEW p \in Producers, PushClaim(p) PROVE HeadMoves /\ TailMoves
    <2>1. CASE head = ticket[p]
      <3>1. <<p, ops[p]>> \in Picked(Producers)' /\ <<p, ops[p]>> \notin Picked(Producers)
        BY <1>3, <2>1, RingAssumption DEF PushClaim, Goto, TypeOK, Picked, Choosing, Calls
      <3> QED
        BY <1>3, <2>1, <3>1 DEF PushClaim, HeadMoves, TailMoves
    <2> QED
      BY <1>3, <2>1 DEF PushClaim, HeadMoves, TailMoves
  <1>4. ASSUME NEW c \in Consumers, PopClaim(c) PROVE HeadMoves /\ TailMoves
    <2>1. CASE tail = ticket[c]
      <3>1. <<c, ops[c]>> \in Picked(Consumers)' /\ <<c, ops[c]>> \notin Picked(Consumers)
        BY <1>4, <2>1, RingAssumption DEF PopClaim, Goto, TypeOK, Picked, Choosing, Calls
      <3> QED
        BY <1>4, <2>1, <3>1 DEF PopClaim, HeadMoves, TailMoves
    <2> QED
      BY <1>4, <2>1 DEF PopClaim, HeadMoves, TailMoves
  <1>5. ASSUME NEW p \in Producers, TryPush(p) \/ PushCheck(p) \/ TakeForStore(p) \/ Write(p)
        PROVE  HeadMoves /\ TailMoves
    BY <1>5 DEF TryPush, PushCheck, TakeForStore, Write, HeadMoves, TailMoves
  <1>6. ASSUME NEW c \in Consumers, TryPop(c) \/ PopCheck(c) \/ TakeForLoad(c) \/ Read(c)
        PROVE  HeadMoves /\ TailMoves
    BY <1>6 DEF TryPop, PopCheck, TakeForLoad, Read, HeadMoves, TailMoves
  <1>7. CASE UNCHANGED vars
    BY <1>7 DEF vars, HeadMoves, TailMoves
  <1> QED
    BY <1>1, <1>2, <1>3, <1>4, <1>5, <1>6, <1>7 DEF Next, Push, Pop

LEMMA CallsStep == TypeOK /\ Calls /\ Kinds /\ [Next]_vars => Calls' /\ Kinds'
  <1> SUFFICES ASSUME TypeOK, Calls, Kinds, [Next]_vars PROVE Calls' /\ Kinds'
    OBVIOUS
  <1> USE DEF Threads
  <1>0. Ops \in Nat /\ Producers \cap Consumers = {}
    BY RingAssumption
  <1>1. ASSUME NEW p \in Producers, TryPush(p) \/ BlockingPush(p) PROVE Calls' /\ Kinds'
    <2>1. PICK l \in {"pushCheck", "store", "popCheck", "load"} :
             /\ ops[p] < Ops /\ ops' = [ops EXCEPT ![p] = @ + 1] /\ pc' = [pc EXCEPT ![p] = l]
             /\ p \in Producers => l \in {"pushCheck", "store"}
      BY <1>1 DEF TryPush, BlockingPush, Begin, Goto
    <2>2. Calls'
      BY <1>0, <2>1 DEF TypeOK, Calls
    <2>3. Kinds'
      BY <1>0, <2>1 DEF TypeOK, Kinds
    <2> QED
      BY <2>2, <2>3
  <1>2. ASSUME NEW c \in Consumers, TryPop(c) \/ BlockingPop(c) PROVE Calls' /\ Kinds'
    <2>1. PICK l \in {"pushCheck", "store", "popCheck", "load"} :
             /\ ops[c] < Ops /\ ops' = [ops EXCEPT ![c] = @ + 1] /\ pc' = [pc EXCEPT ![c] = l]
             /\ c \in Consumers => l \in {"popCheck", "load"}
      BY <1>2 DEF TryPop, BlockingPop, Begin, Goto
    <2>2. Calls'
      BY <1>0, <2>1 DEF TypeOK, Calls
    <2>3. Kinds'
      BY <1>0, <2>1 DEF TypeOK, Kinds
    <2> QED
      BY <2>2, <2>3
  <1>3. ASSUME NEW p \in Producers, PushCheck(p) \/ PushClaim(p) PROVE Calls' /\ Kinds'
    BY <1>0, <1>3 DEF PushCheck, PushClaim, Goto, TypeOK, Calls, Kinds
  <1>4. ASSUME NEW c \in Consumers, PopCheck(c) \/ PopClaim(c) PROVE Calls' /\ Kinds'
    BY <1>0, <1>4 DEF PopCheck, PopClaim, Goto, TypeOK, Calls, Kinds
  <1>5. ASSUME NEW p \in Producers, TakeForStore(p) \/ Write(p) PROVE Calls' /\ Kinds'
    BY <1>0, <1>5 DEF TakeForStore, Write, Goto, TypeOK, Calls, Kinds
  <1>6. ASSUME NEW c \in Consumers, TakeForLoad(c) \/ Read(c) PROVE Calls' /\ Kinds'
    BY <1>0, <1>6 DEF TakeForLoad, Read, Goto, TypeOK, Calls, Kinds
  <1>7. CASE UNCHANGED vars
    BY <1>7 DEF vars, Calls, Kinds
  <1> QED
    BY <1>1, <1>2, <1>3, <1>4, <1>5, <1>6, <1>7 DEF Next, Push, Pop

\* The counters advance, and stay within half a turn.
Advanced ==
    /\ Taken(head) \in Nat /\ 2 * Taken(head) < M /\ Taken(tail) \in Nat /\ 2 * Taken(tail) < M
    /\ Taken(head') \in Nat /\ 2 * Taken(head') < M /\ Taken(tail') \in Nat /\ 2 * Taken(tail') < M
    /\ Taken(head) <= Taken(head') /\ (head' = Inc(head) => Taken(head') = Taken(head) + 1)
    /\ Taken(tail) <= Taken(tail') /\ (tail' = Inc(tail) => Taken(tail') = Taken(tail) + 1)

LEMMA CountersAdvance ==
  ASSUME FewCalls, FitInv, TypeOK', Calls', [Next]_vars
  PROVE  Counted' /\ Advanced
  <1> DEFINE P == Picked(Producers)  PP == Picked(Producers)'  C == Picked(Consumers)  CC == Picked(Consumers)'
  <1>1. /\ P \subseteq PP /\ P \in SUBSET (Producers \X (1 .. Ops)) /\ PP \in SUBSET (Producers \X (1 .. Ops))
        /\ C \subseteq CC /\ C \in SUBSET (Consumers \X (1 .. Ops)) /\ CC \in SUBSET (Consumers \X (1 .. Ops))
    BY PickedStays DEF FitInv
  <1>2. /\ \/ head' = head
           \/ head' = Inc(head) /\ \E x \in PP : x \notin P
        /\ \/ tail' = tail
           \/ tail' = Inc(tail) /\ \E x \in CC : x \notin C
    BY CountersMove DEF HeadMoves, TailMoves
  <1>3. /\ head \in 0 .. M - 1 /\ tail \in 0 .. M - 1 /\ head' \in 0 .. M - 1 /\ tail' \in 0 .. M - 1
        /\ Taken(head) <= Cardinality(P) /\ Taken(tail) <= Cardinality(C)
    BY DEF FitInv, TypeOK, Counted
  <1>4. /\ (Taken(head') <= Cardinality(PP) /\ Taken(tail') <= Cardinality(CC)) => Counted'
    BY DEF Counted, Taken
  <1> HIDE DEF P, PP, C, CC
  <1>5. /\ IsFiniteSet(PP) /\ Cardinality(P) \in Nat /\ Cardinality(PP) \in Nat
        /\ IsFiniteSet(CC) /\ Cardinality(C) \in Nat /\ Cardinality(CC) \in Nat
        /\ Taken(head) \in Nat /\ 2 * Taken(head) < M /\ Taken(tail) \in Nat /\ 2 * Taken(tail) < M
    BY <1>1, <1>3, HalfTurn
  <1>6. /\ Cardinality(P) <= Cardinality(PP) /\ \A x \in PP \ P : Cardinality(P) + 1 <= Cardinality(PP)
        /\ Cardinality(C) <= Cardinality(CC) /\ \A x \in CC \ C : Cardinality(C) + 1 <= Cardinality(CC)
    BY <1>1, <1>5, CardinalityGrows
  <1>7. Taken(Inc(head)) = Taken(head) + 1 /\ Taken(Inc(tail)) = Taken(tail) + 1
    <2>1. 2 \in Nat /\ M >= 2
      BY RingAssumption
    <2>2. Taken(head) + 1 < M /\ Taken(tail) + 1 < M
      BY <1>5, <2>1, Constants
    <2> QED
      BY <1>3, <2>2, TakenNext
  <1>8. /\ Taken(head') <= Cardinality(PP) /\ Taken(head) <= Taken(head')
        /\ Taken(tail') <= Cardinality(CC) /\ Taken(tail) <= Taken(tail')
    BY <1>2, <1>3, <1>5, <1>6, <1>7
  <1>9. Taken(head') \in Nat /\ 2 * Taken(head') < M /\ Taken(tail') \in Nat /\ 2 * Taken(tail') < M
    BY <1>1, <1>3, <1>8, HalfTurn
  <1> QED
    BY <1>4, <1>5, <1>7, <1>8, <1>9 DEF Advanced

\* A ticket is within half a turn, too, so that the code's signed differences are those of
\* the numbers of tickets.
LEMMA TicketDiff ==
  ASSUME FitInv, Advanced
  PROVE  /\ \A t \in Threads : Taken(ticket[t]) \in Nat
         /\ \A p \in Producers : SignedDiff(ticket[p], tail) = Taken(ticket[p]) - Taken(tail)
         /\ \A c \in Consumers : SignedDiff(head, ticket[c]) = Taken(head) - Taken(ticket[c])
  <1>1. /\ \A t \in Threads : ticket[t] \in 0 .. M - 1
        /\ head \in 0 .. M - 1 /\ tail \in 0 .. M - 1 /\ M \in Nat
    BY Constants DEF FitInv, TypeOK
  <1>2. \A t \in Threads : Taken(ticket[t]) \in Nat
    BY <1>1, TakenType
  <1>3. ASSUME NEW p \in Producers PROVE SignedDiff(ticket[p], tail) = Taken(ticket[p]) - Taken(tail)
    <2>1. p \in Threads /\ Taken(ticket[p]) <= Taken(head)
      BY DEF Threads, FitInv, Aimed, AimedAt
    <2>2. 2 * Taken(ticket[p]) < M
      BY <1>1, <1>2, <2>1 DEF Advanced
    <2> QED
      BY <1>1, <2>1, <2>2, DiffIs DEF Advanced
  <1>4. ASSUME NEW c \in Consumers PROVE SignedDiff(head, ticket[c]) = Taken(head) - Taken(ticket[c])
    <2>1. c \in Threads /\ Taken(ticket[c]) <= Taken(tail)
      BY DEF Threads, FitInv, Aimed, AimedAt
    <2>2. 2 * Taken(ticket[c]) < M
      BY <1>1, <1>2, <2>1 DEF Advanced
    <2> QED
      BY <1>1, <2>1, <2>2, DiffIs DEF Advanced
  <1> QED
    BY <1>2, <1>3, <1>4

\* The steps of one thread leave the others aimed.
LEMMA AimedStep ==
  ASSUME FewCalls, FitInv, Advanced, NEW t \in Threads,
         NEW l, pc' = [pc EXCEPT ![t] = l],
         NEW x \in 0 .. M - 1, ticket' = [ticket EXCEPT ![t] = x],
         AimedAt(t, l, x, head', tail')
  PROVE  Aimed'
  <1>1. ASSUME NEW u \in Threads PROVE AimedAt(u, pc'[u], ticket'[u], head', tail')
    <2>1. CASE u = t
      BY <2>1 DEF FitInv, TypeOK
    <2>2. CASE u # t
      <3>1. pc'[u] = pc[u] /\ ticket'[u] = ticket[u]
        BY <2>2 DEF FitInv, TypeOK
      <3>2. AimedAt(u, pc[u], ticket[u], head, tail) /\ Taken(ticket[u]) \in Nat
        BY TicketDiff DEF FitInv, Aimed
      <3>3. /\ Taken(head) \in Nat /\ Taken(head') \in Nat /\ Taken(head) <= Taken(head')
            /\ Taken(tail) \in Nat /\ Taken(tail') \in Nat /\ Taken(tail) <= Taken(tail') /\ Size \in Nat
        BY Constants DEF Advanced
      <3>4. AimedAt(u, pc[u], ticket[u], head', tail')
        <4> DEFINE n == Taken(ticket[u])
        <4>1. n \in Nat
          BY <3>2
        <4>2. /\ u \in Producers => n <= Taken(head)
              /\ u \in Producers /\ pc[u] = "pushClaim" => n < Taken(tail) + Size
              /\ u \in Consumers => n <= Taken(tail)
              /\ u \in Consumers /\ pc[u] = "popClaim" => n < Taken(head)
          BY <3>2 DEF AimedAt
        <4> HIDE DEF n
        <4>3. /\ u \in Producers => n <= Taken(head')
              /\ u \in Producers /\ pc[u] = "pushClaim" => n < Taken(tail') + Size
              /\ u \in Consumers => n <= Taken(tail')
              /\ u \in Consumers /\ pc[u] = "popClaim" => n < Taken(head')
          BY <3>3, <4>1, <4>2
        <4> QED
          BY <4>3 DEF AimedAt, n
      <3> QED
        BY <3>1, <3>4
    <2> QED
      BY <2>1, <2>2
  <1> QED
    BY <1>1 DEF Aimed

LEMMA AimedSteps ==
  ASSUME FewCalls, FitInv, Advanced, [Next]_vars
  PROVE  Aimed'
  <1> USE DEF Threads
  <1>0. /\ \A t \in Threads : ticket = [ticket EXCEPT ![t] = ticket[t]] /\ ticket[t] \in 0 .. M - 1
        /\ head \in 0 .. M - 1 /\ tail \in 0 .. M - 1 /\ Producers \cap Consumers = {}
        /\ Size \in Nat \ {0}
    BY RingAssumption DEF FitInv, TypeOK
  <1>a. \A t \in Threads : AimedAt(t, pc[t], ticket[t], head, tail) /\ Taken(ticket[t]) \in Nat
    BY TicketDiff DEF FitInv, Aimed
  <1>1. ASSUME NEW p \in Producers, TryPush(p) PROVE Aimed'
    <2>1. AimedAt(p, "pushCheck", head, head', tail')
      BY <1>0 DEF AimedAt, Advanced
    <2> QED
      BY <1>0, <1>1, <2>1, AimedStep DEF TryPush, Begin, Goto
  <1>2. ASSUME NEW p \in Producers, BlockingPush(p) PROVE Aimed'
    <2>1. AimedAt(p, "store", head, head', tail')
      BY <1>0 DEF AimedAt, Advanced
    <2> QED
      BY <1>0, <1>2, <2>1, AimedStep DEF BlockingPush, Begin, Goto
  <1>3. ASSUME NEW p \in Producers, PushCheck(p) PROVE Aimed'
    <2> DEFINE l == IF SignedDiff(ticket[p], tail) >= Size THEN "idle" ELSE "pushClaim"
    <2>1. pc' = [pc EXCEPT ![p] = l] /\ ticket' = ticket /\ head' = head /\ tail' = tail
      BY <1>3 DEF PushCheck, Goto
    <2>2. AimedAt(p, l, ticket[p], head, tail)
      BY <1>0, <1>a, TicketDiff DEF AimedAt, Advanced
    <2> HIDE DEF l
    <2> QED
      BY <1>0, <2>1, <2>2, AimedStep
  <1>4. ASSUME NEW p \in Producers, PushClaim(p) PROVE Aimed'
    <2>1. CASE head = ticket[p]
      <3>1. AimedAt(p, "store", ticket[p], head', tail')
        BY <1>0, <1>a, <2>1 DEF AimedAt, Advanced
      <3> QED
        BY <1>0, <1>4, <2>1, <3>1, AimedStep DEF PushClaim, Goto
    <2>2. CASE head # ticket[p]
      <3>1. AimedAt(p, "pushCheck", head, head', tail')
        BY <1>0 DEF AimedAt, Advanced
      <3> QED
        BY <1>0, <1>4, <2>2, <3>1, AimedStep DEF PushClaim, Goto
    <2> QED
      BY <2>1, <2>2
  <1>5. ASSUME NEW p \in Producers, TakeForStore(p) \/ Write(p) PROVE Aimed'
    <2>1. PICK l \in {"write", "idle"} : pc' = [pc EXCEPT ![p] = l]
      BY <1>5 DEF TakeForStore, Write, Goto
    <2>2. AimedAt(p, l, ticket[p], head', tail')
      BY <1>0, <1>5, <1>a DEF TakeForStore, Write, AimedAt
    <2>3. ticket' = ticket
      BY <1>5 DEF TakeForStore, Write
    <2> QED
      BY <1>0, <2>1, <2>2, <2>3, AimedStep
  <1>6. ASSUME NEW c \in Consumers, TryPop(c) PROVE Aimed'
    <2>1. AimedAt(c, "popCheck", tail, head', tail')
      BY <1>0 DEF AimedAt, Advanced
    <2> QED
      BY <1>0, <1>6, <2>1, AimedStep DEF TryPop, Begin, Goto
  <1>7. ASSUME NEW c \in Consumers, BlockingPop(c) PROVE Aimed'
    <2>1. AimedAt(c, "load", tail, head', tail')
      BY <1>0 DEF AimedAt, Advanced
    <2> QED
      BY <1>0, <1>7, <2>1, AimedStep DEF BlockingPop, Begin, Goto
  <1>8. ASSUME NEW c \in Consumers, PopCheck(c) PROVE Aimed'
    <2> DEFINE l == IF SignedDiff(head, ticket[c]) <= 0 THEN "idle" ELSE "popClaim"
    <2>1. pc' = [pc EXCEPT ![c] = l] /\ ticket' = ticket /\ head' = head /\ tail' = tail
      BY <1>8 DEF PopCheck, Goto
    <2>2. AimedAt(c, l, ticket[c], head, tail)
      BY <1>0, <1>a, TicketDiff DEF AimedAt, Advanced
    <2> HIDE DEF l
    <2> QED
      BY <1>0, <2>1, <2>2, AimedStep
  <1>9. ASSUME NEW c \in Consumers, PopClaim(c) PROVE Aimed'
    <2>1. CASE tail = ticket[c]
      <3>1. AimedAt(c, "load", ticket[c], head', tail')
        BY <1>0, <1>a, <2>1 DEF AimedAt, Advanced
      <3> QED
        BY <1>0, <1>9, <2>1, <3>1, AimedStep DEF PopClaim, Goto
    <2>2. CASE tail # ticket[c]
      <3>1. AimedAt(c, "popCheck", tail, head', tail')
        BY <1>0 DEF AimedAt, Advanced
      <3> QED
        BY <1>0, <1>9, <2>2, <3>1, AimedStep DEF PopClaim, Goto
    <2> QED
      BY <2>1, <2>2
  <1>10. ASSUME NEW c \in Consumers, TakeForLoad(c) \/ Read(c) PROVE Aimed'
    <2>1. PICK l \in {"read", "idle"} : pc' = [pc EXCEPT ![c] = l]
      BY <1>10 DEF TakeForLoad, Read, Goto
    <2>2. AimedAt(c, l, ticket[c], head', tail')
      BY <1>0, <1>10, <1>a DEF TakeForLoad, Read, AimedAt
    <2>3. ticket' = ticket
      BY <1>10 DEF TakeForLoad, Read
    <2> QED
      BY <1>0, <2>1, <2>2, <2>3, AimedStep
  <1>11. CASE UNCHANGED vars
    BY <1>11 DEF vars, FitInv, Aimed, AimedAt
  <1> QED
    BY <1>1, <1>2, <1>3, <1>4, <1>5, <1>6, <1>7, <1>8, <1>9, <1>10, <1>11 DEF Next, Push, Pop

LEMMA FitInit == ASSUME FewCalls PROVE Init => FitInv
  <1> SUFFICES ASSUME Init PROVE FitInv
    OBVIOUS
  <1>1. TypeOK
    BY InitTypeOK
  <1>2. Calls /\ Kinds
    BY RingAssumption DEF Init, Calls, Kinds, Threads
  <1>3. Taken(Start) = 0
    BY Constants DEF Taken
  <1>4. Counted
    <2>1. /\ Picked(Producers) \in SUBSET (Producers \X (1 .. Ops))
          /\ Picked(Consumers) \in SUBSET (Consumers \X (1 .. Ops))
      BY DEF Picked
    <2>2. Cardinality(Picked(Producers)) \in Nat /\ Cardinality(Picked(Consumers)) \in Nat
      BY <2>1, HalfTurn
    <2> QED
      BY <1>3, <2>2 DEF Init, Counted
  <1>5. Aimed
    BY <1>3, Constants DEF Init, Aimed, AimedAt, Threads
  <1> QED
    BY <1>1, <1>2, <1>4, <1>5 DEF FitInv

LEMMA FitStep == ASSUME FewCalls PROVE FitInv /\ [Next]_vars => FitInv'
  <1> SUFFICES ASSUME FitInv, [Next]_vars PROVE FitInv'
    OBVIOUS
  <1>1. TypeOK' /\ Calls' /\ Kinds'
    BY TypeStep, CallsStep DEF FitInv
  <1>2. Counted' /\ Advanced
    BY <1>1, CountersAdvance
  <1>3. Aimed'
    BY <1>2, AimedSteps
  <1> QED
    BY <1>1, <1>2, <1>3 DEF FitInv

\* A ticket that is taken after the check of try_push or try_pop.
TicketsFitStep ==
    /\ \A p \in Producers : pc[p] = "pushClaim" /\ pc'[p] = "store" => SignedDiff(head', tail') <= Size
    /\ \A c \in Consumers : pc[c] = "popClaim" /\ pc'[c] = "load" => SignedDiff(head', tail') >= 0

\* It is taken by the thread that checked.
LEMMA Claims ==
  ASSUME FitInv, [Next]_vars, NEW t \in Threads
  PROVE  /\ t \in Producers /\ pc[t] = "pushClaim" /\ pc'[t] = "store" =>
              head = ticket[t] /\ head' = Inc(head) /\ tail' = tail
         /\ t \in Consumers /\ pc[t] = "popClaim" /\ pc'[t] = "load" =>
              tail = ticket[t] /\ tail' = Inc(tail) /\ head' = head
  <1> USE DEF Threads, FitInv, TypeOK, Goto
  <1>1. ASSUME NEW u \in Threads, TryPush(u) \/ TryPop(u) \/ BlockingPush(u) \/ BlockingPop(u)
        PROVE  pc[t] \in {"pushClaim", "popClaim"} => pc'[t] = pc[t]
    BY <1>1 DEF TryPush, TryPop, BlockingPush, BlockingPop, Begin
  <1>2. ASSUME NEW u \in Threads,
               PushCheck(u) \/ PopCheck(u) \/ TakeForStore(u) \/ TakeForLoad(u) \/ Write(u) \/ Read(u)
        PROVE  pc[t] \in {"pushClaim", "popClaim"} => pc'[t] = pc[t]
    BY <1>2 DEF PushCheck, PopCheck, TakeForStore, TakeForLoad, Write, Read
  <1>3. ASSUME NEW p \in Producers, PushClaim(p)
        PROVE  pc'[t] # pc[t] /\ pc'[t] \in {"store", "load"} =>
                 t = p /\ head = ticket[p] /\ head' = Inc(head) /\ tail' = tail /\ pc'[t] = "store"
    BY <1>3 DEF PushClaim
  <1>4. ASSUME NEW c \in Consumers, PopClaim(c)
        PROVE  pc'[t] # pc[t] /\ pc'[t] \in {"store", "load"} =>
                 t = c /\ tail = ticket[c] /\ tail' = Inc(tail) /\ head' = head /\ pc'[t] = "load"
    BY <1>4 DEF PopClaim
  <1>5. CASE UNCHANGED vars
    BY <1>5 DEF vars
  <1> QED
    BY <1>1, <1>2, <1>3, <1>4, <1>5, RingAssumption DEF Next, Push, Pop

LEMMA TicketsStep == ASSUME FewCalls PROVE FitInv /\ [Next]_vars => TicketsFitStep
  <1> SUFFICES ASSUME FitInv, [Next]_vars PROVE TicketsFitStep
    OBVIOUS
  <1>1. TypeOK' /\ Calls' /\ Kinds'
    BY TypeStep, CallsStep DEF FitInv
  <1>2. Advanced
    BY <1>1, CountersAdvance
  <1>3. head' \in 0 .. M - 1 /\ tail' \in 0 .. M - 1 /\ Size \in Nat
    BY <1>1, Constants DEF TypeOK
  <1>4. SignedDiff(head', tail') = Taken(head') - Taken(tail')
    BY <1>2, <1>3, DiffIs DEF Advanced
  <1>5. ASSUME NEW p \in Producers, pc[p] = "pushClaim", pc'[p] = "store"
        PROVE  SignedDiff(head', tail') <= Size
    <2>1. head = ticket[p] /\ head' = Inc(head) /\ tail' = tail
      BY <1>5, Claims DEF Threads
    <2>2. Taken(ticket[p]) < Taken(tail) + Size
      BY <1>5 DEF FitInv, Aimed, AimedAt, Threads
    <2> QED
      BY <1>2, <1>3, <1>4, <2>1, <2>2 DEF Advanced
  <1>6. ASSUME NEW c \in Consumers, pc[c] = "popClaim", pc'[c] = "load"
        PROVE  SignedDiff(head', tail') >= 0
    <2>1. tail = ticket[c] /\ tail' = Inc(tail) /\ head' = head
      BY <1>6, Claims DEF Threads
    <2>2. Taken(ticket[c]) < Taken(head)
      BY <1>6 DEF FitInv, Aimed, AimedAt, Threads
    <2> QED
      BY <1>2, <1>4, <2>1, <2>2 DEF Advanced
  <1> QED
    BY <1>5, <1>6 DEF TicketsFitStep

(* For as many calls as do not turn the counters half round, a ticket that try_push takes has a
   slot and one that try_pop takes has a producer, wherever the counters start and wrap,
   though the other counter was read before the compare-and-swap and though blocking
   operations run past both ends of the ring. *)
THEOREM TicketsFitHolds == ASSUME FewCalls PROVE Spec => TicketsFit
  <1>1. FitInv /\ FitInv' /\ [Next]_vars => [TicketsFitStep]_vars
    BY TicketsStep
  <1>2. Spec => []FitInv
    BY FitInit, FitStep, PTL DEF Spec
  <1>3. Spec => [][TicketsFitStep]_vars
    BY <1>1, <1>2, PTL DEF Spec
  <1> QED
    BY <1>3 DEF TicketsFit, TicketsFitStep

-----------------------------------------------------------------------------
(* The wheels and the time *)

LEMMA TicksType ==
  ASSUME NEW w \in 0 .. WheelNum, NEW t \in Nat
  PROVE  /\ Ticks(w, t) \in Nat
         /\ w = 0 => Ticks(w, t) = t
         /\ \A u \in Nat : t <= u => Ticks(w, t) <= Ticks(w, u)
  <1>1. Width[w] \in Nat \ {0} /\ (w = 0 => Width[w] = 1)
    BY WidthIs
  <1>2. t \div Width[w] \in Nat /\ \A u \in Nat : t <= u => t \div Width[w] <= u \div Width[w]
    BY <1>1, DivMod, QuotientMonotone
  <1>3. t \div 1 = t
    OBVIOUS
  <1> QED
    BY <1>1, <1>2, <1>3, Zenon DEF Ticks

(* A tick of a wheel is a turn of the one below. *)
LEMMA TicksUp ==
  ASSUME NEW w \in Wheel, NEW t \in Nat
  PROVE  Ticks(w + 1, t) = Ticks(w, t) \div WheelLen
  <1>1. Width[w] \in Nat \ {0} /\ Width[w + 1] = Width[w] * WheelLen /\ WheelLen \in Nat \ {0}
    <2>1. w \in 0 .. WheelNum
      BY BitsType DEF Wheel
    <2> QED
      BY <2>1, WidthIs, WheelLenType
  <1>2. (t \div Width[w]) \div WheelLen = t \div (Width[w] * WheelLen)
    BY <1>1, QuotientOfQuotient
  <1> QED
    BY <1>1, <1>2 DEF Ticks

(* An update that goes back passes every slot. *)
LEMMA PassedBack ==
  ASSUME NEW U, NEW now, NEW w, now < U.curtime
  PROVE  Passed(U, now, w) = Slot
  BY DEF Passed

(* One that goes on passes the slot of every tick between the two times, though it counts
   the ticks from the difference of the times and not from the times. *)
LEMMA PassedTicks ==
  ASSUME NEW U, U.curtime \in Nat, NEW now \in Nat, NEW w \in Wheel, U.curtime <= now,
         NEW k \in Ticks(w, U.curtime) .. Ticks(w, now)
  PROVE  k % WheelLen \in Passed(U, now, w)
  <1> DEFINE cur == U.curtime
             elapsed == IF w = 0 THEN now - cur ELSE Max({now - cur, Width[w]})
             n == Ticks(w, elapsed)
             from == Ticks(w, cur)
             to == Ticks(w, now)
  <1>w. w \in 0 .. WheelNum /\ Width[w] \in Nat \ {0} /\ WheelLen \in Nat \ {0}
    <2>1. w \in 0 .. WheelNum
      BY BitsType DEF Wheel
    <2> QED
      BY <2>1, WidthIs, WheelLenType
  <1>1. from \in Nat /\ to \in Nat /\ now - cur \in Nat /\ cur \in Nat
    BY <1>w, TicksType
  <1>2. elapsed \in Nat /\ now - cur <= elapsed /\ (w # 0 => Width[w] <= elapsed)
    <2>1. CASE w = 0
      BY <1>1, <2>1
    <2>2. CASE w # 0
      <3>1. /\ Max({now - cur, Width[w]}) \in {now - cur, Width[w]}
            /\ Max({now - cur, Width[w]}) >= now - cur /\ Max({now - cur, Width[w]}) >= Width[w]
        BY <1>w, <1>1, MaxOfTwo
      <3> QED
        BY <1>w, <1>1, <2>2, <3>1
    <2> QED
      BY <2>1, <2>2
  <1> HIDE DEF elapsed
  <1>3. n \in Nat /\ (w # 0 => 1 <= n) /\ to <= from + n + 1 /\ (w = 0 => to = from + n)
    <2>1. n \in Nat /\ Ticks(w, now - cur) <= n /\ Ticks(w, now - cur) \in Nat
      BY <1>w, <1>1, <1>2, TicksType
    <2>2. w # 0 => 1 <= n
      <3>1. w # 0 => 1 * Width[w] <= elapsed
        BY <1>w, <1>2
      <3> QED
        BY <1>w, <1>2, <3>1, QuotientBelow DEF Ticks
    <2>3. to <= from + Ticks(w, now - cur) + 1
      <3>1. (cur + (now - cur)) \div Width[w] <= (cur \div Width[w]) + ((now - cur) \div Width[w]) + 1
        BY <1>w, <1>1, QuotientOfSum
      <3>2. cur + (now - cur) = now
        BY <1>1
      <3> QED
        BY <3>1, <3>2 DEF Ticks
    <2>4. w = 0 => to = from + n
      <3>1. w = 0 => from = cur /\ to = now /\ n = elapsed /\ elapsed = now - cur
        BY <1>w, <1>1, <1>2, TicksType DEF elapsed
      <3> QED
        BY <1>1, <3>1
    <2> HIDE DEF n, from, to
    <2> QED
      BY <1>1, <2>1, <2>2, <2>3, <2>4
  <1>4. Passed(U, now, w) =
          IF now < cur \/ n >= WheelLen
          THEN Slot
          ELSE RotL(0 .. n - 1, from) \cup RotR(RotL(0 .. n - 1, to), n) \cup RotL({0}, to)
    BY DEF Passed, elapsed
  <1>k. k \in from .. to
    OBVIOUS
  <1> HIDE DEF n, from, to, cur
  <1>i. k \in Int /\ from <= k /\ k <= to /\ ~(now < cur)
    BY <1>1, <1>k DEF cur
  <1>5. CASE n >= WheelLen
    <2>1. k % WheelLen \in Slot
      BY <1>w, <1>i, ModRange DEF Slot
    <2> QED
      BY <1>4, <1>5, <2>1
  <1>6. CASE ~(n >= WheelLen)
    <2>0. Passed(U, now, w) =
            RotL(0 .. n - 1, from) \cup RotR(RotL(0 .. n - 1, to), n) \cup RotL({0}, to)
      BY <1>4, <1>6, <1>i
    <2>1. CASE k = to
      <3>1. 0 + to = k
        BY <1>1, <2>1
      <3>2. (0 + to) % WheelLen \in RotL({0}, to)
        BY DEF RotL
      <3> QED
        BY <2>0, <3>1, <3>2
    <2>2. CASE k - from \in 0 .. n - 1
      <3>1. (k - from) + from = k
        BY <1>1, <1>i
      <3>2. ((k - from) + from) % WheelLen \in RotL(0 .. n - 1, from)
        BY <2>2 DEF RotL
      <3> QED
        BY <2>0, <3>1, <3>2
    <2>3. CASE k # to /\ ~(k - from \in 0 .. n - 1)
      <3>1. w # 0 /\ k = to - 1 /\ n - 1 \in 0 .. n - 1
        BY <1>1, <1>3, <1>i, <2>3
      <3>2. ((((n - 1) + to) % WheelLen) - n) % WheelLen \in RotR(RotL(0 .. n - 1, to), n)
        BY <3>1 DEF RotL, RotR
      <3>3. ((((n - 1) + to) % WheelLen) - n) % WheelLen = (((n - 1) + to) - n) % WheelLen
        <4>1. (n - 1) + to \in Int /\ n \in Int
          BY <1>1, <1>3
        <4> QED
          BY <1>w, <4>1, RemainderShift
      <3>4. ((n - 1) + to) - n = k
        BY <1>1, <1>3, <3>1
      <3> QED
        BY <2>0, <3>2, <3>3, <3>4
    <2> QED
      BY <2>1, <2>2, <2>3
  <1> QED
    BY <1>5, <1>6

(* A wheel that does not roll over leaves the time of the next one as it is. *)
LEMMA NotRolled ==
  ASSUME NEW U, U.curtime \in Nat, NEW now \in Nat, NEW w \in Wheel, 0 \notin Passed(U, now, w)
  PROVE  U.curtime <= now /\ Ticks(w + 1, now) = Ticks(w + 1, U.curtime)
  <1>L. WheelLen \in Nat \ {0} /\ 0 \in Slot /\ w \in 0 .. WheelNum
    BY WheelLenType, BitsType DEF Slot, Wheel
  <1>1. U.curtime <= now
    BY <1>L, PassedBack
  <1> DEFINE a == Ticks(w, U.curtime)
             b == Ticks(w, now)
             p == a \div WheelLen
             q == b \div WheelLen
  <1>2. a \in Nat /\ b \in Nat /\ a <= b
    BY <1>L, <1>1, TicksType
  <1>3. \A k \in a .. b : k % WheelLen \in Passed(U, now, w)
    BY <1>1, PassedTicks
  <1>4. Ticks(w + 1, now) = q /\ Ticks(w + 1, U.curtime) = p
    BY TicksUp
  <1> HIDE DEF a, b
  <1>5. p \in Nat /\ q \in Nat /\ p <= q /\ a = p * WheelLen + (a % WheelLen) /\ a % WheelLen \in 0 .. WheelLen - 1
    BY <1>L, <1>2, DivMod, QuotientMonotone
  <1>6. q * WheelLen <= b
    BY <1>L, <1>2, <1>5, QuotientBelow
  <1> HIDE DEF p, q
  <1>7. ~(p < q)
    <2> SUFFICES ASSUME p < q PROVE FALSE
      OBVIOUS
    <2>1. (p + 1) * WheelLen <= q * WheelLen /\ q * WheelLen \in Nat
      BY <1>L, <1>5, TimesMonotone
    <2>2. (p + 1) * WheelLen = p * WheelLen + WheelLen /\ p * WheelLen \in Nat
      BY <1>L, <1>5, TimesMonotone
    <2>3. q * WheelLen \in a .. b
      BY <1>L, <1>2, <1>5, <1>6, <2>1, <2>2
    <2>4. (q * WheelLen) % WheelLen = 0
      BY <1>L, <1>5, RemainderOfMultiple
    <2> QED
      BY <1>3, <2>3, <2>4
  <1> QED
    BY <1>1, <1>4, <1>5, <1>7

(* A wheel that is not looked at has not ticked. *)
LEMMA NotTurned ==
  ASSUME NEW U, U.curtime \in Nat, NEW now \in Nat, NEW w \in Wheel, w \notin Turned(U, now)
  PROVE  w > 0 /\ U.curtime <= now /\ Ticks(w, now) = Ticks(w, U.curtime)
  <1>1. PICK v \in 0 .. w - 1 : 0 \notin Passed(U, now, v)
    BY DEF Turned
  <1>2. v \in Wheel /\ v \in Nat /\ w \in Nat /\ v < w /\ w <= WheelNum - 1 /\ WheelNum \in Nat
    BY BitsType DEF Wheel
  <1>3. U.curtime <= now /\ Ticks(v + 1, now) = Ticks(v + 1, U.curtime)
    BY <1>1, <1>2, NotRolled
  <1> DEFINE S == {m \in Nat : v + 1 + m <= w => Ticks(v + 1 + m, now) = Ticks(v + 1 + m, U.curtime)}
  <1>4. 0 \in S
    <2>1. v + 1 + 0 = v + 1
      BY <1>2
    <2> QED
      BY <1>3, <2>1
  <1>5. ASSUME NEW m \in S \cap Nat PROVE m + 1 \in S
    <2> SUFFICES ASSUME v + 1 + (m + 1) <= w
                 PROVE  Ticks(v + 1 + (m + 1), now) = Ticks(v + 1 + (m + 1), U.curtime)
      OBVIOUS
    <2>1. v + 1 + m \in Wheel /\ v + 1 + (m + 1) = (v + 1 + m) + 1 /\ v + 1 + m <= w
      BY <1>2 DEF Wheel
    <2>2. Ticks(v + 1 + m, now) = Ticks(v + 1 + m, U.curtime)
      BY <2>1
    <2> QED
      BY <2>1, <2>2, TicksUp
  <1> HIDE DEF S
  <1>6. Nat \subseteq S
    BY <1>4, <1>5, Induction
  <1>7. w - v - 1 \in Nat /\ v + 1 + (w - v - 1) = w
    BY <1>2
  <1>8. w - v - 1 \in S
    BY <1>6, <1>7
  <1>9. Ticks(w, now) = Ticks(w, U.curtime)
    BY <1>2, <1>7, <1>8 DEF S
  <1> QED
    BY <1>2, <1>3, <1>9

-----------------------------------------------------------------------------
(* Where a timeout is due *)

(* The slot s of wheel w is the one of the timeout, and is passed before its time. *)
Due(U, w, s, to) ==
    /\ s = WheelSlot(w, U.expires[to])
    /\ U.curtime < U.expires[to]
    /\ w # 0 => Ticks(w, U.curtime) < Ticks(w, U.expires[to])

(* A timeout whose slot an update leaves alone is due after it. *)
LEMMA DueKept ==
  ASSUME NEW U, U.curtime \in Nat, NEW now \in Nat, NEW w \in Wheel, NEW s \in Slot, NEW to,
         U.expires[to] \in Nat, Due(U, w, s, to), ~(w \in Turned(U, now) /\ s \in Passed(U, now, w))
  PROVE  now < U.expires[to] /\ (w # 0 => Ticks(w, now) < Ticks(w, U.expires[to]))
  <1> DEFINE cur == U.curtime
             e == U.expires[to]
  <1>0. w \in 0 .. WheelNum /\ cur \in Nat /\ e \in Nat /\ 0 \in 0 .. WheelNum /\ WheelLen \in Nat \ {0}
    BY BitsType, WheelLenType DEF Wheel
  <1>1. s = WheelSlot(w, e) /\ cur < e /\ (w # 0 => Ticks(w, cur) < Ticks(w, e))
    BY DEF Due
  <1>2. /\ Ticks(w, cur) \in Nat /\ Ticks(w, e) \in Nat /\ Ticks(w, now) \in Nat
        /\ e <= now => Ticks(w, e) <= Ticks(w, now)
        /\ w = 0 => Ticks(w, cur) = cur /\ Ticks(w, e) = e /\ Ticks(w, now) = now
    BY <1>0, TicksType
  <1>3. CASE w \notin Turned(U, now)
    <2>1. w # 0 /\ Ticks(w, now) = Ticks(w, cur)
      <3>1. w > 0 /\ Ticks(w, now) = Ticks(w, cur)
        BY <1>3, NotTurned
      <3> QED
        BY <1>0, <3>1
    <2> HIDE DEF cur, e
    <2> QED
      BY <1>0, <1>1, <1>2, <2>1 DEF cur, e
  <1>4. CASE s \notin Passed(U, now, w)
    <2>1. cur <= now
      BY <1>0, <1>4, PassedBack
    <2>2. \A k \in Ticks(w, cur) .. Ticks(w, now) : k % WheelLen # s
      BY <1>4, <2>1, PassedTicks
    <2> HIDE DEF cur, e
    <2>3. CASE w = 0
      <3>1. e - 0 = e /\ e % WheelLen = s
        BY <1>0, <1>1, <1>2, <2>3 DEF WheelSlot
      <3>2. ~(e \in cur .. now)
        BY <1>2, <2>2, <2>3, <3>1
      <3> QED
        BY <1>0, <1>1, <2>3, <3>2 DEF e
    <2>4. CASE w # 0
      <3>1. (Ticks(w, e) - 1) % WheelLen = s
        BY <1>1, <2>4 DEF WheelSlot
      <3>2. ~(Ticks(w, e) - 1 \in Ticks(w, cur) .. Ticks(w, now))
        BY <2>2, <3>1
      <3>3. Ticks(w, now) < Ticks(w, e)
        BY <1>1, <1>2, <2>4, <3>2
      <3>4. now < e
        BY <1>0, <1>2, <3>3
      <3> QED
        BY <3>3, <3>4 DEF e
    <2> QED
      BY <2>3, <2>4
  <1> QED
    BY <1>3, <1>4

(* The highest bit of the remaining time. *)
LEMMA HighestBit ==
  ASSUME NEW rem \in Nat \ {0}
  PROVE  Fls(rem) \in 1 .. Bits /\ Pow2[Fls(rem) - 1] <= rem
  <1> DEFINE S == {b \in 1 .. Bits : Pow2[b - 1] <= rem}
  <1>0. Bits \in Nat \ {0}
    <2>1. WheelBit \in Nat \ {0} /\ WheelNum \in Nat \ {0}
      BY BitsType
    <2>2. 1 * WheelNum <= WheelBit * WheelNum
      BY <2>1, TimesMonotone
    <2> QED
      BY <2>1, <2>2, BitsType DEF Bits
  <1>1. 1 \in S
    <2>1. Pow2[1 - 1] = 1 /\ 1 \in 1 .. Bits
      <3>1. 1 - 1 = 0
        OBVIOUS
      <3> QED
        BY <1>0, <3>1, PowerStep
    <2> QED
      BY <2>1
  <1>2. S \subseteq 0 .. Bits /\ S # {}
    BY <1>0, <1>1
  <1>3. Max(S) \in S
    <2> HIDE DEF S
    <2> QED
      BY <1>0, <1>2, MaxOf
  <1>4. Fls(rem) = Max(S)
    BY DEF Fls, Bits
  <1> QED
    BY <1>3, <1>4

(* The wheel of a timeout turns no slower than its time comes. *)
LEMMA WheelOfIs ==
  ASSUME NEW rem \in Nat \ {0}
  PROVE  WheelOf(rem) \in Wheel /\ Width[WheelOf(rem)] <= rem
  <1> DEFINE m == Min({rem, TimeoutMax})
             f == Fls(m)
             w == (f - 1) \div WheelBit
  <1>0. Bits \in Nat \ {0} /\ WheelBit \in Nat \ {0} /\ WheelNum \in Nat \ {0}
    <2>1. WheelBit \in Nat \ {0} /\ WheelNum \in Nat \ {0}
      BY BitsType
    <2>2. 1 * WheelNum <= WheelBit * WheelNum
      BY <2>1, TimesMonotone
    <2> QED
      BY <2>1, <2>2, BitsType DEF Bits
  <1>1. TimeoutMax \in Nat \ {0}
    <2>1. Pow2[1] = 2
      <3>1. 0 + 1 = 1 /\ 0 \in 0 .. Bits - 1
        BY <1>0
      <3>2. Pow2[0 + 1] = 2 * Pow2[0] /\ Pow2[0] = 1
        BY <3>1, PowerStep
      <3> QED
        BY <3>1, <3>2
    <2>2. Pow2[1] <= Pow2[Bits] /\ Pow2[Bits] \in Nat \ {0}
      <3>1. 1 \in 0 .. Bits /\ Bits \in 0 .. Bits /\ 1 <= Bits
        BY <1>0
      <3> QED
        BY <3>1, PowerMonotone, PowerType
    <2>3. TimeoutMax = Pow2[Bits] - 1
      BY DEF TimeoutMax, Bits
    <2> QED
      BY <2>1, <2>2, <2>3
  <1>2. m \in Nat \ {0} /\ m <= rem
    <2>1. m \in {rem, TimeoutMax} /\ m <= rem
      BY <1>1, MinOfTwo
    <2> HIDE DEF m
    <2> QED
      BY <1>1, <2>1
  <1> HIDE DEF m
  <1>3. f \in 1 .. Bits /\ Pow2[f - 1] <= m
    BY <1>2, HighestBit
  <1> HIDE DEF f
  <1>4. f - 1 \in Nat /\ w \in Nat /\ w * WheelBit <= f - 1
    <2>1. f - 1 \in Nat
      BY <1>3
    <2>2. w \in Nat
      BY <1>0, <2>1, DivMod
    <2> QED
      BY <1>0, <2>1, <2>2, QuotientBelow
  <1>5. w < WheelNum
    <2> SUFFICES ASSUME WheelNum <= w PROVE FALSE
      BY <1>0, <1>4
    <2> HIDE DEF w
    <2>1. WheelNum * WheelBit <= w * WheelBit /\ WheelNum * WheelBit \in Nat /\ w * WheelBit \in Nat
      BY <1>0, <1>4, TimesMonotone
    <2>2. WheelNum * WheelBit = Bits
      BY <1>0 DEF Bits
    <2> QED
      BY <1>0, <1>3, <1>4, <2>1, <2>2
  <1>6. w \in Wheel /\ w \in 0 .. WheelNum
    BY <1>0, <1>4, <1>5 DEF Wheel
  <1>7. Width[w] <= Pow2[f - 1]
    <2>1. Width[w] = Pow2[WheelBit * w] /\ WheelBit * w \in 0 .. Bits /\ f - 1 \in 0 .. Bits
      BY <1>0, <1>3, <1>6, WidthIs, WheelBits
    <2>2. WheelBit * w = w * WheelBit
      BY <1>0, <1>4
    <2> QED
      BY <1>4, <2>1, <2>2, PowerMonotone
  <1>8. Width[w] \in Nat /\ Pow2[f - 1] \in Nat
    <2>1. f - 1 \in 0 .. Bits
      BY <1>0, <1>3
    <2> QED
      BY <1>6, <2>1, WidthIs, PowerType
  <1>9. WheelOf(rem) = w
    BY DEF WheelOf, m, f
  <1> HIDE DEF w
  <1>10. Width[w] <= rem
    BY <1>2, <1>3, <1>7, <1>8
  <1> QED
    BY <1>6, <1>9, <1>10

(* A timeout is due where timeouts_sched() puts it. *)
LEMMA DueAtFirst ==
  ASSUME NEW cur \in Nat, NEW e \in Nat, cur < e
  PROVE  /\ WheelOf(e - cur) \in Wheel /\ WheelSlot(WheelOf(e - cur), e) \in Slot
         /\ WheelOf(e - cur) # 0 => Ticks(WheelOf(e - cur), cur) < Ticks(WheelOf(e - cur), e)
  <1> DEFINE w == WheelOf(e - cur)
             W == Width[w]
  <1>1. e - cur \in Nat \ {0}
    OBVIOUS
  <1>2. w \in Wheel /\ W <= e - cur
    BY <1>1, WheelOfIs
  <1> HIDE DEF w
  <1>3. w \in 0 .. WheelNum /\ WheelLen \in Nat \ {0}
    BY <1>2, BitsType, WheelLenType DEF Wheel
  <1>4. W \in Nat \ {0}
    BY <1>3, WidthIs
  <1>5. Ticks(w, cur) \in Nat /\ Ticks(w, e) \in Nat
    BY <1>3, TicksType
  <1>6. WheelSlot(w, e) \in Slot
    <2>1. Ticks(w, e) - (IF w = 0 THEN 0 ELSE 1) \in Int
      BY <1>5
    <2> QED
      BY <1>3, <2>1, ModRange DEF WheelSlot, Slot
  <1>7. Ticks(w, cur) < Ticks(w, e)
    <2> HIDE DEF W
    <2>1. 1 <= W \div W /\ W \div W \in Nat
      <3>1. 1 * W <= W
        BY <1>4
      <3> QED
        BY <1>4, <3>1, QuotientBelow, DivMod
    <2>2. (cur \div W) + (W \div W) <= (cur + W) \div W
      BY <1>4, QuotientOfSum
    <2>3. (cur + W) \div W <= e \div W /\ (cur + W) \div W \in Nat
      <3>1. cur + W \in Nat /\ cur + W <= e
        BY <1>2, <1>4
      <3> QED
        BY <1>4, <3>1, QuotientMonotone, DivMod
    <2>4. cur \div W = Ticks(w, cur) /\ e \div W = Ticks(w, e)
      BY DEF Ticks, W
    <2> QED
      BY <1>5, <2>1, <2>2, <2>3, <2>4
  <1> QED
    BY <1>2, <1>6, <1>7 DEF w

-----------------------------------------------------------------------------
(* The wheel's invariant *)

(* A timeout is on one list at most, once: that of its slot, or the expired ones. *)
OnOneList(U) ==
    /\ Single(U.expired) /\ \A w \in Wheel, s \in Slot : Single(U.wheel[w][s])
    /\ \A w, v \in Wheel, s, r \in Slot, to \in Timeout :
          Contains(U.wheel[w][s], to) /\ Contains(U.wheel[v][r], to) => w = v /\ s = r
    /\ \A w \in Wheel, s \in Slot, to \in Timeout : Contains(U.wheel[w][s], to) => ~Expired(U, to)

(* The bit fields are those of the populated slots. *)
BitsAgree(U) == \A w \in Wheel : U.pending[w] = {s \in Slot : U.wheel[w][s] # <<>>}

(* Every timeout is where an update finds it in time. *)
AllDue(U) ==
    \A w \in Wheel, s \in Slot, to \in Timeout : Contains(U.wheel[w][s], to) => Due(U, w, s, to)

WheelInv(U) == U \in Timeouts /\ BitsAgree(U) /\ OnOneList(U) /\ AllDue(U)

LEMMA WheelFields ==
  ASSUME NEW U \in Timeouts
  PROVE  /\ U.curtime \in Nat /\ U.expired \in Seq(Timeout)
         /\ U.expires \in [Timeout -> Nat] /\ U.interval \in [Timeout -> Nat]
         /\ U.wheel \in [Wheel -> [Slot -> Seq(Timeout)]] /\ U.pending \in [Wheel -> SUBSET Slot]
         /\ \A w \in Wheel, s \in Slot : U.wheel[w][s] \in Seq(Timeout)
  BY DEF Timeouts

LEMMA WheelRecord ==
  ASSUME NEW V, V = [x \in DOMAIN V |-> V[x]],
         DOMAIN V = {"curtime", "wheel", "pending", "expired", "expires", "interval"}
  PROVE  V = [curtime |-> V.curtime, wheel |-> V.wheel, pending |-> V.pending,
              expired |-> V.expired, expires |-> V.expires, interval |-> V.interval]
  OBVIOUS

LEMMA ListsChanged ==
  ASSUME NEW U \in Timeouts, NEW a, NEW b, NEW c
  PROVE  [U EXCEPT !.wheel = a, !.expired = b, !.pending = c]
         = [curtime |-> U.curtime, wheel |-> a, pending |-> c,
            expired |-> b, expires |-> U.expires, interval |-> U.interval]
  <1> DEFINE V == [U EXCEPT !.wheel = a, !.expired = b, !.pending = c]
  <1>1. DOMAIN U = {"curtime", "wheel", "pending", "expired", "expires", "interval"}
    BY DEF Timeouts
  <1>2. DOMAIN V = DOMAIN U /\ V = [x \in DOMAIN V |-> V[x]]
    OBVIOUS
  <1>3. /\ V.curtime = U.curtime /\ V.wheel = a /\ V.pending = c
        /\ V.expired = b /\ V.expires = U.expires /\ V.interval = U.interval
    BY <1>1
  <1> HIDE DEF V
  <1> QED
    BY <1>1, <1>2, <1>3, WheelRecord DEF V

LEMMA ExpiresChanged ==
  ASSUME NEW U \in Timeouts, NEW to, NEW e
  PROVE  [U EXCEPT !.expires[to] = e]
         = [curtime |-> U.curtime, wheel |-> U.wheel, pending |-> U.pending, expired |-> U.expired,
            expires |-> [U.expires EXCEPT ![to] = e], interval |-> U.interval]
  <1> DEFINE V == [U EXCEPT !.expires[to] = e]
  <1>1. DOMAIN U = {"curtime", "wheel", "pending", "expired", "expires", "interval"}
    BY DEF Timeouts
  <1>2. DOMAIN V = DOMAIN U /\ V = [x \in DOMAIN V |-> V[x]]
    OBVIOUS
  <1>3. /\ V.curtime = U.curtime /\ V.wheel = U.wheel /\ V.pending = U.pending /\ V.expired = U.expired
        /\ V.expires = [U.expires EXCEPT ![to] = e] /\ V.interval = U.interval
    BY <1>1
  <1> HIDE DEF V
  <1> QED
    BY <1>1, <1>2, <1>3, WheelRecord DEF V

LEMMA EmptyWheel == WheelInv(EmptyTimeouts) /\ \A to : ~OnWheel(EmptyTimeouts, to) /\ ~Expired(EmptyTimeouts, to)
  <1>1. EmptyTimeouts \in Timeouts
    BY DEF EmptyTimeouts, Timeouts
  <1>2. /\ EmptyTimeouts.expired = <<>>
        /\ \A w \in Wheel : EmptyTimeouts.pending[w] = {}
        /\ \A w \in Wheel, s \in Slot : EmptyTimeouts.wheel[w][s] = <<>>
    BY DEF EmptyTimeouts
  <1> QED
    BY <1>1, <1>2, EmptyHasNone DEF WheelInv, BitsAgree, OnOneList, AllDue, OnWheel, Expired

(* What a timeout's removal leaves. *)
TakenOff(U, V, to) ==
    /\ V.curtime = U.curtime /\ V.expires = U.expires /\ V.interval = U.interval
    /\ \A u : Expired(V, u) <=> Expired(U, u) /\ u # to
    /\ \A w \in Wheel, s \in Slot, u \in Timeout :
          Contains(V.wheel[w][s], u) <=> Contains(U.wheel[w][s], u) /\ u # to

LEMMA DelIs ==
  ASSUME NEW U, WheelInv(U), NEW to \in Timeout
  PROVE  WheelInv(Del(U, to)) /\ TakenOff(U, Del(U, to), to)
  <1> DEFINE V == Del(U, to)
  <1>0. U \in Timeouts /\ BitsAgree(U) /\ OnOneList(U) /\ AllDue(U)
    BY DEF WheelInv
  <1>1. /\ U.curtime \in Nat /\ U.expired \in Seq(Timeout)
        /\ U.expires \in [Timeout -> Nat] /\ U.interval \in [Timeout -> Nat]
        /\ \A w \in Wheel, s \in Slot : U.wheel[w][s] \in Seq(Timeout)
    BY <1>0, WheelFields
  <1> DEFINE wheel == [w \in Wheel |-> [s \in Slot |-> Without(U.wheel[w][s], to)]]
             pending == [w \in Wheel |-> {s \in U.pending[w] : ~(Contains(U.wheel[w][s], to) /\ wheel[w][s] = <<>>)}]
             expired == Without(U.expired, to)
  <1>d. V = [U EXCEPT !.wheel = wheel, !.expired = expired, !.pending = pending]
    BY Zenon DEF Del
  <1>p. pending = [w \in Wheel |->
              {s \in U.pending[w] : ~(Contains(U.wheel[w][s], to) /\ Without(U.wheel[w][s], to) = <<>>)}]
    BY <1>0 DEF Timeouts
  <1> HIDE DEF V, wheel, pending, expired
  <1>e. V = [curtime |-> U.curtime, wheel |-> wheel, pending |-> pending,
             expired |-> expired, expires |-> U.expires, interval |-> U.interval]
    BY <1>0, <1>d, ListsChanged
  <1>2. /\ V.curtime = U.curtime /\ V.expires = U.expires /\ V.interval = U.interval
        /\ V.expired = Without(U.expired, to)
        /\ V.wheel = [w \in Wheel |-> [s \in Slot |-> Without(U.wheel[w][s], to)]]
        /\ V.pending = [w \in Wheel |->
              {s \in U.pending[w] : ~(Contains(U.wheel[w][s], to) /\ Without(U.wheel[w][s], to) = <<>>)}]
    BY <1>e, <1>p DEF wheel, expired
  <1>3. V = [curtime |-> V.curtime, wheel |-> V.wheel, pending |-> V.pending,
             expired |-> V.expired, expires |-> V.expires, interval |-> V.interval]
    BY <1>e
  <1>4. \A w \in Wheel, s \in Slot : V.wheel[w][s] = Without(U.wheel[w][s], to)
    BY <1>2
  <1>5. ASSUME NEW q \in Seq(Timeout), Single(q)
        PROVE  /\ Without(q, to) \in Seq(Timeout) /\ Single(Without(q, to))
               /\ \A u : Contains(Without(q, to), u) <=> Contains(q, u) /\ u # to
    BY <1>5, WithoutIs
  <1>6. /\ V.expired \in Seq(Timeout) /\ Single(V.expired)
        /\ \A u : Contains(V.expired, u) <=> Contains(U.expired, u) /\ u # to
    BY <1>0, <1>1, <1>2, <1>5 DEF OnOneList
  <1>7. ASSUME NEW w \in Wheel, NEW s \in Slot
        PROVE  /\ V.wheel[w][s] \in Seq(Timeout) /\ Single(V.wheel[w][s])
               /\ \A u : Contains(V.wheel[w][s], u) <=> Contains(U.wheel[w][s], u) /\ u # to
    BY <1>0, <1>1, <1>4, <1>5 DEF OnOneList
  <1>8. V \in Timeouts
    <2>1. V.wheel \in [Wheel -> [Slot -> Seq(Timeout)]]
      BY <1>2, <1>4, <1>7
    <2>2. V.pending \in [Wheel -> SUBSET Slot]
      BY <1>0, <1>2 DEF Timeouts
    <2> QED
      BY <1>1, <1>2, <1>3, <1>6, <2>1, <2>2 DEF Timeouts
  <1>9. BitsAgree(V)
    <2> SUFFICES ASSUME NEW w \in Wheel, NEW s \in Slot
                 PROVE  s \in V.pending[w] <=> V.wheel[w][s] # <<>>
      BY <1>8, WheelFields DEF BitsAgree
    <2>1. s \in U.pending[w] <=> U.wheel[w][s] # <<>>
      BY <1>0 DEF BitsAgree
    <2>2. s \in V.pending[w] <=> s \in U.pending[w] /\ ~(Contains(U.wheel[w][s], to) /\ V.wheel[w][s] = <<>>)
      BY <1>2, <1>4
    <2>3. CASE Contains(U.wheel[w][s], to)
      <3>1. U.wheel[w][s] # <<>>
        BY <2>3, EmptyHasNone
      <3> QED
        BY <2>1, <2>2, <2>3, <3>1
    <2>4. CASE ~Contains(U.wheel[w][s], to)
      BY <1>4, <2>1, <2>2, <2>4, WithoutOther
    <2> QED
      BY <2>3, <2>4
  <1>10. OnOneList(V)
    BY <1>0, <1>6, <1>7 DEF OnOneList, Expired
  <1>11. AllDue(V)
    <2> SUFFICES ASSUME NEW w \in Wheel, NEW s \in Slot, NEW u \in Timeout, Contains(V.wheel[w][s], u)
                 PROVE  Due(V, w, s, u)
      BY DEF AllDue
    <2>1. Due(U, w, s, u)
      BY <1>0, <1>7 DEF AllDue
    <2> QED
      BY <1>2, <2>1 DEF Due
  <1>12. TakenOff(U, V, to)
    BY <1>2, <1>6, <1>7 DEF TakenOff, Expired
  <1> QED
    BY <1>8, <1>9, <1>10, <1>11, <1>12 DEF WheelInv, V

(* What timeouts_sched() does: the timeout is on the wheel until its time, and expired
   when that has come. *)
SetFor(U, V, to, e) ==
    /\ V.curtime = U.curtime /\ V.interval = U.interval /\ V.expires = [U.expires EXCEPT ![to] = e]
    /\ \A u \in Timeout \ {to} : (OnWheel(V, u) <=> OnWheel(U, u)) /\ (Expired(V, u) <=> Expired(U, u))
    /\ OnWheel(V, to) <=> e > U.curtime
    /\ Expired(V, to) <=> ~(e > U.curtime)

LEMMA SchedIs ==
  ASSUME NEW U, WheelInv(U), NEW to \in Timeout, NEW e \in Nat
  PROVE  WheelInv(Sched(U, to, e)) /\ SetFor(U, Sched(U, to, e), to, e)
  <1> DEFINE D == Del(U, to)
             E == [D EXCEPT !.expires[to] = e]
             w0 == WheelOf(e - U.curtime)
             s0 == WheelSlot(w0, e)
             V == Sched(U, to, e)
  <1>1. WheelInv(D) /\ TakenOff(U, D, to)
    BY DelIs
  <1>2. D \in Timeouts /\ BitsAgree(D) /\ OnOneList(D) /\ AllDue(D)
    BY <1>1 DEF WheelInv
  <1>3. V = IF e > U.curtime
            THEN [E EXCEPT !.wheel[w0][s0] = Append(@, to), !.pending[w0] = @ \cup {s0}]
            ELSE [E EXCEPT !.expired = Append(@, to)]
    BY DEF Sched
  <1>4. U.curtime \in Nat /\ U.expires \in [Timeout -> Nat]
    BY WheelFields DEF WheelInv
  <1> HIDE DEF D
  <1>5. /\ D.curtime = U.curtime /\ D.expires = U.expires /\ D.interval = U.interval
        /\ \A u : Contains(D.expired, u) <=> Contains(U.expired, u) /\ u # to
        /\ \A w \in Wheel, s \in Slot, u \in Timeout :
              Contains(D.wheel[w][s], u) <=> Contains(U.wheel[w][s], u) /\ u # to
    BY <1>1 DEF TakenOff, Expired
  <1>6. /\ D.curtime \in Nat /\ D.expired \in Seq(Timeout)
        /\ D.expires \in [Timeout -> Nat] /\ D.interval \in [Timeout -> Nat]
        /\ D.wheel \in [Wheel -> [Slot -> Seq(Timeout)]] /\ D.pending \in [Wheel -> SUBSET Slot]
        /\ \A w \in Wheel, s \in Slot : D.wheel[w][s] \in Seq(Timeout)
    BY <1>2, WheelFields
  <1>7. /\ E.curtime = D.curtime /\ E.expired = D.expired /\ E.interval = D.interval
        /\ E.wheel = D.wheel /\ E.pending = D.pending /\ E.expires = [D.expires EXCEPT ![to] = e]
        /\ E = [curtime |-> E.curtime, wheel |-> E.wheel, pending |-> E.pending,
                expired |-> E.expired, expires |-> E.expires, interval |-> E.interval]
    <2>1. E = [curtime |-> D.curtime, wheel |-> D.wheel, pending |-> D.pending, expired |-> D.expired,
               expires |-> [D.expires EXCEPT ![to] = e], interval |-> D.interval]
      BY <1>2, ExpiresChanged
    <2> HIDE DEF E
    <2> QED
      BY <2>1
  <1> HIDE DEF E
  <1>8. E.expires \in [Timeout -> Nat] /\ E.expires[to] = e /\ \A u \in Timeout \ {to} : E.expires[u] = U.expires[u]
    BY <1>4, <1>5, <1>7
  <1>9. CASE e > U.curtime
    <2>0. w0 \in Wheel /\ s0 \in Slot /\ (w0 # 0 => Ticks(w0, U.curtime) < Ticks(w0, e))
      BY <1>4, <1>9, DueAtFirst
    <2> HIDE DEF w0
    <2>s. s0 = WheelSlot(w0, e)
      OBVIOUS
    <2> HIDE DEF s0
    <2>1. /\ V.curtime = U.curtime /\ V.interval = U.interval /\ V.expires = E.expires
          /\ V.expired = D.expired
          /\ V.wheel = [D.wheel EXCEPT ![w0][s0] = Append(@, to)]
          /\ V.pending = [D.pending EXCEPT ![w0] = @ \cup {s0}]
          /\ V = [curtime |-> V.curtime, wheel |-> V.wheel, pending |-> V.pending,
                  expired |-> V.expired, expires |-> V.expires, interval |-> V.interval]
      BY <1>3, <1>5, <1>7, <1>9
    <2> HIDE DEF V
    <2>2. /\ Append(D.wheel[w0][s0], to) \in Seq(Timeout) /\ Append(D.wheel[w0][s0], to) # <<>>
          /\ \A u : Contains(Append(D.wheel[w0][s0], to), u) <=> Contains(D.wheel[w0][s0], u) \/ u = to
          /\ Single(Append(D.wheel[w0][s0], to))
      <3>1. D.wheel[w0][s0] \in Seq(Timeout) /\ Single(D.wheel[w0][s0]) /\ ~Contains(D.wheel[w0][s0], to)
        BY <1>2, <1>5, <1>6, <2>0 DEF OnOneList
      <3> QED
        BY <3>1, AppendIs
    <2>3. /\ V.wheel[w0][s0] = Append(D.wheel[w0][s0], to)
          /\ \A w \in Wheel, s \in Slot : ~(w = w0 /\ s = s0) => V.wheel[w][s] = D.wheel[w][s]
          /\ V.pending[w0] = D.pending[w0] \cup {s0}
          /\ \A w \in Wheel \ {w0} : V.pending[w] = D.pending[w]
      BY <1>6, <2>0, <2>1
    <2>4. V.wheel \in [Wheel -> [Slot -> Seq(Timeout)]] /\ V.pending \in [Wheel -> SUBSET Slot]
      BY <1>6, <2>0, <2>1, <2>2
    <2>5. V \in Timeouts
      BY <1>4, <1>5, <1>6, <1>8, <2>1, <2>4 DEF Timeouts
    <2>6. \A w \in Wheel, s \in Slot, u \in Timeout :
             Contains(V.wheel[w][s], u) <=> Contains(D.wheel[w][s], u) \/ (w = w0 /\ s = s0 /\ u = to)
      BY <2>2, <2>3
    <2>7. BitsAgree(V)
      <3> SUFFICES ASSUME NEW w \in Wheel, NEW s \in Slot
                   PROVE  s \in V.pending[w] <=> V.wheel[w][s] # <<>>
        BY <2>4 DEF BitsAgree
      <3>1. s \in D.pending[w] <=> D.wheel[w][s] # <<>>
        BY <1>2 DEF BitsAgree
      <3>2. CASE w = w0 /\ s = s0
        BY <2>2, <2>3, <3>2
      <3>3. CASE ~(w = w0 /\ s = s0)
        BY <2>3, <3>1, <3>3
      <3> QED
        BY <3>2, <3>3
    <2>8. OnOneList(V)
      <3>1. Single(V.expired) /\ \A w \in Wheel, s \in Slot : Single(V.wheel[w][s])
        BY <1>2, <2>1, <2>2, <2>3 DEF OnOneList
      <3>2. \A w \in Wheel, s \in Slot : ~Contains(D.wheel[w][s], to)
        BY <1>5
      <3>3. \A w, v \in Wheel, s, r \in Slot, u \in Timeout :
               Contains(V.wheel[w][s], u) /\ Contains(V.wheel[v][r], u) => w = v /\ s = r
        BY <1>2, <2>6, <3>2 DEF OnOneList
      <3>4. \A w \in Wheel, s \in Slot, u \in Timeout : Contains(V.wheel[w][s], u) => ~Contains(V.expired, u)
        BY <1>2, <1>5, <2>1, <2>6 DEF OnOneList, Expired
      <3> QED
        BY <3>1, <3>3, <3>4 DEF OnOneList, Expired
    <2>9. AllDue(V)
      <3> SUFFICES ASSUME NEW w \in Wheel, NEW s \in Slot, NEW u \in Timeout, Contains(V.wheel[w][s], u)
                   PROVE  Due(V, w, s, u)
        BY DEF AllDue
      <3>1. CASE u = to
        <4>1. w = w0 /\ s = s0
          BY <1>5, <2>6, <3>1
        <4> QED
          BY <1>8, <1>9, <2>0, <2>s, <2>1, <3>1, <4>1 DEF Due
      <3>2. CASE u # to
        <4>1. Due(D, w, s, u)
          BY <1>2, <2>6, <3>2 DEF AllDue
        <4>2. V.expires[u] = D.expires[u] /\ V.curtime = D.curtime
          BY <1>5, <1>8, <2>1, <3>2
        <4> QED
          BY <4>1, <4>2 DEF Due
      <3> QED
        BY <3>1, <3>2
    <2>10. SetFor(U, V, to, e)
      <3>1. \A u \in Timeout \ {to} : OnWheel(V, u) <=> OnWheel(U, u)
        BY <1>5, <2>6 DEF OnWheel
      <3>2. OnWheel(V, to)
        BY <2>0, <2>6 DEF OnWheel
      <3>3. \A u : Expired(V, u) <=> Expired(U, u) /\ u # to
        BY <1>5, <2>1 DEF Expired
      <3>4. V.curtime = U.curtime /\ V.interval = U.interval /\ V.expires = [U.expires EXCEPT ![to] = e]
        BY <1>5, <1>7, <2>1
      <3> QED
        BY <1>9, <3>1, <3>2, <3>3, <3>4 DEF SetFor
    <2> QED
      BY <2>5, <2>7, <2>8, <2>9, <2>10 DEF WheelInv, V
  <1>10. CASE ~(e > U.curtime)
    <2>1. /\ V.curtime = U.curtime /\ V.interval = U.interval /\ V.expires = E.expires
          /\ V.expired = Append(D.expired, to) /\ V.wheel = D.wheel /\ V.pending = D.pending
          /\ V = [curtime |-> V.curtime, wheel |-> V.wheel, pending |-> V.pending,
                  expired |-> V.expired, expires |-> V.expires, interval |-> V.interval]
      BY <1>3, <1>5, <1>7, <1>10
    <2> HIDE DEF V
    <2>2. /\ V.expired \in Seq(Timeout) /\ Single(V.expired)
          /\ \A u : Contains(V.expired, u) <=> Contains(D.expired, u) \/ u = to
      <3>1. Single(D.expired) /\ ~Contains(D.expired, to)
        BY <1>2, <1>5 DEF OnOneList
      <3> QED
        BY <1>6, <2>1, <3>1, AppendIs
    <2>3. V \in Timeouts
      BY <1>4, <1>5, <1>6, <1>8, <2>1, <2>2 DEF Timeouts
    <2>4. BitsAgree(V)
      BY <1>2, <2>1 DEF BitsAgree
    <2>5. OnOneList(V)
      BY <1>2, <1>5, <2>1, <2>2 DEF OnOneList, Expired
    <2>6. AllDue(V)
      <3> SUFFICES ASSUME NEW w \in Wheel, NEW s \in Slot, NEW u \in Timeout, Contains(V.wheel[w][s], u)
                   PROVE  Due(V, w, s, u)
        BY DEF AllDue
      <3>1. Due(D, w, s, u) /\ u # to
        BY <1>2, <1>5, <2>1 DEF AllDue
      <3>2. V.expires[u] = D.expires[u] /\ V.curtime = D.curtime
        BY <1>5, <1>8, <2>1, <3>1
      <3> QED
        BY <3>1, <3>2 DEF Due
    <2>7. SetFor(U, V, to, e)
      <3>1. \A u \in Timeout : OnWheel(V, u) <=> OnWheel(U, u) /\ u # to
        BY <1>5, <2>1 DEF OnWheel
      <3>2. \A u : Expired(V, u) <=> (Expired(U, u) /\ u # to) \/ u = to
        BY <1>5, <2>2 DEF Expired
      <3>4. V.curtime = U.curtime /\ V.interval = U.interval /\ V.expires = [U.expires EXCEPT ![to] = e]
        BY <1>5, <1>7, <2>1
      <3> QED
        BY <1>10, <3>1, <3>2, <3>4 DEF SetFor
    <2> QED
      BY <2>3, <2>4, <2>5, <2>6, <2>7 DEF WheelInv, V
  <1> QED
    BY <1>9, <1>10

-----------------------------------------------------------------------------
(* The operations of the wheel *)

(* Some timeouts are off the list of the expired ones, or never get there. *)
LEMMA SameWheels ==
  ASSUME NEW U, WheelInv(U), NEW V \in Timeouts,
         V.curtime = U.curtime, V.wheel = U.wheel, V.pending = U.pending, Single(V.expired),
         \A u \in Timeout : Expired(V, u) => Expired(U, u),
         \A u \in Timeout : ~Expired(U, u) => V.expires[u] = U.expires[u]
  PROVE  WheelInv(V) /\ \A u : OnWheel(V, u) <=> OnWheel(U, u)
  <1>1. BitsAgree(V)
    BY DEF WheelInv, BitsAgree
  <1>2. OnOneList(V)
    BY DEF WheelInv, OnOneList
  <1>3. AllDue(V)
    <2> SUFFICES ASSUME NEW w \in Wheel, NEW s \in Slot, NEW u \in Timeout, Contains(V.wheel[w][s], u)
                 PROVE  Due(V, w, s, u)
      BY DEF AllDue
    <2>1. Due(U, w, s, u) /\ ~Expired(U, u)
      BY DEF WheelInv, AllDue, OnOneList
    <2> QED
      BY <2>1 DEF Due
  <1> QED
    BY <1>1, <1>2, <1>3 DEF WheelInv, OnWheel

(* One timeout is set, or taken back. *)
OneSet(U, V, to) ==
    /\ V.curtime = U.curtime
    /\ \A u \in Timeout \ {to} :
          /\ OnWheel(V, u) <=> OnWheel(U, u)
          /\ Expired(V, u) <=> Expired(U, u)
          /\ V.expires[u] = U.expires[u]
    /\ OnWheel(V, to) => V.expires[to] > V.curtime /\ ~Expired(V, to)

LEMMA DelSets ==
  ASSUME NEW U, WheelInv(U), NEW to \in Timeout
  PROVE  WheelInv(Del(U, to)) /\ OneSet(U, Del(U, to), to)
  <1>1. WheelInv(Del(U, to)) /\ TakenOff(U, Del(U, to), to)
    BY DelIs
  <1>2. \A u \in Timeout : OnWheel(Del(U, to), u) <=> OnWheel(U, u) /\ u # to
    BY <1>1 DEF TakenOff, OnWheel
  <1> QED
    BY <1>1, <1>2 DEF TakenOff, OneSet

LEMMA SchedSets ==
  ASSUME NEW U, WheelInv(U), NEW to \in Timeout, NEW e \in Nat
  PROVE  /\ WheelInv(Sched(U, to, e)) /\ OneSet(U, Sched(U, to, e), to)
         /\ OnWheel(Sched(U, to, e), to) \/ Expired(Sched(U, to, e), to)
  <1> DEFINE V == Sched(U, to, e)
  <1>1. WheelInv(V) /\ SetFor(U, V, to, e)
    BY SchedIs
  <1>2. U.expires \in [Timeout -> Nat]
    BY WheelFields DEF WheelInv
  <1> HIDE DEF V
  <1>3. V.expires[to] = e /\ \A u \in Timeout \ {to} : V.expires[u] = U.expires[u]
    BY <1>1, <1>2 DEF SetFor
  <1> QED
    BY <1>1, <1>3 DEF SetFor, OneSet, V

LEMMA AddSets ==
  ASSUME NEW U, WheelInv(U), NEW to \in Timeout, NEW timeout \in Nat,
         NEW repeats \in BOOLEAN, NEW absolute \in BOOLEAN
  PROVE  LET V == Add(U, to, timeout, repeats, absolute)
         IN  WheelInv(V) /\ OneSet(U, V, to) /\ (OnWheel(V, to) \/ Expired(V, to))
  <1> DEFINE i == IF repeats THEN Max({1, timeout}) ELSE 0
             e == IF absolute THEN timeout ELSE U.curtime + timeout
             A == [U EXCEPT !.interval[to] = i]
  <1>1. i \in Nat
    BY MaxOfTwo
  <1>2. /\ U \in Timeouts /\ U.curtime \in Nat /\ U.expired \in Seq(Timeout)
        /\ U.expires \in [Timeout -> Nat] /\ U.interval \in [Timeout -> Nat]
        /\ Single(U.expired)
    BY WheelFields DEF WheelInv, OnOneList
  <1>3. e \in Nat
    BY <1>2
  <1> HIDE DEF i, e
  <1>4. /\ A \in Timeouts /\ A.curtime = U.curtime /\ A.wheel = U.wheel /\ A.pending = U.pending
        /\ A.expired = U.expired /\ A.expires = U.expires
    BY <1>1, <1>2 DEF Timeouts
  <1> HIDE DEF A
  <1>5. WheelInv(A) /\ \A u : OnWheel(A, u) <=> OnWheel(U, u)
    BY <1>2, <1>4, SameWheels DEF Expired
  <1>6. Add(U, to, timeout, repeats, absolute) = Sched(A, to, e)
    BY DEF Add, A, i, e
  <1>7. /\ WheelInv(Sched(A, to, e)) /\ OneSet(A, Sched(A, to, e), to)
        /\ OnWheel(Sched(A, to, e), to) \/ Expired(Sched(A, to, e), to)
    BY <1>3, <1>5, SchedSets
  <1>8. OneSet(U, Sched(A, to, e), to)
    BY <1>4, <1>5, <1>7 DEF OneSet, Expired
  <1> QED
    BY <1>6, <1>7, <1>8

(* The expired timeout handed out is off, or set for a later time: when it missed some
   of its times, for the next one after them. *)
LEMMA GetSets ==
  ASSUME NEW U, WheelInv(U), U.expired # <<>>
  PROVE  \E to \in Timeout : WheelInv(Get(U)) /\ OneSet(U, Get(U), to)
  <1> DEFINE to == Head(U.expired)
             A == [U EXCEPT !.expired = Tail(@)]
  <1>1. /\ U \in Timeouts /\ U.curtime \in Nat /\ U.expired \in Seq(Timeout)
        /\ U.expires \in [Timeout -> Nat] /\ U.interval \in [Timeout -> Nat]
        /\ Single(U.expired)
        /\ \A w \in Wheel, s \in Slot, u \in Timeout : Contains(U.wheel[w][s], u) => ~Expired(U, u)
    BY WheelFields DEF WheelInv, OnOneList
  <1>2. /\ to \in Timeout /\ Contains(U.expired, to) /\ Tail(U.expired) \in Seq(Timeout)
        /\ Single(Tail(U.expired))
        /\ \A u : Contains(Tail(U.expired), u) <=> Contains(U.expired, u) /\ u # to
    BY <1>1, HeadTailIs
  <1>3. /\ A \in Timeouts /\ A.curtime = U.curtime /\ A.wheel = U.wheel /\ A.pending = U.pending
        /\ A.expired = Tail(U.expired) /\ A.expires = U.expires /\ A.interval = U.interval
    BY <1>1, <1>2 DEF Timeouts
  <1>4. Get(U) = IF A.interval[to] > 0 THEN Readd(A, to) ELSE A
    BY DEF Get
  <1> HIDE DEF A, to
  <1>5. WheelInv(A) /\ \A u : OnWheel(A, u) <=> OnWheel(U, u)
    BY <1>1, <1>2, <1>3, SameWheels DEF Expired
  <1>6. \A u : Expired(A, u) <=> Expired(U, u) /\ u # to
    BY <1>2, <1>3 DEF Expired
  <1>7. OneSet(U, A, to)
    BY <1>1, <1>2, <1>3, <1>5, <1>6 DEF OneSet, OnWheel, Expired
  <1>8. CASE A.interval[to] > 0
    <2> DEFINE next == A.expires[to] + A.interval[to]
               late == A.curtime - next
               e == IF next > A.curtime THEN next
                    ELSE A.curtime + A.interval[to] - (late % A.interval[to])
    <2>1. A.expires[to] \in Nat /\ A.interval[to] \in Nat \ {0} /\ A.curtime \in Nat
      BY <1>1, <1>2, <1>3, <1>8
    <2>2. Readd(A, to) = Sched(A, to, e)
      BY DEF Readd
    <2>3. e \in Nat
      <3>1. late \in Int
        BY <2>1
      <3>2. late % A.interval[to] \in 0 .. A.interval[to] - 1
        BY <2>1, <3>1, ModRange
      <3> HIDE DEF late
      <3> QED
        BY <2>1, <3>2
    <2> HIDE DEF e
    <2>4. WheelInv(Sched(A, to, e)) /\ OneSet(A, Sched(A, to, e), to)
      BY <1>2, <1>5, <2>3, SchedSets
    <2>5. OneSet(U, Sched(A, to, e), to)
      BY <1>7, <2>4 DEF OneSet
    <2> QED
      BY <1>2, <1>4, <1>8, <2>2, <2>4, <2>5
  <1>9. CASE ~(A.interval[to] > 0)
    BY <1>2, <1>4, <1>5, <1>7, <1>9
  <1> QED
    BY <1>8, <1>9

LEMMA ResetIs ==
  ASSUME NEW U, WheelInv(U)
  PROVE  /\ WheelInv(Reset(U)) /\ Reset(U).curtime = U.curtime /\ Reset(U).expires = U.expires
         /\ \A u : ~OnWheel(Reset(U), u) /\ ~Expired(Reset(U), u)
  <1> DEFINE V == Reset(U)
  <1>1. U.curtime \in Nat /\ U.expires \in [Timeout -> Nat] /\ U.interval \in [Timeout -> Nat]
    BY WheelFields DEF WheelInv
  <1>2. /\ V \in Timeouts /\ V.curtime = U.curtime /\ V.expires = U.expires /\ V.expired = <<>>
        /\ \A w \in Wheel : V.pending[w] = {}
        /\ \A w \in Wheel, s \in Slot : V.wheel[w][s] = <<>>
    <2> DEFINE E == EmptyTimeouts
    <2>1. /\ E = [x \in DOMAIN E |-> E[x]]
          /\ DOMAIN E = {"curtime", "wheel", "pending", "expired", "expires", "interval"}
          /\ E.expired = <<>> /\ E.pending = [w \in Wheel |-> {}]
          /\ E.wheel = [w \in Wheel |-> [s \in Slot |-> <<>>]]
      BY DEF EmptyTimeouts
    <2>2. V = [E EXCEPT !.curtime = U.curtime, !.expires = U.expires, !.interval = U.interval]
      BY DEF Reset
    <2> HIDE DEF E, V
    <2>3. /\ V = [x \in DOMAIN V |-> V[x]]
          /\ DOMAIN V = {"curtime", "wheel", "pending", "expired", "expires", "interval"}
          /\ V.curtime = U.curtime /\ V.expires = U.expires /\ V.interval = U.interval
          /\ V.expired = <<>> /\ V.pending = [w \in Wheel |-> {}]
          /\ V.wheel = [w \in Wheel |-> [s \in Slot |-> <<>>]]
      BY <2>1, <2>2
    <2>4. V = [curtime |-> V.curtime, wheel |-> V.wheel, pending |-> V.pending,
               expired |-> V.expired, expires |-> V.expires, interval |-> V.interval]
      BY <2>3, WheelRecord
    <2>5. /\ V.wheel \in [Wheel -> [Slot -> Seq(Timeout)]] /\ V.pending \in [Wheel -> SUBSET Slot]
          /\ V.expired \in Seq(Timeout)
      BY <2>3
    <2>6. V \in Timeouts
      <3>1. V.curtime \in Nat /\ V.expires \in [Timeout -> Nat] /\ V.interval \in [Timeout -> Nat]
        BY <1>1, <2>3
      <3> QED
        BY <2>4, <2>5, <3>1 DEF Timeouts
    <2>7. \A w \in Wheel, s \in Slot : V.wheel[w][s] = <<>> /\ V.pending[w] = {}
      BY <2>3
    <2> QED
      BY <2>3, <2>6, <2>7
  <1> HIDE DEF V
  <1>3. BitsAgree(V) /\ OnOneList(V) /\ AllDue(V) /\ \A u : ~OnWheel(V, u) /\ ~Expired(V, u)
    BY <1>2, EmptyHasNone DEF BitsAgree, OnOneList, AllDue, OnWheel, Expired
  <1> QED
    BY <1>2, <1>3 DEF WheelInv, V

-----------------------------------------------------------------------------
(* The update *)

(* What the update takes off the wheels, and how it leaves them. *)
LEMMA RestIs ==
  ASSUME NEW U, WheelInv(U), NEW now \in Nat
  PROVE  LET gone == Gone(U, now)
             V == Rest(U, now, gone)
         IN  /\ gone \in [Wheel -> SUBSET Slot] /\ WheelInv(V)
             /\ V.curtime = now /\ V.expired = U.expired
             /\ V.expires = U.expires /\ V.interval = U.interval
             /\ \A w \in Wheel, s \in Slot, u \in Timeout :
                   Contains(V.wheel[w][s], u) <=> Contains(U.wheel[w][s], u) /\ s \notin gone[w]
  <1> DEFINE gone == Gone(U, now)
             V == Rest(U, now, gone)
  <1>0. U \in Timeouts /\ BitsAgree(U) /\ OnOneList(U) /\ AllDue(U)
    BY DEF WheelInv
  <1>1. /\ U.curtime \in Nat /\ U.expired \in Seq(Timeout)
        /\ U.expires \in [Timeout -> Nat] /\ U.interval \in [Timeout -> Nat]
        /\ U.wheel \in [Wheel -> [Slot -> Seq(Timeout)]] /\ U.pending \in [Wheel -> SUBSET Slot]
        /\ \A w \in Wheel, s \in Slot : U.wheel[w][s] \in Seq(Timeout)
    BY <1>0, WheelFields
  <1>2. /\ gone \in [Wheel -> SUBSET Slot]
        /\ \A w \in Wheel : gone[w] = IF w \in Turned(U, now)
                                      THEN Passed(U, now, w) \cap U.pending[w] ELSE {}
    BY <1>1 DEF Gone
  <1> HIDE DEF gone
  <1> DEFINE wheel == [w \in Wheel |-> [s \in Slot |-> IF s \in gone[w] THEN <<>> ELSE U.wheel[w][s]]]
             pending == [w \in Wheel |-> U.pending[w] \ gone[w]]
  <1>3. /\ V.curtime = now /\ V.wheel = wheel /\ V.pending = pending
        /\ V.expired = U.expired /\ V.expires = U.expires /\ V.interval = U.interval
        /\ V = [curtime |-> V.curtime, wheel |-> V.wheel, pending |-> V.pending,
                expired |-> V.expired, expires |-> V.expires, interval |-> V.interval]
    <2>1. DOMAIN U = {"curtime", "wheel", "pending", "expired", "expires", "interval"}
      BY <1>0 DEF Timeouts
    <2>2. V = [U EXCEPT !.curtime = now, !.pending = pending, !.wheel = wheel]
      BY Zenon DEF Rest
    <2> HIDE DEF V, wheel, pending
    <2>3. /\ V.curtime = now /\ V.wheel = wheel /\ V.pending = pending
          /\ V.expired = U.expired /\ V.expires = U.expires /\ V.interval = U.interval
      BY <2>1, <2>2
    <2>4. V = [x \in DOMAIN V |-> V[x]] /\ DOMAIN V = DOMAIN U
      BY <2>2
    <2> QED
      BY <2>1, <2>3, <2>4, WheelRecord
  <1> HIDE DEF V
  <1>4. ASSUME NEW w \in Wheel, NEW s \in Slot
        PROVE  /\ V.wheel[w][s] = IF s \in gone[w] THEN <<>> ELSE U.wheel[w][s]
               /\ V.wheel[w][s] \in Seq(Timeout) /\ Single(V.wheel[w][s])
               /\ \A u : Contains(V.wheel[w][s], u) <=> Contains(U.wheel[w][s], u) /\ s \notin gone[w]
    <2>1. V.wheel[w][s] = IF s \in gone[w] THEN <<>> ELSE U.wheel[w][s]
      BY <1>3
    <2>2. U.wheel[w][s] \in Seq(Timeout) /\ Single(U.wheel[w][s]) /\ <<>> \in Seq(Timeout)
      BY <1>0, <1>1 DEF OnOneList
    <2> QED
      BY <2>1, <2>2, EmptyHasNone
  <1>5. V \in Timeouts
    <2>1. V.wheel \in [Wheel -> [Slot -> Seq(Timeout)]]
      BY <1>3, <1>4
    <2>2. V.pending \in [Wheel -> SUBSET Slot]
      BY <1>1, <1>3
    <2>3. V.curtime \in Nat /\ V.expired \in Seq(Timeout) /\ V.expires \in [Timeout -> Nat]
          /\ V.interval \in [Timeout -> Nat]
      BY <1>1, <1>3
    <2>4. V = [curtime |-> V.curtime, wheel |-> V.wheel, pending |-> V.pending,
               expired |-> V.expired, expires |-> V.expires, interval |-> V.interval]
      BY <1>3
    <2> QED
      BY <2>1, <2>2, <2>3, <2>4 DEF Timeouts
  <1>6. BitsAgree(V)
    <2> SUFFICES ASSUME NEW w \in Wheel, NEW s \in Slot
                 PROVE  s \in V.pending[w] <=> V.wheel[w][s] # <<>>
      BY <1>5, WheelFields DEF BitsAgree
    <2>1. s \in U.pending[w] <=> U.wheel[w][s] # <<>>
      BY <1>0 DEF BitsAgree
    <2>2. s \in V.pending[w] <=> s \in U.pending[w] /\ s \notin gone[w]
      BY <1>3
    <2> QED
      BY <1>4, <2>1, <2>2
  <1>7. OnOneList(V)
    <2>1. Single(V.expired) /\ \A w \in Wheel, s \in Slot : Single(V.wheel[w][s])
      BY <1>0, <1>3, <1>4 DEF OnOneList
    <2>2. \A w, v \in Wheel, s, r \in Slot, u \in Timeout :
               Contains(V.wheel[w][s], u) /\ Contains(V.wheel[v][r], u) => w = v /\ s = r
      <3>1. \A w \in Wheel, s \in Slot : \A u : Contains(V.wheel[w][s], u) => Contains(U.wheel[w][s], u)
        BY <1>4
      <3> QED
        BY <1>0, <3>1, Zenon DEF OnOneList
    <2>3. \A w \in Wheel, s \in Slot, u \in Timeout : Contains(V.wheel[w][s], u) => ~Expired(V, u)
      BY <1>0, <1>3, <1>4 DEF OnOneList, Expired
    <2> QED
      BY <2>1, <2>2, <2>3 DEF OnOneList
  <1>8. AllDue(V)
    <2> SUFFICES ASSUME NEW w \in Wheel, NEW s \in Slot, NEW u \in Timeout, Contains(V.wheel[w][s], u)
                 PROVE  Due(V, w, s, u)
      BY DEF AllDue
    <2>1. Contains(U.wheel[w][s], u) /\ s \notin gone[w]
      BY <1>4
    <2>2. Due(U, w, s, u)
      BY <1>0, <2>1 DEF AllDue
    <2>3. s \in U.pending[w]
      BY <1>0, <2>1, EmptyHasNone DEF BitsAgree
    <2>4. ~(w \in Turned(U, now) /\ s \in Passed(U, now, w))
      BY <1>2, <2>1, <2>3
    <2>5. U.expires[u] \in Nat
      BY <1>1
    <2>6. now < U.expires[u] /\ (w # 0 => Ticks(w, now) < Ticks(w, U.expires[u]))
      BY <1>1, <2>2, <2>4, <2>5, DueKept
    <2> QED
      BY <1>3, <2>2, <2>6 DEF Due
  <1>9. /\ gone \in [Wheel -> SUBSET Slot] /\ WheelInv(V)
        /\ V.curtime = now /\ V.expired = U.expired
        /\ V.expires = U.expires /\ V.interval = U.interval
        /\ \A w \in Wheel, s \in Slot, u \in Timeout :
              Contains(V.wheel[w][s], u) <=> Contains(U.wheel[w][s], u) /\ s \notin gone[w]
    BY <1>2, <1>3, <1>4, <1>5, <1>6, <1>7, <1>8 DEF WheelInv
  <1> QED
    BY <1>9 DEF gone, V

(* The timeouts of the slots that go. *)
LEMMA TodoIs ==
  ASSUME NEW U \in Timeouts, NEW gone \in [Wheel -> SUBSET Slot]
  PROVE  /\ Todo(U, gone) \in Seq(Timeout)
         /\ \A u : Contains(Todo(U, gone), u)
                   <=> \E w \in Wheel, s \in Slot : s \in gone[w] /\ Contains(U.wheel[w][s], u)
  <1> DEFINE L == WheelLen
             N == WheelNum * L
             wh(n) == (n - 1) \div L
             sl(n) == (n - 1) % L
             q == [n \in 1 .. N |-> IF sl(n) \in gone[wh(n)] THEN U.wheel[wh(n)][sl(n)] ELSE <<>>]
  <1>1. L \in Nat \ {0} /\ WheelNum \in Nat \ {0} /\ N \in Nat \ {0}
    BY WheelLenType, BitsType, TimesMonotone
  <1>2. ASSUME NEW n \in 1 .. N
        PROVE  wh(n) \in Wheel /\ sl(n) \in Slot
    <2>1. n - 1 \in Nat /\ n - 1 < N
      BY <1>1
    <2>2. wh(n) \in Nat /\ sl(n) \in 0 .. L - 1 /\ wh(n) * L <= n - 1
      <3>1. (n - 1) \div L \in Nat /\ (n - 1) % L \in 0 .. L - 1
        BY <1>1, <2>1, DivMod
      <3>2. ((n - 1) \div L) * L <= n - 1
        BY <1>1, <2>1, <3>1, QuotientBelow
      <3> QED
        BY <3>1, <3>2
    <2>3. wh(n) < WheelNum
      <3> SUFFICES ASSUME WheelNum <= wh(n) PROVE FALSE
        BY <1>1, <2>2
      <3> HIDE DEF L, wh
      <3>1. WheelNum * L <= wh(n) * L /\ WheelNum * L \in Nat /\ wh(n) * L \in Nat
        BY <1>1, <2>2, TimesMonotone
      <3> QED
        BY <1>1, <2>1, <2>2, <3>1
    <2> HIDE DEF wh, sl
    <2> QED
      BY <1>1, <2>2, <2>3 DEF Wheel, Slot
  <1>3. ASSUME NEW w \in Wheel, NEW s \in Slot
        PROVE  \E n \in 1 .. N : wh(n) = w /\ sl(n) = s
    <2>0. w \in Nat /\ w + 1 <= WheelNum /\ s \in 0 .. L - 1
      BY <1>1 DEF Wheel, Slot
    <2> DEFINE n == w * L + s + 1
    <2>1. w * L \in Nat /\ (w + 1) * L <= WheelNum * L /\ (w + 1) * L = w * L + L
      BY <1>1, <2>0, TimesMonotone
    <2>2. n \in 1 .. N /\ n - 1 = w * L + s /\ n - 1 \in Nat
      BY <1>1, <2>0, <2>1
    <2> HIDE DEF n
    <2>3. wh(n) \in Nat /\ sl(n) \in 0 .. L - 1 /\ n - 1 = wh(n) * L + sl(n)
      BY <1>1, <2>2, DivMod
    <2> HIDE DEF wh, sl
    <2>4. wh(n) = w /\ sl(n) = s
      BY <1>1, <2>0, <2>2, <2>3, QuotientUnique
    <2> QED
      BY <2>2, <2>4
  <1>4. Todo(U, gone) = FlattenSeq(q)
    BY Zenon DEF Todo
  <1>5. \A w \in Wheel, s \in Slot : U.wheel[w][s] \in Seq(Timeout)
    BY WheelFields
  <1> HIDE DEF L, N, wh, sl
  <1>6. /\ \A n \in 1 .. N : q[n] = IF sl(n) \in gone[wh(n)] THEN U.wheel[wh(n)][sl(n)] ELSE <<>>
        /\ q \in [1 .. N -> Seq(Timeout)]
    BY <1>2, <1>5
  <1> HIDE DEF q
  <1>7. /\ FlattenSeq(q) \in Seq(Timeout)
        /\ \A u : Contains(FlattenSeq(q), u) <=> \E n \in 1 .. N : Contains(q[n], u)
    BY <1>1, <1>6, FlattenHas
  <1>8. ASSUME NEW u
        PROVE  (\E n \in 1 .. N : Contains(q[n], u))
               <=> \E w \in Wheel, s \in Slot : s \in gone[w] /\ Contains(U.wheel[w][s], u)
    <2>1. \A n \in 1 .. N : Contains(q[n], u) <=> sl(n) \in gone[wh(n)] /\ Contains(U.wheel[wh(n)][sl(n)], u)
      BY <1>6, EmptyHasNone
    <2> QED
      BY <1>2, <1>3, <2>1
  <1> QED
    BY <1>4, <1>7, <1>8

(* They are scheduled one after the other, each for the time it had. *)
LEMMA AllAgainIs ==
  ASSUME NEW U, WheelInv(U), NEW todo \in Seq(Timeout)
  PROVE  LET V == AllAgain(U, todo)
         IN  /\ WheelInv(V) /\ V.curtime = U.curtime /\ V.expires = U.expires /\ V.interval = U.interval
             /\ \A u \in Timeout :
                   IF Contains(todo, u)
                   THEN /\ OnWheel(V, u) <=> U.expires[u] > U.curtime
                        /\ Expired(V, u) <=> ~(U.expires[u] > U.curtime)
                   ELSE /\ OnWheel(V, u) <=> OnWheel(U, u)
                        /\ Expired(V, u) <=> Expired(U, u)
  <1>0. Len(todo) \in Nat /\ DOMAIN todo = 1 .. Len(todo) /\ \A i \in 1 .. Len(todo) : todo[i] \in Timeout
    BY LenProperties, ElementOfSeq
  <1>1. PICK f : /\ f[0] = U /\ f[Len(todo)] = AllAgain(U, todo)
                 /\ \A i \in 0 .. Len(todo) - 1 : f[i + 1] = Again(f[i], todo[i + 1])
    BY <1>0, AllAgainSteps
  <1>e. U.expires \in [Timeout -> Nat]
    BY WheelFields DEF WheelInv
  <1> DEFINE Past(u, i) == \E j \in 1 .. i : todo[j] = u
             Good(V, i) ==
               /\ WheelInv(V) /\ V.curtime = U.curtime /\ V.expires = U.expires /\ V.interval = U.interval
               /\ \A u \in Timeout : Past(u, i) =>
                     /\ OnWheel(V, u) <=> U.expires[u] > U.curtime
                     /\ Expired(V, u) <=> ~(U.expires[u] > U.curtime)
               /\ \A u \in Timeout : ~Past(u, i) =>
                     /\ OnWheel(V, u) <=> OnWheel(U, u)
                     /\ Expired(V, u) <=> Expired(U, u)
             S == {i \in Nat : Good(f[i], i)}
  <1>2. 0 \in S
    BY <1>1
  <1>3. ASSUME NEW i \in 0 .. Len(todo) - 1, i \in S PROVE i + 1 \in S
    <2> DEFINE V == f[i]
               W == f[i + 1]
               to == todo[i + 1]
               e == V.expires[to]
    <2>0. i \in Nat /\ i + 1 \in 1 .. Len(todo)
      BY <1>0
    <2>1. to \in Timeout /\ W = Sched(V, to, e)
      BY <1>0, <1>1, <2>0 DEF Again
    <2>2. Good(V, i)
      BY <1>3
    <2> HIDE DEF V, W
    <2>3. e \in Nat /\ e = U.expires[to]
      BY <1>e, <2>1, <2>2
    <2>p. \A u : Past(u, i + 1) <=> Past(u, i) \/ u = to
      BY <2>0
    <2> HIDE DEF e, to, Past
    <2>4. WheelInv(W) /\ SetFor(V, W, to, e)
      BY <2>1, <2>2, <2>3, SchedIs
    <2>5. W.curtime = U.curtime /\ W.interval = U.interval /\ W.expires = U.expires
      BY <1>e, <2>1, <2>2, <2>3, <2>4 DEF SetFor
    <2>6. /\ OnWheel(W, to) <=> U.expires[to] > U.curtime
          /\ Expired(W, to) <=> ~(U.expires[to] > U.curtime)
          /\ \A u \in Timeout \ {to} : (OnWheel(W, u) <=> OnWheel(V, u)) /\ (Expired(W, u) <=> Expired(V, u))
      BY <2>2, <2>3, <2>4 DEF SetFor
    <2>7. Good(W, i + 1)
      BY <2>2, <2>4, <2>5, <2>6, <2>p
    <2> QED
      BY <2>0, <2>7 DEF W
  <1> HIDE DEF S
  <1>4. 0 .. Len(todo) \subseteq S
    BY <1>0, <1>2, <1>3, InductionTo
  <1>5. Len(todo) \in S
    BY <1>0, <1>4
  <1>6. Good(AllAgain(U, todo), Len(todo))
    BY <1>1, <1>5 DEF S
  <1>7. \A u : Contains(todo, u) <=> Past(u, Len(todo))
    BY <1>0 DEF Contains
  <1> HIDE DEF Past
  <1> QED
    BY <1>6, <1>7

(* What an update to a time does. *)
Updated(U, V, now) ==
    /\ V.curtime = now /\ V.expires = U.expires /\ V.interval = U.interval
    /\ \A u \in Timeout :
          /\ OnWheel(V, u) <=> OnWheel(U, u) /\ U.expires[u] > now
          /\ Expired(V, u) <=> Expired(U, u) \/ (OnWheel(U, u) /\ ~(U.expires[u] > now))

LEMMA UpdateIs ==
  ASSUME NEW U, WheelInv(U), NEW now \in Nat
  PROVE  WheelInv(Update(U, now)) /\ Updated(U, Update(U, now), now)
  <1> DEFINE gone == Gone(U, now)
             R == Rest(U, now, gone)
             todo == Todo(U, gone)
             V == AllAgain(R, todo)
  <1>1. /\ gone \in [Wheel -> SUBSET Slot] /\ WheelInv(R)
        /\ R.curtime = now /\ R.expired = U.expired
        /\ R.expires = U.expires /\ R.interval = U.interval
        /\ \A w \in Wheel, s \in Slot, u \in Timeout :
              Contains(R.wheel[w][s], u) <=> Contains(U.wheel[w][s], u) /\ s \notin gone[w]
    BY RestIs
  <1>0. Update(U, now) = V
    BY DEF Update
  <1> HIDE DEF gone, R
  <1>2. /\ todo \in Seq(Timeout)
        /\ \A u : Contains(todo, u) <=> \E w \in Wheel, s \in Slot : s \in gone[w] /\ Contains(U.wheel[w][s], u)
    BY <1>1, TodoIs DEF WheelInv
  <1> HIDE DEF todo
  <1>3. /\ WheelInv(V) /\ V.curtime = R.curtime /\ V.expires = R.expires /\ V.interval = R.interval
        /\ \A u \in Timeout :
              IF Contains(todo, u)
              THEN /\ OnWheel(V, u) <=> R.expires[u] > R.curtime
                   /\ Expired(V, u) <=> ~(R.expires[u] > R.curtime)
              ELSE /\ OnWheel(V, u) <=> OnWheel(R, u)
                   /\ Expired(V, u) <=> Expired(R, u)
    BY <1>1, <1>2, AllAgainIs
  <1> HIDE DEF V
  <1>4. ASSUME NEW u \in Timeout
        PROVE  /\ OnWheel(V, u) <=> OnWheel(U, u) /\ U.expires[u] > now
               /\ Expired(V, u) <=> Expired(U, u) \/ (OnWheel(U, u) /\ ~(U.expires[u] > now))
    <2>1. CASE Contains(todo, u)
      <3>1. OnWheel(U, u) /\ ~Expired(U, u)
        BY <1>2, <2>1 DEF WheelInv, OnOneList, OnWheel
      <3> QED
        BY <1>1, <1>3, <2>1, <3>1
    <2>2. CASE ~Contains(todo, u)
      <3>1. OnWheel(R, u) <=> OnWheel(U, u)
        BY <1>1, <1>2, <2>2 DEF OnWheel
      <3>2. OnWheel(R, u) => R.curtime < R.expires[u]
        BY <1>1 DEF WheelInv, AllDue, OnWheel, Due
      <3>3. Expired(R, u) <=> Expired(U, u)
        BY <1>1 DEF Expired
      <3>4. now \in Nat /\ U.expires[u] \in Nat
        BY WheelFields DEF WheelInv
      <3> QED
        BY <1>1, <1>3, <2>2, <3>1, <3>2, <3>3, <3>4
    <2> QED
      BY <2>1, <2>2
  <1>5. WheelInv(V) /\ Updated(U, V, now)
    BY <1>1, <1>3, <1>4 DEF Updated
  <1> QED
    BY <1>0, <1>5

-----------------------------------------------------------------------------
(* The library's check *)

(* The turns of a wheel to its first populated slot, and the time to it. *)
TurnOf(U, w) == Ctz(RotR(U.pending[w], Ticks(w, U.curtime))) + (IF w = 0 THEN 0 ELSE 1)
WaitOf(U, w) == TurnOf(U, w) * Width[w] - (U.curtime % Width[w])

LEMMA TurnIs ==
  ASSUME NEW U, WheelInv(U), NEW w \in Wheel, NEW s \in U.pending[w]
  PROVE  /\ TurnOf(U, w) \in Nat /\ (w # 0 => TurnOf(U, w) >= 1)
         /\ TurnOf(U, w) <= ((s - Ticks(w, U.curtime)) % WheelLen) + (IF w = 0 THEN 0 ELSE 1)
  <1> DEFINE a == Ticks(w, U.curtime)
             R == RotR(U.pending[w], a)
  <1>1. a \in Nat /\ WheelLen \in Nat \ {0} /\ U.pending[w] \subseteq Slot
    <2>1. w \in 0 .. WheelNum /\ U.curtime \in Nat /\ U.pending[w] \subseteq Slot
      BY BitsType, WheelFields DEF WheelInv, Wheel
    <2> QED
      BY <2>1, TicksType, WheelLenType
  <1> HIDE DEF a
  <1>2. R \subseteq Nat /\ (s - a) % WheelLen \in R
    <2>1. \A r \in U.pending[w] : (r - a) % WheelLen \in 0 .. WheelLen - 1
      <3> TAKE r \in U.pending[w]
      <3>1. r - a \in Int
        BY <1>1 DEF Slot
      <3> QED
        BY <1>1, <3>1, ModRange
    <2>2. \A r \in U.pending[w] : (r - a) % WheelLen \in Nat
      BY <1>1, <2>1
    <2> QED
      BY <2>2 DEF RotR
  <1>3. Ctz(R) \in Nat /\ Ctz(R) <= (s - a) % WheelLen
    <2> HIDE DEF R
    <2> QED
      BY <1>2, MinIs DEF Ctz
  <1>4. TurnOf(U, w) = Ctz(R) + (IF w = 0 THEN 0 ELSE 1)
    BY DEF TurnOf, a
  <1>5. (s - a) % WheelLen \in Nat
    BY <1>2
  <1> HIDE DEF R
  <1> QED
    BY <1>3, <1>4, <1>5 DEF a

LEMMA WaitIs ==
  ASSUME NEW U, WheelInv(U), NEW w \in Wheel, U.pending[w] # {}
  PROVE  WaitOf(U, w) \in Nat
  <1> DEFINE W == Width[w]
             n == TurnOf(U, w)
             r == U.curtime % W
  <1>1. w \in 0 .. WheelNum /\ U.curtime \in Nat
    BY BitsType, WheelFields DEF WheelInv, Wheel
  <1>2. W \in Nat \ {0} /\ (w = 0 => W = 1)
    BY <1>1, WidthIs
  <1>3. n \in Nat /\ (w # 0 => n >= 1)
    BY TurnIs
  <1> HIDE DEF W, n
  <1>4. r \in 0 .. W - 1
    <2>1. U.curtime \in Int
      BY <1>1
    <2> QED
      BY <1>2, <2>1, ModRange
  <1> HIDE DEF r
  <1>5. n * W - r \in Nat
    <2>1. CASE w = 0
      BY <1>2, <1>3, <1>4, <2>1
    <2>2. CASE w # 0
      <3>1. 1 * W <= n * W /\ n * W \in Nat
        BY <1>2, <1>3, <2>2, TimesMonotone
      <3> QED
        BY <1>2, <1>4, <3>1
    <2> QED
      BY <2>1, <2>2
  <1> QED
    BY <1>5 DEF WaitOf, W, n, r

LEMMA WaitInTime ==
  ASSUME NEW U, WheelInv(U), NEW w \in Wheel, NEW s \in Slot, NEW to \in Timeout,
         Contains(U.wheel[w][s], to)
  PROVE  /\ U.pending[w] # {} /\ U.curtime < U.expires[to] /\ U.expires[to] \in Nat
         /\ WaitOf(U, w) <= U.expires[to] - U.curtime
  <1> DEFINE cur == U.curtime
             e == U.expires[to]
             W == Width[w]
             a == Ticks(w, cur)
             b == Ticks(w, e)
             d == IF w = 0 THEN 0 ELSE 1
             n == TurnOf(U, w)
             r == cur % W
  <1>1. w \in 0 .. WheelNum /\ cur \in Nat /\ e \in Nat
    BY BitsType, WheelFields DEF WheelInv, Wheel
  <1>2. s \in U.pending[w]
    BY EmptyHasNone DEF WheelInv, BitsAgree
  <1>3. s = (b - d) % WheelLen /\ cur < e /\ (w # 0 => a < b)
    BY DEF WheelInv, AllDue, Due, WheelSlot
  <1>4. W \in Nat \ {0} /\ WheelLen \in Nat \ {0} /\ (w = 0 => W = 1 /\ a = cur /\ b = e) /\ a \in Nat /\ b \in Nat
    BY <1>1, WidthIs, WheelLenType, TicksType
  <1>5. n \in Nat /\ n <= ((s - a) % WheelLen) + d
    BY <1>2, TurnIs
  <1>6. r \in 0 .. W - 1 /\ cur = a * W + r /\ b * W <= e
    <2>1. cur \div W \in Nat /\ r \in 0 .. W - 1 /\ cur = (cur \div W) * W + r
      BY <1>1, <1>4, DivMod
    <2>2. (e \div W) * W <= e
      <3>1. e \div W \in Nat
        BY <1>1, <1>4, DivMod
      <3> QED
        BY <1>1, <1>4, <3>1, QuotientBelow
    <2> QED
      BY <2>1, <2>2 DEF Ticks
  <1>7. WaitOf(U, w) = n * W - r
    BY DEF WaitOf
  <1> HIDE DEF W, n, r, a, b
  <1>d. d \in {0, 1} /\ (w = 0 => d = 0)
    OBVIOUS
  <1> HIDE DEF d
  <1>8. n <= b - a
    <2>1. (((b - d) % WheelLen) - a) % WheelLen = (b - d - a) % WheelLen
      <3>1. b - d \in Int /\ a \in Int
        BY <1>4, <1>d
      <3> QED
        BY <1>4, <3>1, RemainderShift
    <2>2. b - d - a \in Nat
      <3>1. w # 0 => b - d - a >= 0
        BY <1>3, <1>4, <1>d
      <3>2. w = 0 => b - d - a >= 0
        BY <1>1, <1>3, <1>4, <1>d
      <3> QED
        BY <1>4, <1>d, <3>1, <3>2
    <2>3. (b - d - a) % WheelLen <= b - d - a /\ (b - d - a) % WheelLen \in Nat
      <3> DEFINE x == b - d - a
      <3> HIDE DEF x
      <3>1. x \in Nat /\ x \in Int
        BY <2>2 DEF x
      <3>2. x % WheelLen <= x
        BY <1>4, <3>1, RemainderAtMost
      <3>3. x % WheelLen \in 0 .. WheelLen - 1
        BY <1>4, <3>1, ModRange
      <3>4. x % WheelLen \in Nat
        BY <1>4, <3>3
      <3> QED
        BY <3>2, <3>4 DEF x
    <2> QED
      BY <1>3, <1>4, <1>5, <1>d, <2>1, <2>3
  <1>9. n * W - r <= e - cur
    <2>1. n * W <= (b - a) * W /\ n * W \in Nat
      <3>1. b - a \in Nat
        BY <1>4, <1>5, <1>8
      <3> QED
        BY <1>4, <1>5, <1>8, <3>1, TimesMonotone
    <2>2. (b - a) * W = b * W - a * W /\ b * W \in Nat /\ a * W \in Nat
      BY <1>4, TimesMonotone
    <2> HIDE DEF cur, e
    <2> QED
      BY <1>1, <1>4, <1>6, <2>1, <2>2
  <1> QED
    BY <1>1, <1>2, <1>3, <1>7, <1>9

(* The check of a wheel that keeps its invariant. *)
LEMMA CheckIs ==
  ASSUME NEW U, WheelInv(U)
  PROVE  Check(U)
  <1> DEFINE Populated == {v \in Wheel : U.pending[v] # {}}
             Waits == {WaitOf(U, w) : w \in Populated}
             soft == SoftTimeout(U)
             hard == Hard(U)
  <1>1. U.curtime \in Nat /\ U.expires \in [Timeout -> Nat] /\ U.pending \in [Wheel -> SUBSET Slot]
        /\ \A w \in Wheel, s \in Slot : U.wheel[w][s] \in Seq(Timeout)
    BY WheelFields DEF WheelInv
  <1>2. soft = Min({Never} \cup Waits)
    BY DEF SoftTimeout, WaitOf, TurnOf
  <1>3. Waits \subseteq Nat /\ Never \in Nat
    BY WaitIs, BitsType
  <1>4. hard \subseteq Nat
    BY <1>1 DEF Hard
  <1>5. \A w \in Wheel : U.pending[w] = {s \in Slot : U.wheel[w][s] # <<>>}
    BY DEF WheelInv, BitsAgree
  <1>6. CASE hard # {}
    <2>1. Min(hard) \in hard
      <3> HIDE DEF hard
      <3> QED
        BY <1>4, <1>6, MinIs
    <2>2. PICK to \in Timeout : OnWheel(U, to) /\ Min(hard) = U.expires[to]
      BY <2>1 DEF Hard
    <2>3. PICK w \in Wheel, s \in Slot : Contains(U.wheel[w][s], to)
      BY <2>2 DEF OnWheel
    <2>4. /\ U.pending[w] # {} /\ U.curtime < U.expires[to] /\ U.expires[to] \in Nat
          /\ WaitOf(U, w) <= U.expires[to] - U.curtime
      BY <2>3, WaitInTime
    <2>5. WaitOf(U, w) \in Waits
      BY <2>4
    <2>6. soft \in Nat /\ soft <= WaitOf(U, w)
      <3> HIDE DEF Waits, soft
      <3>1. {Never} \cup Waits \subseteq Nat /\ {Never} \cup Waits # {}
        BY <1>3
      <3> QED
        BY <1>2, <1>3, <2>5, <3>1, MinIs
    <2>7. WaitOf(U, w) \in Nat
      BY <1>3, <2>5
    <2> HIDE DEF soft, hard
    <2>8. Min(hard) > U.curtime /\ soft <= Min(hard) - U.curtime /\ 0 <= Min(hard) - U.curtime
      BY <1>1, <2>2, <2>4, <2>6, <2>7
    <2>9. WaitTime(U) <= Min(hard) - U.curtime
      BY <2>8 DEF WaitTime, soft
    <2> QED
      BY <1>5, <1>6, <2>8, <2>9 DEF Check, soft, hard
  <1>7. CASE hard = {}
    <2>1. Populated = {}
      <3> SUFFICES ASSUME NEW w \in Wheel, U.pending[w] # {} PROVE FALSE
        OBVIOUS
      <3>1. PICK s \in Slot : U.wheel[w][s] # <<>>
        BY <1>5
      <3>2. PICK to \in Timeout : Contains(U.wheel[w][s], to)
        BY <1>1, <3>1, NotEmpty
      <3> QED
        BY <1>7, <3>2 DEF Hard, OnWheel
    <2>2. {Never} \cup Waits = {Never}
      BY <2>1
    <2>3. Min({Never}) = Never
      <3>1. {Never} \subseteq Nat /\ {Never} # {}
        BY <1>3
      <3>2. Min({Never}) \in {Never}
        BY <3>1, MinIs
      <3> QED
        BY <3>2
    <2>4. WaitTime(U) = IF U.expired # <<>> THEN 0 ELSE Never
      BY <1>2, <2>2, <2>3 DEF WaitTime
    <2> QED
      BY <1>5, <1>7, <2>4 DEF Check
  <1> QED
    BY <1>6, <1>7

-----------------------------------------------------------------------------
(* The table *)

LEMMA TableConstants ==
  /\ Second \in Nat \ {0} /\ Expiry \in Nat /\ NoKey \notin Key
  /\ \A to \in Direct : to \in Timeout
  /\ \A t \in Delay : t \in Nat
  /\ \A t \in Times : t \in Nat
  BY TableAssumption

(* Only an open table has entries. *)
OpenTable == (user = "timers" \/ ~open) => table = [k \in Key |-> NoEntry]

TableInv == WheelInv(T) /\ TableTypeOK /\ EntryWillExpire /\ OpenTable

LEMMA NowType == ASSUME TableTypeOK PROVE Now \in Nat
  BY TableConstants, TimesMonotone DEF TableTypeOK, Now

(* What the table relies on of a wheel that replaces another: that it says where the
   timeouts are which it does not take off itself. *)
Holds(U, to) == OnWheel(U, to) \/ Expired(U, to)

LEMMA UpdateHolds ==
  ASSUME NEW U, NEW V, NEW n, Updated(U, V, n), NEW to \in Timeout
  PROVE  Holds(V, to) <=> Holds(U, to)
  BY DEF Updated, Holds

LEMMA OneSetHolds ==
  ASSUME NEW U, NEW V, NEW to, OneSet(U, V, to), NEW u \in Timeout \ {to}
  PROVE  Holds(V, u) <=> Holds(U, u)
  BY DEF OneSet, Holds

LEMMA EntryIs ==
  ASSUME TableTypeOK, EntryWillExpire, NEW k \in Key, table[k] # NoEntry
  PROVE  table[k] \in Timeout /\ key[table[k]] = k /\ Holds(T, table[k])
  BY DEF TableTypeOK, EntryWillExpire, Holds

LEMMA InsertWheel ==
  ASSUME WheelInv(T), TableTypeOK, NEW to \in Timeout, T' = AddEntry(Update(T, Now), to)
  PROVE  \E U : /\ WheelInv(U) /\ Updated(T, U, Now)
                /\ WheelInv(T') /\ OneSet(U, T', to) /\ Holds(T', to)
  <1> DEFINE U == Update(T, Now)
  <1>1. WheelInv(U) /\ Updated(T, U, Now)
    BY NowType, UpdateIs
  <1>2. T' = Add(U, to, Expiry, FALSE, FALSE)
    BY DEF AddEntry
  <1> HIDE DEF U
  <1>3. WheelInv(T') /\ OneSet(U, T', to) /\ (OnWheel(T', to) \/ Expired(T', to))
    BY <1>1, <1>2, TableConstants, AddSets
  <1> QED
    BY <1>1, <1>3 DEF Holds

LEMMA FindWheel ==
  ASSUME WheelInv(T), NEW to \in Timeout, T' = AddEntry(Del(T, to), to)
  PROVE  WheelInv(T') /\ OneSet(T, T', to) /\ Holds(T', to)
  <1> DEFINE U == Del(T, to)
  <1>1. WheelInv(U) /\ OneSet(T, U, to)
    BY DelSets
  <1>2. T' = Add(U, to, Expiry, FALSE, FALSE)
    BY DEF AddEntry
  <1> HIDE DEF U
  <1>3. WheelInv(T') /\ OneSet(U, T', to) /\ (OnWheel(T', to) \/ Expired(T', to))
    BY <1>1, <1>2, TableConstants, AddSets
  <1>4. OneSet(T, T', to)
    BY <1>1, <1>3 DEF OneSet
  <1> QED
    BY <1>3, <1>4 DEF Holds

(* The expired timeouts are handed out, and freed. *)
LEMMA DrainWheel ==
  ASSUME WheelInv(T), TableTypeOK, TimeoutUpdate
  PROVE  \E U : /\ U = Update(T, Now) /\ WheelInv(U) /\ Updated(T, U, Now)
                /\ WheelInv(T') /\ T'.curtime = Now
                /\ \A u \in Timeout : OnWheel(T', u) <=> OnWheel(U, u)
                /\ \A u \in Timeout : ~Expired(T', u) /\ (~Expired(U, u) => T'.expires[u] = U.expires[u])
  <1> DEFINE U == Update(T, Now)
             times == [to \in Timeout |-> IF Expired(U, to) THEN 0 ELSE U.expires[to]]
  <1>1. WheelInv(U) /\ Updated(T, U, Now)
    BY NowType, UpdateIs
  <1>2. T' = [U EXCEPT !.expired = <<>>, !.expires = times]
    BY Zenon DEF TimeoutUpdate
  <1>3. U \in Timeouts /\ U.expires \in [Timeout -> Nat]
    BY <1>1, WheelFields DEF WheelInv
  <1> HIDE DEF U
  <1>4. times \in [Timeout -> Nat] /\ \A u \in Timeout : ~Expired(U, u) => times[u] = U.expires[u]
    BY <1>3
  <1> HIDE DEF times
  <1>5. /\ T' \in Timeouts /\ T'.curtime = U.curtime /\ T'.wheel = U.wheel /\ T'.pending = U.pending
        /\ T'.expired = <<>> /\ T'.expires = times
    <2>1. DOMAIN U = {"curtime", "wheel", "pending", "expired", "expires", "interval"}
      BY <1>3 DEF Timeouts
    <2>2. /\ T'.curtime = U.curtime /\ T'.wheel = U.wheel /\ T'.pending = U.pending
          /\ T'.expired = <<>> /\ T'.expires = times /\ T'.interval = U.interval
      BY <1>2, <2>1
    <2>3. T' = [curtime |-> T'.curtime, wheel |-> T'.wheel, pending |-> T'.pending,
                expired |-> T'.expired, expires |-> T'.expires, interval |-> T'.interval]
      <3>1. T' = [x \in DOMAIN T' |-> T'[x]] /\ DOMAIN T' = DOMAIN U
        BY <1>2
      <3> QED
        BY <2>1, <3>1, WheelRecord
    <2>4. /\ T'.curtime \in Nat /\ T'.expired \in Seq(Timeout)
          /\ T'.expires \in [Timeout -> Nat] /\ T'.interval \in [Timeout -> Nat]
          /\ T'.wheel \in [Wheel -> [Slot -> Seq(Timeout)]] /\ T'.pending \in [Wheel -> SUBSET Slot]
      BY <1>3, <1>4, <2>2, WheelFields
    <2>5. T' \in Timeouts
      BY <2>3, <2>4 DEF Timeouts
    <2> QED
      BY <2>2, <2>5
  <1>6. Single(T'.expired) /\ \A u : ~Expired(T', u)
    BY <1>5, EmptyHasNone DEF Expired
  <1>7. WheelInv(T') /\ \A u : OnWheel(T', u) <=> OnWheel(U, u)
    BY <1>1, <1>4, <1>5, <1>6, SameWheels
  <1>8. T'.curtime = Now
    BY <1>1, <1>5 DEF Updated
  <1> QED
    BY <1>1, <1>4, <1>5, <1>6, <1>7, <1>8 DEF U

LEMMA TableInitInv == TableInit => TableInv
  <1> SUFFICES ASSUME TableInit PROVE TableInv
    OBVIOUS
  <1>1. WheelInv(T)
    BY EmptyWheel DEF TableInit
  <1>2. TableTypeOK
    BY <1>1 DEF TableInit, TableTypeOK, WheelInv
  <1> QED
    BY <1>1, <1>2 DEF TableInit, TableInv, EntryWillExpire, OpenTable

LEMMA InsertInv == ASSUME TableInv, NEW k \in Key, Insert(k) PROVE TableInv'
  <1>1. PICK to \in Timeout : /\ key[to] = NoKey
                              /\ key' = [key EXCEPT ![to] = k]
                              /\ table' = IF table[k] = NoEntry THEN [table EXCEPT ![k] = to] ELSE table
                              /\ T' = AddEntry(Update(T, Now), to)
    BY DEF Insert
  <1>2. UNCHANGED <<clock, open, user>> /\ open /\ user = "table"
    BY DEF Insert, Serves
  <1>0. WheelInv(T) /\ TableTypeOK /\ EntryWillExpire
    BY DEF TableInv
  <1>3. PICK U : /\ WheelInv(U) /\ Updated(T, U, Now)
                 /\ WheelInv(T') /\ OneSet(U, T', to) /\ Holds(T', to)
    BY <1>0, <1>1, InsertWheel
  <1>4. TableTypeOK'
    BY <1>0, <1>1, <1>2, <1>3 DEF TableTypeOK, WheelInv
  <1>5. ASSUME NEW c \in Key, table'[c] # NoEntry
        PROVE  key'[table'[c]] = c /\ Holds(T', table'[c])
    <2>t. table \in [Key -> Timeout \cup {NoEntry}] /\ key \in [Timeout -> Key \cup {NoKey}]
      BY <1>0 DEF TableTypeOK
    <2>1. CASE table'[c] = to /\ c = k /\ table[k] = NoEntry
      BY <1>1, <1>3, <2>t, <2>1
    <2>2. CASE table'[c] = table[c]
      <3>1. table[c] \in Timeout /\ key[table[c]] = c /\ Holds(T, table[c])
        BY <1>0, <1>5, <2>2, EntryIs
      <3>2. table[c] # to
        BY <1>1, <3>1, TableConstants
      <3>3. Holds(U, table[c])
        BY <1>3, <3>1, UpdateHolds
      <3>4. Holds(T', table[c])
        BY <1>3, <3>1, <3>2, <3>3, OneSetHolds
      <3> QED
        BY <1>1, <2>t, <2>2, <3>1, <3>2, <3>4
    <2> QED
      BY <1>1, <2>t, <2>1, <2>2
  <1>6. EntryWillExpire'
    BY <1>5 DEF EntryWillExpire, Holds
  <1>7. OpenTable'
    BY <1>2 DEF OpenTable
  <1> QED
    BY <1>3, <1>4, <1>6, <1>7 DEF TableInv

LEMMA FindInv == ASSUME TableInv, NEW k \in Key, Find(k) PROVE TableInv'
  <1>0. WheelInv(T) /\ TableTypeOK /\ EntryWillExpire /\ OpenTable
    BY DEF TableInv
  <1>1. table[k] # NoEntry /\ T' = AddEntry(Del(T, table[k]), table[k]) /\ UNCHANGED <<table, key, clock, open, user>>
    BY DEF Find
  <1>2. table[k] \in Timeout
    BY <1>0, <1>1, EntryIs
  <1>3. WheelInv(T') /\ OneSet(T, T', table[k]) /\ Holds(T', table[k])
    BY <1>0, <1>1, <1>2, FindWheel
  <1>4. TableTypeOK' /\ OpenTable'
    BY <1>0, <1>1, <1>3 DEF TableTypeOK, WheelInv, OpenTable
  <1>5. ASSUME NEW c \in Key, table'[c] # NoEntry
        PROVE  key'[table'[c]] = c /\ Holds(T', table'[c])
    <2>1. table[c] \in Timeout /\ key[table[c]] = c /\ Holds(T, table[c])
      BY <1>0, <1>1, <1>5, EntryIs
    <2>2. Holds(T', table[c])
      BY <1>3, <2>1, OneSetHolds
    <2> QED
      BY <1>1, <2>1, <2>2
  <1>6. EntryWillExpire'
    BY <1>5 DEF EntryWillExpire, Holds
  <1> QED
    BY <1>3, <1>4, <1>6 DEF TableInv

LEMMA DelKeyInv == ASSUME TableInv, NEW k \in Key, DelKey(k) PROVE TableInv'
  <1>0. WheelInv(T) /\ TableTypeOK /\ EntryWillExpire /\ OpenTable
    BY DEF TableInv
  <1>1. /\ table[k] # NoEntry /\ T' = Del(T, table[k]) /\ table' = [table EXCEPT ![k] = NoEntry]
        /\ UNCHANGED <<key, clock, open, user>> /\ open /\ user = "table"
    BY DEF DelKey, Serves
  <1>2. table[k] \in Timeout /\ key[table[k]] = k
    BY <1>0, <1>1, EntryIs
  <1>3. WheelInv(T') /\ OneSet(T, T', table[k])
    BY <1>0, <1>1, <1>2, DelSets
  <1>4. TableTypeOK' /\ OpenTable'
    BY <1>0, <1>1, <1>3 DEF TableTypeOK, WheelInv, OpenTable
  <1>5. ASSUME NEW c \in Key, table'[c] # NoEntry
        PROVE  key'[table'[c]] = c /\ Holds(T', table'[c])
    <2>1. c # k /\ table'[c] = table[c]
      BY <1>0, <1>1, <1>5 DEF TableTypeOK
    <2>2. table[c] \in Timeout /\ key[table[c]] = c /\ Holds(T, table[c])
      BY <1>0, <1>5, <2>1, EntryIs
    <2>3. Holds(T', table[c])
      BY <1>2, <1>3, <2>1, <2>2, OneSetHolds
    <2> QED
      BY <1>1, <2>1, <2>2, <2>3
  <1>6. EntryWillExpire'
    BY <1>5 DEF EntryWillExpire, Holds
  <1> QED
    BY <1>3, <1>4, <1>6 DEF TableInv

LEMMA TimeoutUpdateInv == ASSUME TableInv, TimeoutUpdate PROVE TableInv'
  <1>0. WheelInv(T) /\ TableTypeOK /\ EntryWillExpire
    BY DEF TableInv
  <1>1. PICK U : /\ U = Update(T, Now) /\ WheelInv(U) /\ Updated(T, U, Now)
                 /\ WheelInv(T') /\ T'.curtime = Now
                 /\ \A u \in Timeout : OnWheel(T', u) <=> OnWheel(U, u)
                 /\ \A u \in Timeout : ~Expired(T', u) /\ (~Expired(U, u) => T'.expires[u] = U.expires[u])
    BY <1>0, DrainWheel
  <1>2. /\ table' = [k \in Key |-> IF \E to \in Timeout : Expired(U, to) /\ key[to] = k
                                   THEN NoEntry ELSE table[k]]
        /\ key' = [to \in Timeout |-> IF Expired(U, to) THEN NoKey ELSE key[to]]
        /\ UNCHANGED <<clock, open, user>> /\ open /\ user = "table"
    BY <1>1, Zenon DEF TimeoutUpdate, Serves
  <1>3. TableTypeOK'
    <2>1. table' \in [Key -> Timeout \cup {NoEntry}] /\ key' \in [Timeout -> Key \cup {NoKey}]
      BY <1>0, <1>2 DEF TableTypeOK
    <2> QED
      BY <1>0, <1>1, <1>2, <2>1 DEF TableTypeOK, WheelInv
  <1>4. OpenTable'
    BY <1>2 DEF OpenTable
  <1>5. ASSUME NEW c \in Key, table'[c] # NoEntry
        PROVE  key'[table'[c]] = c /\ Holds(T', table'[c])
    <2>1. table'[c] = table[c] /\ \A to \in Timeout : key[to] = c => ~Expired(U, to)
      BY <1>2, <1>5
    <2>2. table[c] \in Timeout /\ key[table[c]] = c /\ Holds(T, table[c])
      BY <1>0, <1>5, <2>1, EntryIs
    <2>3. Holds(U, table[c]) /\ ~Expired(U, table[c])
      BY <1>1, <2>1, <2>2, UpdateHolds
    <2> QED
      BY <1>1, <1>2, <2>1, <2>2, <2>3 DEF Holds
  <1>6. EntryWillExpire'
    BY <1>5 DEF EntryWillExpire, Holds
  <1> QED
    BY <1>1, <1>3, <1>4, <1>6 DEF TableInv

LEMMA DestroyInv == ASSUME TableInv, Destroy PROVE TableInv'
  <1>0. WheelInv(T) /\ TableTypeOK
    BY DEF TableInv
  <1>1. /\ open' = FALSE /\ T' = Reset(T) /\ table' = [k \in Key |-> NoEntry]
        /\ key' \in [Timeout -> Key \cup {NoKey}] /\ UNCHANGED <<clock, user>>
    BY <1>0 DEF Destroy, TableTypeOK
  <1>2. WheelInv(T')
    BY <1>0, <1>1, ResetIs
  <1>3. TableTypeOK'
    BY <1>0, <1>1, <1>2 DEF TableTypeOK, WheelInv
  <1>4. EntryWillExpire' /\ OpenTable'
    BY <1>1 DEF EntryWillExpire, OpenTable
  <1> QED
    BY <1>2, <1>3, <1>4 DEF TableInv

(* A wheel used directly has no table. *)
LEMMA TimersInv ==
  ASSUME TableInv, user = "timers", UNCHANGED <<table, key, clock, open, user>>, WheelInv(T')
  PROVE  TableInv'
  <1>1. table' = [k \in Key |-> NoEntry] /\ TableTypeOK
    BY DEF TableInv, OpenTable
  <1>2. TableTypeOK'
    BY <1>1 DEF TableTypeOK, WheelInv
  <1>3. EntryWillExpire' /\ OpenTable'
    BY <1>1 DEF EntryWillExpire, OpenTable
  <1> QED
    BY <1>2, <1>3 DEF TableInv

LEMMA AddTimerWheel ==
  ASSUME WheelInv(T), AddTimer
  PROVE  \E to \in Timeout : WheelInv(T') /\ OneSet(T, T', to)
  <1>1. PICK to \in Direct, t \in Delay, repeats, absolute \in BOOLEAN : T' = Add(T, to, t, repeats, absolute)
    BY DEF AddTimer
  <1>2. to \in Timeout /\ t \in Nat
    BY TableConstants
  <1> QED
    BY <1>1, <1>2, AddSets

LEMMA DelTimerWheel ==
  ASSUME WheelInv(T), DelTimer
  PROVE  \E to \in Timeout : WheelInv(T') /\ OneSet(T, T', to)
  <1>1. PICK to \in Direct : T' = Del(T, to)
    BY DEF DelTimer
  <1> QED
    BY <1>1, TableConstants, DelSets

LEMMA UpdateTimersWheel ==
  ASSUME WheelInv(T), UpdateTimers
  PROVE  WheelInv(T') /\ Updated(T, T', T'.curtime)
  <1>1. PICK now \in Times : T' = Update(T, now)
    BY DEF UpdateTimers
  <1>2. WheelInv(T') /\ Updated(T, T', now)
    BY <1>1, TableConstants, UpdateIs
  <1>3. T'.curtime = now
    BY <1>2 DEF Updated
  <1> QED
    BY <1>2, <1>3

LEMMA TableStep == TableInv /\ [TableNext]_tableVars => TableInv'
  <1> SUFFICES ASSUME TableInv, [TableNext]_tableVars PROVE TableInv'
    OBVIOUS
  <1>0. WheelInv(T) /\ TableTypeOK
    BY DEF TableInv
  <1>1. CASE \E k \in Key : Insert(k) \/ Find(k) \/ DelKey(k)
    BY <1>1, InsertInv, FindInv, DelKeyInv
  <1>2. CASE TimeoutUpdate
    BY <1>2, TimeoutUpdateInv
  <1>3. CASE Destroy
    BY <1>3, DestroyInv
  <1>4. CASE Tick
    <2>1. UNCHANGED <<T, table, key, open, user>> /\ clock' \in Nat
      BY <1>4, TableAssumption DEF Tick
    <2> QED
      BY <2>1 DEF TableInv, TableTypeOK, EntryWillExpire, OpenTable
  <1>5. CASE AddTimer
    BY <1>0, <1>5, AddTimerWheel, TimersInv DEF AddTimer, Serves
  <1>6. CASE DelTimer
    BY <1>0, <1>6, DelTimerWheel, TimersInv DEF DelTimer, Serves
  <1>7. CASE UpdateTimers
    BY <1>0, <1>7, UpdateTimersWheel, TimersInv DEF UpdateTimers, Serves
  <1>8. CASE GetTimer
    <2>1. WheelInv(T')
      BY <1>0, <1>8, GetSets DEF GetTimer
    <2> QED
      BY <1>8, <2>1, TimersInv DEF GetTimer, Serves
  <1>9. CASE UNCHANGED tableVars
    BY <1>9 DEF tableVars, TableInv, TableTypeOK, EntryWillExpire, OpenTable
  <1> QED
    BY <1>1, <1>2, <1>3, <1>4, <1>5, <1>6, <1>7, <1>8, <1>9 DEF TableNext

LEMMA TableInvHolds == TableSpec => []TableInv
  BY TableInitInv, TableStep, PTL DEF TableSpec

-----------------------------------------------------------------------------
(* The wheel as a set of timeouts *)

DueOf(U) == [to \in Timeout |-> IF OnWheel(U, to) THEN U.expires[to] ELSE -1]
ExpiredOf(U) == {to \in Timeout : Expired(U, to)}

(* A timeout on a wheel is due later. *)
LEMMA WheelLater ==
  ASSUME NEW U, WheelInv(U), NEW to \in Timeout
  PROVE  /\ U.curtime \in Nat /\ U.expires[to] \in Nat
         /\ OnWheel(U, to) => U.expires[to] > U.curtime /\ ~Expired(U, to)
  <1>1. U.curtime \in Nat /\ U.expires[to] \in Nat
    BY WheelFields DEF WheelInv
  <1>2. ASSUME OnWheel(U, to) PROVE U.curtime < U.expires[to] /\ ~Expired(U, to)
    BY <1>2 DEF WheelInv, OnWheel, AllDue, Due, OnOneList
  <1> QED
    BY <1>1, <1>2

(* The actions of the set of timeouts, as relations of two wheels. *)
PassesOf(U, V, to, n) ==
    LET over == DueOf(U)[to] # -1 /\ n >= DueOf(U)[to]
    IN  /\ DueOf(V)[to] = IF over THEN -1 ELSE DueOf(U)[to]
        /\ (to \in ExpiredOf(V)) <=> (to \in ExpiredOf(U) \/ over)

PassOf(U, V) == \A to \in Timeout : PassesOf(U, V, to, V.curtime)

SetOneOf(U, V, to) ==
    /\ \A u \in Timeout \ {to} : PassesOf(U, V, u, V.curtime)
    /\ DueOf(V)[to] # -1 => DueOf(V)[to] > V.curtime /\ to \notin ExpiredOf(V)

DrainOf(U, V) ==
    \A to \in Timeout :
        LET over == to \in ExpiredOf(U) \/ (DueOf(U)[to] # -1 /\ V.curtime >= DueOf(U)[to])
        IN  /\ DueOf(V)[to] = IF over THEN -1 ELSE DueOf(U)[to]
            /\ to \notin ExpiredOf(V)

CloseOf(U, V) == V.curtime = U.curtime /\ \A to \in Timeout : DueOf(V)[to] = -1 /\ to \notin ExpiredOf(V)

NextOf(U, V) == PassOf(U, V) \/ DrainOf(U, V) \/ CloseOf(U, V) \/ \E to \in Timeout : SetOneOf(U, V, to)

LEMMA PassIs == PassOf(T, T') <=> Timers!Pass(T.curtime')
  BY DEF PassOf, PassesOf, DueOf, ExpiredOf, Timers!Pass, Timers!Passes

LEMMA SetOneIs == ASSUME NEW to \in Timeout PROVE SetOneOf(T, T', to) <=> Timers!SetOne(T.curtime', to)
  BY DEF SetOneOf, PassesOf, DueOf, ExpiredOf, Timers!SetOne, Timers!Passes

LEMMA DrainIs == DrainOf(T, T') <=> Timers!Drain(T.curtime')
  BY DEF DrainOf, DueOf, ExpiredOf, Timers!Drain

LEMMA CloseIs == CloseOf(T, T') <=> Timers!Close(T.curtime')
  BY DEF CloseOf, DueOf, ExpiredOf, Timers!Close

LEMMA NextIs == NextOf(T, T') => Timers!Next
  BY PassIs, SetOneIs, DrainIs, CloseIs DEF NextOf, Timers!Next

LEMMA TimersState ==
  ASSUME NEW U, NEW to \in Timeout
  PROVE  /\ DueOf(U)[to] = IF OnWheel(U, to) THEN U.expires[to] ELSE -1
         /\ to \in ExpiredOf(U) <=> Expired(U, to)
  BY DEF DueOf, ExpiredOf

(* A timeout that nobody touches while the wheel is updated. *)
LEMMA UpdatedPasses ==
  ASSUME NEW S, WheelInv(S), NEW V, NEW U, NEW n \in Nat, Updated(S, U, n), NEW to \in Timeout,
         OnWheel(V, to) <=> OnWheel(U, to), Expired(V, to) <=> Expired(U, to),
         V.expires[to] = U.expires[to]
  PROVE  PassesOf(S, V, to, n)
  <1>1. /\ OnWheel(V, to) <=> OnWheel(S, to) /\ S.expires[to] > n
        /\ Expired(V, to) <=> Expired(S, to) \/ (OnWheel(S, to) /\ ~(S.expires[to] > n))
        /\ V.expires[to] = S.expires[to]
    BY DEF Updated
  <1>2. S.expires[to] \in Nat
    BY WheelLater
  <1>3. /\ DueOf(S)[to] = IF OnWheel(S, to) THEN S.expires[to] ELSE -1
        /\ DueOf(V)[to] = IF OnWheel(V, to) THEN V.expires[to] ELSE -1
        /\ to \in ExpiredOf(S) <=> Expired(S, to)
        /\ to \in ExpiredOf(V) <=> Expired(V, to)
    BY TimersState
  <1> QED
    BY <1>1, <1>2, <1>3 DEF PassesOf

(* One that nobody touches while the time stands. *)
LEMMA StandPasses ==
  ASSUME NEW U, WheelInv(U), NEW V, NEW to \in Timeout,
         OnWheel(V, to) <=> OnWheel(U, to), Expired(V, to) <=> Expired(U, to),
         V.expires[to] = U.expires[to]
  PROVE  PassesOf(U, V, to, U.curtime)
  <1>1. /\ U.curtime \in Nat /\ U.expires[to] \in Nat
        /\ OnWheel(U, to) => U.expires[to] > U.curtime
    BY WheelLater
  <1>2. /\ DueOf(U)[to] = IF OnWheel(U, to) THEN U.expires[to] ELSE -1
        /\ DueOf(V)[to] = IF OnWheel(V, to) THEN V.expires[to] ELSE -1
        /\ to \in ExpiredOf(U) <=> Expired(U, to)
        /\ to \in ExpiredOf(V) <=> Expired(V, to)
    BY TimersState
  <1> QED
    BY <1>1, <1>2 DEF PassesOf

LEMMA OneSetIs ==
  ASSUME NEW S, NEW U, NEW V, NEW to \in Timeout, OneSet(U, V, to),
         \A u \in Timeout \ {to} : PassesOf(S, V, u, V.curtime)
  PROVE  NextOf(S, V)
  <1>1. /\ DueOf(V)[to] = IF OnWheel(V, to) THEN V.expires[to] ELSE -1
        /\ to \in ExpiredOf(V) <=> Expired(V, to)
    BY TimersState
  <1>2. SetOneOf(S, V, to)
    BY <1>1 DEF OneSet, SetOneOf
  <1> QED
    BY <1>2 DEF NextOf

LEMMA StandSets ==
  ASSUME NEW U, WheelInv(U), NEW V, NEW to \in Timeout, OneSet(U, V, to)
  PROVE  NextOf(U, V)
  <1>1. \A u \in Timeout \ {to} : PassesOf(U, V, u, U.curtime)
    BY StandPasses DEF OneSet
  <1>2. V.curtime = U.curtime
    BY DEF OneSet
  <1> QED
    BY <1>1, <1>2, OneSetIs

LEMMA InsertSets ==
  ASSUME TableInv, NEW k \in Key, Insert(k)
  PROVE  NextOf(T, T')
  <1>0. WheelInv(T) /\ TableTypeOK
    BY DEF TableInv
  <1>1. PICK to \in Timeout : T' = AddEntry(Update(T, Now), to)
    BY DEF Insert
  <1>2. PICK U : /\ WheelInv(U) /\ Updated(T, U, Now)
                 /\ WheelInv(T') /\ OneSet(U, T', to)
    BY <1>0, <1>1, InsertWheel
  <1>3. T'.curtime = Now /\ Now \in Nat
    BY <1>0, <1>2, NowType DEF OneSet, Updated
  <1>4. \A u \in Timeout \ {to} : PassesOf(T, T', u, Now)
    BY <1>0, <1>2, <1>3, UpdatedPasses DEF OneSet
  <1> QED
    BY <1>2, <1>3, <1>4, OneSetIs

LEMMA FindSets ==
  ASSUME TableInv, NEW k \in Key, Find(k) \/ DelKey(k)
  PROVE  NextOf(T, T')
  <1>0. WheelInv(T) /\ TableTypeOK /\ EntryWillExpire
    BY DEF TableInv
  <1>1. table[k] # NoEntry /\ (T' = AddEntry(Del(T, table[k]), table[k]) \/ T' = Del(T, table[k]))
    BY DEF Find, DelKey
  <1>2. table[k] \in Timeout
    BY <1>0, <1>1, EntryIs
  <1>3. OneSet(T, T', table[k])
    BY <1>0, <1>1, <1>2, FindWheel, DelSets
  <1> QED
    BY <1>0, <1>2, <1>3, StandSets

LEMMA TimeoutUpdateDrains ==
  ASSUME TableInv, TimeoutUpdate
  PROVE  NextOf(T, T')
  <1>0. WheelInv(T) /\ TableTypeOK
    BY DEF TableInv
  <1>1. PICK U : /\ WheelInv(U) /\ Updated(T, U, Now)
                 /\ WheelInv(T') /\ T'.curtime = Now
                 /\ \A u \in Timeout : OnWheel(T', u) <=> OnWheel(U, u)
                 /\ \A u \in Timeout : ~Expired(T', u) /\ (~Expired(U, u) => T'.expires[u] = U.expires[u])
    BY <1>0, DrainWheel
  <1>2. Now \in Nat
    BY <1>0, NowType
  <1>3. ASSUME NEW to \in Timeout
        PROVE  LET over == to \in ExpiredOf(T) \/ (DueOf(T)[to] # -1 /\ T'.curtime >= DueOf(T)[to])
               IN  /\ DueOf(T')[to] = IF over THEN -1 ELSE DueOf(T)[to]
                   /\ to \notin ExpiredOf(T')
    <2>3. /\ DueOf(T)[to] = IF OnWheel(T, to) THEN T.expires[to] ELSE -1
          /\ DueOf(T')[to] = IF OnWheel(T', to) THEN T'.expires[to] ELSE -1
          /\ to \in ExpiredOf(T) <=> Expired(T, to)
          /\ to \in ExpiredOf(T') <=> Expired(T', to)
      BY TimersState
    <2>1. /\ OnWheel(U, to) <=> OnWheel(T, to) /\ T.expires[to] > Now
          /\ Expired(U, to) <=> Expired(T, to) \/ (OnWheel(T, to) /\ ~(T.expires[to] > Now))
          /\ U.expires[to] = T.expires[to]
      BY <1>1 DEF Updated
    <2>2. T.expires[to] \in Nat /\ (OnWheel(T, to) => ~Expired(T, to)) /\ (OnWheel(U, to) => ~Expired(U, to))
      BY <1>0, <1>1, WheelLater
    <2> QED
      BY <1>1, <1>2, <2>1, <2>2, <2>3
  <1> QED
    BY <1>3 DEF NextOf, DrainOf

LEMMA DestroyCloses ==
  ASSUME TableInv, Destroy
  PROVE  NextOf(T, T')
  <1>1. WheelInv(T) /\ T' = Reset(T)
    BY DEF TableInv, Destroy
  <1>2. T'.curtime = T.curtime /\ \A u : ~OnWheel(T', u) /\ ~Expired(T', u)
    BY <1>1, ResetIs
  <1>3. CloseOf(T, T')
    BY <1>2, TimersState DEF CloseOf
  <1> QED
    BY <1>3 DEF NextOf

LEMMA UpdateTimersPass ==
  ASSUME TableInv, UpdateTimers
  PROVE  PassOf(T, T')
  <1>0. WheelInv(T)
    BY DEF TableInv
  <1>1. WheelInv(T') /\ Updated(T, T', T'.curtime)
    BY <1>0, UpdateTimersWheel
  <1>2. T'.curtime \in Nat
    BY <1>1, WheelFields DEF WheelInv
  <1> QED
    BY <1>0, <1>1, <1>2, UpdatedPasses DEF PassOf

LEMMA TimersStep ==
  ASSUME TableInv, [TableNext]_tableVars
  PROVE  NextOf(T, T') \/ T' = T
  <1>0. WheelInv(T)
    BY DEF TableInv
  <1>1. CASE \E k \in Key : Insert(k) \/ Find(k) \/ DelKey(k)
    BY <1>1, InsertSets, FindSets
  <1>2. CASE TimeoutUpdate
    BY <1>2, TimeoutUpdateDrains
  <1>3. CASE Destroy
    BY <1>3, DestroyCloses
  <1>4. CASE Tick \/ UNCHANGED tableVars
    BY <1>4 DEF Tick, tableVars
  <1>5. CASE AddTimer
    BY <1>0, <1>5, AddTimerWheel, StandSets
  <1>6. CASE DelTimer
    BY <1>0, <1>6, DelTimerWheel, StandSets
  <1>7. CASE UpdateTimers
    BY <1>7, UpdateTimersPass DEF NextOf
  <1>8. CASE GetTimer
    <2>1. \E to \in Timeout : OneSet(T, T', to)
      BY <1>0, <1>8, GetSets DEF GetTimer
    <2> QED
      BY <1>0, <2>1, StandSets
  <1> QED
    BY <1>1, <1>2, <1>3, <1>4, <1>5, <1>6, <1>7, <1>8 DEF TableNext

LEMMA TimersRefine ==
  ASSUME TableInv, [TableNext]_tableVars
  PROVE  /\ [Timers!Next]_<<T.curtime, DueOf(T), ExpiredOf(T)>>
         /\ UpdateTimers => Timers!Pass(T.curtime')
  <1>1. [Timers!Next]_<<T.curtime, DueOf(T), ExpiredOf(T)>>
    <2>1. CASE NextOf(T, T')
      BY <2>1, NextIs
    <2>2. CASE T' = T
      BY <2>2 DEF DueOf, ExpiredOf
    <2> QED
      BY <2>1, <2>2, TimersStep
  <1>2. UpdateTimers => Timers!Pass(T.curtime')
    BY UpdateTimersPass, PassIs
  <1> QED
    BY <1>1, <1>2

LEMMA TimersInit == TableInit => Timers!Init
  <1> SUFFICES ASSUME TableInit PROVE Timers!Init
    OBVIOUS
  <1>1. \A to : ~OnWheel(T, to) /\ ~Expired(T, to)
    BY EmptyWheel DEF TableInit
  <1> QED
    BY <1>1 DEF Timers!Init, Timers!Free

-----------------------------------------------------------------------------
(* The wheel, the map and the keys keep their type: times stay numbers, whatever the
   clock, and slots and bit fields their size. *)
THEOREM TableTypeCorrect == TableSpec => []TableTypeOK
  BY TableInvHolds, PTL DEF TableInv

(* No timeout is on two lists, or twice on one: timeouts_del() takes a timeout off the
   one list it knows it to be on, and that list is a TAILQ of the timeouts themselves. *)
THEOREM OnOneListHolds == TableSpec => []OnOneList(T)
  BY TableInvHolds, PTL DEF TableInv, WheelInv

(* Every entry of the map has a timeout of its own that will expire, though timeouts
   that a repeated insertion left behind name its key too. *)
THEOREM EntryWillExpireHolds == TableSpec => []EntryWillExpire
  BY TableInvHolds, PTL DEF TableInv

(* timeouts_check() never fails, for any number of wheels of any number of slots: no
   timeout on a wheel is past its time, the bit fields are right, and the time to wait
   that they give never misses the first timeout. *)
THEOREM WheelChecksHold == TableSpec => []WheelChecks
  <1>1. TableInv => WheelChecks
    BY CheckIs DEF TableInv, WheelChecks
  <1> QED
    BY <1>1, TableInvHolds, PTL

(* The wheel, whose update looks at the slots that the time passes and no others, is
   the set of timeouts that looks at each: any timeout, at any distance, expires in the
   first update that reaches its time. *)
THEOREM TimersSpecHolds == TableSpec => TimersSpec
  <1>1. TableInv /\ [TableNext]_tableVars
        => /\ [Timers!Next]_<<T.curtime, DueOf(T), ExpiredOf(T)>>
           /\ [UpdateTimers => Timers!Pass(T.curtime')]_tableVars
    BY TimersRefine
  <1> QED
    BY <1>1, TimersInit, TableInvHolds, PTL DEF TableSpec, TimersSpec, Timers!Spec, DueOf, ExpiredOf
=============================================================================
