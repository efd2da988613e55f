----------------------------- MODULE TimingWheel -----------------------------
(***************************************************************************)
(* The hierarchical timing wheel of src/mod_common/timeout.c: WheelNum      *)
(* wheels of 2^WheelBit slots, each a list of timeouts, a bit field of the  *)
(* populated slots of each wheel, and the list of expired timeouts.  The    *)
(* library's functions are operators on a record T (struct timeouts with    *)
(* the fields of its members); a bit field is the set of its one bits.      *)
(***************************************************************************)
EXTENDS Integers, Sequences, FiniteSetsExt, SequencesExt

CONSTANTS Timeout,    \* the timeouts (struct timeout)
          WheelBit,   \* bits of a slot number (6)
          WheelNum,   \* wheels (4)
          Never       \* ~0, the timeout of an empty wheel

ASSUME WheelAssumption == WheelBit \in Nat \ {0} /\ WheelNum \in Nat \ {0} /\ Never \in Nat

\* 1 << n.
Pow2[n \in 0 .. WheelBit * WheelNum] == IF n = 0 THEN 1 ELSE 2 * Pow2[n - 1]

Wheel == 0 .. WheelNum - 1
WheelLen == Pow2[WheelBit]
Slot == 0 .. WheelLen - 1
TimeoutMax == Pow2[WheelBit * WheelNum] - 1

\* The bit operations, on bit fields: the lowest bit, the number of the highest bit of
\* a number, and rotations.
Ctz(S) == Min(S)
Fls(n) == Max({b \in 1 .. WheelBit * WheelNum : Pow2[b - 1] <= n})
RotL(S, c) == {(s + c) % WheelLen : s \in S}
RotR(S, c) == {(s - c) % WheelLen : s \in S}

\* The units of a tick of wheel w, and the time in its ticks.
Width == [w \in 0 .. WheelNum |-> Pow2[WheelBit * w]]
Ticks(w, t) == t \div Width[w]

\* struct timeouts.
Timeouts ==
    [curtime : Nat,
     wheel : [Wheel -> [Slot -> Seq(Timeout)]],
     pending : [Wheel -> SUBSET Slot],
     expired : Seq(Timeout),
     expires : [Timeout -> Nat],
     interval : [Timeout -> Nat]]

EmptyTimeouts ==
    [curtime |-> 0,
     wheel |-> [w \in Wheel |-> [s \in Slot |-> <<>>]],
     pending |-> [w \in Wheel |-> {}],
     expired |-> <<>>,
     expires |-> [to \in Timeout |-> 0],
     interval |-> [to \in Timeout |-> 0]]

\* timeout_pending() and timeout_expired().
OnWheel(T, to) == \E w \in Wheel, s \in Slot : Contains(T.wheel[w][s], to)
Expired(T, to) == Contains(T.expired, to)

\* TAILQ_REMOVE, of a timeout that is on the list.
Without(list, to) ==
    IF Contains(list, to)
    THEN RemoveAt(list, CHOOSE i \in DOMAIN list : list[i] = to)
    ELSE list

\* Defect: the bit of a slot left empty stays set.
DelKeepsBit(T, to) ==
    [T EXCEPT !.wheel = [w \in Wheel |-> [s \in Slot |-> Without(@[w][s], to)]],
              !.expired = Without(@, to)]

\* timeouts_del(): off its list, and the bit of a slot left empty is cleared.
Del(T, to) ==
    LET wheel == [w \in Wheel |-> [s \in Slot |-> Without(T.wheel[w][s], to)]]
    IN  [T EXCEPT !.wheel = wheel,
                  !.expired = Without(@, to),
                  !.pending = [w \in Wheel |->
                      {s \in @[w] : ~(Contains(T.wheel[w][s], to) /\ wheel[w][s] = <<>>)}]]

\* timeouts_reset(), of timeouts_close(): no timeout is on a list any more.
Reset(T) == [EmptyTimeouts EXCEPT !.curtime = T.curtime, !.expires = T.expires,
                                  !.interval = T.interval]

\* The wheel whose slots are as wide as the remaining time allows, and the slot
\* of an expiry time in it: on the higher wheels one rotation earlier.
WheelOf(rem) == (Fls(Min({rem, TimeoutMax})) - 1) \div WheelBit
WheelSlot(w, expires) == (Ticks(w, expires) - (IF w = 0 THEN 0 ELSE 1)) % WheelLen

\* timeouts_sched().
Sched(T, to, expires) ==
    LET D == [Del(T, to) EXCEPT !.expires[to] = expires]
        w == WheelOf(expires - T.curtime)
        s == WheelSlot(w, expires)
    IN  IF expires > T.curtime
        THEN [D EXCEPT !.wheel[w][s] = Append(@, to), !.pending[w] = @ \cup {s}]
        ELSE [D EXCEPT !.expired = Append(@, to)]

\* timeouts_add(), of a timeout that repeats (TIMEOUT_INT) or not, after a time
\* or at a time (TIMEOUT_ABS).
Add(T, to, timeout, repeats, absolute) ==
    Sched([T EXCEPT !.interval[to] = IF repeats THEN Max({1, timeout}) ELSE 0],
          to, IF absolute THEN timeout ELSE T.curtime + timeout)

\* Defect: the slot that the time has reached is not passed.
PassedBefore(T, now, w) ==
    LET elapsed == IF w = 0 THEN now - T.curtime ELSE Max({now - T.curtime, Width[w]})
        n == Ticks(w, elapsed)
    IN  IF now < T.curtime \/ n >= WheelLen THEN Slot ELSE RotL(0 .. n - 1, Ticks(w, T.curtime))

\* timeouts_update() to the time now: the slots of wheel w that the time passes,
\* all of them once it goes round, or when it goes back (elapsed is unsigned).  A
\* wheel that rolled over forces at least one tick of the next.
Passed(T, now, w) ==
    LET elapsed == IF w = 0 THEN now - T.curtime ELSE Max({now - T.curtime, Width[w]})
        n == Ticks(w, elapsed)
        from == Ticks(w, T.curtime)
        to == Ticks(w, now)
    IN  IF now < T.curtime \/ n >= WheelLen
        THEN Slot
        ELSE RotL(0 .. n - 1, from) \cup RotR(RotL(0 .. n - 1, to), n) \cup RotL({0}, to)

\* The wheels that are looked at: until one does not roll over.
Turned(T, now) == {w \in Wheel : \A v \in 0 .. w - 1 : 0 \in Passed(T, now, v)}

\* The slots of each wheel whose timeouts are taken off.
Gone(T, now) ==
    LET turned == Turned(T, now)
    IN  [w \in Wheel |-> IF w \in turned THEN Passed(T, now, w) \cap T.pending[w] ELSE {}]

\* Their timeouts, by wheel and slot.
Todo(T, gone) ==
    FlattenSeq([n \in 1 .. WheelNum * WheelLen |->
        LET w == (n - 1) \div WheelLen
            s == (n - 1) % WheelLen
        IN  IF s \in gone[w] THEN T.wheel[w][s] ELSE <<>>])

Rest(T, now, gone) ==
    [T EXCEPT !.curtime = now,
              !.pending = [w \in Wheel |-> @[w] \ gone[w]],
              !.wheel = [w \in Wheel |-> [s \in Slot |->
                            IF s \in gone[w] THEN <<>> ELSE @[w][s]]]]

\* They are scheduled again, one after the other.
Again(T, to) == Sched(T, to, T.expires[to])
AllAgain(T, todo) ==
    LET after[i \in 0 .. Len(todo)] == IF i = 0 THEN T ELSE Again(after[i - 1], todo[i])
    IN  after[Len(todo)]

Update(T, now) ==
    LET gone == Gone(T, now)
    IN  AllAgain(Rest(T, now, gone), Todo(T, gone))

\* timeouts_get(): the first expired timeout comes off; one that repeats goes to
\* its next time, a multiple of its interval after the last when it missed some.
Readd(T, to) ==
    LET next == T.expires[to] + T.interval[to]
        late == T.curtime - next
    IN  Sched(T, to, IF next > T.curtime THEN next
                     ELSE T.curtime + T.interval[to] - (late % T.interval[to]))

Get(T) ==
    LET to == Head(T.expired)
        U == [T EXCEPT !.expired = Tail(@)]
    IN  IF U.interval[to] > 0 THEN Readd(U, to) ELSE U

\* What an iteration (timeouts_next) yields, under flags for the two kinds of lists.
Listed(T, expired, pending) ==
    (IF expired THEN T.expired ELSE <<>>)
    \o (IF pending THEN FlattenSeq([w \in 1 .. WheelNum |->
                           FlattenSeq([s \in 1 .. WheelLen |-> T.wheel[w - 1][s - 1]])])
                   ELSE <<>>)

\* timeouts_int(): a time in which no timeout of the wheels expires.
SoftTimeout(T) ==
    LET turn(w) == Ctz(RotR(T.pending[w], Ticks(w, T.curtime))) + (IF w = 0 THEN 0 ELSE 1)
        wait(w) == turn(w) * Width[w] - (T.curtime % Width[w])
    IN  Min({Never} \cup {wait(w) : w \in {v \in Wheel : T.pending[v] # {}}})

\* timeouts_timeout().
WaitTime(T) == IF T.expired # <<>> THEN 0 ELSE SoftTimeout(T)

\* The expiry times on the wheels, of which timeouts_min() finds the first.
Hard(T) == {T.expires[to] : to \in {u \in Timeout : OnWheel(T, u)}}

\* timeouts_check(), with the consistency of the bit fields that
\* timeouts_pending() and the loops above rely on.
Check(T) ==
    /\ \A w \in Wheel : T.pending[w] = {s \in Slot : T.wheel[w][s] # <<>>}
    /\ IF Hard(T) # {}
       THEN /\ Min(Hard(T)) > T.curtime
            /\ SoftTimeout(T) <= Min(Hard(T)) - T.curtime
            /\ WaitTime(T) <= Min(Hard(T)) - T.curtime
       ELSE WaitTime(T) = IF T.expired # <<>> THEN 0 ELSE Never
=============================================================================
