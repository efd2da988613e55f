------------------------------ MODULE HashTable ------------------------------
(***************************************************************************)
(* cpt_hash_table (include/mod_hash_table/mod_hash_table.hpp): a map whose  *)
(* entries expire three seconds after they were inserted or found, kept by  *)
(* one timing wheel that turns in whole seconds of the system's clock.      *)
(***************************************************************************)
EXTENDS TimingWheel

CONSTANTS Key, NoKey,
          NoEntry,      \* "no entry"
          Second,       \* units of the wheel in a second (1000)
          Expiry,       \* life of an entry (3000)
          Users,        \* who uses the wheel: "table", or "timers" directly
          Direct,       \* the timeouts of a direct user
          Delay,        \* their delays
          Times,        \* and the times at which it turns the wheel
          MaxClock      \* bounds the model

ASSUME TableAssumption == /\ Second \in Nat \ {0} /\ Expiry \in Nat
                          /\ MaxClock \in Nat /\ NoKey \notin Key
                          /\ Direct \subseteq Timeout /\ Delay \cup Times \subseteq Nat
                          /\ Users \subseteq {"table", "timers"}

VARIABLES T,        \* the wheel, *m_to
          table,    \* the map: the timeout of each key's entry, or NoEntry
          key,      \* the key each allocated timeout points to, or NoKey
          clock,    \* std::time(nullptr)
          open,     \* between the table's construction and its destruction
          user      \* who uses this wheel

tableVars == <<T, table, key, clock, open, user>>

TableInit ==
    /\ T = EmptyTimeouts
    /\ table = [k \in Key |-> NoEntry]
    /\ key = [to \in Timeout |-> NoKey]
    /\ clock = 0
    /\ open = TRUE
    /\ user \in Users

Serves(u) == open /\ user = u
Now == clock * Second
AddEntry(U, to) == Add(U, to, Expiry, FALSE, FALSE)

\* insert(): a key that is there keeps its entry, and the new timeout is set all
\* the same.
Insert(k) ==
    /\ Serves("table")
    /\ \E to \in Timeout :
          /\ key[to] = NoKey
          /\ key' = [key EXCEPT ![to] = k]
          /\ table' = IF table[k] = NoEntry THEN [table EXCEPT ![k] = to] ELSE table
          /\ T' = AddEntry(Update(T, Now), to)
    /\ UNCHANGED <<clock, open, user>>

\* find(): the entry's life starts again, at the time the wheel was last turned to.
Find(k) ==
    /\ Serves("table") /\ table[k] # NoEntry
    /\ T' = AddEntry(Del(T, table[k]), table[k])
    /\ UNCHANGED <<table, key, clock, open, user>>

\* del(): nothing frees the timeout and its key.
DelKey(k) ==
    /\ Serves("table") /\ table[k] # NoEntry
    /\ T' = Del(T, table[k])
    /\ table' = [table EXCEPT ![k] = NoEntry]
    /\ UNCHANGED <<key, clock, open, user>>

\* Defect: the entry stays when its timeout is freed.
TimeoutUpdateKeeps ==
    LET U == Update(T, Now)
    IN  /\ Serves("table")
        /\ T' = [U EXCEPT !.expired = <<>>]
        /\ key' = [to \in Timeout |-> IF Expired(U, to) THEN NoKey ELSE key[to]]
        /\ UNCHANGED <<table, clock, open, user>>

\* timeout_update(): every expired timeout erases the entry of its key and is
\* freed, so that nothing is left in its fields.
TimeoutUpdate ==
    LET U == Update(T, Now)
    IN  /\ Serves("table")
        /\ T' = [U EXCEPT !.expired = <<>>,
                          !.expires = [to \in Timeout |-> IF Expired(U, to) THEN 0 ELSE @[to]]]
        /\ table' = [k \in Key |-> IF \E to \in Timeout : Expired(U, to) /\ key[to] = k
                                   THEN NoEntry ELSE table[k]]
        /\ key' = [to \in Timeout |-> IF Expired(U, to) THEN NoKey ELSE key[to]]
        /\ UNCHANGED <<clock, open, user>>

\* The destructor frees the timeouts that an iteration with no flags yields, which are
\* none, and closes the wheel; the map goes, what was allocated stays.
Destroy ==
    /\ Serves("table")
    /\ open' = FALSE
    /\ T' = Reset(T)
    /\ table' = [k \in Key |-> NoEntry]
    /\ key' = [to \in Timeout |-> IF Contains(Listed(T, FALSE, FALSE), to) THEN NoKey ELSE key[to]]
    /\ UNCHANGED <<clock, user>>

\* The library's own interface: repeating and absolute timeouts, removal, the
\* time set or stepped, and expired timeouts taken one at a time.
AddTimer ==
    /\ Serves("timers")
    /\ \E to \in Direct, t \in Delay, repeats, absolute \in BOOLEAN :
          T' = Add(T, to, t, repeats, absolute)
    /\ UNCHANGED <<table, key, clock, open, user>>

DelTimer ==
    /\ Serves("timers")
    /\ \E to \in Direct : T' = Del(T, to)
    /\ UNCHANGED <<table, key, clock, open, user>>

UpdateTimers ==
    /\ Serves("timers")
    /\ \E now \in Times : T' = Update(T, now)
    /\ UNCHANGED <<table, key, clock, open, user>>

GetTimer ==
    /\ Serves("timers") /\ T.expired # <<>>
    /\ T' = Get(T)
    /\ UNCHANGED <<table, key, clock, open, user>>

\* The clock of the system runs, and can be set back.
Tick ==
    /\ Serves("table")
    /\ clock' \in 0 .. MaxClock
    /\ UNCHANGED <<T, table, key, open, user>>

TableNext ==
    \/ \E k \in Key : Insert(k) \/ Find(k) \/ DelKey(k)
    \/ TimeoutUpdate \/ Destroy \/ Tick
    \/ AddTimer \/ DelTimer \/ UpdateTimers \/ GetTimer

TableSpec == TableInit /\ [][TableNext]_tableVars

-----------------------------------------------------------------------------

TableTypeOK ==
    /\ T \in Timeouts
    /\ table \in [Key -> Timeout \cup {NoEntry}]
    /\ key \in [Timeout -> Key \cup {NoKey}]
    /\ clock \in Nat /\ open \in BOOLEAN /\ user \in Users

(* The library's own check (timeouts_check): no timeout on the wheels is past its
   time, the time to wait that the bit fields give is never longer than that of
   the first timeout, and the bit fields say which slots are populated. *)
WheelChecks == Check(T)

(* An entry is always one expiry away from its end: its timeout is allocated,
   names its key, and is on the wheel or expired, though orphans of repeated
   insertions erase entries that are not theirs. *)
EntryWillExpire ==
    \A k \in Key : table[k] # NoEntry =>
        LET to == table[k]
        IN  key[to] = k /\ (OnWheel(T, to) \/ Expired(T, to))

\* The wheel as a set of timeouts.
Timers == INSTANCE TimerSet WITH
    NoTime <- -1,
    now <- T.curtime,
    due <- [to \in Timeout |-> IF OnWheel(T, to) THEN T.expires[to] ELSE -1],
    expired <- {to \in Timeout : Expired(T, to)}

(* The wheel implements the set of timeouts: each expires in the first update
   that reaches its time, none earlier, none is lost or skipped by a jump of the
   time over several slots, whole wheels, or back.  An update does nothing else. *)
TimersSpec == Timers!Spec /\ [][UpdateTimers => Timers!Pass(T.curtime')]_tableVars
=============================================================================
