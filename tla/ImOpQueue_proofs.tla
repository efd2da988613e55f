-------------------------- MODULE ImOpQueue_proofs --------------------------
(***************************************************************************)
(* Of the main module's operation queue, for any number of API threads and  *)
(* calls and any capacities: type correctness, the single wake-up of the    *)
(* reader, the conservation of messages, and that it implements OpService.  *)
(***************************************************************************)
EXTENDS ImOpQueue, TLAPS, FiniteSetTheorems, SequenceTheorems

LEMMA Constants == /\ IsFiniteSet(Threads) /\ NoOne \notin Threads
                   /\ PoolCap \in Nat \ {0} /\ QueueCap \in Nat \ {0} /\ Calls \in Nat
  BY QueueAssumption

LEMMA HeadTail ==
  ASSUME NEW q \in Seq(Threads), q # <<>>
  PROVE  /\ Head(q) \in Threads /\ Tail(q) \in Seq(Threads)
         /\ Len(q) \in Nat \ {0} /\ Len(Tail(q)) = Len(q) - 1
         /\ Head(q) = q[1]
         /\ \A i \in DOMAIN Tail(q) : i + 1 \in DOMAIN q /\ Tail(q)[i] = q[i + 1]
  <1>1. DOMAIN q = 1 .. Len(q) /\ Len(q) \in Nat /\ Len(q) # 0
    BY EmptySeq, LenProperties
  <1>2. Tail(q) \in Seq(Threads) /\ Len(Tail(q)) = Len(q) - 1
    BY HeadTailProperties
  <1>3. DOMAIN Tail(q) = 1 .. Len(q) - 1
    BY <1>2, LenProperties
  <1> QED
    BY <1>1, <1>2, <1>3, HeadTailProperties

LEMMA Appended ==
  ASSUME NEW q \in Seq(Threads), NEW t \in Threads
  PROVE  /\ Append(q, t) \in Seq(Threads)
         /\ Len(Append(q, t)) = Len(q) + 1
         /\ DOMAIN Append(q, t) = DOMAIN q \cup {Len(q) + 1}
         /\ Len(q) + 1 \notin DOMAIN q
         /\ \A i \in DOMAIN q : Append(q, t)[i] = q[i]
         /\ Append(q, t)[Len(q) + 1] = t
  <1>1. Len(q) \in Nat /\ DOMAIN q = 1 .. Len(q)
    BY LenProperties
  <1>2. Append(q, t) \in Seq(Threads) /\ Len(Append(q, t)) = Len(q) + 1
    OBVIOUS
  <1>3. DOMAIN Append(q, t) = 1 .. Len(q) + 1
    BY <1>2, LenProperties
  <1> QED
    BY <1>1, <1>2, <1>3

-----------------------------------------------------------------------------

LEMMA InitTypeOK == Init => TypeOK
  <1> SUFFICES ASSUME Init PROVE TypeOK
    OBVIOUS
  <1>1. queue \in Seq(Threads)
    BY EmptySeq DEF Init
  <1> QED
    BY <1>1 DEF Init, TypeOK, ThreadPc, ReaderPc

LEMMA WakeType ==
  ASSUME TypeOK, Wake \/ UNCHANGED <<scheduled, dropped>> PROVE scheduled' \in Nat /\ dropped' \in BOOLEAN
  <1>1. scheduled' = scheduled \/ scheduled' = scheduled + 1
    BY DEF Wake
  <1>2. dropped' = dropped \/ dropped' = TRUE
    BY DEF Wake
  <1>3. scheduled' \in Nat
    BY <1>1 DEF TypeOK
  <1>4. dropped' \in BOOLEAN
    BY <1>2 DEF TypeOK
  <1> QED
    BY <1>3, <1>4

LEMMA TypeStep == TypeOK /\ [Next]_vars => TypeOK'
  <1> SUFFICES ASSUME TypeOK, [Next]_vars PROVE TypeOK'
    OBVIOUS
  <1> USE Constants DEF TypeOK, ThreadPc, ReaderPc, Goto, pool, wakeup, reader
  <1>1. ASSUME NEW t \in Threads, ThreadStep(t) PROVE TypeOK'
    <2>1. CASE Alloc(t)
      BY <2>1 DEF Alloc
    <2>2. CASE PoolPop(t)
      BY <2>2 DEF PoolPop
    <2>3. CASE Grow(t)
      <3>0. total' = total \/ total' = total + 1
        BY <2>3 DEF Grow
      <3>1. total' \in Nat
        BY <3>0
      <3>4. calls' = calls \/ calls' = [calls EXCEPT ![t] = @ + 1]
        BY <2>3 DEF Grow
      <3>2. calls' \in [Threads -> Nat]
        BY <3>4
      <3>3. pc' \in [Threads -> ThreadPc]
        BY <2>3 DEF Grow
      <3>5. leaked' \in Nat
        <4>1. leaked' = leaked \/ leaked' = leaked + 1
          BY <2>3 DEF Grow
        <4> QED
          BY <4>1
      <3> QED
        BY <2>3, <3>1, <3>2, <3>3, <3>5 DEF Grow
    <2>4. CASE ReadFlag(t)
      BY <2>4 DEF ReadFlag
    <2>5. CASE Push(t)
      BY <2>5 DEF Push
    <2>6. CASE Store(t)
      BY <2>6, Appended DEF Store
    <2>7. CASE Lock(t)
      BY <2>7 DEF Lock
    <2>8. CASE PushLocked(t)
      BY <2>8 DEF PushLocked
    <2>9. CASE StoreLocked(t)
      BY <2>9, Appended DEF StoreLocked
    <2>10. CASE Notify(t)
      <3>1. scheduled' \in Nat /\ dropped' \in BOOLEAN
        BY <2>10, WakeType DEF Notify
      <3> QED
        BY <2>10, <3>1 DEF Notify
    <2>11. CASE Fail(t)
      BY <2>11 DEF Fail
    <2>12. CASE Return(t)
      BY <2>12 DEF Return
    <2> QED
      BY <1>1, <2>1, <2>2, <2>3, <2>4, <2>5, <2>6, <2>7, <2>8, <2>9, <2>10, <2>11, <2>12
         DEF ThreadStep
  <1>2. CASE Begin
    BY <1>2 DEF Begin
  <1>3. CASE Pop
    BY <1>3, HeadTail DEF Pop
  <1>4. CASE Reply
    BY <1>4 DEF Reply
  <1>5. CASE FreeMsg
    BY <1>5 DEF FreeMsg
  <1>6. CASE Suspend
    BY <1>6 DEF Suspend
  <1>7. CASE Arm
    BY <1>7 DEF Arm
  <1>8. CASE ReaderLock
    BY <1>8 DEF ReaderLock
  <1>9. CASE Register
    <2>1. scheduled' \in Nat /\ dropped' \in BOOLEAN
      BY <1>9, WakeType DEF Register
    <2>2. notify' \in BOOLEAN
      BY <1>9 DEF Register
    <2> QED
      BY <1>9, <2>1, <2>2 DEF Register
  <1>10. CASE Resume
    BY <1>10 DEF Resume
  <1>11. CASE UNCHANGED vars
    BY <1>11 DEF vars
  <1> QED
    BY <1>1, <1>2, <1>3, <1>4, <1>5, <1>6, <1>7, <1>8, <1>9, <1>10, <1>11
       DEF Next, ReaderStep

(* The state of the queue, the pool and the reader keeps its type; in
   particular the reader has a message exactly while it serves one. *)
THEOREM TypeCorrect == Spec => []TypeOK
  BY InitTypeOK, TypeStep, PTL DEF Spec

-----------------------------------------------------------------------------

LEMMA WakeupStep == TypeOK /\ OneWakeup /\ [Next]_vars => OneWakeup'
  <1> SUFFICES ASSUME TypeOK, OneWakeup, [Next]_vars PROVE OneWakeup'
    OBVIOUS
  <1> USE DEF OneWakeup, TypeOK
  <1>1. ASSUME NEW t \in Threads, Notify(t) PROVE OneWakeup'
    BY <1>1 DEF Notify, Wake, reader
  <1>2. ASSUME NEW t \in Threads, ThreadStep(t), ~Notify(t) PROVE OneWakeup'
    BY <1>2 DEF ThreadStep, Alloc, PoolPop, Grow, ReadFlag, Push, Store, Lock, PushLocked,
                StoreLocked, Fail, Return, wakeup, reader
  <1>3. CASE Register
    BY <1>3 DEF Register, Wake
  <1>4. CASE Resume
    BY <1>4 DEF Resume
  <1>5. CASE Begin \/ Pop \/ Reply \/ FreeMsg \/ Suspend \/ Arm \/ ReaderLock
    BY <1>5 DEF Begin, Pop, Reply, FreeMsg, Suspend, Arm, ReaderLock, wakeup
  <1>6. CASE UNCHANGED vars
    BY <1>6 DEF vars
  <1> QED
    BY <1>1, <1>2, <1>3, <1>4, <1>5, <1>6 DEF Next, ReaderStep

(* The reading coroutine is resumed at most once for each suspension: its resume
   function is registered or called, never both and never twice. *)
THEOREM OneWakeupHolds == Spec => []OneWakeup
  <1>1. Init => OneWakeup
    BY DEF Init, OneWakeup
  <1> QED
    BY <1>1, InitTypeOK, TypeStep, WakeupStep, PTL DEF Spec

-----------------------------------------------------------------------------

HandPc == {"check", "push", "store", "lock", "locked", "lockedStore", "fail"}

\* A thread's step changes what threads have in hand by its own message alone.
LEMMA HandStep ==
  ASSUME TypeOK, NEW t \in Threads, NEW l \in ThreadPc, pc' = [pc EXCEPT ![t] = l]
  PROVE  /\ Cardinality(InHand) \in Nat
         /\ pc[t] \in HandPc /\ l \in HandPc => Cardinality(InHand)' = Cardinality(InHand)
         /\ pc[t] \notin HandPc /\ l \notin HandPc => Cardinality(InHand)' = Cardinality(InHand)
         /\ pc[t] \notin HandPc /\ l \in HandPc => Cardinality(InHand)' = Cardinality(InHand) + 1
         /\ pc[t] \in HandPc /\ l \notin HandPc => Cardinality(InHand)' = Cardinality(InHand) - 1
  <1>1. IsFiniteSet(InHand)
    BY Constants, FS_Subset DEF InHand
  <1>2. Cardinality(InHand) \in Nat
    BY <1>1, FS_CardinalityType
  <1>3. t \in InHand <=> pc[t] \in HandPc
    BY DEF InHand, HandPc
  <1>4. InHand' = IF l \in HandPc THEN InHand \cup {t} ELSE InHand \ {t}
    BY DEF InHand, HandPc, TypeOK
  <1>5. /\ Cardinality(InHand \cup {t}) = IF t \in InHand THEN Cardinality(InHand)
                                                          ELSE Cardinality(InHand) + 1
        /\ Cardinality(InHand \ {t}) = IF t \in InHand THEN Cardinality(InHand) - 1
                                                       ELSE Cardinality(InHand)
    BY <1>1, FS_AddElement, FS_RemoveElement
  <1> QED
    BY <1>2, <1>3, <1>4, <1>5

LEMMA PoolStep == TypeOK /\ PoolConserved /\ [Next]_vars => PoolConserved'
  <1> SUFFICES ASSUME TypeOK, PoolConserved, [Next]_vars PROVE PoolConserved'
    OBVIOUS
  <1> USE DEF PoolConserved
  <1>0. Len(queue) \in Nat /\ PoolCap \in Nat
    BY Constants, LenProperties DEF TypeOK
  <1>1. ASSUME NEW t \in Threads, ThreadStep(t) PROVE PoolConserved'
    <2>1. PICK l \in ThreadPc : pc' = [pc EXCEPT ![t] = l]
      BY <1>1 DEF ThreadStep, Alloc, PoolPop, Grow, ReadFlag, Push, Store, Lock, PushLocked,
                  StoreLocked, Notify, Fail, Return, Goto, ThreadPc
    <2>2. pc'[t] = l
      BY <2>1 DEF TypeOK
    <2>3. /\ Cardinality(InHand) \in Nat
          /\ pc[t] \in HandPc /\ l \in HandPc => Cardinality(InHand)' = Cardinality(InHand)
          /\ pc[t] \notin HandPc /\ l \notin HandPc => Cardinality(InHand)' = Cardinality(InHand)
          /\ pc[t] \notin HandPc /\ l \in HandPc => Cardinality(InHand)' = Cardinality(InHand) + 1
          /\ pc[t] \in HandPc /\ l \notin HandPc => Cardinality(InHand)' = Cardinality(InHand) - 1
      BY <2>1, HandStep
    <2> USE <1>0, <2>1, <2>2, <2>3 DEF HandPc, TypeOK, Goto
    <2>4. CASE Alloc(t) \/ Return(t)
      BY <2>4 DEF Alloc, Return, pool, reader
    <2>5. CASE PoolPop(t)
      BY <2>5 DEF PoolPop, reader
    <2>6. CASE Grow(t)
      BY <2>6 DEF Grow, reader
    <2>7. CASE ReadFlag(t) \/ Push(t) \/ Lock(t) \/ PushLocked(t)
      BY <2>7 DEF ReadFlag, Push, Lock, PushLocked, pool, reader
    <2>8. CASE Store(t) \/ StoreLocked(t)
      <3>1. Len(queue') = Len(queue) + 1
        BY <2>8, Appended DEF Store, StoreLocked
      <3>2. UNCHANGED <<free, total, leaked, cur>>
        BY <2>8 DEF Store, StoreLocked, pool, reader
      <3>3. pc[t] \in HandPc /\ l \notin HandPc
        BY <2>8 DEF Store, StoreLocked
      <3>4. free \in Nat /\ total \in Nat
        OBVIOUS
      <3>5. Cardinality(InHand)' = Cardinality(InHand) - 1
        BY <3>3
      <3>6. /\ total' <= PoolCap /\ (leaked' > 0 => total' = PoolCap)
            /\ total' = total /\ free' = free /\ cur' = cur
        BY <3>2
      <3> HIDE DEF TypeOK, HandPc
      <3>7. total' = free' + Cardinality(InHand)' + Len(queue') + (IF cur' = NoOne THEN 0 ELSE 1)
        BY <3>1, <3>4, <3>5, <3>6
      <3> QED
        BY <3>6, <3>7
    <2>9. CASE Notify(t)
      BY <2>9 DEF Notify, pool, reader
    <2>10. CASE Fail(t)
      BY <2>10 DEF Fail, reader
    <2> QED
      BY <1>1, <2>4, <2>5, <2>6, <2>7, <2>8, <2>9, <2>10 DEF ThreadStep
  <1>2. ASSUME pc' = pc PROVE Cardinality(InHand)' = Cardinality(InHand)
    BY <1>2 DEF InHand
  <1>3. Cardinality(InHand) \in Nat
    <2>1. IsFiniteSet(InHand)
      BY Constants, FS_Subset DEF InHand
    <2> QED
      BY <2>1, FS_CardinalityType
  <1>4. CASE Pop
    <2>1. Len(queue') = Len(queue) - 1 /\ cur' # NoOne /\ cur = NoOne
      BY <1>4, HeadTail, Constants DEF Pop, TypeOK
    <2> QED
      BY <1>0, <1>2, <1>3, <1>4, <2>1 DEF Pop, pool, TypeOK
  <1>5. CASE FreeMsg
    BY <1>0, <1>2, <1>3, <1>5 DEF FreeMsg, TypeOK
  <1>6. CASE Begin \/ Reply \/ Suspend \/ Arm \/ ReaderLock \/ Register \/ Resume
    BY <1>2, <1>6 DEF Begin, Reply, Suspend, Arm, ReaderLock, Register, Resume, pool
  <1>7. CASE UNCHANGED vars
    BY <1>2, <1>7 DEF vars, pool, reader
  <1> QED
    BY <1>1, <1>4, <1>5, <1>6, <1>7 DEF Next, ReaderStep

(* No message of the pool is lost or freed twice, and memory leaks at the limit
   of the pool only, for any number of threads and calls and whatever the
   capacities of pool and queue. *)
THEOREM PoolConservedHolds == Spec => []PoolConserved
  <1>1. Init => PoolConserved
    <2>1. ASSUME Init PROVE InHand = {}
      BY <2>1 DEF Init, InHand
    <2> QED
      <3>1. Cardinality({}) = 0 /\ Len(<<>>) = 0
        BY FS_EmptySet
      <3>2. SUFFICES ASSUME Init PROVE PoolConserved
        OBVIOUS
      <3>3. Cardinality(InHand) = 0 /\ Len(queue) = 0 /\ free = 0 /\ total = 0 /\ leaked = 0 /\ cur = NoOne
        BY <2>1, <3>1, <3>2 DEF Init
      <3> QED
        BY <3>3, Constants DEF PoolConserved
  <1> QED
    BY <1>1, InitTypeOK, TypeStep, PoolStep, PTL DEF Spec

-----------------------------------------------------------------------------

Submitted == {"notify", "wait"}

\* A thread has at most one operation under way, and it is queued, or served,
\* or answered, while its thread waits for it.
OneCallEach ==
    /\ \A i, j \in DOMAIN queue : queue[i] = queue[j] => i = j
    /\ \A i \in DOMAIN queue : pc[queue[i]] \in Submitted /\ ~answered[queue[i]]
    /\ rpc = "reply" => /\ pc[cur] \in Submitted /\ ~answered[cur]
                        /\ \A i \in DOMAIN queue : queue[i] # cur
    /\ \A t \in Threads : answered[t] => pc[t] \in Submitted

\* A step that leaves the queue and the reader alone, of a thread that has no
\* operation under way or keeps waiting for it.
LEMMA QuietStep ==
  ASSUME TypeOK, OneCallEach, NEW t \in Threads, NEW l \in ThreadPc,
         pc' = [pc EXCEPT ![t] = l], pc[t] \notin Submitted \/ l \in Submitted,
         UNCHANGED <<queue, rpc, cur, answered>>
  PROVE  OneCallEach'
  <1>1. \A u \in Threads : pc[u] \in Submitted => pc'[u] \in Submitted
    BY DEF TypeOK
  <1>2. \A i \in DOMAIN queue : queue[i] \in Threads
    BY ElementOfSeq, LenProperties DEF TypeOK
  <1>3. rpc = "reply" => cur \in Threads
    BY DEF TypeOK
  <1> QED
    BY <1>1, <1>2, <1>3 DEF OneCallEach

\* The step that queues the operation of thread t.
LEMMA SubmitStep ==
  ASSUME TypeOK, OneCallEach, NEW t \in Threads, NEW l \in Submitted,
         pc[t] \notin Submitted, pc' = [pc EXCEPT ![t] = l], queue' = Append(queue, t),
         UNCHANGED <<rpc, cur, answered>>
  PROVE  OneCallEach'
  <1>1. \A u \in Threads : pc[u] \in Submitted => pc'[u] \in Submitted
    BY DEF TypeOK
  <1>2. \A i \in DOMAIN queue : queue[i] \in Threads /\ queue[i] # t
    BY ElementOfSeq, LenProperties DEF TypeOK, OneCallEach
  <1>3. rpc = "reply" => cur \in Threads /\ cur # t
    BY DEF TypeOK, OneCallEach
  <1>4. ~answered[t] /\ pc'[t] \in Submitted
    BY DEF TypeOK, OneCallEach
  <1>5. /\ DOMAIN queue' = DOMAIN queue \cup {Len(queue) + 1}
        /\ \A i \in DOMAIN queue : queue'[i] = queue[i]
        /\ queue'[Len(queue) + 1] = t
    BY Appended DEF TypeOK
  <1>6. (\A i, j \in DOMAIN queue : queue[i] = queue[j] => i = j)'
    BY <1>2, <1>5 DEF OneCallEach
  <1>7. (\A i \in DOMAIN queue : pc[queue[i]] \in Submitted /\ ~answered[queue[i]])'
    BY <1>1, <1>2, <1>4, <1>5 DEF OneCallEach
  <1>8. (rpc = "reply" => /\ pc[cur] \in Submitted /\ ~answered[cur]
                         /\ \A i \in DOMAIN queue : queue[i] # cur)'
    BY <1>1, <1>3, <1>5 DEF OneCallEach
  <1>9. (\A u \in Threads : answered[u] => pc[u] \in Submitted)'
    BY <1>1 DEF OneCallEach
  <1> QED
    BY <1>6, <1>7, <1>8, <1>9 DEF OneCallEach

LEMMA CallStep == TypeOK /\ OneCallEach /\ [Next]_vars => OneCallEach'
  <1> SUFFICES ASSUME TypeOK, OneCallEach, [Next]_vars PROVE OneCallEach'
    OBVIOUS
  <1>0. /\ \A i \in DOMAIN queue : queue[i] \in Threads
        /\ rpc \in {"reply", "free"} => cur \in Threads
    BY ElementOfSeq, LenProperties DEF TypeOK
  <1>1. ASSUME NEW t \in Threads, Store(t) \/ StoreLocked(t) PROVE OneCallEach'
    BY <1>1, SubmitStep DEF Store, StoreLocked, Goto, Submitted, reader
  <1>2. ASSUME NEW t \in Threads,
               \/ Alloc(t) \/ PoolPop(t) \/ Grow(t) \/ ReadFlag(t) \/ Push(t)
               \/ Lock(t) \/ PushLocked(t) \/ Notify(t) \/ Fail(t)
        PROVE  OneCallEach'
    <2>1. PICK l \in ThreadPc : /\ pc' = [pc EXCEPT ![t] = l]
                                /\ pc[t] \notin Submitted \/ l \in Submitted
      BY <1>2 DEF Alloc, PoolPop, Grow, ReadFlag, Push, Lock, PushLocked, Notify, Fail,
                  Goto, ThreadPc, Submitted
    <2>2. UNCHANGED <<queue, rpc, cur, answered>>
      BY <1>2 DEF Alloc, PoolPop, Grow, ReadFlag, Push, Lock, PushLocked, Notify, Fail, reader
    <2> QED
      BY <2>1, <2>2, QuietStep
  <1>3. ASSUME NEW t \in Threads, Return(t) PROVE OneCallEach'
    <2>1. /\ \A u \in Threads \ {t} : pc'[u] = pc[u] /\ answered'[u] = answered[u]
          /\ ~answered'[t] /\ UNCHANGED <<queue, rpc, cur>>
      BY <1>3 DEF Return, Goto, TypeOK, reader
    <2>2. \A i \in DOMAIN queue : queue[i] # t
      BY <1>3 DEF Return, OneCallEach
    <2>3. rpc = "reply" => cur # t
      BY <1>3 DEF Return, OneCallEach
    <2> QED
      BY <1>0, <2>1, <2>2, <2>3 DEF OneCallEach
  <1>4. CASE Pop
    <2>1. /\ queue' = Tail(queue) /\ cur' = queue[1] /\ 1 \in DOMAIN queue
          /\ \A i \in DOMAIN queue' : /\ i + 1 \in DOMAIN queue /\ queue'[i] = queue[i + 1]
                                       /\ i \in Nat \ {0}
      <3>1. queue' = Tail(queue) /\ queue \in Seq(Threads) /\ queue # <<>> /\ cur' = Head(queue)
        BY <1>4 DEF Pop, TypeOK
      <3>2. Tail(queue) \in Seq(Threads) /\ Len(queue) \in Nat \ {0} /\ Head(queue) = queue[1]
        BY <3>1, HeadTail
      <3>3. DOMAIN queue = 1 .. Len(queue)
        BY <3>1, LenProperties
      <3>4. DOMAIN Tail(queue) = 1 .. Len(Tail(queue)) /\ Len(Tail(queue)) \in Nat
        BY <3>2, LenProperties
      <3> QED
        BY <3>1, <3>2, <3>3, <3>4, HeadTail
    <2>2. UNCHANGED <<pc, answered>>
      BY <1>4 DEF Pop
    <2>3. \A i \in DOMAIN queue' : queue'[i] # cur'
      BY <2>1 DEF OneCallEach
    <2>4. \A i, j \in DOMAIN queue' : queue'[i] = queue'[j] => i = j
      <3> SUFFICES ASSUME NEW i \in DOMAIN queue', NEW j \in DOMAIN queue', queue'[i] = queue'[j]
                   PROVE  i = j
        OBVIOUS
      <3>1. i + 1 = j + 1
        BY <2>1 DEF OneCallEach
      <3> QED
        BY <2>1, <3>1
    <2> QED
      BY <2>1, <2>2, <2>3, <2>4 DEF OneCallEach
  <1>5. CASE Reply
    <2>1. /\ UNCHANGED <<pc, queue, cur>> /\ rpc = "reply" /\ rpc' = "free"
          /\ \A u \in Threads \ {cur} : answered'[u] = answered[u]
      BY <1>5 DEF Reply, TypeOK
    <2> QED
      BY <1>0, <2>1 DEF OneCallEach
  <1>6. CASE Begin \/ FreeMsg \/ Suspend \/ Arm \/ ReaderLock \/ Register \/ Resume
    <2>1. rpc' # "reply" /\ UNCHANGED <<pc, queue, answered>>
      BY <1>6 DEF Begin, FreeMsg, Suspend, Arm, ReaderLock, Register, Resume
    <2> QED
      BY <2>1 DEF OneCallEach
  <1>7. CASE UNCHANGED vars
    BY <1>7 DEF vars, reader, OneCallEach
  <1> QED
    BY <1>1, <1>2, <1>3, <1>4, <1>5, <1>6, <1>7 DEF Next, ReaderStep, ThreadStep

LEMMA InitOneCallEach == Init => OneCallEach
  BY DEF Init, OneCallEach

(* An answer belongs to the call its thread is in, for any number of threads. *)
THEOREM AnswersMatchCallsHolds == Spec => []AnswersMatchCalls
  <1>1. OneCallEach => AnswersMatchCalls
    BY DEF OneCallEach, AnswersMatchCalls, Submitted
  <1> QED
    BY <1>1, InitTypeOK, TypeStep, InitOneCallEach, CallStep, PTL DEF Spec

-----------------------------------------------------------------------------

LEMMA HeadThenTail ==
  ASSUME NEW q \in Seq(Threads), q # <<>> PROVE <<Head(q)>> \o Tail(q) = q
  <1>1. Head(q) \in Threads /\ Tail(q) \in Seq(Threads)
    BY HeadTail
  <1>2. <<Head(q)>> \in Seq(Threads) /\ Len(<<Head(q)>>) = 1 /\ <<Head(q)>>[1] = Head(q)
    BY <1>1
  <1>3. /\ <<Head(q)>> \o Tail(q) \in Seq(Threads)
        /\ Len(<<Head(q)>> \o Tail(q)) = 1 + Len(Tail(q))
        /\ \A i \in 1 .. 1 + Len(Tail(q)) :
              (<<Head(q)>> \o Tail(q))[i] = IF i <= 1 THEN <<Head(q)>>[i] ELSE Tail(q)[i - 1]
    BY <1>1, <1>2, ConcatProperties
  <1>4. Len(q) \in Nat \ {0} /\ Len(Tail(q)) = Len(q) - 1 /\ Head(q) = q[1]
    BY HeadTail
  <1>5. \A i \in 1 .. Len(Tail(q)) : Tail(q)[i] = q[i + 1]
    BY HeadTailProperties
  <1>6. \A i \in 1 .. Len(q) : (<<Head(q)>> \o Tail(q))[i] = q[i]
    BY <1>2, <1>3, <1>4, <1>5
  <1> QED
    BY <1>3, <1>4, <1>6, SeqEqual

LEMMA ServedThenQueued ==
  ASSUME NEW c \in Threads, NEW q \in Seq(Threads)
  PROVE  /\ <<c>> \o q \in Seq(Threads) /\ <<c>> \o q # <<>>
         /\ Head(<<c>> \o q) = c /\ Tail(<<c>> \o q) = q
         /\ \A i \in DOMAIN (<<c>> \o q) :
               \/ (<<c>> \o q)[i] = c
               \/ \E j \in DOMAIN q : (<<c>> \o q)[i] = q[j]
         /\ \A t \in Threads : Append(<<c>> \o q, t) = <<c>> \o Append(q, t)
  <1> DEFINE s == <<c>> \o q
  <1>1. <<c>> \in Seq(Threads) /\ Len(<<c>>) = 1 /\ <<c>>[1] = c
    OBVIOUS
  <1>2. /\ s \in Seq(Threads) /\ Len(s) = 1 + Len(q)
        /\ \A i \in 1 .. 1 + Len(q) : s[i] = IF i <= 1 THEN <<c>>[i] ELSE q[i - 1]
    BY <1>1, ConcatProperties
  <1>3. Len(q) \in Nat /\ DOMAIN q = 1 .. Len(q) /\ DOMAIN s = 1 .. 1 + Len(q)
    BY <1>2, LenProperties
  <1>4. s # <<>>
    BY <1>2, <1>3, EmptySeq
  <1>5. s[1] = c /\ \A i \in 1 .. Len(q) : s[i + 1] = q[i]
    BY <1>1, <1>2, <1>3
  <1>6. Head(s) = c
    BY <1>2, <1>4, <1>5, HeadTail
  <1>7. Tail(s) = q
    <2>1. Tail(s) \in Seq(Threads) /\ Len(Tail(s)) = Len(q)
      BY <1>2, <1>3, <1>4, HeadTailProperties
    <2>2. \A i \in 1 .. Len(Tail(s)) : Tail(s)[i] = s[i + 1]
      BY <1>2, <1>4, HeadTailProperties
    <2> QED
      BY <1>5, <2>1, <2>2, SeqEqual
  <1>8. \A i \in DOMAIN s : s[i] = c \/ \E j \in DOMAIN q : s[i] = q[j]
    BY <1>1, <1>2, <1>3
  <1>9. ASSUME NEW t \in Threads PROVE Append(s, t) = <<c>> \o Append(q, t)
    <2> DEFINE r == Append(q, t)
    <2>1. r \in Seq(Threads) /\ Len(r) = Len(q) + 1
      BY Appended
    <2>2. /\ <<c>> \o r \in Seq(Threads) /\ Len(<<c>> \o r) = 1 + Len(r)
          /\ \A i \in 1 .. 1 + Len(r) : (<<c>> \o r)[i] = IF i <= 1 THEN <<c>>[i] ELSE r[i - 1]
      BY <1>1, <2>1, ConcatProperties
    <2>3. Append(s, t) \in Seq(Threads) /\ Len(Append(s, t)) = Len(s) + 1
      BY <1>2, Appended
    <2>4. /\ \A i \in DOMAIN s : Append(s, t)[i] = s[i]
          /\ Append(s, t)[Len(s) + 1] = t
      BY <1>2, Appended
    <2>5. /\ \A i \in DOMAIN q : r[i] = q[i]
          /\ r[Len(q) + 1] = t
      BY Appended
    <2>6. ASSUME NEW i \in 1 .. Len(Append(s, t)) PROVE Append(s, t)[i] = (<<c>> \o r)[i]
      <3>1. CASE i = 1
        BY <1>1, <1>3, <1>5, <2>1, <2>2, <2>4, <3>1
      <3>2. CASE i \in 2 .. Len(q) + 1
        <4>1. i - 1 \in DOMAIN q /\ i \in DOMAIN s
          BY <1>3, <3>2
        <4>2. (<<c>> \o r)[i] = r[i - 1] /\ s[i] = q[i - 1]
          BY <1>2, <1>3, <2>1, <2>2, <3>2
        <4> QED
          BY <2>4, <2>5, <4>1, <4>2
      <3>3. CASE i = Len(q) + 2
        <4>1. (<<c>> \o r)[i] = r[i - 1]
          BY <1>3, <2>1, <2>2, <3>3
        <4>2. i - 1 = Len(q) + 1 /\ i = Len(s) + 1
          BY <1>2, <1>3, <3>3
        <4> QED
          BY <2>4, <2>5, <4>1, <4>2
      <3> QED
        BY <1>2, <1>3, <2>3, <3>1, <3>2, <3>3
    <2>7. Len(Append(s, t)) = Len(<<c>> \o r)
      BY <1>2, <1>3, <2>1, <2>2, <2>3
    <2>8. Append(s, t) \in Seq(Threads) /\ <<c>> \o r \in Seq(Threads)
      BY <2>2, <2>3
    <2> DEFINE left == Append(s, t)
               right == <<c>> \o r
    <2>9. /\ left \in Seq(Threads) /\ right \in Seq(Threads) /\ Len(left) = Len(right)
          /\ \A i \in 1 .. Len(left) : left[i] = right[i]
      BY <2>6, <2>7, <2>8
    <2>10. left = right
      <3> HIDE DEF left, right
      <3> QED
        BY <2>9, SeqEqual
    <2> QED
      BY <2>10
  <1> QED
    BY <1>2, <1>4, <1>6, <1>7, <1>8, <1>9

\* Queuing the operation of thread t is Submit(t) of OpService.
LEMMA StoreSubmits ==
  ASSUME TypeOK, OneCallEach, NEW t \in Threads, pc[t] \notin Submitted,
         queue' = Append(queue, t), UNCHANGED <<rpc, cur, answered>>
  PROVE  Service!Submit(t)
  <1>1. ~answered[t] /\ answered' = answered
    BY DEF OneCallEach
  <1>2. \A i \in DOMAIN queue : queue[i] # t
    BY DEF OneCallEach
  <1>3. CASE rpc = "reply"
    <2>1. cur \in Threads /\ cur # t /\ queue \in Seq(Threads)
      BY <1>3 DEF TypeOK, OneCallEach
    <2>2. Append(<<cur>> \o queue, t) = <<cur>> \o Append(queue, t)
      BY <2>1, ServedThenQueued
    <2>3. ASSUME NEW i \in DOMAIN (<<cur>> \o queue) PROVE (<<cur>> \o queue)[i] # t
      <3>1. \/ (<<cur>> \o queue)[i] = cur
            \/ \E j \in DOMAIN queue : (<<cur>> \o queue)[i] = queue[j]
        BY <2>1, <2>3, ServedThenQueued
      <3> QED
        BY <1>2, <2>1, <3>1
    <2> QED
      BY <1>1, <1>3, <2>2, <2>3 DEF Service!Submit
  <1>4. CASE rpc # "reply"
    <2>1. <<>> \o queue = queue /\ <<>> \o Append(queue, t) = Append(queue, t)
      BY Appended, ConcatEmptySeq DEF TypeOK
    <2> QED
      BY <1>1, <1>2, <1>4, <2>1 DEF Service!Submit
  <1> QED
    BY <1>3, <1>4

LEMMA Refines == TypeOK /\ OneCallEach /\ [Next]_vars => [Service!Next]_Service!vars
  <1> SUFFICES ASSUME TypeOK, OneCallEach, [Next]_vars PROVE [Service!Next]_Service!vars
    OBVIOUS
  <1>0. ASSUME UNCHANGED <<queue, answered>>, UNCHANGED <<rpc, cur>> \/ "reply" \notin {rpc, rpc'}
        PROVE  UNCHANGED Service!vars
    BY <1>0 DEF Service!vars
  <1>1. ASSUME NEW t \in Threads, Store(t) \/ StoreLocked(t) PROVE Service!Next
    <2>1. Service!Submit(t)
      BY <1>1, StoreSubmits DEF Store, StoreLocked, Submitted, reader
    <2> QED
      BY <2>1 DEF Service!Next
  <1>2. ASSUME NEW t \in Threads,
               \/ Alloc(t) \/ PoolPop(t) \/ Grow(t) \/ ReadFlag(t) \/ Push(t)
               \/ Lock(t) \/ PushLocked(t) \/ Notify(t) \/ Fail(t)
        PROVE  UNCHANGED Service!vars
    BY <1>0, <1>2 DEF Alloc, PoolPop, Grow, ReadFlag, Push, Lock, PushLocked, Notify, Fail, reader
  <1>3. ASSUME NEW t \in Threads, Return(t) PROVE Service!Next
    <2>1. Service!Return(t)
      BY <1>3 DEF Return, reader, Service!Return
    <2> QED
      BY <2>1 DEF Service!Next
  <1>4. CASE Pop
    <2>1. /\ queue \in Seq(Threads) /\ queue # <<>> /\ rpc # "reply" /\ rpc' = "reply"
          /\ cur' = Head(queue) /\ queue' = Tail(queue) /\ answered' = answered
      BY <1>4 DEF Pop, TypeOK
    <2>2. <<cur'>> \o queue' = queue /\ <<>> \o queue = queue
      BY <2>1, HeadThenTail, ConcatEmptySeq
    <2> QED
      BY <2>1, <2>2 DEF Service!vars
  <1>5. CASE Reply
    <2>1. /\ cur \in Threads /\ queue \in Seq(Threads) /\ rpc = "reply" /\ rpc' # "reply"
          /\ queue' = queue /\ answered' = [answered EXCEPT ![cur] = TRUE]
      BY <1>5 DEF Reply, TypeOK
    <2>2. /\ <<cur>> \o queue # <<>> /\ Head(<<cur>> \o queue) = cur
          /\ Tail(<<cur>> \o queue) = queue /\ <<>> \o queue = queue
      BY <2>1, ServedThenQueued, ConcatEmptySeq
    <2>3. Service!Answer
      BY <2>1, <2>2 DEF Service!Answer
    <2> QED
      BY <2>3 DEF Service!Next
  <1>6. CASE Begin \/ FreeMsg \/ Suspend \/ Arm \/ ReaderLock \/ Register \/ Resume
    BY <1>0, <1>6 DEF Begin, FreeMsg, Suspend, Arm, ReaderLock, Register, Resume
  <1>7. CASE UNCHANGED vars
    BY <1>0, <1>7 DEF vars, reader
  <1> QED
    BY <1>1, <1>2, <1>3, <1>4, <1>5, <1>6, <1>7 DEF Next, ReaderStep, ThreadStep

(* The main module implements OpService, for any number of API threads and any
   capacities: operations are served in the order they were queued, each is
   answered once, and a caller returns with the answer to its own call. *)
THEOREM ServiceHolds == Spec => ServiceSpec
  <1>1. Init => Service!Init
    <2> SUFFICES ASSUME Init PROVE Service!Init
      OBVIOUS
    <2>1. <<>> \o <<>> = <<>>
      BY EmptySeq, ConcatEmptySeq
    <2> QED
      BY <2>1 DEF Init, Service!Init
  <1> QED
    BY <1>1, Refines, InitTypeOK, TypeStep, InitOneCallEach, CallStep, PTL
       DEF Spec, ServiceSpec, Service!Spec
=============================================================================
