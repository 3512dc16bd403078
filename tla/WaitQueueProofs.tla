-------------------------- MODULE WaitQueueProofs ---------------------------
(***************************************************************************)
(* Proofs about WaitQueue, for every set of threads and every number of    *)
(* slots: each step of the scheme keeps WQInv, and a thread on its way to  *)
(* look at the state again (InTransit) stays so until it looks.  A thread  *)
(* that is outside may sleep for something else, as it does when a         *)
(* condition variable is used with the mutex.                              *)
(*                                                                         *)
(* And about TidRing, the buffer that the queue is kept in: whatever its   *)
(* size, the ring is a queue.                                              *)
(***************************************************************************)
EXTENDS WaitQueue, TidRing, Functions, FiniteSetTheorems, SequenceTheorems, TLAPS

\* Appending adds the element to the range.
LEMMA RangeAppend ==
    ASSUME NEW S, NEW q \in Seq(S), NEW x \in S
    PROVE  Range(Append(q, x)) = Range(q) \cup {x}
<1>1. /\ Len(Append(q, x)) = Len(q) + 1
      /\ DOMAIN Append(q, x) = 1..(Len(q) + 1)
      /\ DOMAIN q = 1..Len(q)
      /\ Len(q) \in Nat
      /\ \A i \in 1..Len(q) : Append(q, x)[i] = q[i]
      /\ Append(q, x)[Len(q) + 1] = x
  OBVIOUS
<1>2. ASSUME NEW y \in Range(Append(q, x))
      PROVE  y \in Range(q) \cup {x}
  <2>1. PICK i \in 1..(Len(q) + 1) : y = Append(q, x)[i]
    BY <1>1, <1>2 DEF Range
  <2>2. CASE i = Len(q) + 1
    BY <2>1, <2>2, <1>1
  <2>3. CASE i \in 1..Len(q)
    BY <2>1, <2>3, <1>1 DEF Range
  <2>. QED  BY <2>1, <2>2, <2>3, <1>1
<1>3. ASSUME NEW y \in Range(q) \cup {x}
      PROVE  y \in Range(Append(q, x))
  <2>1. CASE y = x
    BY <2>1, <1>1 DEF Range
  <2>2. CASE y \in Range(q)
    <3>1. PICK i \in 1..Len(q) : y = q[i]
      BY <2>2, <1>1 DEF Range
    <3>2. i \in 1..(Len(q) + 1) /\ y = Append(q, x)[i]
      BY <3>1, <1>1
    <3>. QED  BY <3>2, <1>1 DEF Range
  <2>. QED  BY <1>3, <2>1, <2>2
<1>. QED  BY <1>2, <1>3

\* Appending a new element keeps a queue free of repetitions.
LEMMA InjectiveAppend ==
    ASSUME NEW S, NEW q \in Seq(S), NEW x \in S,
           IsInjective(q), x \notin Range(q)
    PROVE  IsInjective(Append(q, x))
<1>1. \A i \in 1..Len(q) : q[i] # x
  BY DEF Range
<1>. QED  BY <1>1 DEF IsInjective

\* The head is in the range; without repetitions it is not in the tail, and
\* the tail keeps everything else and has no repetitions either.
LEMMA InjectiveTail ==
    ASSUME NEW S, NEW q \in Seq(S), q # <<>>, IsInjective(q)
    PROVE  /\ Head(q) \in Range(q)
           /\ Range(Tail(q)) = Range(q) \ {Head(q)}
           /\ IsInjective(Tail(q))
<1>1. /\ Len(q) \in Nat /\ Len(q) > 0
      /\ DOMAIN q = 1..Len(q)
      /\ Tail(q) \in Seq(S)
      /\ Len(Tail(q)) = Len(q) - 1
      /\ DOMAIN Tail(q) = 1..(Len(q) - 1)
      /\ \A i \in 1..(Len(q) - 1) : Tail(q)[i] = q[i + 1]
      /\ Head(q) = q[1]
  OBVIOUS
<1>2. Head(q) \in Range(q)
  BY <1>1 DEF Range
<1>3. \A i, j \in 1..Len(q) : q[i] = q[j] => i = j
  BY <1>1 DEF IsInjective
<1>4. IsInjective(Tail(q))
  BY <1>1, <1>3 DEF IsInjective
<1>5. ASSUME NEW y \in Range(Tail(q))
      PROVE  y \in Range(q) \ {Head(q)}
  <2>1. PICK i \in 1..(Len(q) - 1) : y = Tail(q)[i]
    BY <1>5, <1>1 DEF Range
  <2>2. i + 1 \in 1..Len(q) /\ y = q[i + 1] /\ y # q[1]
    BY <2>1, <1>1, <1>3
  <2>. QED  BY <2>2, <1>1 DEF Range
<1>6. ASSUME NEW y \in Range(q) \ {Head(q)}
      PROVE  y \in Range(Tail(q))
  <2>1. PICK i \in 1..Len(q) : y = q[i]
    BY <1>6, <1>1 DEF Range
  <2>2. i - 1 \in 1..(Len(q) - 1) /\ y = Tail(q)[i - 1]
    BY <2>1, <1>1, <1>6
  <2>. QED  BY <2>2, <1>1 DEF Range
<1>. QED  BY <1>2, <1>4, <1>5, <1>6

\* Only the empty queue has an empty range.
LEMMA EmptyRange ==
    ASSUME NEW S, NEW q \in Seq(S), Range(q) = {}
    PROVE  q = <<>>
<1>1. ASSUME Len(q) > 0 PROVE FALSE
  <2>1. 1 \in DOMAIN q
    BY <1>1
  <2>2. q[1] \in Range(q)
    BY <2>1 DEF Range
  <2>. QED  BY <2>2
<1>. QED  BY <1>1

\* A queue without repetitions that misses an element is shorter than its set.
LEMMA QueueHasRoom ==
    ASSUME NEW S, IsFiniteSet(S), NEW q \in Seq(S), NEW x \in S,
           IsInjective(q), x \notin Range(q)
    PROVE  Len(q) < Cardinality(S)
<1>. DEFINE T == S \ {x}
<1>1. /\ IsFiniteSet(T) /\ Cardinality(T) = Cardinality(S) - 1
      /\ Cardinality(S) \in Nat
  BY FS_RemoveElement, FS_CardinalityType
<1>2. /\ IsFiniteSet(1..Len(q)) /\ Cardinality(1..Len(q)) = Len(q)
      /\ Len(q) \in Nat
  <2>1. Len(q) \in Nat /\ 1 \in Int
    OBVIOUS
  <2>. QED  BY <2>1, FS_Interval
<1>3. q \in [1..Len(q) -> T]
  BY DEF Range
<1>4. ASSUME Cardinality(T) < Cardinality(1..Len(q))
      PROVE  FALSE
  <2>. HIDE DEF T
  <2>1. \E i, j \in 1..Len(q) : i # j /\ q[i] = q[j]
    BY <1>1, <1>2, <1>3, <1>4, FS_PigeonHole
  <2>. QED  BY <2>1 DEF IsInjective
<1>. QED  BY <1>1, <1>2, <1>4

-----------------------------------------------------------------------------

\* What a waker and a sleeper may rely on.
WQCalls ==
    \A t \in Thread :
        /\ pc[t] # "wake" => target[t] = NoThread
        /\ pc[t] = "wake" => target[t] \in Thread
        /\ t \in sleeping => pc[t] \in {"idle", "asleep"}

\* A thread that sleeps for something else takes no step here.
SleepsHere(t) == t \in sleeping => pc[t] = "asleep"

\* Where there is nothing else to sleep for.
SleepersHere == \A t \in Thread : SleepsHere(t)

\* lock2 is held by the one thread past the critical section of the waker.
OneWaker == \A t \in Thread : pc[t] \in {"wake", "exit"} <=> lock2 = t

WQInv == WQTypeOK /\ WQCalls /\ OneWaker /\ WaitersAccounted

\* The labels between which a thread moves on its own.
OwnLabels == {"idle", "nest", "try", "release"}

WQNext(t) ==
    \/ \E from, to \in OwnLabels : Move(t, from, to)
    \/ Wait(t) \/ KSleep(t) \/ KResume(t)
    \/ WakeNone(t) \/ WakeHead(t) \/ KWakeup(t) \/ WakerReturn(t)

-----------------------------------------------------------------------------
LEMMA WQInitial == WQInit => WQInv
<1>. SUFFICES ASSUME WQInit PROVE WQInv
  OBVIOUS
<1>1. Range(queue) = {} /\ IsInjective(queue)
  BY DEF WQInit, Range, IsInjective
<1>2. queue \in Seq(Thread)
  BY DEF WQInit
<1>3. pc \in [Thread -> PCs] /\ target \in [Thread -> Thread \cup {NoThread}]
  BY DEF WQInit, PCs
<1>4. WQTypeOK
  BY <1>2, <1>3, Zenon DEF WQInit, WQTypeOK
<1>5. WQCalls /\ OneWaker /\ WaitersAccounted
  BY <1>1, ThreadAssumption
     DEF WQInit, WQCalls, OneWaker, WaitersAccounted, Waits, Targeted
<1>. QED  BY <1>4, <1>5 DEF WQInv

\* The thread that a wake-up finds asleep sleeps for this queue.
LEMMA TargetSleeps ==
    ASSUME WQInv, NEW t \in Thread, pc[t] = "wake", target[t] \in sleeping
    PROVE  target[t] \in Thread /\ pc[target[t]] = "asleep"
<1>1. target[t] \in Thread /\ Targeted(target[t])
  BY DEF WQInv, WQCalls, Targeted
<1>2. Waits(target[t])
  BY <1>1 DEF WQInv, WaitersAccounted
<1>. QED  BY <1>1, <1>2 DEF WQInv, WQCalls, Waits

LEMMA WQTypeStep ==
    ASSUME WQTypeOK, NEW t \in Thread, WQNext(t)
    PROVE  WQTypeOK'
<1>. USE DEF WQTypeOK, PCs, Goto
<1>1. CASE \E from, to \in OwnLabels : Move(t, from, to)
  BY <1>1 DEF Move, OwnLabels
<1>2. CASE Wait(t)
  BY <1>2 DEF Wait
<1>3. CASE KSleep(t) \/ KResume(t)
  BY <1>3 DEF KSleep, KResume, Move
<1>4. CASE WakeNone(t) \/ WakerReturn(t)
  BY <1>4 DEF WakeNone, TakeLock2, WakerReturn
<1>5. CASE WakeHead(t)
  <2>1. Head(queue) \in Thread /\ Tail(queue) \in Seq(Thread)
    BY <1>5 DEF WakeHead
  <2>. QED  BY <1>5, <2>1 DEF WakeHead, TakeLock2
<1>6. CASE KWakeup(t)
  BY <1>6 DEF KWakeup
<1>. QED  BY <1>1, <1>2, <1>3, <1>4, <1>5, <1>6 DEF WQNext

LEMMA WQCallsStep ==
    ASSUME WQInv, NEW t \in Thread, SleepsHere(t), WQNext(t)
    PROVE  WQCalls'
<1>. USE DEF WQInv, WQTypeOK, WQCalls, SleepsHere, PCs, Goto
<1>1. CASE \E from, to \in OwnLabels : Move(t, from, to)
  BY <1>1 DEF Move, OwnLabels
<1>2. CASE Wait(t)
  BY <1>2 DEF Wait
<1>3. CASE KSleep(t) \/ KResume(t)
  BY <1>3 DEF KSleep, KResume, Move
<1>4. CASE WakeNone(t) \/ WakerReturn(t)
  BY <1>4 DEF WakeNone, TakeLock2, WakerReturn
<1>5. CASE WakeHead(t)
  <2>1. Head(queue) \in Thread
    BY <1>5 DEF WakeHead
  <2>. QED  BY <1>5, <2>1 DEF WakeHead
<1>6. CASE KWakeup(t)
  BY <1>6 DEF KWakeup
<1>. QED  BY <1>1, <1>2, <1>3, <1>4, <1>5, <1>6 DEF WQNext

\* One thread at a time is past the critical section of the waker.
LEMMA OneWakerStep ==
    ASSUME WQInv, NEW t \in Thread, WQNext(t)
    PROVE  OneWaker'
<1>. USE ThreadAssumption DEF WQInv, WQTypeOK, OneWaker, PCs, Goto
<1>1. CASE \E from, to \in OwnLabels : Move(t, from, to)
  BY <1>1 DEF Move, OwnLabels
<1>2. CASE Wait(t) \/ KSleep(t) \/ KResume(t)
  BY <1>2 DEF Wait, KSleep, KResume, Move
<1>3. CASE WakeNone(t) \/ WakeHead(t)
  BY <1>3 DEF WakeNone, WakeHead, TakeLock2
<1>4. CASE KWakeup(t) \/ WakerReturn(t)
  BY <1>4 DEF KWakeup, WakerReturn
<1>. QED  BY <1>1, <1>2, <1>3, <1>4 DEF WQNext

\* Every waiter stays accounted for.
LEMMA WaitersStep ==
    ASSUME WQInv, NEW t \in Thread, WQNext(t)
    PROVE  WaitersAccounted'
<1>. USE DEF WQInv, WQTypeOK, WaitersAccounted, Waits, Targeted, PCs, Goto
<1>1. CASE \E from, to \in OwnLabels : Move(t, from, to)
  BY <1>1 DEF Move, OwnLabels
<1>2. CASE Wait(t)
  <2>1. t \notin Range(queue) /\ ~Targeted(t)
    BY <1>2 DEF Wait
  <2>2. Range(queue') = Range(queue) \cup {t} /\ IsInjective(queue')
    BY <1>2, <2>1, RangeAppend, InjectiveAppend DEF Wait
  <2>3. \A u \in Thread : Targeted(u)' <=> Targeted(u)
    BY <1>2 DEF Wait
  <2>4. \A u \in Thread : Waits(u)' <=> (Waits(u) \/ u = t)
    BY <1>2 DEF Wait
  <2>. HIDE DEF Waits, Targeted
  <2>. QED  BY <2>1, <2>2, <2>3, <2>4
<1>3. CASE KSleep(t) \/ KResume(t)
  BY <1>3 DEF KSleep, KResume, Move
<1>4. CASE WakeNone(t) \/ WakerReturn(t)
  <2>1. /\ pc[t] \in {"release", "exit"}
        /\ \E l \in {"idle", "exit"} : pc' = [pc EXCEPT ![t] = l]
        /\ UNCHANGED <<queue, sleeping, target>>
    BY <1>4 DEF WakeNone, WakerReturn
  <2>2. \A u \in Thread : /\ Targeted(u)' <=> Targeted(u)
                          /\ Waits(u)' <=> Waits(u)
    BY <2>1
  <2>. HIDE DEF Waits, Targeted
  <2>. QED  BY <2>1, <2>2
<1>5. CASE WakeHead(t)
  <2>1. \A u \in Thread : pc[u] # "wake"
    BY <1>5, ThreadAssumption DEF WakeHead, TakeLock2, OneWaker
  <2>2. /\ Head(queue) \in Range(queue)
        /\ Range(queue') = Range(queue) \ {Head(queue)}
        /\ IsInjective(queue')
    BY <1>5, InjectiveTail DEF WakeHead
  <2>3. \A u \in Thread : Targeted(u)' <=> u = Head(queue)
    BY <1>5, <2>1 DEF WakeHead
  <2>4. \A u \in Thread : Waits(u)' <=> Waits(u)
    BY <1>5 DEF WakeHead
  <2>5. \A u \in Thread : ~Targeted(u)
    BY <2>1
  <2>. HIDE DEF Waits, Targeted
  <2>. QED  BY <2>2, <2>3, <2>4, <2>5
<1>6. CASE KWakeup(t)
  <2>1. \A u \in Thread : pc[u] = "wake" => u = t
    BY <1>6 DEF KWakeup, OneWaker
  <2>2. pc[target[t]] = "asleep" /\ target[t] \in Thread
    BY <1>6, TargetSleeps DEF KWakeup
  <2>3. \A u \in Thread : ~Targeted(u)'
    BY <1>6, <2>1 DEF KWakeup
  <2>4. \A u \in Thread : Targeted(u) <=> u = target[t]
    BY <1>6, <2>1 DEF KWakeup
  <2>5. \A u \in Thread : Waits(u)' <=> (Waits(u) /\ u # target[t])
    BY <1>6, <2>2 DEF KWakeup
  <2>6. queue' = queue
    BY <1>6 DEF KWakeup
  <2>. HIDE DEF Waits, Targeted
  <2>. QED  BY <2>2, <2>3, <2>4, <2>5, <2>6
<1>. QED  BY <1>1, <1>2, <1>3, <1>4, <1>5, <1>6 DEF WQNext

LEMMA WQStep ==
    ASSUME WQInv, NEW t \in Thread, SleepsHere(t), WQNext(t)
    PROVE  WQInv'
<1>1. WQTypeOK'
  BY WQTypeStep DEF WQInv
<1>. QED  BY <1>1, WQCallsStep, OneWakerStep, WaitersStep DEF WQInv

\* What a thread that is outside does with its place to sleep is of no account.
LEMMA WQApart ==
    ASSUME WQInv, UNCHANGED <<queue, lock2, pc, target>>, NEW t \in Thread, pc[t] = "idle",
           sleeping' \in {sleeping \cup {t}, sleeping \ {t}}
    PROVE  WQInv' /\ \A u \in Thread : InTransit(u)' <=> InTransit(u)
<1>1. /\ sleeping' \subseteq Thread
      /\ \A u \in Thread : u # t => (u \in sleeping' <=> u \in sleeping)
  BY DEF WQInv, WQTypeOK
<1>2. WQTypeOK' /\ WQCalls' /\ OneWaker'
  BY <1>1 DEF WQInv, WQTypeOK, WQCalls, OneWaker
<1>3. \A u \in Thread : /\ Waits(u)' <=> Waits(u)
                        /\ Targeted(u)' <=> Targeted(u)
                        /\ InTransit(u)' <=> InTransit(u)
  BY <1>1 DEF Waits, Targeted, InTransit
<1>4. WaitersAccounted'
  BY <1>3 DEF WQInv, WaitersAccounted
<1>. QED  BY <1>2, <1>3, <1>4 DEF WQInv

LEMMA WQStutter ==
    ASSUME WQInv, UNCHANGED wqVars
    PROVE  WQInv' /\ \A u \in Thread : InTransit(u)' <=> InTransit(u)
  BY DEF WQInv, WQTypeOK, WQCalls, OneWaker, WaitersAccounted, Waits, Targeted,
         InTransit, wqVars

\* Nobody who moves comes to sleep for anything else.
LEMMA SleepersStep ==
    ASSUME WQInv, SleepersHere, NEW t \in Thread, WQNext(t)
    PROVE  SleepersHere'
<1>. USE DEF WQInv, WQTypeOK, SleepersHere, SleepsHere, PCs, Goto
<1>1. CASE \E from, to \in OwnLabels : Move(t, from, to)
  BY <1>1 DEF Move, OwnLabels
<1>2. CASE Wait(t) \/ KSleep(t) \/ KResume(t)
  BY <1>2 DEF Wait, KSleep, KResume, Move
<1>3. CASE WakeNone(t) \/ WakeHead(t) \/ KWakeup(t) \/ WakerReturn(t)
  BY <1>3 DEF WakeNone, WakeHead, KWakeup, WakerReturn
<1>. QED  BY <1>1, <1>2, <1>3 DEF WQNext

-----------------------------------------------------------------------------
(* Threads in transit.                                                     *)

\* Only a thread that looks at the state stops being in transit.
LEMMA TransitStays ==
    ASSUME WQInv, NEW t \in Thread, WQNext(t), NEW u \in Thread, InTransit(u),
           pc[t] = "try" => u # t
    PROVE  InTransit(u)'
<1>. USE DEF WQInv, WQTypeOK, InTransit, Targeted, PCs, Goto
<1>1. CASE \E from, to \in OwnLabels : Move(t, from, to)
  BY <1>1 DEF Move, OwnLabels
<1>2. CASE Wait(t)
  BY <1>2 DEF Wait
<1>3. CASE KSleep(t)
  BY <1>3 DEF KSleep
<1>4. CASE KResume(t)
  BY <1>4 DEF KResume, Move
<1>5. CASE WakeNone(t) \/ WakerReturn(t)
  BY <1>5 DEF WakeNone, WakerReturn
<1>6. CASE WakeHead(t)
  BY <1>6 DEF WakeHead
<1>7. CASE KWakeup(t)
  <2>1. pc[target[t]] = "asleep" /\ target[t] \in Thread
    BY <1>7, TargetSleeps DEF KWakeup
  <2>2. CASE u = target[t]
    <3>1. u \notin sleeping' /\ pc'[u] = "asleep"
      BY <1>7, <2>1, <2>2 DEF KWakeup
    <3>. QED  BY <3>1
  <2>3. CASE u # target[t]
    BY <1>7, <2>3 DEF KWakeup
  <2>. QED  BY <2>2, <2>3
<1>. QED  BY <1>1, <1>2, <1>3, <1>4, <1>5, <1>6, <1>7 DEF WQNext

\* The head that a waker takes out of the queue was not in transit; now it is.
LEMMA HeadInTransit ==
    ASSUME WQInv, NEW t \in Thread, WakeHead(t)
    PROVE  \E h \in Thread : ~InTransit(h) /\ InTransit(h)'
<1>1. PICK h \in Thread : h = Head(queue)
  BY DEF WQInv, WQTypeOK, WakeHead
<1>2. h \in Range(queue)
  BY <1>1, InjectiveTail DEF WQInv, WQTypeOK, WaitersAccounted, WakeHead
<1>3. ~InTransit(h)
  BY <1>2 DEF WQInv, WQTypeOK, WaitersAccounted, InTransit, Waits
<1>4. pc'[t] = "wake" /\ target'[t] = h
  BY <1>1 DEF WQInv, WQTypeOK, WakeHead, Goto
<1>5. InTransit(h)'
  BY <1>4 DEF InTransit, Targeted
<1>. QED  BY <1>3, <1>5

\* The assertions before an enqueue hold, provided the process has no more
\* threads than the ring has slots.
LEMMA EnqueueIsSafe == WQInv => EnqueueAsserts
<1>. SUFFICES ASSUME WQInv, NEW t \in Thread, pc[t] = "try"
              PROVE  t \notin Range(queue) /\ Len(queue) < THREAD_MAX
  BY DEF EnqueueAsserts
<1>1. t \notin Range(queue)
  BY DEF WQInv, WaitersAccounted, Waits
<1>2. queue \in Seq(Thread) /\ IsInjective(queue)
  BY DEF WQInv, WQTypeOK, WaitersAccounted
<1>3. Len(queue) < Cardinality(Thread)
  BY <1>1, <1>2, ThreadAssumption, QueueHasRoom
<1>. QED
  BY <1>1, <1>2, <1>3, SlotsAssumption, ThreadAssumption, FS_CardinalityType

-----------------------------------------------------------------------------
(* The ring.                                                               *)

SlotAt(b, k) == (b + k) % THREAD_MAX

LEMMA SomeSlots == THREAD_MAX \in Nat \ {0}
  BY SlotsAssumption, RingAssumption DEF SlotsAssumption, RingAssumption

\* The indices that the code computes wrap once at most.
LEMMA AtWraps ==
    ASSUME NEW b \in Slot, NEW k \in Slot
    PROVE  SlotAt(b, k) = IF b + k < THREAD_MAX THEN b + k ELSE b + k - THREAD_MAX
  BY SomeSlots DEF Slot, SlotAt

LEMMA NextSlotWraps ==
    ASSUME NEW b \in Slot
    PROVE  NextSlot(b) = IF b + 1 < THREAD_MAX THEN b + 1 ELSE 0
  BY SomeSlots DEF Slot, NextSlot

\* Different offsets from b are different slots, and every slot has one.
LEMMA OffsetsDiffer ==
    ASSUME NEW b \in Slot, NEW j \in Slot, NEW k \in Slot
    PROVE  SlotAt(b, j) \in Slot /\ (SlotAt(b, j) = SlotAt(b, k) <=> j = k)
  BY SomeSlots, AtWraps DEF Slot

LEMMA OffsetZero ==
    ASSUME NEW b \in Slot
    PROVE  0 \in Slot /\ SlotAt(b, 0) = b
  BY SomeSlots, AtWraps DEF Slot

LEMMA OffsetExists ==
    ASSUME NEW b \in Slot, NEW i \in Slot
    PROVE  \E k \in Slot : SlotAt(b, k) = i
<1>1. CASE i >= b
  <2>1. i - b \in Slot /\ b + (i - b) = i
    BY <1>1, SomeSlots DEF Slot
  <2>2. SlotAt(b, i - b) = i
    BY <2>1, AtWraps, SomeSlots DEF Slot
  <2>. QED  BY <2>1, <2>2
<1>2. CASE i < b
  <2>1. i + THREAD_MAX - b \in Slot /\ b + (i + THREAD_MAX - b) = i + THREAD_MAX
    BY <1>2, SomeSlots DEF Slot
  <2>2. SlotAt(b, i + THREAD_MAX - b) = i
    BY <2>1, AtWraps, SomeSlots DEF Slot
  <2>. QED  BY <2>1, <2>2
<1>. QED  BY <1>1, <1>2, SomeSlots DEF Slot

LEMMA NextIsSlot ==
    ASSUME NEW b \in Slot
    PROVE  NextSlot(b) \in Slot
  BY SomeSlots, NextSlotWraps DEF Slot

\* When b moves on, every offset shrinks by one, and b gets the largest.
LEMMA OffsetsShrink ==
    ASSUME NEW b \in Slot, NEW k \in Slot
    PROVE  /\ k < THREAD_MAX - 1 => SlotAt(NextSlot(b), k) = SlotAt(b, k + 1)
           /\ k = THREAD_MAX - 1 => SlotAt(NextSlot(b), k) = b
<1>1. NextSlot(b) \in Slot
  BY NextIsSlot
<1>2. k < THREAD_MAX - 1 => k + 1 \in Slot
  BY SomeSlots DEF Slot
<1>. QED  BY <1>1, <1>2, SomeSlots, NextSlotWraps, AtWraps DEF Slot

\* The slot after the one at offset k is the one at offset k + 1; after the last
\* it is b again.
LEMMA EndMoves ==
    ASSUME NEW b \in Slot, NEW k \in Slot
    PROVE  /\ k < THREAD_MAX - 1 => NextSlot(SlotAt(b, k)) = SlotAt(b, k + 1)
           /\ k = THREAD_MAX - 1 => NextSlot(SlotAt(b, k)) = b
<1>1. SlotAt(b, k) \in Slot
  BY OffsetsDiffer
<1>2. k < THREAD_MAX - 1 => k + 1 \in Slot
  BY SomeSlots DEF Slot
<1>. QED  BY <1>1, <1>2, SomeSlots, NextSlotWraps, AtWraps DEF Slot

-----------------------------------------------------------------------------
(* The queue in a buffer f of which m slots from b are used.               *)

QueueIn(f, b, m) == [i \in 1 .. m |-> f[(b + i - 1) % THREAD_MAX]]

\* The queue, element by element.
LEMMA QueueElements ==
    ASSUME NEW f, NEW b \in Slot, NEW m \in Nat
    PROVE  /\ DOMAIN QueueIn(f, b, m) = 1 .. m
           /\ \A i \in 1 .. m : QueueIn(f, b, m)[i] = f[SlotAt(b, i - 1)]
<1>1. \A i \in 1 .. m : b + (i - 1) = b + i - 1
  BY DEF Slot
<1>2. DOMAIN QueueIn(f, b, m) = 1 .. m
  BY Zenon DEF QueueIn
<1>3. ASSUME NEW i \in 1 .. m
      PROVE  QueueIn(f, b, m)[i] = f[SlotAt(b, i - 1)]
  <2>1. QueueIn(f, b, m)[i] = f[(b + i - 1) % THREAD_MAX]
    BY Zenon DEF QueueIn
  <2>. QED  BY <1>1, <2>1, Zenon DEF SlotAt
<1>. QED  BY <1>2, <1>3

\* What it takes to be a given sequence of threads.
LEMMA QueueLength ==
    ASSUME NEW f, NEW b \in Slot, NEW m \in Nat, QueueIn(f, b, m) \in Seq(Thread)
    PROVE  Len(QueueIn(f, b, m)) = m
<1>1. DOMAIN QueueIn(f, b, m) = 1 .. m
  BY QueueElements, Zenon
<1>. QED  BY <1>1

HoldsQueue(f, b, m, q) ==
    /\ m \in Nat /\ q \in Seq(Thread) /\ Len(q) = m
    /\ \A i \in 1 .. m : f[SlotAt(b, i - 1)] = q[i]

LEMMA QueueEquals ==
    ASSUME NEW f, NEW b \in Slot, NEW m, NEW q, HoldsQueue(f, b, m, q)
    PROVE  QueueIn(f, b, m) = q
<1>. DEFINE r == QueueIn(f, b, m)
<1>0. /\ m \in Nat /\ q \in Seq(Thread) /\ Len(q) = m
      /\ \A i \in 1 .. m : f[SlotAt(b, i - 1)] = q[i]
  BY DEF HoldsQueue
<1>1. DOMAIN r = 1 .. m /\ \A i \in 1 .. m : r[i] = f[SlotAt(b, i - 1)]
  BY <1>0, QueueElements, Zenon
<1>2. r = [i \in DOMAIN r |-> r[i]]
  BY DEF QueueIn
<1>. HIDE DEF r
<1>3. \A i \in 1 .. m : r[i] = q[i] /\ q[i] \in Thread
  BY <1>0, <1>1
<1>4. r \in [1 .. m -> Thread]
  BY <1>1, <1>2, <1>3
<1>5. r \in Seq(Thread) /\ Len(r) = m
  BY <1>0, <1>1, <1>4
<1>6. r = q
  BY <1>0, <1>3, <1>5, SeqEqual
<1>. QED  BY <1>6 DEF r

\* A thread put into the slot behind the queue is appended to it.
LEMMA EnqueueAppends ==
    ASSUME NEW f \in [Slot -> Thread \cup {NoThread}], NEW b \in Slot,
           NEW m \in Slot, NEW t \in Thread, NEW g,
           QueueIn(f, b, m) \in Seq(Thread),
           g[SlotAt(b, m)] = t, \A i \in Slot \ {SlotAt(b, m)} : g[i] = f[i]
    PROVE  QueueIn(g, b, m + 1) = Append(QueueIn(f, b, m), t)
<1>. DEFINE q == QueueIn(f, b, m)
<1>1. /\ m \in Nat /\ m + 1 \in Nat /\ q \in Seq(Thread)
      /\ Len(q) = m
      /\ \A i \in 1 .. m : q[i] = f[SlotAt(b, i - 1)]
  <2>1. m \in Nat /\ m + 1 \in Nat
    BY DEF Slot
  <2>. QED  BY <2>1, QueueElements, QueueLength, Zenon
<1>. HIDE DEF q
<1>2. /\ Append(q, t) \in Seq(Thread) /\ Len(Append(q, t)) = m + 1
      /\ \A i \in 1 .. m : Append(q, t)[i] = q[i]
      /\ Append(q, t)[m + 1] = t
  BY <1>1, AppendProperties
<1>3. ASSUME NEW i \in 1 .. m
      PROVE  g[SlotAt(b, i - 1)] = Append(q, t)[i]
  <2>1. i - 1 \in Slot /\ i - 1 # m
    BY SomeSlots DEF Slot
  <2>2. SlotAt(b, i - 1) \in Slot /\ SlotAt(b, i - 1) # SlotAt(b, m)
    BY <2>1, OffsetsDiffer
  <2>3. g[SlotAt(b, i - 1)] = f[SlotAt(b, i - 1)]
    BY <2>2
  <2>. QED  BY <1>1, <1>2, <2>3, Zenon
<1>4. g[SlotAt(b, (m + 1) - 1)] = Append(q, t)[m + 1]
  <2>1. SlotAt(b, m) \in Slot /\ (m + 1) - 1 = m
    BY <1>1, OffsetsDiffer
  <2>. QED  BY <1>2, <2>1
<1>5. \A i \in 1 .. m + 1 : g[SlotAt(b, i - 1)] = Append(q, t)[i]
  <2>1. \A i \in 1 .. m + 1 : i \in 1 .. m \/ i = m + 1
    BY <1>1
  <2>. QED  BY <1>3, <1>4, <2>1, Zenon
<1>6. HoldsQueue(g, b, m + 1, Append(q, t))
  BY <1>1, <1>2, <1>5, Zenon DEF HoldsQueue
<1>7. QueueIn(g, b, m + 1) = Append(q, t)
  BY <1>6, QueueEquals
<1>. QED  BY <1>7 DEF q

\* When begin moves on, the rest of the queue stays: the slot that is given up
\* is not part of it.
LEMMA DequeueBeheads ==
    ASSUME NEW f \in [Slot -> Thread \cup {NoThread}], NEW b \in Slot,
           NEW n \in Nat, NEW g, n < THREAD_MAX,
           QueueIn(f, b, n + 1) \in Seq(Thread),
           \A i \in Slot \ {b} : g[i] = f[i]
    PROVE  QueueIn(g, NextSlot(b), n) = Tail(QueueIn(f, b, n + 1))
<1>. DEFINE q == QueueIn(f, b, n + 1)
<1>1. /\ n \in Nat /\ n + 1 \in Nat /\ NextSlot(b) \in Slot /\ q \in Seq(Thread)
      /\ Len(q) = n + 1
      /\ \A i \in 1 .. n + 1 : q[i] = f[SlotAt(b, i - 1)]
  <2>1. n \in Nat /\ n + 1 \in Nat
    BY DEF Slot
  <2>. QED  BY <2>1, NextIsSlot, QueueElements, QueueLength, Zenon
<1>. HIDE DEF q
<1>2. q # <<>>
  BY <1>1
<1>3. /\ Tail(q) \in Seq(Thread) /\ Len(Tail(q)) = n
      /\ \A i \in 1 .. n : Tail(q)[i] = q[i + 1]
  BY <1>1, <1>2, HeadTailProperties
<1>4. ASSUME NEW i \in 1 .. n
      PROVE  g[SlotAt(NextSlot(b), i - 1)] = Tail(q)[i]
  <2>1. /\ i - 1 \in Slot /\ i - 1 < THREAD_MAX - 1 /\ i \in Slot /\ i # 0
        /\ (i - 1) + 1 = i /\ i + 1 \in 1 .. n + 1 /\ (i + 1) - 1 = i
    BY SomeSlots DEF Slot
  <2>2. SlotAt(NextSlot(b), i - 1) = SlotAt(b, i)
    BY <2>1, OffsetsShrink, SMT
  <2>3. SlotAt(b, i) \in Slot \ {b}
    BY <2>1, OffsetsDiffer, OffsetZero
  <2>4. q[i + 1] = f[SlotAt(b, i)]
    BY <1>1, <2>1, Zenon
  <2>5. g[SlotAt(b, i)] = f[SlotAt(b, i)]
    BY <2>3, Zenon
  <2>. QED  BY <1>3, <2>2, <2>4, <2>5, Zenon
<1>5. HoldsQueue(g, NextSlot(b), n, Tail(q))
  BY <1>1, <1>3, <1>4, Zenon DEF HoldsQueue
<1>6. QueueIn(g, NextSlot(b), n) = Tail(q)
  BY <1>1, <1>5, QueueEquals
<1>. QED  BY <1>6 DEF q

-----------------------------------------------------------------------------
(* The inductive invariant.                                                *)

\* end is where the queue ends, and a ring that is cleared is marked outside
\* the queue.
RingInv ==
    /\ RingTypeOK
    /\ size < THREAD_MAX => end = SlotAt(begin, size)
    /\ size = THREAD_MAX => end = begin
    /\ Queue \in Seq(Thread)
    /\ IsInjective(Queue)
    /\ clears => \A k \in Slot : k >= size => tids[SlotAt(begin, k)] = NoThread

LEMMA QueueIsQueueIn == Queue = QueueIn(tids, begin, size)
  BY DEF Queue, QueueIn

\* What is known of the queue of a ring.
LEMMA RingQueue ==
    ASSUME RingInv
    PROVE  /\ Len(Queue) = size /\ size \in Nat
           /\ Range(Queue) = {tids[SlotAt(begin, k)] : k \in 0 .. size - 1}
           /\ Queue = <<>> <=> size = 0
<1>1. /\ DOMAIN Queue = 1 .. size
      /\ \A i \in 1 .. size : Queue[i] = tids[SlotAt(begin, i - 1)]
      /\ size \in Nat
  <2>1. size \in Nat /\ begin \in Slot
    BY DEF RingInv, RingTypeOK
  <2>2. DOMAIN QueueIn(tids, begin, size) = 1 .. size
    BY <2>1, QueueElements, Zenon
  <2>3. \A i \in 1 .. size : QueueIn(tids, begin, size)[i] = tids[SlotAt(begin, i - 1)]
    BY <2>1, QueueElements, Zenon
  <2>. QED  BY <2>1, <2>2, <2>3, QueueIsQueueIn, Zenon
<1>2. Len(Queue) = size
  BY <1>1 DEF RingInv
<1>3. \A i \in 1 .. size : i - 1 \in 0 .. size - 1
  BY <1>1
<1>4. \A k \in 0 .. size - 1 : k + 1 \in 1 .. size /\ (k + 1) - 1 = k
  BY <1>1
<1>5. Range(Queue) = {tids[SlotAt(begin, k)] : k \in 0 .. size - 1}
  <2>1. ASSUME NEW x \in Range(Queue)
        PROVE  x \in {tids[SlotAt(begin, k)] : k \in 0 .. size - 1}
    BY <1>1, <1>3, Zenon DEF Range
  <2>2. ASSUME NEW k \in 0 .. size - 1
        PROVE  tids[SlotAt(begin, k)] \in Range(Queue)
    BY <1>1, <1>4, Zenon DEF Range
  <2>. QED  BY <2>1, <2>2, Zenon
<1>6. Queue = <<>> <=> size = 0
  BY <1>2 DEF RingInv
<1>. QED  BY <1>1, <1>2, <1>5, <1>6

\* A thread that does not wait finds room.
LEMMA RingHasRoom ==
    ASSUME RingInv, NEW t \in Thread, t \notin Range(Queue)
    PROVE  size \in Slot /\ size < THREAD_MAX
<1>1. Len(Queue) < Cardinality(Thread)
  BY QueueHasRoom, ThreadAssumption DEF RingInv, ThreadAssumption
<1>2. Cardinality(Thread) \in Nat /\ Cardinality(Thread) <= THREAD_MAX
  BY FS_CardinalityType, ThreadAssumption, SlotsAssumption DEF ThreadAssumption, SlotsAssumption
<1>. QED  BY <1>1, <1>2, RingQueue, SomeSlots DEF Slot

\* The initial states.
LEMMA InitRing == RingInit => RingInv /\ Queue = <<>>
<1>. SUFFICES ASSUME RingInit PROVE RingInv /\ Queue = <<>>
  OBVIOUS
<1>1. 0 \in Slot /\ RingTypeOK /\ size = 0 /\ begin \in Slot
  BY SomeSlots DEF RingInit, RingTypeOK, Slot
<1>2. Queue = <<>>
  BY <1>1 DEF Queue
<1>3. <<>> \in Seq(Thread) /\ IsInjective(<<>>)
  BY DEF IsInjective
<1>4. end = SlotAt(begin, size)
  BY <1>1, OffsetZero, Zenon DEF RingInit
<1>5. \A k \in Slot : tids[SlotAt(begin, k)] = NoThread
  <2>1. \A k \in Slot : SlotAt(begin, k) \in Slot
    BY <1>1, OffsetsDiffer
  <2>. QED  BY <2>1 DEF RingInit
<1>. QED  BY <1>1, <1>2, <1>3, <1>4, <1>5, SomeSlots DEF RingInv

\* A thread that enters the ring enters the queue.
LEMMA EnqueueRing ==
    ASSUME RingInv, NEW t \in Thread, Enqueue(t)
    PROVE  RingInv' /\ Queue' = Append(Queue, t)
<1>1. /\ size \in Slot /\ begin \in Slot /\ end = SlotAt(begin, size) /\ end \in Slot
      /\ tids \in [Slot -> Thread \cup {NoThread}]
      /\ t \notin Range(Queue)
  BY RingHasRoom DEF RingInv, RingTypeOK, Enqueue
<1>2. /\ begin' = begin /\ clears' = clears /\ size' = size + 1
      /\ end' = NextSlot(SlotAt(begin, size))
      /\ tids' = [tids EXCEPT ![SlotAt(begin, size)] = t]
  BY <1>1 DEF Enqueue
<1>3. /\ tids' \in [Slot -> Thread \cup {NoThread}]
      /\ tids'[SlotAt(begin, size)] = t
      /\ \A i \in Slot \ {SlotAt(begin, size)} : tids'[i] = tids[i]
  BY <1>1, <1>2
<1>4. Queue' = Append(Queue, t)
  <2>1. Queue' = QueueIn(tids', begin', size')
    BY Zenon DEF Queue, QueueIn
  <2>2. Queue' = QueueIn(tids', begin, size + 1)
    BY <1>2, <2>1, Zenon
  <2>3. QueueIn(tids, begin, size) \in Seq(Thread)
    BY QueueIsQueueIn, Zenon DEF RingInv
  <2>4. QueueIn(tids', begin, size + 1) = Append(QueueIn(tids, begin, size), t)
    <3>1. ASSUME NEW b \in Slot, NEW m \in Slot, NEW g,
                 QueueIn(tids, b, m) \in Seq(Thread), g[SlotAt(b, m)] = t,
                 \A i \in Slot \ {SlotAt(b, m)} : g[i] = tids[i]
          PROVE  QueueIn(g, b, m + 1) = Append(QueueIn(tids, b, m), t)
      BY <1>1, <3>1, EnqueueAppends
    <3>. QED  BY <1>1, <1>3, <2>3, <3>1, Zenon
  <2>. QED  BY <2>2, <2>4, QueueIsQueueIn, Zenon
<1>5. Queue' \in Seq(Thread) /\ IsInjective(Queue')
  <2>1. IsInjective(Append(Queue, t)) /\ Append(Queue, t) \in Seq(Thread)
    BY <1>1, InjectiveAppend, AppendProperties DEF RingInv
  <2>. QED  BY <1>4, <2>1, Zenon
<1>6. /\ size' < THREAD_MAX => end' = SlotAt(begin', size')
      /\ size' = THREAD_MAX => end' = begin'
  <2>1. /\ size < THREAD_MAX - 1 => NextSlot(SlotAt(begin, size)) = SlotAt(begin, size + 1)
        /\ size = THREAD_MAX - 1 => NextSlot(SlotAt(begin, size)) = begin
    BY <1>1, EndMoves
  <2>2. /\ size + 1 < THREAD_MAX <=> size < THREAD_MAX - 1
        /\ size + 1 = THREAD_MAX <=> size = THREAD_MAX - 1
    BY <1>1, SomeSlots DEF Slot
  <2>. QED  BY <1>2, <2>1, <2>2, Zenon
<1>7. RingTypeOK'
  <2>1. end' \in Slot
    BY <1>1, <1>2, NextIsSlot, Zenon
  <2>2. size + 1 \in 0 .. THREAD_MAX
    BY <1>1, SomeSlots DEF Slot
  <2>. QED  BY <1>1, <1>2, <1>3, <2>1, <2>2 DEF RingInv, RingTypeOK
<1>8. ASSUME clears', NEW k \in Slot, k >= size'
      PROVE  tids'[SlotAt(begin', k)] = NoThread
  <2>1. k >= size + 1 /\ k >= size /\ k # size
    BY <1>1, <1>2, <1>8 DEF Slot
  <2>2. SlotAt(begin, k) \in Slot \ {SlotAt(begin, size)}
    BY <1>1, <2>1, OffsetsDiffer
  <2>3. tids[SlotAt(begin, k)] = NoThread
    BY <1>2, <1>8, <2>1 DEF RingInv
  <2>. QED  BY <1>2, <1>3, <2>2, <2>3, Zenon
<1>. QED  BY <1>4, <1>5, <1>6, <1>7, <1>8 DEF RingInv

\* The thread that leaves the ring is the head of the queue.
LEMMA DequeueRing ==
    ASSUME RingInv, Dequeue
    PROVE  RingInv' /\ Queue # <<>> /\ Queue' = Tail(Queue)
<1>1. /\ begin \in Slot /\ end \in Slot /\ size > 0 /\ size \in 1 .. THREAD_MAX
      /\ tids \in [Slot -> Thread \cup {NoThread}]
  BY SomeSlots DEF RingInv, RingTypeOK, Dequeue
<1>2. /\ begin' = NextSlot(begin) /\ clears' = clears /\ end' = end
      /\ size' = size - 1
      /\ tids' = IF clears THEN [tids EXCEPT ![begin] = NoThread] ELSE tids
  BY DEF Dequeue
<1>3. /\ tids' \in [Slot -> Thread \cup {NoThread}]
      /\ clears => tids'[begin] = NoThread
      /\ \A i \in Slot \ {begin} : tids'[i] = tids[i]
  BY <1>1, <1>2
<1>4. size - 1 \in Slot /\ (size - 1) + 1 = size /\ size - 1 \in 0 .. THREAD_MAX
  BY <1>1, SomeSlots DEF Slot
<1>5. Queue # <<>>
  BY <1>1, RingQueue
<1>6. Queue' = Tail(Queue)
  <2>1. Queue' = QueueIn(tids', begin', size')
    BY Zenon DEF Queue, QueueIn
  <2>2. Queue' = QueueIn(tids', NextSlot(begin), size - 1)
    BY <1>2, <2>1, Zenon
  <2>3. QueueIn(tids, begin, (size - 1) + 1) \in Seq(Thread)
    BY <1>4, QueueIsQueueIn, Zenon DEF RingInv
  <2>4. QueueIn(tids', NextSlot(begin), size - 1) = Tail(QueueIn(tids, begin, (size - 1) + 1))
    <3>1. size - 1 \in Nat /\ size - 1 < THREAD_MAX
      BY <1>4, SomeSlots DEF Slot
    <3>2. /\ tids \in [Slot -> Thread \cup {NoThread}] /\ begin \in Slot
          /\ \A i \in Slot \ {begin} : tids'[i] = tids[i]
      BY <1>1, <1>3
    <3>. QED  BY <2>3, <3>1, <3>2, DequeueBeheads, Zenon
  <2>. QED  BY <1>4, <2>2, <2>4, QueueIsQueueIn, Zenon
<1>7. Queue' \in Seq(Thread) /\ IsInjective(Queue')
  <2>1. IsInjective(Tail(Queue)) /\ Tail(Queue) \in Seq(Thread)
    BY <1>5, InjectiveTail, HeadTailProperties DEF RingInv
  <2>. QED  BY <1>6, <2>1, Zenon
<1>8. /\ size' < THREAD_MAX /\ size' # THREAD_MAX
      /\ end' = SlotAt(begin', size')
  <2>1. size < THREAD_MAX => SlotAt(NextSlot(begin), size - 1) = SlotAt(begin, size)
    BY <1>1, <1>4, OffsetsShrink, SomeSlots DEF Slot
  <2>2. size = THREAD_MAX => SlotAt(NextSlot(begin), size - 1) = begin
    BY <1>1, <1>4, OffsetsShrink, SomeSlots DEF Slot
  <2>3. size < THREAD_MAX \/ size = THREAD_MAX
    BY <1>1, SomeSlots
  <2>4. end = SlotAt(NextSlot(begin), size - 1)
    BY <2>1, <2>2, <2>3 DEF RingInv
  <2>. QED  BY <1>1, <1>2, <2>4, SomeSlots
<1>9. RingTypeOK'
  <2>1. begin' \in Slot
    BY <1>1, <1>2, NextIsSlot, Zenon
  <2>. QED  BY <1>1, <1>2, <1>3, <1>4, <2>1 DEF RingInv, RingTypeOK
<1>10. ASSUME clears', NEW k \in Slot, k >= size'
       PROVE  tids'[SlotAt(begin', k)] = NoThread
  <2>1. clears
    BY <1>2, <1>10
  <2>2. CASE k = THREAD_MAX - 1
    <3>1. SlotAt(NextSlot(begin), k) = begin
      BY <1>1, <2>2, OffsetsShrink
    <3>. QED  BY <1>2, <1>3, <2>1, <3>1, Zenon
  <2>3. CASE k < THREAD_MAX - 1
    <3>1. k + 1 \in Slot /\ k + 1 >= size /\ 0 \in Slot /\ k + 1 # 0
      BY <1>1, <1>2, <1>10, <2>3, SomeSlots DEF Slot
    <3>2. SlotAt(NextSlot(begin), k) = SlotAt(begin, k + 1)
      BY <1>1, <2>3, OffsetsShrink
    <3>3. SlotAt(begin, k + 1) \in Slot \ {begin}
      BY <1>1, <3>1, OffsetsDiffer, OffsetZero
    <3>4. tids[SlotAt(begin, k + 1)] = NoThread
      BY <2>1, <3>1 DEF RingInv
    <3>. QED  BY <1>2, <1>3, <3>2, <3>3, <3>4, Zenon
  <2>. QED  BY <2>2, <2>3, SomeSlots DEF Slot
<1>. QED  BY <1>5, <1>6, <1>7, <1>8, <1>9, <1>10 DEF RingInv

LEMMA StutterRing ==
    ASSUME RingInv, UNCHANGED ringVars
    PROVE  RingInv' /\ Queue' = Queue
<1>1. /\ clears' = clears /\ tids' = tids /\ begin' = begin /\ end' = end
      /\ size' = size
  BY DEF ringVars
<1>2. Queue' = Queue
  BY <1>1, Zenon DEF Queue
<1>. QED  BY <1>1, <1>2 DEF RingInv, RingTypeOK

-----------------------------------------------------------------------------
(* The theorems.                                                           *)

LEMMA RingInvariant == RingSpec => []RingInv
<1>1. RingInit => RingInv
  BY InitRing
<1>2. RingInv /\ [RingNext]_ringVars => RingInv'
  BY EnqueueRing, DequeueRing, StutterRing DEF RingNext
<1>. QED  BY <1>1, <1>2, PTL DEF RingSpec

\* The indices never leave the buffer and the ring never overflows: the
\* assertions size < THREAD_MAX of the three files hold.
THEOREM RingTypeCorrect == RingSpec => []RingTypeOK
<1>1. RingInv => RingTypeOK
  BY DEF RingInv
<1>. QED  BY <1>1, RingInvariant, PTL

\* The sanity checks of semaphore.c hold for every number of threads.
THEOREM ChecksCorrect == RingSpec => []SanityChecks
<1>1. ASSUME RingInv, clears, NEW t \in Thread, t \notin Range(Queue), NEW i \in Slot
      PROVE  tids[i] # t
  <2>1. begin \in Slot /\ size \in Nat
    BY <1>1 DEF RingInv, RingTypeOK
  <2>2. PICK k \in Slot : SlotAt(begin, k) = i
    BY <2>1, OffsetExists
  <2>3. CASE k < size
    <3>1. k \in 0 .. size - 1
      BY <2>1, <2>3 DEF Slot
    <3>2. tids[i] \in Range(Queue)
      BY <1>1, <2>2, <3>1, RingQueue
    <3>. QED  BY <1>1, <3>2
  <2>4. CASE k >= size
    <3>1. tids[i] = NoThread
      BY <1>1, <2>2, <2>4 DEF RingInv
    <3>. QED  BY <1>1, <3>1, ThreadAssumption DEF ThreadAssumption
  <2>. QED  BY <2>1, <2>3, <2>4, SomeSlots DEF Slot
<1>2. ASSUME RingInv, clears, NEW t \in Thread, t \notin Range(Queue)
      PROVE  tids[end] = NoThread
  <2>1. size \in Slot /\ size < THREAD_MAX
    BY <1>2, RingHasRoom
  <2>2. end = SlotAt(begin, size) /\ size >= size
    BY <1>2, <2>1, SomeSlots DEF RingInv, Slot
  <2>. QED  BY <1>2, <2>1, <2>2 DEF RingInv
<1>3. RingInv => SanityChecks
  BY <1>1, <1>2 DEF SanityChecks
<1>. QED  BY <1>3, RingInvariant, PTL

\* The ring implements the queue, which is all that the models of the mutex and
\* of the semaphore assume of it.
THEOREM RingImplementsQueue == RingSpec => IsFifo
<1>1. RingInit => F!Init
  BY InitRing DEF F!Init
<1>2. ASSUME RingInv, [RingNext]_ringVars
      PROVE  [F!Next]_Queue
  <2>1. ASSUME NEW t \in Thread, Enqueue(t)
        PROVE  F!Next
    <3>1. t \notin Range(Queue) /\ Queue' = Append(Queue, t)
      BY <1>2, <2>1, EnqueueRing DEF Enqueue
    <3>. QED  BY <3>1, Zenon DEF F!Next, F!Enter, F!Range, Range
  <2>2. ASSUME Dequeue
        PROVE  F!Next
    BY <1>2, <2>2, DequeueRing, Zenon DEF F!Next, F!Leave
  <2>3. ASSUME UNCHANGED ringVars
        PROVE  Queue' = Queue
    BY <1>2, <2>3, StutterRing
  <2>. QED  BY <1>2, <2>1, <2>2, <2>3, Zenon DEF RingNext
<1>. QED  BY <1>1, <1>2, RingInvariant, PTL DEF RingSpec, IsFifo, F!Spec

=============================================================================
