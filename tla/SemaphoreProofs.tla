-------------------------- MODULE SemaphoreProofs ---------------------------
(***************************************************************************)
(* Proofs about Semaphore, for every set of threads, number of slots and   *)
(* initial values.  The heart is TransitStep: each unit that up() adds     *)
(* comes with one more thread in transit, and each unit that is taken      *)
(* costs at most one.                                                      *)
(***************************************************************************)
EXTENDS Semaphore, WaitQueueProofs

Transit == {t \in Thread : InTransit(t)}

ValOK == val \in Nat \cup {INT_MIN}

\* A destroyed semaphore has nobody in up().
Destroyed == val < 0 => \A t \in Thread : pc[t] # "release"

\* NoLostWakeup, with a name for the number of threads in transit.
C == Cardinality(Transit)
Enough == queue # <<>> => val <= C

IInv == WQInv /\ SleepersHere /\ ValOK /\ Destroyed /\ Enough

-----------------------------------------------------------------------------
\* Every step of the semaphore is one of the wait queue.
LEMMA StepIsWQNext ==
    ASSUME NEW t \in Thread,
           Down(t) \/ TryWait(t) \/ Up(t) \/ Destroy(t) \/ Step(t)
    PROVE  WQNext(t)
<1>. USE DEF WQNext, OwnLabels
<1>1. CASE Down(t) \/ TryWait(t) \/ Up(t) \/ Destroy(t)
  BY <1>1 DEF Down, TryWait, Up, Destroy
<1>2. CASE DownTake(t) \/ DownWait(t) \/ Sleep(t) \/ Resume(t)
  BY <1>2 DEF DownTake, DownWait, Sleep, Resume
<1>3. CASE Post(t) \/ Wakeup(t) \/ UpReturn(t)
  BY <1>3 DEF Post, Wakeup, UpReturn
<1>. QED  BY <1>1, <1>2, <1>3 DEF Step

LEMMA IInit == Init => IInv
<1>. SUFFICES ASSUME Init PROVE IInv
  OBVIOUS
<1>1. WQInv
  BY WQInitial DEF Init
<1>2. SleepersHere
  BY DEF Init, WQInit, SleepersHere, SleepsHere
<1>. QED
  BY <1>1, <1>2, ValuesAssumption DEF Init, WQInit, IInv, ValOK, Destroyed, Enough

LEMMA ValStep ==
    ASSUME WQInv, ValOK, Destroyed, [Next]_vars
    PROVE  ValOK' /\ Destroyed'
<1>. USE ValuesAssumption DEF WQInv, WQTypeOK, ValOK, Destroyed, Goto, PCs
<1>1. ASSUME NEW t \in Thread, Down(t) \/ TryWait(t) \/ Up(t) \/ Destroy(t)
      PROVE  ValOK' /\ Destroyed'
  BY <1>1 DEF Down, TryWait, Up, Destroy, Move
<1>2. ASSUME NEW t \in Thread, DownTake(t) \/ DownWait(t) \/ Sleep(t) \/ Resume(t)
      PROVE  ValOK' /\ Destroyed'
  BY <1>2 DEF DownTake, DownWait, Wait, Sleep, KSleep, Resume, KResume, Move
<1>3. ASSUME NEW t \in Thread, Post(t)
      PROVE  ValOK' /\ Destroyed'
  BY <1>3 DEF Post, WakeNone, WakeHead
<1>4. ASSUME NEW t \in Thread, Wakeup(t) \/ UpReturn(t)
      PROVE  ValOK' /\ Destroyed'
  BY <1>4 DEF Wakeup, KWakeup, UpReturn, WakerReturn
<1>5. CASE UNCHANGED vars
  BY <1>5 DEF vars, wqVars
<1>. QED  BY <1>1, <1>2, <1>3, <1>4, <1>5 DEF Next, Step

LEMMA TransitFinite ==
    /\ IsFiniteSet(Transit) /\ Cardinality(Transit) \in Nat
    /\ IsFiniteSet(Transit') /\ Cardinality(Transit') \in Nat
<1>1. Transit \subseteq Thread /\ Transit' \subseteq Thread
  BY DEF Transit
<1>. QED  BY <1>1, ThreadAssumption, FS_Subset, FS_CardinalityType

\* How many threads are in transit after a step.
LEMMA TransitStep ==
    ASSUME WQInv, NEW t \in Thread, WQNext(t)
    PROVE  /\ pc[t] # "try" => Cardinality(Transit) <= Cardinality(Transit')
           /\ Cardinality(Transit) <= Cardinality(Transit') + 1
           /\ WakeHead(t) => Cardinality(Transit) + 1 <= Cardinality(Transit')
<1>1. Transit \ {t} \subseteq Transit'
  <2>1. SUFFICES ASSUME NEW u \in Thread, InTransit(u), u # t
                 PROVE  InTransit(u)'
    BY Zenon DEF Transit
  <2>. QED  BY <2>1, TransitStays
<1>2. Cardinality(Transit \ {t}) <= Cardinality(Transit')
  BY <1>1, TransitFinite, FS_Subset
<1>3. Cardinality(Transit) <= Cardinality(Transit \ {t}) + 1
  <2>1. Cardinality(Transit \ {t}) = IF t \in Transit THEN Cardinality(Transit) - 1
                                                   ELSE Cardinality(Transit)
    BY TransitFinite, FS_RemoveElement
  <2>. QED  BY <2>1, TransitFinite
<1>4. Cardinality(Transit \ {t}) \in Nat
  BY TransitFinite, FS_RemoveElement, FS_CardinalityType
<1>5. Cardinality(Transit) <= Cardinality(Transit') + 1
  BY <1>2, <1>3, <1>4, TransitFinite
<1>6. ASSUME pc[t] # "try"
      PROVE  Transit \subseteq Transit'
  BY <1>6, TransitStays DEF Transit
<1>7. ASSUME pc[t] # "try"
      PROVE  Cardinality(Transit) <= Cardinality(Transit')
  BY <1>6, <1>7, TransitFinite, FS_Subset
<1>8. ASSUME WakeHead(t)
      PROVE  Cardinality(Transit) + 1 <= Cardinality(Transit')
  <2>1. PICK h \in Thread : ~InTransit(h) /\ InTransit(h)'
    BY <1>8, HeadInTransit
  <2>2. Transit \subseteq Transit' \ {h} /\ h \in Transit'
    BY <1>6, <1>8, <2>1 DEF WakeHead, Transit
  <2>3. /\ IsFiniteSet(Transit' \ {h})
        /\ Cardinality(Transit' \ {h}) = Cardinality(Transit') - 1
    BY <2>2, TransitFinite, FS_RemoveElement
  <2>4. Cardinality(Transit) <= Cardinality(Transit' \ {h})
    BY <2>2, <2>3, FS_Subset
  <2>. QED  BY <2>3, <2>4, TransitFinite
<1>. QED  BY <1>5, <1>7, <1>8

\* Queued threads keep enough others on their way.
LEMMA WakeupStep ==
    ASSUME IInv, [Next]_vars
    PROVE  Enough'
<1>. USE DEF Enough
<1>1. /\ C \in Nat /\ C' \in Nat /\ val \in Int /\ val' \in Int
      /\ Enough
  BY TransitFinite, ValStep, ValuesAssumption DEF IInv, ValOK, C
<1>2. ASSUME NEW t \in Thread, Down(t) \/ TryWait(t) \/ Up(t) \/ Destroy(t) \/ Step(t)
      PROVE  /\ pc[t] # "try" => C <= C'
             /\ C <= C' + 1
             /\ WakeHead(t) => C + 1 <= C'
  <2>1. WQNext(t)
    BY <1>2, StepIsWQNext
  <2>. QED  BY <2>1, TransitStep DEF IInv, C
<1>3. ASSUME NEW t \in Thread, TryWait(t) \/ Down(t) \/ Up(t) \/ Destroy(t)
      PROVE  Enough'
  <2>1. pc[t] # "try" /\ queue' = queue
    BY <1>3 DEF TryWait, Down, Up, Destroy, Move
  <2>2. val' <= val
    BY <1>1, <1>3, ValuesAssumption DEF TryWait, Down, Up, Destroy
  <2>3. C <= C'
    BY <1>2, <1>3, <2>1
  <2>. QED  BY <1>1, <2>1, <2>2, <2>3
<1>4. ASSUME NEW t \in Thread, DownTake(t)
      PROVE  Enough'
  <2>1. C <= C' + 1
    BY <1>2, <1>4 DEF Step
  <2>2. queue' = queue /\ val' = val - 1
    BY <1>4 DEF DownTake, Move
  <2>3. \A c, d \in Nat, v \in Int : v <= c /\ c <= d + 1 => v - 1 <= d
    OBVIOUS
  <2>4. val <= C => val - 1 <= C'
    BY <1>1, <2>1, <2>3
  <2>. QED  BY <1>1, <2>2, <2>4
<1>5. ASSUME NEW t \in Thread, DownWait(t)
      PROVE  Enough'
  BY <1>1, <1>5 DEF DownWait
<1>6. ASSUME NEW t \in Thread, Post(t)
      PROVE  Enough'
  <2>1. CASE queue = <<>> /\ WakeNone(t)
    BY <2>1 DEF WakeNone
  <2>2. CASE WakeHead(t)
    <3>1. C + 1 <= C'
      BY <1>2, <1>6, <2>2 DEF Step
    <3>2. queue # <<>> /\ val' = val + 1
      BY <1>6, <2>2 DEF Post, WakeHead
    <3>. QED  BY <1>1, <3>1, <3>2
  <2>. QED  BY <1>6, <2>1, <2>2 DEF Post
<1>7. ASSUME NEW t \in Thread, Sleep(t) \/ Resume(t) \/ Wakeup(t) \/ UpReturn(t)
      PROVE  Enough'
  <2>1. pc[t] # "try" /\ queue' = queue /\ val' = val
    BY <1>7 DEF Sleep, KSleep, Resume, KResume, Wakeup, KWakeup, UpReturn, WakerReturn, Move
  <2>2. C <= C'
    BY <1>2, <1>7, <2>1 DEF Step
  <2>. QED  BY <1>1, <2>1, <2>2
<1>8. CASE UNCHANGED vars
  <2>1. UNCHANGED wqVars /\ queue' = queue /\ val' = val
    BY <1>8 DEF vars, wqVars
  <2>2. \A u \in Thread : InTransit(u)' <=> InTransit(u)
    BY <2>1, WQStutter DEF IInv
  <2>3. Transit' = Transit
    BY <2>2 DEF Transit
  <2>4. C' = C
    BY <2>3 DEF C
  <2>5. C <= C'
    BY <1>1, <2>4
  <2>. QED  BY <1>1, <2>1, <2>5
<1>9. ASSUME NEW t \in Thread, Down(t) \/ TryWait(t) \/ Up(t) \/ Destroy(t) \/ Step(t)
      PROVE  Enough'
  <2>. HIDE DEF Enough
  <2>. QED  BY <1>9, <1>3, <1>4, <1>5, <1>6, <1>7 DEF Step
<1>. HIDE DEF Enough
<1>. QED  BY <1>8, <1>9 DEF Next

LEMMA IStep == IInv /\ [Next]_vars => IInv'
<1>. SUFFICES ASSUME IInv, [Next]_vars PROVE IInv'
  OBVIOUS
<1>1. WQInv' /\ SleepersHere'
  <2>1. CASE UNCHANGED vars
    BY <2>1, WQStutter DEF IInv, SleepersHere, SleepsHere, vars, wqVars
  <2>2. ASSUME NEW t \in Thread, WQNext(t)
        PROVE  WQInv' /\ SleepersHere'
    <3>1. SleepsHere(t)
      BY DEF IInv, SleepersHere
    <3>. QED  BY <2>2, <3>1, WQStep, SleepersStep DEF IInv
  <2>3. CASE Next
    BY <2>2, <2>3, StepIsWQNext DEF Next
  <2>. QED  BY <2>1, <2>3
<1>. QED  BY <1>1, ValStep, WakeupStep DEF IInv

LEMMA IInvariant == Spec => []IInv
  BY IInit, IStep, PTL DEF Spec

-----------------------------------------------------------------------------
\* The types of the variables: no down() takes a unit that is not there.
THEOREM TypeCorrect == Spec => []TypeOK
<1>1. IInv => TypeOK
  BY DEF IInv, ValOK, WQInv, TypeOK
<1>. QED  BY <1>1, IInvariant, PTL

\* Each unit of the value has a thread on its way while others are queued.
THEOREM WakeupCorrect == Spec => []NoLostWakeup
<1>1. IInv => NoLostWakeup
  BY DEF IInv, Enough, C, Transit, NoLostWakeup
<1>. QED  BY <1>1, IInvariant, PTL

\* Every thread that waits is queued once or being woken, and no other is.
THEOREM WaitersCorrect == Spec => []WaitersAccounted
<1>1. IInv => WaitersAccounted
  BY DEF IInv, WQInv
<1>. QED  BY <1>1, IInvariant, PTL

\* The assertions of down() against double downs and overflows never fire.
THEOREM EnqueueCorrect == Spec => []EnqueueAsserts
<1>1. IInv => EnqueueAsserts
  BY EnqueueIsSafe DEF IInv
<1>. QED  BY <1>1, IInvariant, PTL

=============================================================================
