---------------------------- MODULE MutexProofs -----------------------------
(***************************************************************************)
(* Proofs about Mutex, for every set of threads and every number of slots, *)
(* and about the CondVar that is used with it.                             *)
(*                                                                         *)
(* The inductive invariant of the mutex, IInv, joins Ownership and         *)
(* NoLostWakeup with the invariant of the wait queue and with Calls, what  *)
(* a thread inside a call of lock() or unlock() may rely on.               *)
(*                                                                         *)
(* With a condition variable a thread may also sleep for that, outside the *)
(* code of the mutex.  CondInv joins IInv, which does not mind, with Apart *)
(* (each sleeper sleeps for one of the two), CondAccounted and CondCalls.  *)
(***************************************************************************)
EXTENDS CondVar, WaitQueueProofs

Calls ==
    \A t \in Thread :
        /\ pc[t] = "nest" => type = "recursive" /\ locked /\ owner = t
        /\ pc[t] = "release" /\ type = "normal" => held[t] > 0

\* The part of the type invariant that the mutex adds to the wait queue.
StateOK ==
    /\ type \in Types
    /\ locked \in BOOLEAN
    /\ owner \in Thread \cup {NoThread}
    /\ rlevel \in Nat
    /\ held \in [Thread -> Nat]

OwnInv == StateOK /\ Calls /\ Ownership

IInv == WQInv /\ OwnInv /\ NoLostWakeup

-----------------------------------------------------------------------------
\* Every step of the mutex is one of the wait queue.
LEMMA StepIsWQNext ==
    ASSUME NEW t \in Thread, Lock(t) \/ TryLock(t) \/ Unlock(t) \/ Step(t)
    PROVE  WQNext(t)
<1>. USE DEF WQNext, OwnLabels
<1>1. CASE Lock(t) \/ Unlock(t)
  BY <1>1 DEF Lock, Unlock
<1>2. CASE TryLock(t)
  BY <1>2 DEF TryLock
<1>3. CASE Nest(t) \/ LockTake(t)
  BY <1>3 DEF Nest, LockTake
<1>4. CASE LockWait(t) \/ Sleep(t) \/ Resume(t)
  BY <1>4 DEF LockWait, Sleep, Resume
<1>5. CASE UnlockError(t) \/ UnlockNested(t) \/ Release(t)
  BY <1>5 DEF UnlockError, UnlockNested, Release
<1>6. CASE Wakeup(t) \/ UnlockReturn(t)
  BY <1>6 DEF Wakeup, UnlockReturn
<1>. QED  BY <1>1, <1>2, <1>3, <1>4, <1>5, <1>6 DEF Step

LEMMA IInit == Init => IInv
<1>. SUFFICES ASSUME Init PROVE IInv
  OBVIOUS
<1>1. WQInv
  BY WQInitial DEF Init
<1>2. StateOK
  BY ThreadAssumption DEF Init, StateOK
<1>3. Calls /\ Ownership /\ NoLostWakeup
  BY ThreadAssumption DEF Init, WQInit, Calls, Ownership, NoLostWakeup
<1>. QED  BY <1>1, <1>2, <1>3 DEF IInv, OwnInv

\* A thread that unlocks in earnest holds the mutex.
LEMMA UnlockerHolds ==
    ASSUME OwnInv, NEW t \in Thread, pc[t] = "release", MayUnlock(t)
    PROVE  locked /\ owner = t /\ held[t] > 0
<1>1. type \in {"normal", "errorcheck", "recursive"}
  BY TypesAssumption DEF OwnInv, StateOK
<1>2. CASE type = "normal"
  BY <1>2 DEF OwnInv, StateOK, Calls, Ownership
<1>3. CASE type = "errorcheck"
  BY <1>3 DEF OwnInv, Ownership, MayUnlock
<1>4. CASE type = "recursive"
  BY <1>4, ThreadAssumption DEF OwnInv, Ownership, MayUnlock
<1>. QED  BY <1>1, <1>2, <1>3, <1>4

\* The book-keeping of the owner survives every step.
LEMMA OwnStep ==
    ASSUME WQInv, OwnInv, [Next]_vars
    PROVE  OwnInv'
<1>. USE DEF WQInv, WQTypeOK, OwnInv, StateOK, Calls, Ownership, Goto, mutexVars, PCs
<1>0. NoThread \notin Thread /\ Types \subseteq {"normal", "errorcheck", "recursive"}
  BY ThreadAssumption, TypesAssumption
<1>1. ASSUME NEW t \in Thread, Lock(t) \/ Unlock(t) PROVE OwnInv'
  BY <1>1, <1>0 DEF Lock, Unlock, Move
<1>2. ASSUME NEW t \in Thread, TryLock(t) PROVE OwnInv'
  <2>1. CASE Take(t)
    BY <1>2, <2>1, <1>0 DEF TryLock, Take, Move
  <2>2. CASE ~Take(t)
    BY <1>2, <2>2, <1>0 DEF TryLock, Deepen, Move
  <2>. QED  BY <2>1, <2>2
<1>3. ASSUME NEW t \in Thread, Nest(t) PROVE OwnInv'
  BY <1>3, <1>0 DEF Nest, Deepen, Move
<1>4. ASSUME NEW t \in Thread, LockTake(t) PROVE OwnInv'
  BY <1>4, <1>0 DEF LockTake, Take, Move
<1>5. ASSUME NEW t \in Thread, LockWait(t) \/ Sleep(t) \/ Resume(t) PROVE OwnInv'
  BY <1>5, <1>0 DEF LockWait, Wait, Sleep, KSleep, Resume, KResume, Move
<1>6. ASSUME NEW t \in Thread, UnlockError(t) PROVE OwnInv'
  BY <1>6, <1>0 DEF UnlockError, WakeNone
<1>7. ASSUME NEW t \in Thread, UnlockNested(t) PROVE OwnInv'
  <2>1. pc[t] = "release" /\ pc' = [pc EXCEPT ![t] = "exit"]
    BY <1>7 DEF UnlockNested, WakeNone
  <2>. QED  BY <1>7, <2>1, <1>0, UnlockerHolds DEF UnlockNested
<1>8. ASSUME NEW t \in Thread, Release(t) PROVE OwnInv'
  <2>1. /\ pc[t] = "release"
        /\ \E l \in {"exit", "wake"} : pc' = [pc EXCEPT ![t] = l]
    BY <1>8 DEF Release, WakeNone, WakeHead
  <2>2. /\ locked /\ owner = t /\ held[t] > 0
        /\ held' = [held EXCEPT ![t] = @ - 1]
        /\ locked' = FALSE /\ owner' = NoThread /\ type' = type
    BY <1>8, <2>1, UnlockerHolds DEF Release
  <2>3. held[t] = 1
    BY <1>8, <2>2, <1>0 DEF Release
  <2>4. rlevel' \in Nat /\ (type = "recursive" => rlevel' = 0)
    BY <1>8 DEF Release
  <2>5. held' \in [Thread -> Nat]
    BY <2>2, <2>3
  <2>6. StateOK'
    BY <2>2, <2>4, <2>5
  <2>7. Calls'
    BY <2>1, <2>2
  <2>8. Ownership'
    BY <2>2, <2>3, <2>4, <1>0
  <2>. QED  BY <2>6, <2>7, <2>8
<1>9. ASSUME NEW t \in Thread, Wakeup(t) \/ UnlockReturn(t) PROVE OwnInv'
  BY <1>9, <1>0 DEF Wakeup, KWakeup, UnlockReturn, WakerReturn
<1>10. CASE UNCHANGED vars
  BY <1>10 DEF vars, wqVars
<1>. QED
  BY <1>1, <1>2, <1>3, <1>4, <1>5, <1>6, <1>7, <1>8, <1>9, <1>10 DEF Next, Step

\* A free mutex with waiters keeps one of them on its way.
LEMMA WakeupStep ==
    ASSUME IInv, [Next]_vars
    PROVE  NoLostWakeup'
<1>. USE DEF IInv, NoLostWakeup
<1>1. ASSUME NEW t \in Thread, LockTake(t) \/ LockWait(t)
      PROVE  NoLostWakeup'
  BY <1>1 DEF LockTake, Take, LockWait, mutexVars
<1>2. ASSUME NEW t \in Thread, Release(t)
      PROVE  NoLostWakeup'
  <2>1. CASE WakeHead(t)
    BY <2>1, HeadInTransit
  <2>2. CASE queue = <<>> /\ WakeNone(t)
    BY <2>2 DEF WakeNone
  <2>. QED  BY <1>2, <2>1, <2>2 DEF Release
<1>3. ASSUME NEW t \in Thread, pc[t] # "try", WQNext(t), queue' = queue,
             ~locked' => ~locked
      PROVE  NoLostWakeup'
  BY <1>3, TransitStays
<1>4. ASSUME NEW t \in Thread, Lock(t) \/ Unlock(t) \/ TryLock(t) \/ Nest(t)
      PROVE  pc[t] # "try" /\ queue' = queue /\ (~locked' => ~locked)
  BY <1>4 DEF Lock, Unlock, TryLock, Take, Nest, Deepen, Move, mutexVars
<1>5. ASSUME NEW t \in Thread, Sleep(t) \/ Resume(t)
      PROVE  pc[t] # "try" /\ queue' = queue /\ (~locked' => ~locked)
  BY <1>5 DEF Sleep, KSleep, Resume, KResume, Move, mutexVars
<1>6. ASSUME NEW t \in Thread,
             UnlockError(t) \/ UnlockNested(t) \/ Wakeup(t) \/ UnlockReturn(t)
      PROVE  pc[t] # "try" /\ queue' = queue /\ (~locked' => ~locked)
  BY <1>6 DEF UnlockError, UnlockNested, WakeNone, Wakeup, KWakeup,
              UnlockReturn, WakerReturn, mutexVars
<1>7. CASE UNCHANGED vars
  <2>1. UNCHANGED wqVars /\ UNCHANGED <<queue, locked>>
    BY <1>7 DEF vars, wqVars, mutexVars
  <2>. QED  BY <2>1, WQStutter
<1>8. ASSUME NEW t \in Thread, Lock(t) \/ TryLock(t) \/ Unlock(t) \/ Step(t)
      PROVE  NoLostWakeup'
  <2>1. WQNext(t)
    BY <1>8, StepIsWQNext
  <2>. QED  BY <1>8, <2>1, <1>1, <1>2, <1>3, <1>4, <1>5, <1>6 DEF Step
<1>. QED  BY <1>7, <1>8 DEF Next

\* What the mutex relies on is kept by whoever takes a step of it, whatever the other
\* threads sleep for.
LEMMA IKept ==
    ASSUME IInv, NEW t \in Thread, SleepsHere(t),
           Lock(t) \/ TryLock(t) \/ Unlock(t) \/ Step(t)
    PROVE  IInv'
<1>1. WQInv'
  BY StepIsWQNext, WQStep DEF IInv
<1>2. Next
  BY DEF Next
<1>. QED  BY <1>1, <1>2, OwnStep, WakeupStep DEF IInv

\* A mutex that is used by itself is all that its threads sleep for.
LEMMA IStep == IInv /\ SleepersHere /\ [Next]_vars => IInv' /\ SleepersHere'
<1>. SUFFICES ASSUME IInv, SleepersHere, [Next]_vars PROVE IInv' /\ SleepersHere'
  OBVIOUS
<1>1. ASSUME NEW t \in Thread, Lock(t) \/ TryLock(t) \/ Unlock(t) \/ Step(t)
      PROVE  IInv' /\ SleepersHere'
  <2>1. SleepsHere(t) /\ WQInv
    BY DEF SleepersHere, IInv
  <2>. QED  BY <1>1, <2>1, IKept, StepIsWQNext, SleepersStep
<1>2. CASE UNCHANGED vars
  <2>1. UNCHANGED wqVars
    BY <1>2 DEF vars
  <2>2. WQInv' /\ SleepersHere'
    BY <2>1, WQStutter DEF IInv, SleepersHere, SleepsHere, wqVars
  <2>. QED  BY <1>2, <2>2, OwnStep, WakeupStep DEF IInv
<1>. QED  BY <1>1, <1>2 DEF Next

LEMMA IInvariant == Spec => []IInv
<1>1. Init => IInv /\ SleepersHere
  BY IInit DEF Init, WQInit, SleepersHere, SleepsHere
<1>. QED  BY <1>1, IStep, PTL DEF Spec

-----------------------------------------------------------------------------
\* The types of the variables are kept; it takes Ownership to know that an
\* unlocker does not release more than it holds.
THEOREM TypeCorrect == Spec => []TypeOK
<1>1. IInv => TypeOK
  BY DEF IInv, OwnInv, StateOK, WQInv, TypeOK
<1>. QED  BY <1>1, IInvariant, PTL

\* Mutual exclusion and truthful ownership of every type of mutex.
THEOREM OwnershipCorrect == Spec => []Ownership
<1>1. IInv => Ownership
  BY DEF IInv, OwnInv
<1>. QED  BY <1>1, IInvariant, PTL

\* A free mutex never leaves its waiters to sleep.
THEOREM WakeupCorrect == Spec => []NoLostWakeup
<1>1. IInv => NoLostWakeup
  BY DEF IInv
<1>. QED  BY <1>1, IInvariant, PTL

\* Every thread that waits is queued once or being woken, and no other is.
THEOREM WaitersCorrect == Spec => []WaitersAccounted
<1>1. IInv => WaitersAccounted
  BY DEF IInv, WQInv
<1>. QED  BY <1>1, IInvariant, PTL

\* The assertion of lock() on the size of the ring never fires.
THEOREM EnqueueCorrect == Spec => []EnqueueAsserts
<1>1. IInv => EnqueueAsserts
  BY EnqueueIsSafe DEF IInv
<1>. QED  BY <1>1, IInvariant, PTL

\* The last thread out of unlock() may destroy the mutex.
THEOREM DestroyCorrect == Spec => DestroyIsSafe
<1>1. ASSUME IInv, [Next]_vars, NEW t \in Thread, LastOneOut(t)
      PROVE  /\ \A u \in Thread : pc'[u] = "idle"
             /\ owner' = NoThread /\ ~locked' /\ queue' = <<>>
  <2>. USE <1>1 DEF IInv, WQInv, WQTypeOK, OwnInv, StateOK, PCs, Goto
  <2>0. pc[t] = "exit" /\ pc'[t] = "idle"
    BY DEF LastOneOut
  <2>1. UnlockReturn(t)
    <3>1. ASSUME NEW u \in Thread, Lock(u) \/ TryLock(u) \/ Unlock(u) PROVE FALSE
      BY <2>0, <3>1 DEF Lock, TryLock, Unlock, Move
    <3>2. ASSUME NEW u \in Thread,
                 Nest(u) \/ LockTake(u) \/ LockWait(u) \/ Sleep(u) \/ Resume(u)
          PROVE  FALSE
      BY <2>0, <3>2 DEF Nest, LockTake, LockWait, Wait, Sleep, KSleep, Resume, KResume, Move
    <3>3. ASSUME NEW u \in Thread,
                 UnlockError(u) \/ UnlockNested(u) \/ Release(u) \/ Wakeup(u)
          PROVE  FALSE
      BY <2>0, <3>3 DEF UnlockError, UnlockNested, Release, WakeNone, WakeHead, Wakeup, KWakeup
    <3>4. ASSUME NEW u \in Thread, UnlockReturn(u) PROVE u = t
      BY <2>0, <3>4 DEF UnlockReturn, WakerReturn
    <3>5. ~UNCHANGED vars
      BY <2>0 DEF vars, wqVars
    <3>. QED  BY <3>1, <3>2, <3>3, <3>4, <3>5 DEF Next, Step
  <2>2. \A u \in Thread \ {t} : pc[u] = "idle"
    BY <2>0 DEF LastOneOut, OneWaker
  <2>3. /\ \A u \in Thread : pc'[u] = "idle"
        /\ UNCHANGED <<owner, locked, queue>>
    BY <2>1, <2>2 DEF UnlockReturn, WakerReturn, mutexVars
  <2>4. \A u \in Thread : u \notin Range(queue)
    BY <2>0, <2>2 DEF WaitersAccounted, Waits
  <2>5. Range(queue) = {}
    BY <2>4 DEF Range
  <2>6. queue = <<>>
    BY <2>5, EmptyRange
  <2>7. ~locked /\ owner = NoThread
    BY DEF LastOneOut, Ownership
  <2>. QED  BY <2>3, <2>6, <2>7
<1>2. ASSUME IInv, [Next]_vars
      PROVE  \A t \in Thread : LastOneOut(t) =>
               /\ \A u \in Thread : pc'[u] = "idle"
               /\ owner' = NoThread /\ ~locked' /\ queue' = <<>>
  BY <1>1, <1>2
<1>. QED  BY <1>2, IInvariant, PTL DEF DestroyIsSafe, Spec

-----------------------------------------------------------------------------
(* The condition variable.                                                 *)

\* Where a thread in the code of the condition variable is in that of the mutex,
\* and what a signaller may rely on.
CondCalls ==
    \A t \in Thread :
        /\ cpc[t] \notin {"outside", "unlock", "lock"} => pc[t] = "idle"
        /\ cpc[t] = "unlock" => pc[t] \in {"release", "wake", "exit"}
        /\ cpc[t] = "lock" => pc[t] # "idle"
        /\ cpc[t] = "wake" <=> ctarget[t] # NoThread
        /\ cpc[t] \in {"wake", "more", "exit"} <=> clock2 = t

\* Each sleeper sleeps either for the mutex or for the condition variable.
Apart == \A t \in sleeping : pc[t] = "asleep" <=> cpc[t] # "asleep"

\* The part of the type invariant that the condition variable adds to the mutex.
CondStateOK ==
    /\ cqueue \in Seq(Thread)
    /\ clock2 \in Thread \cup {NoThread}
    /\ cpc \in [Thread -> CPCs]
    /\ ctarget \in [Thread -> Thread \cup {NoThread}]
    /\ initial \in [Thread -> Nat]

CondInv == IInv /\ CondStateOK /\ CondCalls /\ Apart /\ CondAccounted

LEMMA CondInitial == CondInit => CondInv
<1>. SUFFICES ASSUME CondInit PROVE CondInv
  OBVIOUS
<1>1. IInv
  BY IInit DEF CondInit
<1>2. CondStateOK
  BY DEF CondInit, CondStateOK, CPCs
<1>3. CondCalls /\ Apart
  BY ThreadAssumption DEF CondInit, CondCalls, Apart, Init, WQInit
<1>4. Range(cqueue) = {} /\ IsInjective(cqueue)
  BY DEF CondInit, Range, IsInjective
<1>5. CondAccounted
  BY <1>4 DEF CondInit, CondAccounted, CondWaits, CondTargeted
<1>. QED  BY <1>1, <1>2, <1>3, <1>5 DEF CondInv

\* A thread that makes a step of the mutex does not sleep for the condition variable.
LEMMA MoverSleepsHere ==
    ASSUME CondInv, NEW t \in Thread, cpc[t] = "asleep" => t \notin sleeping
    PROVE  SleepsHere(t)
BY DEF CondInv, Apart, SleepsHere

\* The steps that go through the code of the mutex.
MutexMove(t) == Client(t) \/ MutexStep(t) \/ CondUnlock(t) \/ CondResume(t)

\* A step of the mutex and its place in the code of the condition variable.
LEMMA MutexMoves ==
    ASSUME CondInv, NEW t \in Thread, MutexMove(t)
    PROVE  /\ Lock(t) \/ TryLock(t) \/ Unlock(t) \/ Step(t)
           /\ SleepsHere(t)
           /\ UNCHANGED <<cqueue, clock2, ctarget, initial>>
           /\ \/ cpc[t] = "outside" /\ cpc' = cpc
              \/ cpc[t] = "unlock" /\ pc'[t] \in {"release", "wake", "exit"} /\ cpc' = cpc
              \/ cpc[t] = "lock" /\ pc'[t] # "idle" /\ cpc' = cpc
              \/ cpc[t] = "unlock" /\ pc'[t] = "idle" /\ At(t, "sleep")
              \/ cpc[t] = "lock" /\ pc'[t] = "idle" /\ At(t, "outside")
              \/ cpc[t] = "waiting" /\ pc'[t] = "release" /\ At(t, "unlock")
              \/ cpc[t] = "asleep" /\ t \notin sleeping /\ pc'[t] # "idle" /\ At(t, "lock")
<1>0. /\ pc \in [Thread -> PCs] /\ cpc \in [Thread -> CPCs]
      /\ CondCalls
  BY DEF CondInv, IInv, WQInv, WQTypeOK, CondStateOK
<1>1. CASE Client(t)
  BY <1>0, <1>1, MoverSleepsHere DEF Client, condVars
<1>2. CASE MutexStep(t)
  <2>1. pc[t] # "idle"
    BY <1>2 DEF MutexStep, Step, Nest, Move, LockTake, LockWait, Wait, Sleep, KSleep,
               Resume, KResume, UnlockError, UnlockNested, Release, WakeNone, WakeHead,
               Wakeup, KWakeup, UnlockReturn, WakerReturn
  <2>2. cpc[t] \in {"outside", "unlock", "lock"}
    BY <1>0, <2>1 DEF CondCalls
  <2>3. pc[t] \in {"release", "wake", "exit"} => pc'[t] \in {"release", "wake", "exit", "idle"}
    BY <1>0, <1>2 DEF MutexStep, Step, Nest, Move, LockTake, LockWait, Wait, Sleep, KSleep,
                      Resume, KResume, UnlockError, UnlockNested, Release, WakeNone, WakeHead,
                      Wakeup, KWakeup, UnlockReturn, WakerReturn, Goto
  <2>. QED  BY <1>0, <1>2, <2>2, <2>3, MoverSleepsHere DEF MutexStep, At, After, CondCalls
<1>3. CASE CondUnlock(t)
  BY <1>0, <1>3, MoverSleepsHere DEF CondUnlock, Unlock, Move, Goto
<1>4. CASE CondResume(t)
  BY <1>0, <1>4, MoverSleepsHere DEF CondResume, Lock, Move, Goto
<1>. QED  BY <1>1, <1>2, <1>3, <1>4 DEF MutexMove

\* What a step of the mutex does to the places of the threads: only its own place in
\* the code changes, and only sleepers of the mutex are woken or put to sleep.
LEMMA MutexPlaces ==
    ASSUME CondInv, NEW t \in Thread, SleepsHere(t),
           Lock(t) \/ TryLock(t) \/ Unlock(t) \/ Step(t)
    PROVE  /\ \A u \in Thread : u # t => pc'[u] = pc[u]
           /\ t \in sleeping' => pc'[t] = "asleep"
           /\ \A u \in sleeping : u \in sleeping' \/ pc[u] = "asleep"
           /\ \A u \in sleeping' : u \in sleeping \/ (u = t /\ pc'[t] = "asleep")
<1>0. WQNext(t) /\ WQInv
  BY StepIsWQNext DEF CondInv, IInv
<1>. USE DEF WQInv, WQTypeOK, SleepsHere, Goto
<1>1. CASE \E from, to \in OwnLabels : Move(t, from, to)
  BY <1>0, <1>1 DEF Move, OwnLabels
<1>2. CASE Wait(t) \/ KSleep(t) \/ KResume(t)
  BY <1>0, <1>2 DEF Wait, KSleep, KResume, Move
<1>3. CASE WakeNone(t) \/ WakeHead(t) \/ WakerReturn(t)
  BY <1>0, <1>3 DEF WakeNone, WakeHead, WakerReturn
<1>4. CASE KWakeup(t)
  BY <1>0, <1>4, TargetSleeps DEF KWakeup
<1>. QED  BY <1>0, <1>1, <1>2, <1>3, <1>4 DEF WQNext

\* The steps that go through the code of the mutex keep the invariant.
LEMMA MutexMoveKeeps ==
    ASSUME CondInv, NEW t \in Thread, MutexMove(t)
    PROVE  CondInv'
<1>0. /\ pc \in [Thread -> PCs] /\ cpc \in [Thread -> CPCs] /\ sleeping \subseteq Thread
      /\ ctarget \in [Thread -> Thread \cup {NoThread}]
      /\ CondCalls /\ Apart /\ CondAccounted /\ CondStateOK /\ IInv
  BY DEF CondInv, IInv, WQInv, WQTypeOK, CondStateOK
<1>1. IInv'
  BY <1>0, MutexMoves, IKept
<1>2. /\ \A u \in Thread : u # t => pc'[u] = pc[u] /\ cpc'[u] = cpc[u]
      /\ t \in sleeping' => pc'[t] = "asleep"
      /\ \A u \in sleeping : u \in sleeping' \/ pc[u] = "asleep"
      /\ \A u \in sleeping' : u \in sleeping \/ (u = t /\ pc'[t] = "asleep")
      /\ UNCHANGED <<cqueue, clock2, ctarget, initial>>
      /\ \/ cpc[t] = "outside" /\ cpc'[t] = "outside"
         \/ cpc[t] = "unlock" /\ pc'[t] \in {"release", "wake", "exit"} /\ cpc'[t] = "unlock"
         \/ cpc[t] = "lock" /\ pc'[t] # "idle" /\ cpc'[t] = "lock"
         \/ cpc[t] = "unlock" /\ pc'[t] = "idle" /\ cpc'[t] = "sleep"
         \/ cpc[t] = "lock" /\ pc'[t] = "idle" /\ cpc'[t] = "outside"
         \/ cpc[t] = "waiting" /\ pc'[t] = "release" /\ cpc'[t] = "unlock"
         \/ cpc[t] = "asleep" /\ t \notin sleeping /\ pc'[t] # "idle" /\ cpc'[t] = "lock"
      /\ cpc' \in [Thread -> CPCs]
  BY <1>0, MutexMoves, MutexPlaces DEF At, CPCs
<1>3. CondStateOK'
  BY <1>0, <1>2 DEF CondStateOK
<1>4. CondCalls'
  BY <1>0, <1>2 DEF CondCalls
<1>5. Apart'
  <2>1. /\ pc' \in [Thread -> PCs] /\ sleeping' \subseteq Thread
        /\ \A u \in sleeping' : pc'[u] \in {"idle", "asleep"}
    BY <1>1 DEF IInv, WQInv, WQTypeOK, WQCalls
  <2>. QED  BY <1>0, <1>2, <2>1, <1>4 DEF Apart, CondCalls
<1>6. CondAccounted'
  <2>1. \A u \in Thread : CondTargeted(u)' <=> CondTargeted(u)
    BY <1>2 DEF CondTargeted
  <2>2. \A u \in Thread : CondWaits(u)' <=> CondWaits(u)
    BY <1>0, <1>2 DEF CondWaits, CondCalls, Apart
  <2>. QED  BY <1>0, <1>2, <2>1, <2>2 DEF CondAccounted
<1>. QED  BY <1>1, <1>3, <1>4, <1>5, <1>6 DEF CondInv

\* What the mutex relies on does not depend on the variables of the condition variable.
LEMMA MutexStutter == IInv /\ UNCHANGED vars => IInv'
<1>. SUFFICES ASSUME IInv, UNCHANGED vars PROVE IInv'
  OBVIOUS
<1>1. UNCHANGED wqVars
  BY DEF vars
<1>. QED  BY <1>1, WQStutter, OwnStep, WakeupStep DEF IInv

\* A thread that is outside the mutex may sleep for something else and be woken.
LEMMA MutexApart ==
    ASSUME IInv, UNCHANGED <<mutexVars, queue, lock2, pc, target>>, NEW t \in Thread,
           pc[t] = "idle", sleeping' \in {sleeping \cup {t}, sleeping \ {t}}
    PROVE  IInv'
<1>1. WQInv' /\ \A u \in Thread : InTransit(u)' <=> InTransit(u)
  BY WQApart DEF IInv
<1>2. OwnInv' /\ NoLostWakeup'
  BY <1>1 DEF IInv, OwnInv, StateOK, Calls, Ownership, NoLostWakeup, mutexVars
<1>. QED  BY <1>1, <1>2 DEF IInv

\* A thread enters the ring and waits from then on.
LEMMA EnqueueKeeps ==
    ASSUME CondInv, NEW t \in Thread, CondEnqueue(t)
    PROVE  CondInv'
<1>. USE DEF CondEnqueue, At
<1>0. cpc \in [Thread -> CPCs] /\ cqueue \in Seq(Thread)
  BY DEF CondInv, CondStateOK
<1>1. IInv'
  BY MutexStutter DEF CondInv
<1>2. CondStateOK' /\ CondCalls' /\ Apart'
  <2>. USE DEF CondInv, CondStateOK, CondCalls, Apart, CPCs, vars, wqVars
  <2>1. CondStateOK'
    OBVIOUS
  <2>2. CondCalls' /\ Apart'
    BY <1>0
  <2>. QED  BY <2>1, <2>2
<1>3. CondAccounted'
  <2>1. t \notin Range(cqueue)
    BY DEF CondInv, CondAccounted, CondWaits
  <2>2. Range(cqueue') = Range(cqueue) \cup {t} /\ IsInjective(cqueue')
    BY <1>0, <2>1, RangeAppend, InjectiveAppend DEF CondInv, CondAccounted
  <2>3. \A u \in Thread : CondTargeted(u)' <=> CondTargeted(u)
    BY <1>0 DEF CondTargeted
  <2>4. \A u \in Thread : CondWaits(u)' <=> (CondWaits(u) \/ u = t)
    BY <1>0 DEF CondWaits, vars, wqVars
  <2>5. ~CondTargeted(t)
    BY DEF CondInv, CondAccounted, CondWaits
  <2>. QED  BY <2>1, <2>2, <2>3, <2>4, <2>5 DEF CondInv, CondAccounted
<1>. QED  BY <1>1, <1>2, <1>3 DEF CondInv

\* A thread goes to sleep; it has been waiting for a while.
LEMMA SleepKeeps ==
    ASSUME CondInv, NEW t \in Thread, CondSleep(t)
    PROVE  CondInv'
<1>. USE DEF CondSleep, At
<1>0. cpc \in [Thread -> CPCs] /\ pc[t] = "idle"
  BY DEF CondInv, CondStateOK, CondCalls
<1>1. IInv'
  BY <1>0, MutexApart DEF CondInv
<1>2. CondStateOK' /\ CondCalls'
  BY <1>0 DEF CondInv, CondStateOK, CondCalls, CPCs
<1>3. Apart'
  BY <1>0 DEF CondInv, Apart
<1>4. \A u \in Thread : /\ CondTargeted(u)' <=> CondTargeted(u)
                        /\ CondWaits(u)' <=> CondWaits(u)
  BY <1>0 DEF CondTargeted, CondWaits
<1>5. CondAccounted'
  BY <1>4 DEF CondInv, CondAccounted
<1>. QED  BY <1>1, <1>2, <1>3, <1>5 DEF CondInv

\* A signaller holds lock2 from the moment it takes a thread out, and so no other
\* thread has been taken out.
LEMMA TakeOutKeeps ==
    ASSUME CondInv, NEW t \in Thread, TakeOut(t),
           cpc[t] \in {"signal", "broadcast", "more"},
           clock2 \in {NoThread, t}, clock2' = t, initial' \in [Thread -> Nat]
    PROVE  CondInv'
<1>. USE DEF TakeOut, At
<1>0. /\ cpc \in [Thread -> CPCs] /\ cqueue \in Seq(Thread) /\ Head(cqueue) \in Thread
      /\ Tail(cqueue) \in Seq(Thread) /\ ctarget \in [Thread -> Thread \cup {NoThread}]
      /\ NoThread \notin Thread
  BY ThreadAssumption DEF CondInv, CondStateOK
<1>1. IInv'
  BY MutexStutter DEF CondInv
<1>2. \A u \in Thread : cpc[u] # "wake" /\ ctarget[u] = NoThread
  BY <1>0 DEF CondInv, CondCalls
<1>3. CondStateOK'
  BY <1>0 DEF CondStateOK, CPCs
<1>4. CondCalls' /\ Apart'
  BY <1>0, <1>2 DEF CondInv, CondCalls, Apart, vars, wqVars
<1>5. CondAccounted'
  <2>1. /\ Head(cqueue) \in Range(cqueue)
        /\ Range(cqueue') = Range(cqueue) \ {Head(cqueue)}
        /\ IsInjective(cqueue')
    BY <1>0, InjectiveTail DEF CondInv, CondAccounted
  <2>2. \A u \in Thread : ~CondTargeted(u) /\ (CondTargeted(u)' <=> u = Head(cqueue))
    BY <1>0, <1>2 DEF CondTargeted
  <2>3. \A u \in Thread : CondWaits(u)' <=> CondWaits(u)
    BY <1>0 DEF CondWaits, vars, wqVars
  <2>. QED  BY <2>1, <2>2, <2>3 DEF CondInv, CondAccounted
<1>. QED  BY <1>1, <1>3, <1>4, <1>5 DEF CondInv

\* A step of a signaller that takes nobody out and wakes nobody.
LEMMA SignalMoves ==
    ASSUME CondInv, NEW t \in Thread, NEW l \in CPCs, At(t, l),
           UNCHANGED <<vars, cqueue, ctarget>>, initial' \in [Thread -> Nat],
           pc[t] = "idle", cpc[t] \in {"outside", "signal", "broadcast", "more", "exit"},
           l \in {"outside", "signal", "broadcast", "exit"},
           \/ cpc[t] \notin {"more", "exit"} /\ l # "exit" /\ clock2' = clock2
           \/ cpc[t] \notin {"more", "exit"} /\ clock2 = NoThread /\ l = "exit" /\ clock2' = t
           \/ cpc[t] \in {"more", "exit"} /\ l = "exit" /\ clock2' = clock2
           \/ cpc[t] \in {"more", "exit"} /\ l # "exit" /\ clock2' = NoThread
    PROVE  CondInv'
<1>. USE DEF At
<1>0. /\ cpc \in [Thread -> CPCs] /\ CondStateOK /\ CondCalls /\ Apart /\ CondAccounted
      /\ NoThread \notin Thread
  BY ThreadAssumption DEF CondInv, CondStateOK
<1>1. IInv'
  BY MutexStutter DEF CondInv
<1>2. CondStateOK'
  BY <1>0 DEF CondStateOK
<1>3. UNCHANGED <<pc, sleeping>>
  BY DEF vars, wqVars
<1>4. CondCalls'
  BY <1>0, <1>3 DEF CondCalls
<1>5. Apart'
  BY <1>0, <1>3 DEF Apart
<1>6. \A u \in Thread : /\ CondTargeted(u)' <=> CondTargeted(u)
                        /\ CondWaits(u)' <=> CondWaits(u)
  BY <1>0, <1>3 DEF CondTargeted, CondWaits
<1>7. CondAccounted'
  BY <1>0, <1>6 DEF CondAccounted
<1>. QED  BY <1>1, <1>2, <1>4, <1>5, <1>7 DEF CondInv

\* The thread that was taken out wakes, and waits no more.
LEMMA WakeupKeeps ==
    ASSUME CondInv, NEW t \in Thread, CondWakeup(t)
    PROVE  CondInv'
<1>. USE DEF CondWakeup, At
<1>0. /\ cpc \in [Thread -> CPCs] /\ ctarget \in [Thread -> Thread \cup {NoThread}]
      /\ NoThread \notin Thread /\ sleeping \subseteq Thread
      /\ CondStateOK /\ CondCalls /\ Apart /\ CondAccounted
  BY ThreadAssumption DEF CondInv, CondStateOK, IInv, WQInv, WQTypeOK
<1>1. PICK w \in Thread : w = ctarget[t]
  BY <1>0
<1>2. CondTargeted(w) /\ CondWaits(w) /\ w \notin Range(cqueue)
  BY <1>0, <1>1 DEF CondTargeted, CondAccounted
<1>3. cpc[w] = "asleep" /\ pc[w] = "idle" /\ w # t
  <2>1. cpc[w] \in {"waiting", "sleep", "asleep"} => pc[w] = "idle"
    BY <1>0 DEF CondCalls
  <2>2. cpc[w] \in {"waiting", "unlock", "sleep", "asleep"}
    BY <1>2 DEF CondWaits
  <2>3. pc[w] = "asleep" <=> cpc[w] # "asleep"
    BY <1>0, <1>1 DEF Apart
  <2>. QED  BY <1>0, <2>1, <2>2, <2>3 DEF CondCalls
<1>4. IInv'
  BY <1>0, <1>1, <1>3, MutexApart DEF CondInv
<1>5. CondStateOK'
  BY <1>0 DEF CondStateOK, CPCs
<1>6. \A u \in Thread : cpc[u] = "wake" <=> u = t
  BY <1>0 DEF CondCalls
<1>7. CondCalls' /\ Apart'
  BY <1>0, <1>6 DEF CondCalls, Apart
<1>8. CondAccounted'
  <2>1. \A u \in Thread : ~CondTargeted(u)' /\ (CondTargeted(u) <=> u = w)
    BY <1>0, <1>1, <1>6 DEF CondTargeted
  <2>2. \A u \in Thread : CondWaits(u)' <=> (CondWaits(u) /\ u # w)
    BY <1>0, <1>1, <1>3 DEF CondWaits
  <2>. QED  BY <1>0, <1>2, <2>1, <2>2 DEF CondAccounted
<1>. QED  BY <1>4, <1>5, <1>7, <1>8 DEF CondInv

LEMMA CondKept == CondInv /\ [CondNext]_allVars => CondInv'
<1>. SUFFICES ASSUME CondInv, [CondNext]_allVars PROVE CondInv'
  OBVIOUS
<1>0. CondStateOK /\ CondCalls
  BY DEF CondInv
<1>1. CASE UNCHANGED allVars
  <2>1. UNCHANGED vars /\ UNCHANGED <<cqueue, clock2, cpc, ctarget, initial, pc, sleeping>>
    BY <1>1 DEF allVars, condVars, vars, wqVars
  <2>2. IInv'
    BY <2>1, MutexStutter DEF CondInv
  <2>. QED
    BY <2>1, <2>2 DEF CondInv, CondStateOK, CondCalls, Apart, CondAccounted, CondWaits, CondTargeted
<1>2. ASSUME NEW t \in Thread, Signal(t) \/ Broadcast(t) PROVE CondInv'
  <2>1. PICK l \in {"signal", "broadcast"} : CondCall(t, l)
    BY <1>2 DEF Signal, Broadcast
  <2>2. l \in CPCs /\ cpc[t] = "outside" /\ pc[t] = "idle" /\ At(t, l)
        /\ UNCHANGED <<vars, cqueue, ctarget>> /\ initial' = initial /\ clock2' = clock2
    BY <2>1 DEF CondCall, CPCs
  <2>3. initial' \in [Thread -> Nat]
    BY <1>0, <2>2 DEF CondStateOK
  <2>. QED  BY <2>1, <2>2, <2>3, SignalMoves
<1>3. ASSUME NEW t \in Thread, SignalOne(t) \/ BroadcastFirst(t) PROVE CondInv'
  <2>1. /\ cpc[t] \in {"signal", "broadcast"} /\ pc[t] = "idle"
        /\ clock2 = NoThread /\ clock2' = t
        /\ TakeOut(t) \/ NobodyWaits(t)
    BY <1>0, <1>3 DEF SignalOne, BroadcastFirst, CondCalls
  <2>2. initial' \in [Thread -> Nat]
    <3>1. cqueue \in Seq(Thread) /\ initial \in [Thread -> Nat]
      BY <1>0 DEF CondStateOK
    <3>2. cqueue # <<>> => Len(cqueue) - 1 \in Nat
      BY <3>1
    <3>. QED  BY <1>3, <3>1, <3>2 DEF SignalOne, BroadcastFirst, TakeOut
  <2>3. CASE TakeOut(t)
    BY <2>1, <2>2, <2>3, TakeOutKeeps
  <2>4. CASE NobodyWaits(t)
    BY <2>1, <2>2, <2>4, SignalMoves DEF NobodyWaits, CPCs
  <2>. QED  BY <2>1, <2>3, <2>4
<1>4. ASSUME NEW t \in Thread, BroadcastNext(t) PROVE CondInv'
  <2>1. cpc[t] = "more" /\ pc[t] = "idle" /\ clock2 = t /\ clock2' = t
    BY <1>0, <1>4 DEF BroadcastNext, CondCalls
  <2>2. initial' \in [Thread -> Nat]
    <3>1. initial \in [Thread -> Nat]
      BY <1>0 DEF CondStateOK
    <3>. QED  BY <1>4, <3>1 DEF BroadcastNext
  <2>3. CASE TakeOut(t)
    BY <2>1, <2>2, <2>3, TakeOutKeeps
  <2>4. CASE At(t, "exit") /\ UNCHANGED <<vars, cqueue, ctarget>>
    BY <2>1, <2>2, <2>4, SignalMoves DEF CPCs
  <2>. QED  BY <1>4, <2>3, <2>4 DEF BroadcastNext
<1>5. ASSUME NEW t \in Thread, CondReturn(t) PROVE CondInv'
  <2>1. cpc[t] = "exit" /\ pc[t] = "idle" /\ clock2' = NoThread /\ At(t, "outside")
    BY <1>0, <1>5 DEF CondReturn, CondCalls
  <2>2. initial' \in [Thread -> Nat]
    BY <1>0, <1>5 DEF CondReturn, CondStateOK
  <2>. QED  BY <1>5, <2>1, <2>2, SignalMoves DEF CondReturn, CPCs
<1>6. ASSUME NEW t \in Thread, Client(t) \/ MutexStep(t) \/ CondUnlock(t) \/ CondResume(t)
      PROVE  CondInv'
  BY <1>6, MutexMoveKeeps DEF MutexMove
<1>. QED
  BY <1>1, <1>2, <1>3, <1>4, <1>5, <1>6, EnqueueKeeps, SleepKeeps, WakeupKeeps
     DEF CondNext, CondStep

LEMMA CondInvariant == CondSpec => []CondInv
  BY CondInitial, CondKept, PTL DEF CondSpec

\* The types of the variables, those of the mutex included.
THEOREM CondTyped == CondSpec => []CondTypeOK
<1>1. CondInv => CondTypeOK
  BY DEF CondInv, CondStateOK, CondTypeOK, TypeOK, IInv, OwnInv, StateOK, WQInv
<1>. QED  BY <1>1, CondInvariant, PTL

\* Every thread that waits for the condition is in the ring, once, or being woken,
\* and no other is: no signal is missed and none is wasted.
THEOREM CondAccountedCorrect == CondSpec => []CondAccounted
<1>1. CondInv => CondAccounted
  BY DEF CondInv
<1>. QED  BY <1>1, CondInvariant, PTL

\* The mutex and the condition variable share a thread's one place to sleep, and
\* neither wakes who sleeps for the other.
THEOREM SleepersCorrect == CondSpec => []SleepersApart
<1>1. CondInv => SleepersApart
  BY DEF CondInv, Apart, SleepersApart, IInv, WQInv
<1>. QED  BY <1>1, CondInvariant, PTL

\* What the mutex promises by itself it promises to the users of a condition variable:
\* mutual exclusion, no lost wake-up, and room in its ring.
THEOREM CondKeepsMutex == CondSpec => [](Ownership /\ NoLostWakeup /\ EnqueueAsserts)
<1>1. CondInv => Ownership /\ NoLostWakeup /\ EnqueueAsserts
  BY EnqueueIsSafe DEF CondInv, IInv, OwnInv
<1>. QED  BY <1>1, CondInvariant, PTL

=============================================================================
