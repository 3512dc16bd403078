------------------------------- MODULE Mutex -------------------------------
(***************************************************************************)
(* The sleeping mutex of libnanvix: thread/mutex.c built with              *)
(* __NANVIX_MUTEX_SLEEP.  Threads wait for it as WaitQueue describes.      *)
(***************************************************************************)
EXTENDS WaitQueue

CONSTANTS
    Types,         \* the types a mutex may be initialised with
    MaxDepth       \* bound: nested acquisitions of a recursive mutex

ASSUME TypesAssumption == Types \subseteq {"normal", "errorcheck", "recursive"}
ASSUME DepthAssumption == MaxDepth \in Nat \ {0}

VARIABLES
    type,          \* m->type; NORMAL and DEFAULT behave alike
    locked,        \* m->locked
    owner,         \* m->owner
    rlevel,        \* m->rlevel
    held           \* history: acquisitions minus releases of each thread

mutexVars == <<type, locked, owner, rlevel, held>>
vars == <<mutexVars, wqVars>>

\* nanvix_mutex_init
Init ==
    /\ type \in Types
    /\ locked = FALSE
    /\ owner = NoThread
    /\ rlevel = 0
    /\ held = [t \in Thread |-> 0]
    /\ WQInit

-----------------------------------------------------------------------------
(* nanvix_mutex_lock.  Relocking a normal mutex that the caller holds is a *)
(* self-deadlock that clients must avoid.                                  *)

\* The owner is read without the spin lock before anything else; an error
\* checking mutex returns EDEADLK to its owner, which changes nothing.
Lock(t) ==
    /\ type = "normal" => held[t] = 0
    /\ type = "recursive" => held[t] < MaxDepth
    /\ \/ type = "recursive"  /\ owner = t /\ Move(t, "idle", "nest")
       \/ (type = "normal" \/ owner # t)   /\ Move(t, "idle", "try")
    /\ UNCHANGED mutexVars

\* One more level, for the owner of a recursive mutex.
Deepen(t) ==
    /\ rlevel' = rlevel + 1
    /\ held' = [held EXCEPT ![t] = @ + 1]
    /\ UNCHANGED <<type, locked, owner>>

\* lock() does so outside the spin lock.
Nest(t) == Move(t, "nest", "idle") /\ Deepen(t)

\* What taking a free mutex does, in lock() and trylock() alike.
Take(t) ==
    /\ ~locked
    /\ locked' = TRUE
    /\ owner' = t
    /\ rlevel' = IF type = "recursive" THEN rlevel + 1 ELSE rlevel
    /\ held' = [held EXCEPT ![t] = @ + 1]
    /\ UNCHANGED type

LockTake(t) == Move(t, "try", "idle") /\ Take(t)

LockWait(t) == locked /\ Wait(t) /\ UNCHANGED mutexVars

Sleep(t) == KSleep(t) /\ UNCHANGED mutexVars

Resume(t) == KResume(t) /\ UNCHANGED mutexVars

-----------------------------------------------------------------------------
\* nanvix_mutex_trylock; a failure (EBUSY) changes nothing.
TryLock(t) ==
    /\ type = "recursive" => held[t] < MaxDepth
    /\ \/ Take(t)
       \/ locked /\ type = "recursive" /\ owner = t /\ Deepen(t)
    /\ Move(t, "idle", "idle")

-----------------------------------------------------------------------------
(* nanvix_mutex_unlock.  A normal mutex has no owner check: only a holder  *)
(* may unlock it.  The other types may be unlocked by anybody, in error.   *)

Unlock(t) ==
    /\ type = "normal" => held[t] > 0
    /\ Move(t, "idle", "release")
    /\ UNCHANGED mutexVars

\* A seeded fault: the owner check of the recursive mutex is missing.
MayUnlockUnowned(t) ==
    CASE type = "errorcheck" -> locked /\ owner = t
      [] type = "recursive"  -> rlevel > 0
      [] OTHER               -> TRUE

\* The checks of the type.
MayUnlock(t) ==
    CASE type = "errorcheck" -> locked /\ owner = t
      [] type = "recursive"  -> rlevel > 0 /\ owner = t
      [] OTHER               -> TRUE

\* EPERM.
UnlockError(t) == ~MayUnlock(t) /\ WakeNone(t) /\ UNCHANGED mutexVars

\* An inner level of a recursive mutex is left.
UnlockNested(t) ==
    /\ MayUnlock(t) /\ type = "recursive" /\ rlevel > 1
    /\ rlevel' = rlevel - 1
    /\ held' = [held EXCEPT ![t] = @ - 1]
    /\ WakeNone(t)
    /\ UNCHANGED <<type, locked, owner>>

\* The mutex is freed and the head of the queue, if any, is taken out.
Release(t) ==
    /\ MayUnlock(t) /\ (type = "recursive" => rlevel = 1)
    /\ locked' = FALSE
    /\ owner' = NoThread
    /\ rlevel' = IF type = "recursive" THEN 0 ELSE rlevel
    /\ held' = [held EXCEPT ![t] = @ - 1]
    /\ \/ queue = <<>> /\ WakeNone(t)
       \/ WakeHead(t)
    /\ UNCHANGED type

Wakeup(t) == KWakeup(t) /\ UNCHANGED mutexVars

UnlockReturn(t) == WakerReturn(t) /\ UNCHANGED mutexVars

-----------------------------------------------------------------------------
\* What a thread does once it is inside a call.
Step(t) ==
    \/ Nest(t) \/ LockTake(t) \/ LockWait(t) \/ Sleep(t) \/ Resume(t)
    \/ UnlockError(t) \/ UnlockNested(t) \/ Release(t)
    \/ Wakeup(t) \/ UnlockReturn(t)

Next == \E t \in Thread : Lock(t) \/ TryLock(t) \/ Unlock(t) \/ Step(t)

\* A thread inside a call keeps running; no client is obliged to call.
Fairness == \A t \in Thread : WF_vars(Step(t))

Spec == Init /\ [][Next]_vars
FairSpec == Spec /\ Fairness

-----------------------------------------------------------------------------
\* The types of the variables.
TypeOK ==
    /\ type \in Types
    /\ locked \in BOOLEAN
    /\ owner \in Thread \cup {NoThread}
    /\ rlevel \in Nat
    /\ held \in [Thread -> Nat]
    /\ WQTypeOK

\* Mutual exclusion, and the book-keeping of the mutex tells the truth about
\* it: whoever holds the mutex is its recorded owner, to the depth counted in
\* rlevel when it is recursive; and nobody holds a mutex that is not locked.
\* The depth must survive the increment that lock() does outside the spin lock.
Ownership ==
    /\ \A t \in Thread : held[t] > 0 <=> (locked /\ owner = t)
    /\ locked <=> owner # NoThread
    /\ type # "recursive" => \A t \in Thread : held[t] <= 1
    /\ type = "recursive" =>
         \/ locked /\ rlevel = held[owner]
         \/ ~locked /\ rlevel = 0

\* No lost wake-up: a free mutex never leaves its waiters to sleep, one of the
\* threads that were waiting is on its way to take it.
NoLostWakeup ==
    (~locked /\ queue # <<>>) => \E t \in Thread : InTransit(t)

\* The last thread out may destroy the mutex.  When unlock() returns to t while
\* nobody holds the mutex and every other thread is either outside or past the
\* critical section of its own unlock(), then really nobody is inside any more,
\* and the assertions of nanvix_mutex_destroy are true: the wake-up and the
\* return of an earlier unlock() cannot be pending, because of lock2.
LastOneOut(t) ==
    /\ pc[t] = "exit" /\ pc'[t] = "idle"
    /\ \A u \in Thread : held[u] = 0
    /\ \A u \in Thread \ {t} : pc[u] \in {"idle", "wake", "exit"}

DestroyIsSafe ==
    [][\A t \in Thread : LastOneOut(t) =>
         /\ \A u \in Thread : pc'[u] = "idle"
         /\ owner' = NoThread /\ ~locked' /\ queue' = <<>>]_vars

\* A mutex that is free while somebody waits for it is taken eventually.
NoHang ==
    (~locked /\ \E t \in Thread : Waits(t)) ~> locked

=============================================================================
