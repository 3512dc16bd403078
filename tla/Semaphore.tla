----------------------------- MODULE Semaphore ------------------------------
(***************************************************************************)
(* The sleeping counting semaphore of libnanvix: thread/semaphore.c built  *)
(* with __NANVIX_SEMAPHORE_SLEEP.  Threads wait for it as WaitQueue        *)
(* describes; up() increments the value and wakes one thread, which has to *)
(* compete for the value with every other caller of down().                *)
(***************************************************************************)
EXTENDS WaitQueue, Integers

CONSTANTS
    InitVals,      \* the values a semaphore may be initialised with
    INT_MIN,       \* the value that destroys it
    MaxVal         \* bound: no up() is called at this value

ASSUME ValuesAssumption ==
    InitVals \subseteq Nat /\ INT_MIN \in Int /\ INT_MIN < 0 /\ MaxVal \in Nat

VARIABLE val       \* sem->val

vars == <<val, wqVars>>

\* nanvix_semaphore_init; a negative value is EINVAL.
Init == val \in InitVals /\ WQInit

-----------------------------------------------------------------------------
(* nanvix_semaphore_down                                                   *)

Down(t) == Move(t, "idle", "try") /\ UNCHANGED val

DownTake(t) ==
    /\ val > 0
    /\ val' = val - 1
    /\ Move(t, "try", "idle")

\* A seeded fault: the caller waits although the value just became positive.
DownWaitLate(t) == Wait(t) /\ UNCHANGED val

DownWait(t) == val <= 0 /\ Wait(t) /\ UNCHANGED val

Sleep(t) == KSleep(t) /\ UNCHANGED val

Resume(t) == KResume(t) /\ UNCHANGED val

-----------------------------------------------------------------------------
\* nanvix_semaphore_trywait; a failure (EINVAL) changes nothing.
TryWait(t) ==
    /\ val > 0
    /\ val' = val - 1
    /\ Move(t, "idle", "idle")

-----------------------------------------------------------------------------
(* nanvix_semaphore_up.  Nobody calls it on a destroyed semaphore.         *)

Up(t) ==
    /\ 0 <= val /\ val < MaxVal
    /\ Move(t, "idle", "release")
    /\ UNCHANGED val

Post(t) ==
    /\ val' = val + 1
    /\ \/ queue = <<>> /\ WakeNone(t)
       \/ WakeHead(t)

Wakeup(t) == KWakeup(t) /\ UNCHANGED val

UpReturn(t) == WakerReturn(t) /\ UNCHANGED val

-----------------------------------------------------------------------------
\* nanvix_semaphore_destroy, when no thread is in a call.  A later down()
\* blocks for ever.
Destroy(t) ==
    /\ \A u \in Thread : pc[u] = "idle"
    /\ val >= 0
    /\ val' = INT_MIN
    /\ Move(t, "idle", "idle")

-----------------------------------------------------------------------------
\* What a thread does once it is inside a call.
Step(t) ==
    \/ DownTake(t) \/ DownWait(t) \/ Sleep(t) \/ Resume(t)
    \/ Post(t) \/ Wakeup(t) \/ UpReturn(t)

Next == \E t \in Thread : Down(t) \/ TryWait(t) \/ Up(t) \/ Destroy(t) \/ Step(t)

\* A thread inside a call keeps running; no client is obliged to call.
Fairness == \A t \in Thread : WF_vars(Step(t))

Spec == Init /\ [][Next]_vars
FairSpec == Spec /\ Fairness

-----------------------------------------------------------------------------
\* The types of the variables; in particular no down() ever takes what is not
\* there: the value is negative only in a destroyed semaphore.
TypeOK == val \in Nat \cup {INT_MIN} /\ WQTypeOK

\* No lost wake-up, in numbers: while threads are queued, each unit of the value
\* has a thread on its way to take it, so up() may wake a single thread and a
\* thread that overtakes the woken one takes away its unit, not its wake-up.
NoLostWakeup ==
    queue # <<>> => val <= Cardinality({t \in Thread : InTransit(t)})

\* While the value stays positive, nobody waits for ever.
NoHang ==
    (val > 0 /\ \E t \in Thread : Waits(t))
        ~> (val <= 0 \/ \A t \in Thread : ~Waits(t))

=============================================================================
