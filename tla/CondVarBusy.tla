---------------------------- MODULE CondVarBusy -----------------------------
(***************************************************************************)
(* The condition variable of thread/condvar.c built without                *)
(* __NANVIX_CONDVAR_SLEEP: waiters poll the ring and the flag `locked'     *)
(* instead of sleeping.  A waiter goes on when the slot at `begin' holds   *)
(* its tid and the flag is down, and puts the flag up again.  The mutex is *)
(* only its holder here; Mutex has the details.                            *)
(***************************************************************************)
EXTENDS Naturals

CONSTANTS
    Thread,        \* the threads of the process
    NoThread,      \* the tid -1
    THREAD_MAX     \* slots of tids[]

VARIABLES
    tids, begin, end, size,
    locked,        \* cond->locked
    lock2,         \* the thread holding cond->lock2
    holder,        \* the thread holding the mutex
    pc,            \* where each thread is in the code
    initial,       \* how many more threads its broadcast is to release
    taken          \* history: who was taken out of the ring and has not gone on

ring == <<tids, begin, end, size>>
vars == <<ring, locked, lock2, holder, pc, initial, taken>>

Slot == 0 .. THREAD_MAX - 1
NextSlot(i) == (i + 1) % THREAD_MAX
Goto(t, l) == pc' = [pc EXCEPT ![t] = l]

\* nanvix_cond_init
Init ==
    /\ tids = [i \in Slot |-> NoThread]
    /\ begin = 0 /\ end = 0 /\ size = 0
    /\ locked = TRUE
    /\ lock2 = NoThread
    /\ holder = NoThread
    /\ pc = [t \in Thread |-> "outside"]
    /\ initial = [t \in Thread |-> 0]
    /\ taken = {}

-----------------------------------------------------------------------------
\* A client takes the mutex or releases it.
UseMutex(t) ==
    /\ pc[t] = "outside"
    /\ \/ holder = NoThread /\ holder' = t
       \/ holder = t /\ holder' = NoThread
    /\ UNCHANGED <<ring, locked, lock2, pc, initial, taken>>

\* nanvix_cond_wait: the caller enters the ring,
Enqueue(t) ==
    /\ pc[t] = "outside" /\ holder = t
    /\ end' = NextSlot(end)
    /\ tids' = [tids EXCEPT ![NextSlot(end)] = t]
    /\ size' = size + 1
    /\ Goto(t, "unlock")
    /\ UNCHANGED <<begin, locked, lock2, holder, initial, taken>>

\* releases the mutex,
Unlock(t) ==
    /\ pc[t] = "unlock"
    /\ holder' = NoThread
    /\ Goto(t, "poll")
    /\ UNCHANGED <<ring, locked, lock2, initial, taken>>

\* polls until it is its turn (a turn of the loop that fails changes nothing),
Proceed(t) ==
    /\ pc[t] = "poll"
    /\ tids[begin] = t /\ ~locked
    /\ locked' = TRUE
    /\ taken' = taken \ {t}
    /\ Goto(t, "lock")
    /\ UNCHANGED <<ring, lock2, holder, initial>>

\* and takes the mutex back.
Relock(t) ==
    /\ pc[t] = "lock" /\ holder = NoThread
    /\ holder' = t
    /\ Goto(t, "outside")
    /\ UNCHANGED <<ring, locked, lock2, initial, taken>>

-----------------------------------------------------------------------------
\* The slot of the oldest thread is the next one.
TakeOut ==
    /\ size > 0
    /\ begin' = NextSlot(begin)
    /\ size' = size - 1
    /\ taken' = taken \cup {tids[NextSlot(begin)]}
    /\ UNCHANGED <<tids, end>>

\* nanvix_cond_signal; the flag is put down even when nobody waits.
Signal(t) ==
    /\ pc[t] = "outside" /\ lock2 = NoThread
    /\ TakeOut \/ (size = 0 /\ UNCHANGED <<ring, taken>>)
    /\ locked' = FALSE
    /\ UNCHANGED <<lock2, holder, pc, initial>>

\* nanvix_cond_broadcast takes the first thread out,
Broadcast(t) ==
    /\ pc[t] = "outside" /\ lock2 = NoThread
    /\ TakeOut
    /\ locked' = FALSE
    /\ lock2' = t
    /\ initial' = [initial EXCEPT ![t] = size]
    /\ Goto(t, "handover")
    /\ UNCHANGED holder

\* and when that one has put the flag up, the next one, until it is through.
BroadcastNext(t) ==
    /\ pc[t] = "handover" /\ locked
    /\ initial' = [initial EXCEPT ![t] = @ - 1]
    /\ \/ /\ initial[t] > 1
          /\ TakeOut
          /\ locked' = FALSE
          /\ UNCHANGED <<lock2, pc>>
       \/ /\ initial[t] = 1 \/ size = 0
          /\ lock2' = NoThread
          /\ Goto(t, "outside")
          /\ UNCHANGED <<ring, locked, taken>>
    /\ UNCHANGED holder

-----------------------------------------------------------------------------
\* What a thread does once it is inside a call.
Step(t) == Unlock(t) \/ Proceed(t) \/ Relock(t) \/ BroadcastNext(t)

Next ==
    \E t \in Thread :
        UseMutex(t) \/ Enqueue(t) \/ Signal(t) \/ Broadcast(t) \/ Step(t)

\* A thread inside a call keeps running, and whoever holds the mutex outside any
\* call releases it.  A waiter whose turn comes again and again sees it once.
Release(t) == holder = t /\ UseMutex(t)
Fairness ==
    \A t \in Thread : WF_vars(Step(t)) /\ WF_vars(Release(t)) /\ SF_vars(Proceed(t))

FairSpec == Init /\ [][Next]_vars /\ Fairness

-----------------------------------------------------------------------------
\* "Unlock the first thread blocked on a condition variable": whoever a signal has
\* taken out of the ring gets past its loop.
SignalsRelease == \A t \in Thread : t \in taken ~> t \notin taken

=============================================================================
