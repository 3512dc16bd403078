------------------------------ MODULE TidRing -------------------------------
(***************************************************************************)
(* The ring buffer in which mutex.c, semaphore.c and condvar.c keep the    *)
(* threads that wait: tids[], begin, end and size.  The semaphore marks a  *)
(* slot that it empties with -1, the other two leave the old tid in it;    *)
(* the condition variable advances its indices before it uses a slot and   *)
(* not after, which shifts every index by one.                             *)
(***************************************************************************)
EXTENDS Threads, Integers, Sequences, Functions

ASSUME RingAssumption == THREAD_MAX # 0

VARIABLES
    clears,        \* whether an emptied slot is marked: the semaphore
    tids, begin, end, size

ringVars == <<clears, tids, begin, end, size>>

Slot == 0 .. THREAD_MAX - 1

\* What the three init functions do.
RingInit ==
    /\ clears \in BOOLEAN
    /\ tids = [i \in Slot |-> NoThread]
    /\ begin = 0 /\ end = 0 /\ size = 0

-----------------------------------------------------------------------------
NextSlot(i) == (i + 1) % THREAD_MAX

\* The threads in the ring, oldest first.
Queue == [i \in 1 .. size |-> tids[(begin + i - 1) % THREAD_MAX]]

\* A thread that is not waiting starts to.
Enqueue(t) ==
    /\ t \notin Range(Queue)
    /\ tids' = [tids EXCEPT ![end] = t]
    /\ end' = NextSlot(end)
    /\ size' = size + 1
    /\ UNCHANGED <<clears, begin>>

\* A seeded fault: the slot is marked after begin has moved on.
DequeueLate ==
    /\ size > 0
    /\ begin' = NextSlot(begin)
    /\ tids' = IF clears THEN [tids EXCEPT ![NextSlot(begin)] = NoThread] ELSE tids
    /\ size' = size - 1
    /\ UNCHANGED <<clears, end>>

\* The head of the ring is taken out.
Dequeue ==
    /\ size > 0
    /\ tids' = IF clears THEN [tids EXCEPT ![begin] = NoThread] ELSE tids
    /\ begin' = NextSlot(begin)
    /\ size' = size - 1
    /\ UNCHANGED <<clears, end>>

RingNext == Dequeue \/ \E t \in Thread : Enqueue(t)

RingSpec == RingInit /\ [][RingNext]_ringVars

-----------------------------------------------------------------------------
\* The types of the variables: the indices stay in the buffer and the number
\* of threads in it within its size.
RingTypeOK ==
    /\ clears \in BOOLEAN
    /\ tids \in [Slot -> Thread \cup {NoThread}]
    /\ begin \in Slot /\ end \in Slot
    /\ size \in 0 .. THREAD_MAX

\* The sanity checks of semaphore.c before it enqueues a thread that does not
\* wait (no slot at all holds its tid, and the slot at end is marked) are true:
\* the slots outside the queue are all marked, however often the ring wraps.
\* They would not be for the rings that leave old tids behind.
SanityChecks ==
    clears => \A t \in Thread \ Range(Queue) :
                 /\ \A i \in Slot : tids[i] # t
                 /\ tids[end] = NoThread

\* The ring implements the queue.
F == INSTANCE ThreadFifo WITH queue <- Queue

IsFifo == F!Spec

=============================================================================
