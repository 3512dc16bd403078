----------------------------- MODULE WaitQueue -----------------------------
(***************************************************************************)
(* The way threads wait and are woken in libnanvix: mutex.c, semaphore.c   *)
(* and condvar.c each repeat it around a state of their own, which the     *)
(* modules that extend this one declare.                                   *)
(*                                                                         *)
(* A waiter appends itself to a queue under the spin lock `lock', releases *)
(* the lock and then goes to sleep in the kernel; this is not atomic, so   *)
(* the waker takes the head of the queue out under `lock' and keeps        *)
(* calling kwakeup() on it until it is really asleep, holding a second     *)
(* spin lock, lock2.  `lock' is only held over straight-line code: each of *)
(* its critical sections is one action.  A failed kwakeup() is a           *)
(* stuttering step.  The ring tids/begin/end/size is a sequence here;      *)
(* TidRing models the buffer itself.                                       *)
(***************************************************************************)
EXTENDS Threads, Sequences, Functions

VARIABLES
    queue,         \* tids[] from begin, size entries
    lock2,         \* the thread holding lock2
    sleeping,      \* kernel: the threads blocked in ksleep()
    pc,            \* where each thread is in the code
    target         \* the tid each waker took out of the queue

wqVars == <<queue, lock2, sleeping, pc, target>>

PCs == {"idle", "nest", "try", "sleep", "asleep", "release", "wake", "exit"}

WQInit ==
    /\ queue = <<>>
    /\ lock2 = NoThread
    /\ sleeping = {}
    /\ pc = [t \in Thread |-> "idle"]
    /\ target = [t \in Thread |-> NoThread]

WQTypeOK ==
    /\ queue \in Seq(Thread)
    /\ lock2 \in Thread \cup {NoThread}
    /\ sleeping \subseteq Thread
    /\ pc \in [Thread -> PCs]
    /\ target \in [Thread -> Thread \cup {NoThread}]

-----------------------------------------------------------------------------
(* The waiter.                                                             *)

Goto(t, l) == pc' = [pc EXCEPT ![t] = l]

\* A step that does not touch the queue.
Move(t, from, to) ==
    /\ pc[t] = from
    /\ Goto(t, to)
    /\ UNCHANGED <<queue, lock2, sleeping, target>>

\* Inside the critical section that found that it has to wait.
Wait(t) ==
    /\ pc[t] = "try"
    /\ queue' = Append(queue, t)
    /\ Goto(t, "sleep")
    /\ UNCHANGED <<lock2, sleeping, target>>

\* ksleep() takes effect some time after the spin lock is released.
KSleep(t) ==
    /\ pc[t] = "sleep"
    /\ sleeping' = sleeping \cup {t}
    /\ Goto(t, "asleep")
    /\ UNCHANGED <<queue, lock2, target>>

\* ksleep() returns and the waiter tries again.
KResume(t) == t \notin sleeping /\ Move(t, "asleep", "try")

-----------------------------------------------------------------------------
(* The waker.                                                              *)

\* A seeded fault: the wakers are not serialised.
TakeLock2Anyway(t) == lock2' = t

\* spinlock_lock(&lock2), just before the critical section under `lock'.
TakeLock2(t) == lock2 = NoThread /\ lock2' = t

\* The critical section ends without anybody to wake.
WakeNone(t) ==
    /\ pc[t] = "release"
    /\ TakeLock2(t)
    /\ Goto(t, "exit")
    /\ UNCHANGED <<queue, sleeping, target>>

\* A seeded fault: the head of the queue is read but stays in it.
PeekHead(t) ==
    /\ pc[t] = "release"
    /\ TakeLock2(t)
    /\ queue # <<>>
    /\ target' = [target EXCEPT ![t] = Head(queue)]
    /\ Goto(t, "wake")
    /\ UNCHANGED <<queue, sleeping>>

\* The head of the queue is taken out to be woken.
WakeHead(t) ==
    /\ pc[t] = "release"
    /\ TakeLock2(t)
    /\ queue # <<>>
    /\ target' = [target EXCEPT ![t] = Head(queue)]
    /\ queue' = Tail(queue)
    /\ Goto(t, "wake")
    /\ UNCHANGED sleeping

\* A seeded fault: kwakeup() is called once, whether it succeeds or not.
KWakeupOnce(t) ==
    /\ pc[t] = "wake"
    /\ sleeping' = sleeping \ {target[t]}
    /\ target' = [target EXCEPT ![t] = NoThread]
    /\ Goto(t, "exit")
    /\ UNCHANGED <<queue, lock2>>

\* while (kwakeup(head) != 0): succeeds once the head is asleep.
KWakeup(t) ==
    /\ pc[t] = "wake"
    /\ target[t] \in sleeping
    /\ sleeping' = sleeping \ {target[t]}
    /\ target' = [target EXCEPT ![t] = NoThread]
    /\ Goto(t, "exit")
    /\ UNCHANGED <<queue, lock2>>

\* lock2 is released and the call returns.
WakerReturn(t) ==
    /\ pc[t] = "exit"
    /\ lock2' = NoThread
    /\ Goto(t, "idle")
    /\ UNCHANGED <<queue, sleeping, target>>

-----------------------------------------------------------------------------
(* What the scheme promises, whatever state it is used around.             *)

\* A waiter sleeps, or is about to; a waker is waking its target.
Waits(t) == pc[t] = "sleep" \/ (pc[t] = "asleep" /\ t \in sleeping)
Targeted(t) == \E u \in Thread : pc[u] = "wake" /\ target[u] = t

\* Out of the queue and on its way to look at the state again: being woken,
\* awake, or just about to look.
InTransit(t) ==
    \/ pc[t] = "try"
    \/ pc[t] = "asleep" /\ t \notin sleeping
    \/ Targeted(t)

\* Every waiter is accounted for: a thread that is going to sleep or asleep is
\* either queued exactly once or the target of a waker, never both, so no
\* wake-up is spent on a thread that does not sleep for it.
WaitersAccounted ==
    /\ IsInjective(queue)
    /\ \A t \in Thread : Waits(t) <=> (t \in Range(queue) \/ Targeted(t))
    /\ \A t \in Thread : ~(t \in Range(queue) /\ Targeted(t))

\* The assertions of the code before it enqueues: the caller is not queued
\* already (semaphore.c calls it a double down) and the ring is not full.
EnqueueAsserts ==
    \A t \in Thread :
        pc[t] = "try" => t \notin Range(queue) /\ Len(queue) < THREAD_MAX

\* A waker that spins on kwakeup() returns eventually.
WakeupEnds ==
    \A t \in Thread : pc[t] = "wake" ~> pc[t] = "idle"

=============================================================================
