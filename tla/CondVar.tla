------------------------------ MODULE CondVar -------------------------------
(***************************************************************************)
(* The condition variable of libnanvix, thread/condvar.c, built with       *)
(* __NANVIX_CONDVAR_SLEEP, and the mutex that its waiters release and take *)
(* back.  A thread has one place to sleep in the kernel, `sleeping', for   *)
(* the mutex and the condition variable alike, so that a wake-up for one   *)
(* could reach a thread that sleeps for the other.                         *)
(***************************************************************************)
EXTENDS Mutex

VARIABLES
    cqueue,        \* the ring of the condition variable
    clock2,        \* the thread holding its lock2
    cpc,           \* where each thread is in the code of the condition variable
    ctarget,       \* the tid each signaller took out of the ring
    initial        \* how many more threads its broadcast is to wake

condVars == <<cqueue, clock2, cpc, ctarget, initial>>
allVars == <<vars, condVars>>

\* nanvix_cond_init
CondInit ==
    /\ Init
    /\ cqueue = <<>>
    /\ clock2 = NoThread
    /\ cpc = [t \in Thread |-> "outside"]
    /\ ctarget = [t \in Thread |-> NoThread]
    /\ initial = [t \in Thread |-> 0]

At(t, l) == cpc' = [cpc EXCEPT ![t] = l]

-----------------------------------------------------------------------------
(* The mutex, which threads also use by themselves.                        *)

\* A call from outside.
Client(t) ==
    /\ cpc[t] = "outside"
    /\ Lock(t) \/ TryLock(t) \/ Unlock(t)
    /\ UNCHANGED condVars

\* What follows the return of nanvix_mutex_unlock and nanvix_mutex_lock.
After(l) == CASE l = "unlock" -> "sleep"
              [] l = "lock"   -> "outside"
              [] OTHER        -> l

MutexStep(t) ==
    /\ Step(t)
    /\ At(t, IF pc'[t] = "idle" THEN After(cpc[t]) ELSE cpc[t])
    /\ UNCHANGED <<cqueue, clock2, ctarget, initial>>

-----------------------------------------------------------------------------
(* nanvix_cond_wait, called by a thread that holds the mutex once.         *)

\* The caller enters the ring.
CondEnqueue(t) ==
    /\ cpc[t] = "outside" /\ pc[t] = "idle" /\ held[t] = 1
    /\ cqueue' = Append(cqueue, t)
    /\ At(t, "waiting")
    /\ UNCHANGED <<vars, clock2, ctarget, initial>>

CondUnlock(t) ==
    /\ cpc[t] = "waiting"
    /\ Unlock(t)
    /\ At(t, "unlock")
    /\ UNCHANGED <<cqueue, clock2, ctarget, initial>>

\* ksleep()
CondSleep(t) ==
    /\ cpc[t] = "sleep"
    /\ sleeping' = sleeping \cup {t}
    /\ At(t, "asleep")
    /\ UNCHANGED <<mutexVars, queue, lock2, pc, target, cqueue, clock2, ctarget, initial>>

\* ksleep() returns and the mutex is locked again.
CondResume(t) ==
    /\ cpc[t] = "asleep" /\ t \notin sleeping
    /\ Lock(t)
    /\ At(t, "lock")
    /\ UNCHANGED <<cqueue, clock2, ctarget, initial>>

-----------------------------------------------------------------------------
(* nanvix_cond_signal and nanvix_cond_broadcast, with the mutex or without *)

CondCall(t, l) ==
    /\ cpc[t] = "outside" /\ pc[t] = "idle"
    /\ At(t, l)
    /\ UNCHANGED <<vars, cqueue, clock2, ctarget, initial>>

Signal(t) == CondCall(t, "signal")
Broadcast(t) == CondCall(t, "broadcast")

\* A seeded fault: the ring keeps the thread that is woken.
TakeOutNone(t) ==
    /\ cqueue # <<>>
    /\ ctarget' = [ctarget EXCEPT ![t] = Head(cqueue)]
    /\ At(t, "wake")
    /\ UNCHANGED <<vars, cqueue>>

\* The head of the ring is taken out.
TakeOut(t) ==
    /\ cqueue # <<>>
    /\ ctarget' = [ctarget EXCEPT ![t] = Head(cqueue)]
    /\ cqueue' = Tail(cqueue)
    /\ At(t, "wake")
    /\ UNCHANGED vars

NobodyWaits(t) ==
    /\ cqueue = <<>>
    /\ At(t, "exit")
    /\ UNCHANGED <<vars, cqueue, ctarget>>

\* lock2 is taken, and the critical section: signal() takes one thread out.
SignalOne(t) ==
    /\ cpc[t] = "signal"
    /\ clock2 = NoThread /\ clock2' = t
    /\ TakeOut(t) \/ NobodyWaits(t)
    /\ UNCHANGED initial

\* broadcast() is to take out as many as there are now, and takes out the first.
BroadcastFirst(t) ==
    /\ cpc[t] = "broadcast"
    /\ clock2 = NoThread /\ clock2' = t
    /\ \/ TakeOut(t) /\ initial' = [initial EXCEPT ![t] = Len(cqueue) - 1]
       \/ NobodyWaits(t) /\ UNCHANGED initial

\* A seeded fault: the loop ends one thread too early.
BroadcastNextShort(t) ==
    /\ cpc[t] = "more"
    /\ \/ /\ initial[t] > 1
          /\ TakeOut(t)
          /\ initial' = [initial EXCEPT ![t] = @ - 1]
       \/ /\ initial[t] <= 1 \/ cqueue = <<>>
          /\ At(t, "exit")
          /\ initial' = [initial EXCEPT ![t] = 0]
          /\ UNCHANGED <<vars, cqueue, ctarget>>
    /\ UNCHANGED clock2

\* The loop goes on, with the spin lock taken again; signal() is past its one.
BroadcastNext(t) ==
    /\ cpc[t] = "more"
    /\ \/ /\ initial[t] > 0
          /\ TakeOut(t)
          /\ initial' = [initial EXCEPT ![t] = @ - 1]
       \/ /\ initial[t] = 0 \/ cqueue = <<>>
          /\ At(t, "exit")
          /\ initial' = [initial EXCEPT ![t] = 0]
          /\ UNCHANGED <<vars, cqueue, ctarget>>
    /\ UNCHANGED clock2

\* while (kwakeup(head) != 0), without the spin lock.
CondWakeup(t) ==
    /\ cpc[t] = "wake"
    /\ ctarget[t] \in sleeping
    /\ sleeping' = sleeping \ {ctarget[t]}
    /\ ctarget' = [ctarget EXCEPT ![t] = NoThread]
    /\ At(t, "more")
    /\ UNCHANGED <<mutexVars, queue, lock2, pc, target, cqueue, clock2, initial>>

\* lock2 is released and the call returns.
CondReturn(t) ==
    /\ cpc[t] = "exit"
    /\ clock2' = NoThread
    /\ At(t, "outside")
    /\ UNCHANGED <<vars, cqueue, ctarget, initial>>

-----------------------------------------------------------------------------
\* What a thread does once it is inside a call.
CondStep(t) ==
    \/ MutexStep(t)
    \/ CondUnlock(t) \/ CondSleep(t) \/ CondResume(t)
    \/ SignalOne(t) \/ BroadcastFirst(t) \/ BroadcastNext(t)
    \/ CondWakeup(t) \/ CondReturn(t)

CondNext ==
    \E t \in Thread :
        Client(t) \/ CondEnqueue(t) \/ Signal(t) \/ Broadcast(t) \/ CondStep(t)

\* A thread inside a call keeps running; no client is obliged to call.
CondFairness == \A t \in Thread : WF_allVars(CondStep(t))

CondSpec == CondInit /\ [][CondNext]_allVars
FairCondSpec == CondSpec /\ CondFairness

-----------------------------------------------------------------------------
CPCs == {"outside", "waiting", "unlock", "sleep", "asleep", "lock",
         "signal", "broadcast", "wake", "more", "exit"}

\* The types of the variables, those of the mutex included.
CondTypeOK ==
    /\ TypeOK
    /\ cqueue \in Seq(Thread)
    /\ clock2 \in Thread \cup {NoThread}
    /\ cpc \in [Thread -> CPCs]
    /\ ctarget \in [Thread -> Thread \cup {NoThread}]
    /\ initial \in [Thread -> Nat]

\* From the moment it enters the ring, still holding the mutex, until it is
\* woken, a thread waits for the condition.
CondWaits(t) ==
    \/ cpc[t] \in {"waiting", "unlock", "sleep"}
    \/ cpc[t] = "asleep" /\ t \in sleeping
CondTargeted(t) == \E u \in Thread : cpc[u] = "wake" /\ ctarget[u] = t

\* No signal is missed and none wakes a thread that does not wait: those that
\* wait are the ones in the ring, once, or being woken.  Whoever takes the mutex
\* after a waiter released it finds it there.
CondAccounted ==
    /\ IsInjective(cqueue)
    /\ \A t \in Thread : CondWaits(t) <=> (t \in Range(cqueue) \/ CondTargeted(t))
    /\ \A t \in Thread : ~(t \in Range(cqueue) /\ CondTargeted(t))

\* The mutex and the condition variable do not wake each other's sleepers: a
\* thread sleeps for one of them, and that one accounts for it.
SleepersApart ==
    /\ \A t \in sleeping : pc[t] = "asleep" <=> cpc[t] # "asleep"
    /\ WaitersAccounted

\* Whoever a signal has taken out wakes, and a broadcast wakes all that waited when
\* it began, whatever happens while its lock is free between two of them.
Promised(t) ==
    \/ CondTargeted(t)
    \/ \E u \in Thread : \E i \in 1 .. initial[u] : i <= Len(cqueue) /\ cqueue[i] = t

SignalsWake == \A t \in Thread : Promised(t) ~> ~CondWaits(t)

=============================================================================
