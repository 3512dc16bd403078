------------------------------- MODULE Fence --------------------------------
(***************************************************************************)
(* The sense-reversing fence of libnanvix, thread/fence.c: the threads of  *)
(* a process count themselves in and then spin on `release', which the     *)
(* last one toggles.  Each critical section of the spin lock is one        *)
(* action; polling a value that has not changed is a stuttering step.      *)
(***************************************************************************)
EXTENDS Naturals, FiniteSets

CONSTANTS
    Thread,        \* the threads that share the fence
    MaxRounds      \* bound: times that a thread calls fence()

ASSUME ThreadAssumption == IsFiniteSet(Thread)
ASSUME RoundsAssumption == MaxRounds \in Nat

VARIABLES
    nreached,      \* b->nreached
    release,       \* b->release
    local,         \* local_release of each thread
    pc,            \* where each thread is in the code
    entered,       \* history: calls of fence() by each thread
    gen            \* history: how many times the fence opened

vars == <<nreached, release, local, pc, entered, gen>>

ncores == Cardinality(Thread)

\* fence_init(b, ncores)
Init ==
    /\ nreached = 0
    /\ release = 0
    /\ local = [t \in Thread |-> 0]
    /\ pc = [t \in Thread |-> "outside"]
    /\ entered = [t \in Thread |-> 0]
    /\ gen = 0

-----------------------------------------------------------------------------
\* A seeded fault: the count is not reset when the fence opens.
CountForever(n) ==
    IF nreached + 1 = n
    THEN nreached' = nreached + 1 /\ release' = 1 - release /\ gen' = gen + 1
    ELSE nreached' = nreached + 1 /\ UNCHANGED <<release, gen>>

\* A seeded fault: the fence opens for the last but one.
CountShort(n) ==
    IF nreached + 2 >= n
    THEN nreached' = 0 /\ release' = 1 - release /\ gen' = gen + 1
    ELSE nreached' = nreached + 1 /\ UNCHANGED <<release, gen>>

\* b->nreached++, and the last of n threads opens the fence.
Count(n) ==
    IF nreached + 1 = n
    THEN nreached' = 0 /\ release' = 1 - release /\ gen' = gen + 1
    ELSE nreached' = nreached + 1 /\ UNCHANGED <<release, gen>>

\* The first critical section of fence().
Arrive(t) ==
    /\ pc[t] = "outside"
    /\ entered[t] < MaxRounds
    /\ local' = [local EXCEPT ![t] = 1 - release]
    /\ Count(ncores)
    /\ entered' = [entered EXCEPT ![t] = @ + 1]
    /\ pc' = [pc EXCEPT ![t] = "spin"]

\* The loop ends: local_release == b->release.
Leave(t) ==
    /\ pc[t] = "spin"
    /\ local[t] = release
    /\ pc' = [pc EXCEPT ![t] = "outside"]
    /\ UNCHANGED <<nreached, release, local, entered, gen>>

Next == \E t \in Thread : Arrive(t) \/ Leave(t)

\* A thread that spins keeps running; no thread is obliged to arrive.
Fairness == \A t \in Thread : WF_vars(Leave(t))

Spec == Init /\ [][Next]_vars
FairSpec == Spec /\ Fairness

-----------------------------------------------------------------------------
\* The types of the variables; the fence is never left full.
TypeOK ==
    /\ nreached \in Nat /\ (Thread # {} => nreached < ncores)
    /\ release \in {0, 1}
    /\ local \in [Thread -> {0, 1}]
    /\ pc \in [Thread -> {"outside", "spin"}]
    /\ entered \in [Thread -> Nat]
    /\ gen \in Nat

\* The threads that are held back, and the invariant that makes the fence
\* reusable: they are exactly the ones counted in nreached and one round ahead
\* of all others, even when some have not noticed yet that the last round is
\* over.
Held == {t \in Thread : pc[t] = "spin" /\ local[t] # release}

RoundsAgree ==
    /\ nreached = Cardinality(Held)
    /\ \A t \in Held : entered[t] = gen + 1
    /\ \A t \in Thread \ Held : entered[t] = gen

\* The fence implements the rendezvous: no thread gets past its r-th fence()
\* before every thread has called its r-th.
R == INSTANCE Rendezvous
       WITH Participant <- Thread, inside <- {t \in Thread : pc[t] = "spin"}

IsRendezvous == R!Spec

\* A thread that spins although all have arrived gets through, however fast the
\* others come back: they cannot toggle `release' again without it.
Opens ==
    \A t \in Thread :
        (pc[t] = "spin" /\ \A u \in Thread : entered[u] >= entered[t])
            ~> pc[t] = "outside"

=============================================================================
