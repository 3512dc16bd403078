------------------------------ MODULE Barrier -------------------------------
(***************************************************************************)
(* The barrier between nodes, ikc/barrier.c, over the synchronization      *)
(* points of Sync: all followers signal the leader through Arrival         *)
(* (syncs[0]), which then signals them all through Departure (syncs[1]).   *)
(*                                                                         *)
(* Every thread has a barrier of its own, as those of ikc/stdsync.c: it    *)
(* creates it, waits on it, destroys it and may create it again.  The      *)
(* barriers of the threads of one node share its two entries.  The delay   *)
(* at the end of barrier_create takes no part in this: a follower may      *)
(* signal before the leader has created its end.  Any of the calls of Sync *)
(* may fail; barrier_create does not look at their results, so that a      *)
(* barrier may lack one of its points.  barrier_destroy gets the barrier   *)
(* by value: where one of its calls has failed, the caller still has both  *)
(* ids, and may destroy the barrier again, wait on it, or replace it by a  *)
(* new one.  No barrier is used after a destroy of it has succeeded.       *)
(***************************************************************************)
EXTENDS Sync

CONSTANTS
    Arrival, Departure,   \* syncs[0] and syncs[1]
    MaxRounds,            \* bound: calls of barrier_wait by a thread
    Scenes                \* bound: the instances to be explored, one per behaviour

ASSUME BarrierAssumption ==
    /\ {Arrival, Departure} \subseteq Sync
    /\ Kind[Arrival] = "all_to_one" /\ Kind[Departure] = "one_to_all"
    /\ Master[Arrival] = Master[Departure] /\ Members[Arrival] = Members[Departure]
    /\ MaxRounds \in Nat

\* An instance: the threads that take part, on nodes of the list, whether they have
\* their barriers from the start, how many calls of Sync may fail, how often a
\* thread calls barrier_wait, and after how many of them it may destroy.
ASSUME SceneAssumption ==
    \A c \in Scenes :
        /\ c.who \subseteq Thread /\ IsFiniteSet(c.who)
        /\ \A t \in c.who : NodeOf[t] \in Members[Arrival]
        /\ c.ready \in BOOLEAN /\ c.faults \in Nat
        /\ c.rounds \in 0..MaxRounds /\ c.destroyAfter \subseteq Nat

VARIABLES
    scene,         \* the instance that this behaviour explores
    faults,        \* how many calls may still fail in it
    at,            \* where each thread is in the use of its barrier
    syncs,         \* the points of which its barrier has got an id
    held,          \* those of which it has a reference
    failed,        \* whether `ret' is an error in its current call
    entered,       \* history: its calls of barrier_wait
    left,          \* history: those that returned zero
    leaked,        \* history [node][sync]: references that no barrier has any more
    taken          \* history [node]: points released by a barrier that had no reference

historyOfWaits == <<entered, left>>
historyOfRefs == <<leaked, taken>>
barrierVars == <<scene, faults, at, syncs, held, failed, historyOfWaits, historyOfRefs>>
allVars == <<vars, barrierVars>>

On(n) == {t \in scene.who : NodeOf[t] = n}

BarrierInit ==
    /\ scene \in Scenes
    /\ faults = scene.faults
    /\ InitWith([n \in Node |-> [s \in Sync |->
                    IF scene.ready /\ s \in {Arrival, Departure} THEN Cardinality(On(n)) ELSE 0]])
    /\ at = [t \in Thread |-> IF scene.ready THEN "ready" ELSE "none"]
    /\ syncs = [t \in Thread |-> IF scene.ready THEN {Arrival, Departure} ELSE {}]
    /\ held = syncs
    /\ failed = [t \in Thread |-> FALSE]
    /\ entered = [t \in Thread |-> 0]
    /\ left = [t \in Thread |-> 0]
    /\ leaked = [n \in Node |-> [s \in Sync |-> 0]]
    /\ taken = [n \in Node |-> {}]

At(t, l) == at' = [at EXCEPT ![t] = l]

\* A call of Sync fails, without any effect.
OneFails == faults > 0 /\ faults' = faults - 1

-----------------------------------------------------------------------------
Leader(t) == NodeOf[t] = Master[Arrival]

\* The end that a thread creates and the one that it opens.
Input(t) == IF Leader(t) THEN Arrival ELSE Departure
Output(t) == IF Leader(t) THEN Departure ELSE Arrival

\* BARRIER_IS_VALID.
IsValid(t) == syncs[t] = {Arrival, Departure}

\* The call for s is refused: EBUSY while a call of another thread of the node uses
\* the entry, EBADF when there is none.  The id of a point that the barrier has
\* released already may be that of an entry which others use, or of none.
Rejected(t, s) ==
    \/ s \in busy[NodeOf[t]]
    \/ refcount[NodeOf[t]][s] = 0
    \/ s \notin held[t]

\* barrier_create: ksync_create into a new barrier_t, which replaces that of an
\* earlier failure with whatever it holds, then ksync_open.
CreateInput(t) ==
    LET n == NodeOf[t] IN
    /\ at[t] = "none"
    /\ leaked' = [leaked EXCEPT ![n] =
                     [s \in Sync |-> @[s] + (IF s \in held[t] \ taken[n] THEN 1 ELSE 0)]]
    /\ \/ /\ Alloc(t, Input(t))
          /\ syncs' = [syncs EXCEPT ![t] = {Input(t)}]
          /\ held' = [held EXCEPT ![t] = {Input(t)}]
          /\ UNCHANGED faults
       \/ /\ OneFails
          /\ syncs' = [syncs EXCEPT ![t] = {}]
          /\ held' = [held EXCEPT ![t] = {}]
          /\ UNCHANGED vars
    /\ At(t, "created")

CreateOutput(t) ==
    /\ at[t] = "created"
    /\ \/ /\ Alloc(t, Output(t))
          /\ syncs' = [syncs EXCEPT ![t] = @ \cup {Output(t)}]
          /\ held' = [held EXCEPT ![t] = @ \cup {Output(t)}]
          /\ UNCHANGED faults
       \/ OneFails /\ UNCHANGED <<vars, syncs, held>>
    /\ At(t, "ready")
    /\ UNCHANGED leaked

Create(t) ==
    /\ entered[t] < scene.rounds
    /\ CreateInput(t) \/ CreateOutput(t)
    /\ UNCHANGED <<scene, failed, historyOfWaits, taken>>

\* A caller that has got an invalid barrier gives it up.
GiveUp(t) ==
    /\ at[t] = "ready" /\ ~IsValid(t)
    /\ At(t, "none")
    /\ UNCHANGED <<vars, scene, faults, syncs, held, failed, historyOfWaits, historyOfRefs>>

\* ksync_unlink or ksync_close succeeds.
Remove(t, s) ==
    /\ Release(t, s)
    /\ held' = [held EXCEPT ![t] = @ \ {s}]
    /\ taken' = IF s \in held[t] THEN taken
                ELSE [taken EXCEPT ![NodeOf[t]] = @ \cup {s}]

\* barrier_destroy, the removal of syncs[0].
DestroyFirst(t) ==
    /\ at[t] = "ready" /\ IsValid(t)
    /\ \/ Remove(t, Arrival) /\ UNCHANGED failed
       \/ /\ Rejected(t, Arrival)
          /\ failed' = [failed EXCEPT ![t] = TRUE]
          /\ UNCHANGED <<vars, held, taken>>
    /\ At(t, "closing")

\* Then that of syncs[1], whatever became of the first.  The barrier of the caller
\* is what it was; after an error the caller keeps it or gives it up.
DestroySecond(t) ==
    /\ at[t] = "closing"
    /\ \/ /\ Remove(t, Departure)
          /\ At(t, "none") \/ (failed[t] /\ At(t, "ready"))
       \/ /\ Rejected(t, Departure)
          /\ UNCHANGED <<vars, held, taken>>
          /\ At(t, "none") \/ At(t, "ready")
    /\ failed' = [failed EXCEPT ![t] = FALSE]

Destroy(t) ==
    /\ entered[t] \in scene.destroyAfter
    /\ DestroyFirst(t) \/ DestroySecond(t)
    /\ UNCHANGED <<scene, faults, syncs, historyOfWaits, leaked>>

-----------------------------------------------------------------------------
(* barrier_wait                                                            *)

\* A seeded fault: the leader signals before it waits.
CallsSwapped(t) == IF Leader(t) THEN <<Departure, Arrival>> ELSE <<Arrival, Departure>>

\* What the two calls are about: the leader waits and then signals, a follower
\* signals and then waits.
Calls(t) == <<Arrival, Departure>>

\* The barrier_wait of t returns.
Return(t, error) ==
    /\ At(t, "ready")
    /\ left' = IF error THEN left ELSE [left EXCEPT ![t] = @ + 1]
    /\ failed' = [failed EXCEPT ![t] = FALSE]
    /\ UNCHANGED <<scene, faults, syncs, held, entered, historyOfRefs>>

\* EINVAL for an invalid barrier.
Refuse(t) ==
    /\ at[t] = "ready" /\ ~IsValid(t)
    /\ entered[t] < scene.rounds
    /\ entered' = [entered EXCEPT ![t] = @ + 1]
    /\ UNCHANGED <<vars, scene, faults, at, syncs, held, failed, left, historyOfRefs>>

\* The first call; an error is noted and the caller goes on.
Enter(t) ==
    /\ at[t] = "ready" /\ IsValid(t)
    /\ entered[t] < scene.rounds
    /\ entered' = [entered EXCEPT ![t] = @ + 1]
    /\ \/ /\ Wait(t, Calls(t)[1]) \/ Signal(t, Calls(t)[1])
          /\ At(t, "first")
          /\ UNCHANGED failed
       \/ /\ Rejected(t, Calls(t)[1])
          /\ At(t, "between")
          /\ failed' = [failed EXCEPT ![t] = TRUE]
          /\ UNCHANGED vars
    /\ UNCHANGED <<scene, faults, syncs, held, left, historyOfRefs>>

\* The second call, whatever the result of the first.
Proceed(t) ==
    /\ at[t] = "between"
    /\ \/ /\ Wait(t, Calls(t)[2]) \/ Signal(t, Calls(t)[2])
          /\ At(t, "second")
          /\ UNCHANGED <<scene, faults, syncs, held, failed, historyOfWaits, historyOfRefs>>
       \/ /\ Rejected(t, Calls(t)[2])
          /\ Return(t, TRUE)
          /\ UNCHANGED vars

\* What becomes of barrier_wait with a step of ksync_wait or ksync_signal.
Goes(t, error) ==
    IF pc'[t] # "idle" THEN UNCHANGED barrierVars
    ELSE IF at[t] = "first"
    THEN /\ At(t, "between")
         /\ UNCHANGED <<scene, faults, syncs, held, failed, historyOfWaits, historyOfRefs>>
    ELSE Return(t, error)

\* A seeded fault: only the result of the second call is returned.
RunForgets(t) == Step(t) /\ Goes(t, FALSE)

\* What happens inside them, up to their return.
Run(t) == Step(t) /\ Goes(t, failed[t])

\* They fail.
Fail(t) ==
    /\ ReadError(t) \/ SendError(t)
    /\ OneFails
    /\ failed' = [failed EXCEPT ![t] = TRUE]
    /\ UNCHANGED <<scene, at, syncs, held, historyOfWaits, historyOfRefs>>

BarrierNext ==
    \E t \in scene.who :
        \/ Create(t) \/ GiveUp(t) \/ Destroy(t)
        \/ Refuse(t) \/ Enter(t) \/ Proceed(t) \/ Run(t) \/ Fail(t)

\* A thread inside barrier_wait keeps running; no thread is obliged to call it.
BarrierFairness == \A t \in Thread : WF_allVars(Proceed(t) \/ Run(t))

BarrierSpec == BarrierInit /\ [][BarrierNext]_allVars
FairBarrierSpec == BarrierSpec /\ BarrierFairness

-----------------------------------------------------------------------------
Inside(t) == at[t] \in {"first", "between", "second"}

Sum(f, n) == MapThenSumSet(LAMBDA t : f[t], On(n))

\* The types of the variables, those of Sync included.
BarrierTypeOK ==
    /\ TypeOK
    /\ scene \in Scenes /\ faults \in 0..scene.faults
    /\ at \in [Thread -> {"none", "created", "ready", "first", "between", "second", "closing"}]
    /\ syncs \in [Thread -> SUBSET {Arrival, Departure}]
    /\ held \in [Thread -> SUBSET {Arrival, Departure}]
    /\ failed \in [Thread -> BOOLEAN]
    /\ entered \in [Thread -> 0..MaxRounds]
    /\ left \in [Thread -> 0..MaxRounds]
    /\ leaked \in [Node -> [Sync -> Nat]]
    /\ taken \in [Node -> SUBSET {Arrival, Departure}]

\* Where one thread of each node uses the barrier, and nothing fails, it does
\* what barriers do.
OneEach ==
    /\ scene.faults = 0
    /\ \A n \in Members[Arrival] : Cardinality(On(n)) = 1

\* There it implements the rendezvous of the nodes: none returns from its r-th
\* barrier_wait before every node has called its r-th, although barriers are
\* destroyed and created again on each node when it likes.
R == INSTANCE Rendezvous WITH
       Participant <- Members[Arrival],
       entered <- [n \in Members[Arrival] |-> IF OneEach THEN Sum(entered, n) ELSE 0],
       inside <- {n \in Members[Arrival] : OneEach /\ \E t \in On(n) : Inside(t)}

IsRendezvous == R!Spec

\* A barrier can be used again, and destroyed: when nobody is inside, no signal
\* is on its way or counted, which the next round would take for its own.
Quiescent ==
    OneEach /\ (\A t \in Thread : ~Inside(t)) =>
        \A n \in Node :
            /\ inbox[n] = <<>>
            /\ \A s \in Sync : refcount[n][s] > 0 => barrier[n][s] = {} /\ nbarriers[n][s] = 0

\* No signal is forgotten, though nobody waits for the others to have created
\* their ends, or not to have destroyed them: a signal that comes early stays in
\* the mailbox until its own receiver, the only reader, waits for it.
NothingLost == OneEach => \A n \in Node, s \in Sync, m \in Node : lost[n][s][m] = 0

\* When all have called their r-th barrier_wait, all return from it.
Meets ==
    \A t \in Thread :
        (OneEach /\ Inside(t) /\ \A u \in scene.who : entered[u] >= entered[t]) ~> ~Inside(t)

\* "The barrier_wait() function causes the calling peer to block until all other
\* participants of the barrier have reached it": the threads of a node have not
\* returned with success more often than those of any other have called.
OthersReached == \A m, n \in Members[Arrival] : Sum(left, m) <= Sum(entered, n)

\* If that fails, some barrier_wait has met an error, on this node or another: with
\* threads that share a barrier and calls that fail, only the threads that saw no
\* error can have left early.
NoErrorYet ==
    \A t \in scene.who :
        entered[t] = left[t] + (IF Inside(t) /\ ~failed[t] THEN 1 ELSE 0)

EarlyOnlyAfterError == NoErrorYet => OthersReached

\* The references of a node's points are those of its threads' barriers and those
\* that a failed barrier_create or barrier_destroy has left behind, through calls
\* that fail at any place and barriers that are destroyed while others wait on
\* them.  The one exception is a barrier that is destroyed again, after a
\* barrier_destroy which failed at one of its points: that releases the other one a
\* second time, and takes it from the barrier of another thread.
RefsHeld ==
    \A n \in Node : \A s \in {Arrival, Departure} \ taken[n] :
        refcount[n][s] = Cardinality({t \in On(n) : s \in held[t]}) + leaked[n][s]

=============================================================================
