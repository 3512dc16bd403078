----------------------------- MODULE MCBarrier ------------------------------
(* Three nodes; the leader is node 0, where two threads use the barrier. *)
EXTENDS Barrier, TLC

CONSTANTS a, b, q, r

MCNode == {0, 1, 2}
MCThread == {a, b, q, r}
MCNodeOf == (a :> 0) @@ (b :> 0) @@ (q :> 1) @@ (r :> 2)
MCSyncs == {Arrival, Departure}
MCKind == (Arrival :> "all_to_one") @@ (Departure :> "one_to_all")
MCMaster == [s \in MCSyncs |-> 0]
MCMembers == [s \in MCSyncs |-> MCNode]
MCUses == [t \in Thread |-> MCSyncs]
MCMaxRefs == [n \in MCNode |-> [s \in MCSyncs |-> 3]]
MCMaxSignals == [s \in MCSyncs |-> [n \in MCNode |-> 10]]

\* One thread on each node, three rounds, and nothing fails.
Apart == [who |-> {a, q, r}, ready |-> FALSE, faults |-> 0, rounds |-> 3, destroyAfter |-> {0, 1, 2, 3}]

\* Two threads on the leader's node, a round each, and a call that fails.
Shared == [who |-> {a, b, q, r}, ready |-> TRUE, faults |-> 1, rounds |-> 1, destroyAfter |-> {}]

\* Two threads of one node that destroy and create their barriers while the other
\* waits, and calls that fail.
Halves == [who |-> {a, b}, ready |-> FALSE, faults |-> 2, rounds |-> 1, destroyAfter |-> {0, 1}]

MCScenes == {Apart, Shared, Halves}
=============================================================================
