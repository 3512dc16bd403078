------------------------------- MODULE MCSync -------------------------------
(* Two nodes that signal node 0, where two threads wait for different points. *)
EXTENDS Sync, TLC

CONSTANTS p1, p2, q, r, up, one

MCNode == {0, 1, 2}
MCThread == {p1, p2, q, r}
MCNodeOf == (p1 :> 0) @@ (p2 :> 0) @@ (q :> 1) @@ (r :> 2)
MCSyncs == {up, one}
MCKind == (up :> "all_to_one") @@ (one :> "one_to_all")
MCMaster == (up :> 0) @@ (one :> 1)
MCMembers == (up :> {0, 1, 2}) @@ (one :> {0, 1})
MCMaxRefs == [n \in MCNode |-> [s \in MCSyncs |-> IF n = 0 /\ s = up THEN 2 ELSE 1]]
MCUses == (p1 :> {up}) @@ (p2 :> {up, one}) @@ (q :> {up, one}) @@ (r :> {up})
MCMaxSignals == [s \in MCSyncs |-> [n \in MCNode |-> IF n = 1 /\ s = up THEN 2 ELSE 1]]

\* The smaller instance of the liveness run.
MCOneRef == [n \in MCNode |-> [s \in MCSyncs |-> 1]]
MCOneSignal == [s \in MCSyncs |-> [n \in MCNode |-> 1]]
=============================================================================
