----------------------------- MODULE Rendezvous -----------------------------
(***************************************************************************)
(* What a barrier promises to its participants, whether they are threads   *)
(* that share memory (fence) or nodes that exchange signals (barrier):     *)
(* nobody leaves a round before everybody has entered it.                  *)
(***************************************************************************)
EXTENDS Naturals

CONSTANTS
    Participant,   \* who meets
    MaxRounds      \* bound: rounds that anybody enters

VARIABLES
    entered,       \* rounds that each participant has entered
    inside         \* the participants that have not left their last round

vars == <<entered, inside>>

Init ==
    /\ entered = [p \in Participant |-> 0]
    /\ inside = {}

Enter(p) ==
    /\ p \notin inside
    /\ entered[p] < MaxRounds
    /\ entered' = [entered EXCEPT ![p] = @ + 1]
    /\ inside' = inside \cup {p}

Leave(p) ==
    /\ p \in inside
    /\ \A q \in Participant : entered[q] >= entered[p]
    /\ inside' = inside \ {p}
    /\ UNCHANGED entered

Next == \E p \in Participant : Enter(p) \/ Leave(p)

Spec == Init /\ [][Next]_vars

=============================================================================
