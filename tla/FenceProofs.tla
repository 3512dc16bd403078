---------------------------- MODULE FenceProofs -----------------------------
(***************************************************************************)
(* Proofs about Fence, for every set of threads and number of rounds.  The *)
(* argument counts: when nreached is one short of the number of threads,   *)
(* the threads held back are all but the one that arrives.                 *)
(***************************************************************************)
EXTENDS Fence, FiniteSetTheorems, TLAPS

IInv == TypeOK /\ RoundsAgree

-----------------------------------------------------------------------------
LEMMA IInit == Init => IInv
<1>. SUFFICES ASSUME Init PROVE IInv
  OBVIOUS
<1>1. Held = {}
  BY DEF Init, Held
<1>2. RoundsAgree
  BY <1>1, FS_EmptySet DEF Init, RoundsAgree
<1>3. Thread # {} => 0 < ncores
  BY ThreadAssumption, FS_EmptySet, FS_CardinalityType DEF ncores
<1>4. TypeOK
  BY <1>3 DEF Init, TypeOK
<1>. QED  BY <1>2, <1>4 DEF IInv

LEMMA HeldFinite ==
    /\ IsFiniteSet(Held) /\ Cardinality(Held) \in Nat
    /\ ncores \in Nat
<1>1. Held \subseteq Thread
  BY DEF Held
<1>. QED  BY <1>1, ThreadAssumption, FS_Subset, FS_CardinalityType DEF ncores

\* The last thread arrives: everybody is released.
LEMMA LastArrives ==
    ASSUME IInv, NEW t \in Thread, Arrive(t), nreached + 1 = ncores
    PROVE  IInv'
<1>. USE DEF IInv, TypeOK, RoundsAgree
<1>1. t \notin Held
  BY DEF Arrive, Held
<1>2. Held = Thread \ {t}
  <2>1. Held \subseteq Thread \ {t}
    BY <1>1 DEF Held
  <2>2. IsFiniteSet(Thread \ {t}) /\ Cardinality(Thread \ {t}) = ncores - 1
    BY ThreadAssumption, FS_RemoveElement DEF ncores
  <2>3. Cardinality(Held) = Cardinality(Thread \ {t})
    BY <2>2, HeldFinite
  <2>. QED  BY <2>1, <2>2, <2>3, FS_Subset
<1>3. /\ nreached' = 0 /\ release' = 1 - release /\ gen' = gen + 1
      /\ local' = [local EXCEPT ![t] = 1 - release]
      /\ entered' = [entered EXCEPT ![t] = @ + 1]
      /\ pc' = [pc EXCEPT ![t] = "spin"]
  BY DEF Arrive, Count
<1>4. \A u \in Thread : local'[u] = release'
  BY <1>2, <1>3 DEF Held
<1>5. Held' = {}
  BY <1>4 DEF Held
<1>6. RoundsAgree'
  <2>1. \A u \in Thread : entered'[u] = gen'
    BY <1>1, <1>2, <1>3
  <2>. QED  BY <1>3, <1>5, <2>1, FS_EmptySet
<1>7. Thread # {} => 0 < ncores
  BY ThreadAssumption, FS_EmptySet, FS_CardinalityType DEF ncores
<1>8. TypeOK'
  <2>1. local' \in [Thread -> {0, 1}] /\ release' \in {0, 1}
    BY <1>3
  <2>2. pc' \in [Thread -> {"outside", "spin"}] /\ entered' \in [Thread -> Nat]
    BY <1>3
  <2>. QED  BY <1>3, <1>7, <2>1, <2>2 DEF ncores
<1>. QED  BY <1>6, <1>8

\* Another thread arrives: it is held back.
LEMMA OtherArrives ==
    ASSUME IInv, NEW t \in Thread, Arrive(t), nreached + 1 # ncores
    PROVE  IInv'
<1>. USE DEF IInv, TypeOK, RoundsAgree
<1>1. t \notin Held
  BY DEF Arrive, Held
<1>2. /\ nreached' = nreached + 1 /\ release' = release /\ gen' = gen
      /\ local' = [local EXCEPT ![t] = 1 - release]
      /\ entered' = [entered EXCEPT ![t] = @ + 1]
      /\ pc' = [pc EXCEPT ![t] = "spin"]
  BY DEF Arrive, Count
<1>3. Held' = Held \cup {t}
  BY <1>2 DEF Held
<1>4. Cardinality(Held') = Cardinality(Held) + 1
  BY <1>1, <1>3, HeldFinite, FS_AddElement
<1>5. RoundsAgree'
  BY <1>1, <1>2, <1>3, <1>4
<1>6. nreached' < ncores
  BY <1>2, HeldFinite
<1>7. TypeOK'
  <2>1. local' \in [Thread -> {0, 1}] /\ release' \in {0, 1}
    BY <1>2
  <2>2. pc' \in [Thread -> {"outside", "spin"}] /\ entered' \in [Thread -> Nat]
    BY <1>2
  <2>. QED  BY <1>2, <1>6, <2>1, <2>2 DEF ncores
<1>. QED  BY <1>5, <1>7

LEMMA IStep == IInv /\ [Next]_vars => IInv'
<1>. SUFFICES ASSUME IInv, [Next]_vars PROVE IInv'
  OBVIOUS
<1>1. ASSUME NEW t \in Thread, Arrive(t) PROVE IInv'
  BY <1>1, LastArrives, OtherArrives
<1>2. ASSUME NEW t \in Thread, Leave(t) PROVE IInv'
  <2>1. t \notin Held
    BY <1>2 DEF Leave, Held
  <2>2. Held' = Held
    BY <1>2, <2>1 DEF IInv, TypeOK, Leave, Held
  <2>3. RoundsAgree'
    BY <1>2, <2>2 DEF IInv, RoundsAgree, Leave
  <2>4. TypeOK'
    BY <1>2 DEF IInv, TypeOK, Leave, ncores
  <2>. QED  BY <2>3, <2>4 DEF IInv
<1>3. CASE UNCHANGED vars
  BY <1>3 DEF vars, IInv, TypeOK, RoundsAgree, Held, ncores
<1>. QED  BY <1>1, <1>2, <1>3 DEF Next

LEMMA IInvariant == Spec => []IInv
  BY IInit, IStep, PTL DEF Spec

-----------------------------------------------------------------------------
\* The types of the variables are kept and the fence is never left full.
THEOREM TypeCorrect == Spec => []TypeOK
<1>1. IInv => TypeOK
  BY DEF IInv
<1>. QED  BY <1>1, IInvariant, PTL

\* The threads held back are those counted, one round ahead of the others.
THEOREM RoundsCorrect == Spec => []RoundsAgree
<1>1. IInv => RoundsAgree
  BY DEF IInv
<1>. QED  BY <1>1, IInvariant, PTL

\* The fence implements the rendezvous of its threads.
THEOREM FenceImplementsRendezvous == Spec => IsRendezvous
<1>1. Init => R!Init
  BY DEF Init, R!Init
<1>2. ASSUME IInv, [Next]_vars
      PROVE  [R!Next]_(R!vars)
  <2>1. ASSUME NEW t \in Thread, Arrive(t)
        PROVE  R!Enter(t)
    BY <1>2, <2>1 DEF IInv, TypeOK, Arrive, R!Enter
  <2>2. ASSUME NEW t \in Thread, Leave(t)
        PROVE  R!Leave(t)
    <3>1. entered[t] = gen
      BY <1>2, <2>2 DEF IInv, RoundsAgree, Leave, Held
    <3>2. \A u \in Thread : entered[u] >= gen
      BY <1>2 DEF IInv, TypeOK, RoundsAgree
    <3>. QED  BY <1>2, <2>2, <3>1, <3>2 DEF IInv, TypeOK, Leave, R!Leave
  <2>3. CASE UNCHANGED vars
    BY <2>3 DEF vars, R!vars
  <2>. QED  BY <1>2, <2>1, <2>2, <2>3 DEF Next, R!Next
<1>. QED  BY <1>1, <1>2, IInvariant, PTL DEF Spec, IsRendezvous, R!Spec

=============================================================================
