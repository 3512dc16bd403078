----------------------------- MODULE SyncProofs -----------------------------
(***************************************************************************)
(* Proofs about Sync, and about the Barrier that is built on it, for any   *)
(* nodes, threads and points, whatever the capacity of the tables and of   *)
(* the mailboxes.                                                          *)
(*                                                                         *)
(* The first half is about Sync.  SyncInv is its inductive invariant; a    *)
(* lemma for each of its conjuncts shows that a step keeps it.             *)
(*                                                                         *)
(* The second half is about Barrier, whose steps are steps of Sync.        *)
(* BarrierInv adds to SyncInv where the threads are in barrier_wait, what  *)
(* holds the references, and the ledger: the waits of a node that were     *)
(* released and the signals that it sent are those that its threads have   *)
(* behind them.  The ledger turns SignalsConserved, which is about two     *)
(* nodes, into inequalities between their rounds; following them through   *)
(* the leader shows that no node is early.  Where each node has one thread *)
(* and nothing fails, no signal is left over either, and the barrier       *)
(* implements the rendezvous of its nodes.                                 *)
(***************************************************************************)
EXTENDS Barrier, FiniteSetTheorems, WellFoundedInduction, TLAPS

\* What a queue that is not empty consists of.
LEMMA HeadAndTail ==
    ASSUME NEW S, NEW q \in Seq(S), q # <<>>
    PROVE  Head(q) \in S /\ Tail(q) \in Seq(S)
OBVIOUS

-----------------------------------------------------------------------------
\* Where an element stands in a queue.
Places(q, x) == {i \in DOMAIN q : q[i] = x}

\* There are finitely many such places.
LEMMA PlacesFinite ==
    ASSUME NEW S, NEW q \in Seq(S), NEW x
    PROVE  IsFiniteSet(Places(q, x)) /\ Cardinality(Places(q, x)) \in Nat
<1>1. DOMAIN q = 1..Len(q) /\ Len(q) \in Int /\ 1 \in Int
  OBVIOUS
<1>2. IsFiniteSet(DOMAIN q)
  BY <1>1, FS_Interval
<1>3. Places(q, x) \in SUBSET DOMAIN q
  BY DEF Places
<1>. QED  BY <1>2, <1>3, FS_Subset, FS_CardinalityType

\* An element that is appended stands there once more.
LEMMA CountAppend ==
    ASSUME NEW S, NEW q \in Seq(S), NEW x \in S, NEW y
    PROVE  Cardinality(Places(Append(q, x), y)) =
             Cardinality(Places(q, y)) + (IF x = y THEN 1 ELSE 0)
<1>1. /\ Len(q) \in Nat
      /\ DOMAIN q = 1..Len(q)
      /\ DOMAIN Append(q, x) = 1..(Len(q) + 1)
      /\ \A i \in 1..Len(q) : Append(q, x)[i] = q[i]
      /\ Append(q, x)[Len(q) + 1] = x
  OBVIOUS
<1>2. Len(q) + 1 \notin Places(q, y)
  BY <1>1 DEF Places
<1>3. Places(Append(q, x), y) = Places(q, y) \cup (IF x = y THEN {Len(q) + 1} ELSE {})
  BY <1>1 DEF Places
<1>4. CASE x = y
  BY <1>2, <1>3, <1>4, PlacesFinite, FS_AddElement
<1>5. CASE x # y
  BY <1>3, <1>5, PlacesFinite
<1>. QED  BY <1>4, <1>5

\* One that is taken out stands there once less.
LEMMA CountTail ==
    ASSUME NEW S, NEW q \in Seq(S), q # <<>>, NEW y
    PROVE  Cardinality(Places(q, y)) =
             Cardinality(Places(Tail(q), y)) + (IF Head(q) = y THEN 1 ELSE 0)
<1>. DEFINE rest == Places(Tail(q), y)
            moved == Places(q, y) \ {1}
            shift == [i \in rest |-> i + 1]
<1>1. /\ Len(q) \in Nat /\ Len(q) > 0
      /\ DOMAIN q = 1..Len(q)
      /\ Tail(q) \in Seq(S)
      /\ DOMAIN Tail(q) = 1..(Len(q) - 1)
      /\ \A i \in 1..(Len(q) - 1) : Tail(q)[i] = q[i + 1]
      /\ Head(q) = q[1]
  OBVIOUS
<1>2. IsFiniteSet(rest) /\ IsFiniteSet(Places(q, y)) /\ Cardinality(Places(q, y)) \in Nat
  BY <1>1, PlacesFinite
<1>3. shift \in Surjection(rest, moved)
  <2>1. ASSUME NEW i \in rest PROVE i + 1 \in moved
    BY <1>1 DEF Places
  <2>2. ASSUME NEW j \in moved PROVE \E i \in rest : shift[i] = j
    <3>1. j \in 1..Len(q) /\ j # 1 /\ q[j] = y
      BY <1>1 DEF Places
    <3>2. j - 1 \in 1..(Len(q) - 1) /\ (j - 1) + 1 = j
      BY <3>1, <1>1
    <3>3. j - 1 \in rest
      BY <3>1, <3>2, <1>1 DEF Places
    <3>. QED  BY <3>2, <3>3
  <2>. QED  BY <2>1, <2>2 DEF Surjection
<1>4. shift \in Injection(rest, moved)
  <2>1. rest \subseteq Nat
    BY <1>1 DEF Places
  <2>2. ASSUME NEW i \in rest, NEW j \in rest, shift[i] = shift[j] PROVE i = j
    <3>. HIDE DEF rest
    <3>. QED  BY <2>1, <2>2
  <2>. QED  BY <1>3, <2>2 DEF Injection, IsInjective, Surjection
<1>5. Cardinality(moved) = Cardinality(rest)
  <2>. HIDE DEF rest, moved, shift
  <2>. QED  BY <1>2, <1>3, <1>4, FS_Surjection
<1>6. 1 \in Places(q, y) <=> Head(q) = y
  BY <1>1 DEF Places
<1>7. Cardinality(moved) = IF 1 \in Places(q, y) THEN Cardinality(Places(q, y)) - 1
                                                 ELSE Cardinality(Places(q, y))
  BY <1>2, FS_RemoveElement
<1>. QED
  <2>1. Cardinality(rest) \in Nat
    BY <1>1, PlacesFinite
  <2>. HIDE DEF moved, shift
  <2>2. CASE Head(q) = y
    BY <2>1, <2>2, <1>2, <1>5, <1>6, <1>7
  <2>3. CASE Head(q) # y
    BY <2>1, <2>3, <1>2, <1>5, <1>6, <1>7
  <2>. QED  BY <2>2, <2>3

\* A set of numbers that is not empty has a least one.
LEMMA LeastIsIn ==
    ASSUME NEW S \in SUBSET Nat, S # {}
    PROVE  \E x \in S : \A y \in S : x =< y
<1>. DEFINE upTo(x) == {y \in S : y <= x}
            T == {upTo(x) : x \in S}
<1>1. \A x \in S : x \in Nat /\ upTo(x) \in SUBSET Nat /\ x \in upTo(x)
  <2>1. TAKE x \in S
  <2>2. x \in Nat /\ x <= x
    OBVIOUS
  <2>3. upTo(x) \in SUBSET Nat
    OBVIOUS
  <2>4. x \in upTo(x)
    BY <2>2, Zenon
  <2>. QED  BY <2>2, <2>3, <2>4
<1>2. \A x \in S : IsFiniteSet(upTo(x))
  <2>1. TAKE x \in S
  <2>2. x \in Nat /\ upTo(x) \in SUBSET Nat /\ \A y \in upTo(x) : y <= x
    OBVIOUS
  <2>. HIDE DEF upTo
  <2>. QED  BY <2>2, FS_BoundedSetOfNaturals
<1>3. T \subseteq FiniteSubsetsOf(Nat) /\ T # {}
  <2>. HIDE DEF upTo
  <2>. QED  BY <1>1, <1>2 DEF FiniteSubsetsOf
<1>4. PICK least \in T : \A u \in T : ~(<<u, least>> \in StrictSubsetOrdering(Nat))
  <2>. HIDE DEF T
  <2>. QED  BY <1>3, FS_StrictSubsetOrderingWellFounded, WFMin, Zenon
<1>5. PICK x \in S : least = upTo(x)
  OBVIOUS
<1>6. \A y \in S : x =< y
  <2>1. SUFFICES ASSUME NEW y \in S, y < x PROVE FALSE
    OBVIOUS
  <2>2. x \notin upTo(y) /\ upTo(y) \subseteq upTo(x)
    <3>1. x \in Nat /\ y \in Nat /\ ~(x <= y)
      BY <2>1
    <3>2. \A z \in S : z <= y => z <= x
      BY <2>1
    <3>. QED  BY <3>1, <3>2, Zenon
  <2>3. upTo(y) \in T
    OBVIOUS
  <2>4. <<upTo(y), upTo(x)>> \in StrictSubsetOrdering(Nat)
    <3>. HIDE DEF upTo
    <3>. QED  BY <1>1, <2>2 DEF StrictSubsetOrdering
  <2>. QED  BY <2>3, <2>4, <1>4, <1>5
<1>. QED  BY <1>6

LEMMA MinIsIn ==
    ASSUME NEW S \in SUBSET Nat, S # {}
    PROVE  Min(S) \in S
BY LeastIsIn DEF Min

-----------------------------------------------------------------------------
\* The sum of f over S, as Barrier takes it.
Total(f, S) == MapThenSumSet(LAMBDA u : f[u], S)

Pick(s) == CHOOSE x \in s : TRUE

IsFold(g, f, S) ==
    g = [s \in SUBSET S |-> IF s = {} THEN 0 ELSE f[Pick(s)] + g[s \ {Pick(s)}]]

\* The fold takes the elements out one by one, each time the Pick of the rest.
LEMMA PickIn == ASSUME NEW s, s # {} PROVE Pick(s) \in s
BY DEF Pick

\* Among some subsets of a finite set, there is one of which no proper subset is among
\* them: what holds of the empty set, and of a set when it does of those smaller
\* by its Pick, holds of all.
LEMMA SubsetInduction ==
    ASSUME NEW S, IsFiniteSet(S), NEW Good \in SUBSET (SUBSET S),
           {} \in Good,
           \A X \in SUBSET S : X # {} /\ (\A Y \in SUBSET X : Y # X => Y \in Good) => X \in Good
    PROVE  Good = SUBSET S
<1>. DEFINE Bad == (SUBSET S) \ Good
<1>. SUFFICES ASSUME Bad # {} PROVE FALSE
  OBVIOUS
<1>1. Bad \subseteq FiniteSubsetsOf(S)
  BY FS_Subset DEF FiniteSubsetsOf
<1>2. PICK X \in Bad : \A Y \in Bad : ~(<<Y, X>> \in StrictSubsetOrdering(S))
  <2>1. PICK B : B = Bad
    OBVIOUS
  <2>2. B # {} /\ B \subseteq FiniteSubsetsOf(S)
    BY <1>1, <2>1
  <2>3. \E X \in B : \A Y \in B : ~(<<Y, X>> \in StrictSubsetOrdering(S))
    <3>1. PICK Q, F : Q = StrictSubsetOrdering(S) /\ F = FiniteSubsetsOf(S)
      OBVIOUS
    <3>2. IsWellFoundedOn(Q, F)
      BY <3>1, FS_StrictSubsetOrderingWellFounded
    <3>3. \E X \in B : \A Y \in B : ~(<<Y, X>> \in Q)
      BY <2>2, <3>1, <3>2, WFMin
    <3>. QED  BY <3>1, <3>3
  <2>. QED  BY <2>1, <2>3
<1>3. ASSUME NEW Y \in SUBSET X, Y # X PROVE Y \in Good
  <2>1. X \in SUBSET S /\ Y \in SUBSET S
    BY <1>3
  <2>2. <<Y, X>> \in StrictSubsetOrdering(S)
    BY <1>3, <2>1 DEF StrictSubsetOrdering
  <2>3. Y \notin Bad
    BY <1>2, <2>2
  <2>. QED  BY <2>1, <2>3
<1>4. X \in SUBSET S /\ X \notin Good /\ X # {}
  OBVIOUS
<1>5. \A Y \in SUBSET X : Y # X => Y \in Good
  BY <1>3
<1>. QED  BY <1>4, <1>5

\* Folds over two sets agree on their common subsets.
LEMMA FoldUnique ==
    ASSUME NEW S, IsFiniteSet(S), NEW S2, NEW f, NEW g, NEW h,
           IsFold(g, f, S), IsFold(h, f, S2), NEW s \in SUBSET S, s \in SUBSET S2
    PROVE  g[s] = h[s]
<1>. DEFINE Good == {X \in SUBSET s : g[X] = h[X]}
<1>0. IsFiniteSet(s)
  BY FS_Subset
<1>1. /\ \A X \in SUBSET s : g[X] = IF X = {} THEN 0 ELSE f[Pick(X)] + g[X \ {Pick(X)}]
      /\ \A X \in SUBSET s : h[X] = IF X = {} THEN 0 ELSE f[Pick(X)] + h[X \ {Pick(X)}]
  BY DEF IsFold
<1>2. {} \in Good
  BY <1>1
<1>3. ASSUME NEW X \in SUBSET s, X # {}, \A Y \in SUBSET X : Y # X => Y \in Good
      PROVE  X \in Good
  <2>1. Pick(X) \in X
    BY <1>3, PickIn
  <2>2. X \ {Pick(X)} \in Good
    BY <1>3, <2>1
  <2>. QED  BY <1>1, <1>3, <2>2
<1>4. Good = SUBSET s
  <2>. HIDE DEF Good
  <2>1. Good \in SUBSET (SUBSET s)
    BY DEF Good
  <2>2. \A X \in SUBSET s : X # {} /\ (\A Y \in SUBSET X : Y # X => Y \in Good) => X \in Good
    BY <1>3, Zenon
  <2>. QED  BY <1>0, <1>2, <2>1, <2>2, SubsetInduction
<1>. QED  BY <1>4

\* The function that the recursive definition of the fold chooses exists.
LEMMA FoldExists ==
    ASSUME NEW S, IsFiniteSet(S), NEW f
    PROVE  \E g : IsFold(g, f, S)
<1>. DEFINE Good == {X \in SUBSET S : \E g : IsFold(g, f, X)}
<1>1. {} \in Good
  <2>1. PICK g : g = [s \in SUBSET {} |-> 0]
    OBVIOUS
  <2>2. g = [s \in SUBSET {} |-> IF s = {} THEN 0 ELSE f[Pick(s)] + g[s \ {Pick(s)}]]
    BY <2>1
  <2>. QED  BY <2>2 DEF IsFold
<1>2. ASSUME NEW X \in SUBSET S, X # {}, \A Y \in SUBSET X : Y # X => Y \in Good
      PROVE  X \in Good
  <2>. DEFINE fold(Y) == CHOOSE g : IsFold(g, f, Y)
              val == [Y \in SUBSET X |-> fold(Y)[Y]]
              h == [s \in SUBSET X |-> IF s = {} THEN 0 ELSE f[Pick(s)] + val[s \ {Pick(s)}]]
  <2>1. ASSUME NEW Y \in SUBSET X, Y # X PROVE IsFold(fold(Y), f, Y)
    BY <1>2, <2>1
  <2>2. ASSUME NEW s \in SUBSET X, s # {} PROVE s \ {Pick(s)} \in SUBSET s /\ s \ {Pick(s)} # s
    BY <2>2, PickIn
  <2>3. ASSUME NEW s \in SUBSET X, s # X PROVE val[s] = h[s]
    <3>1. IsFold(fold(s), f, s) /\ IsFiniteSet(s)
      BY <2>1, <2>3, FS_Subset
    <3>2. CASE s = {}
      BY <3>1, <3>2 DEF IsFold
    <3>3. CASE s # {}
      <4>1. PICK r : r = s \ {Pick(s)}
        OBVIOUS
      <4>2. r \in SUBSET s /\ r # X /\ r \in SUBSET X
        BY <2>2, <2>3, <3>3, <4>1
      <4>3. IsFold(fold(r), f, r)
        BY <2>1, <4>2
      <4>4. fold(s)[r] = fold(r)[r]
        <5>. HIDE DEF fold
        <5>. QED  BY <3>1, <4>2, <4>3, FoldUnique
      <4>5. fold(s)[s] = f[Pick(s)] + fold(s)[r]
        <5>. HIDE DEF fold
        <5>. QED  BY <3>1, <3>3, <4>1 DEF IsFold
      <4>. HIDE DEF fold
      <4>. QED  BY <3>3, <4>1, <4>2, <4>4, <4>5
    <3>. QED  BY <3>2, <3>3
  <2>4. h = [s \in SUBSET X |-> IF s = {} THEN 0 ELSE f[Pick(s)] + h[s \ {Pick(s)}]]
    <3>1. ASSUME NEW s \in SUBSET X, s # {} PROVE val[s \ {Pick(s)}] = h[s \ {Pick(s)}]
      <4>. HIDE DEF h, val
      <4>. QED  BY <2>2, <2>3, <3>1
    <3>. HIDE DEF val
    <3>. QED  BY <3>1, Zenon
  <2>5. IsFold(h, f, X)
    BY <2>4 DEF IsFold
  <2>. HIDE DEF h
  <2>. QED  BY <2>5
<1>3. Good = SUBSET S
  <2>. HIDE DEF Good
  <2>1. Good \in SUBSET (SUBSET S)
    BY DEF Good
  <2>2. \A X \in SUBSET S : X # {} /\ (\A Y \in SUBSET X : Y # X => Y \in Good) => X \in Good
    BY <1>2, Zenon
  <2>. QED  BY <1>1, <2>1, <2>2, SubsetInduction
<1>. QED  BY <1>3

\* A sum is what such a fold gives.
LEMMA TotalFold ==
    ASSUME NEW S, IsFiniteSet(S), NEW f
    PROVE  \E g : IsFold(g, f, S) /\ Total(f, S) = g[S]
<1>1. Total(f, S) = (CHOOSE g : IsFold(g, f, S))[S]
  BY DEF Total, MapThenSumSet, MapThenFoldSet, IsFold, Pick
<1>. QED  BY <1>1, FoldExists

\* What a sum is made of.
LEMMA TotalUnfold ==
    ASSUME NEW S, IsFiniteSet(S), NEW f
    PROVE  /\ Total(f, {}) = 0
           /\ S # {} => Total(f, S) = f[Pick(S)] + Total(f, S \ {Pick(S)})
<1>1. Total(f, {}) = 0
  <2>1. PICK g : IsFold(g, f, {}) /\ Total(f, {}) = g[{}]
    BY TotalFold, FS_EmptySet
  <2>. QED  BY <2>1 DEF IsFold
<1>2. ASSUME S # {} PROVE Total(f, S) = f[Pick(S)] + Total(f, S \ {Pick(S)})
  <2>1. PICK Q : Q = S \ {Pick(S)}
    OBVIOUS
  <2>2. IsFiniteSet(Q) /\ Q \in SUBSET S
    BY <2>1, FS_RemoveElement
  <2>3. PICK g : IsFold(g, f, S) /\ Total(f, S) = g[S]
    BY TotalFold
  <2>4. PICK h : IsFold(h, f, Q) /\ Total(f, Q) = h[Q]
    BY <2>2, TotalFold
  <2>5. g[Q] = h[Q]
    BY <2>2, <2>3, <2>4, FoldUnique
  <2>6. g[S] = f[Pick(S)] + g[Q]
    BY <1>2, <2>1, <2>3 DEF IsFold
  <2>. QED  BY <2>1, <2>3, <2>4, <2>5, <2>6
<1>. QED  BY <1>1, <1>2

\* Sums of natural numbers are natural numbers.
LEMMA TotalNat ==
    ASSUME NEW S, IsFiniteSet(S), NEW f, \A x \in S : f[x] \in Nat
    PROVE  Total(f, S) \in Nat
<1>. DEFINE Good == {X \in SUBSET S : Total(f, X) \in Nat}
<1>1. {} \in Good
  <2>1. Total(f, {}) = 0
    BY TotalUnfold, FS_EmptySet
  <2>. QED  BY <2>1
<1>2. ASSUME NEW X \in SUBSET S, X # {}, \A Y \in SUBSET X : Y # X => Y \in Good
      PROVE  X \in Good
  <2>1. PICK x, Q : x = Pick(X) /\ Q = X \ {Pick(X)}
    OBVIOUS
  <2>2. x \in X /\ Q \in SUBSET X /\ Q # X /\ IsFiniteSet(X)
    BY <1>2, <2>1, PickIn, FS_Subset
  <2>3. Total(f, X) = f[x] + Total(f, Q)
    BY <1>2, <2>1, <2>2, TotalUnfold
  <2>4. Total(f, Q) \in Nat
    BY <1>2, <2>2
  <2>. QED  BY <2>2, <2>3, <2>4
<1>3. Good = SUBSET S
  <2>. HIDE DEF Good
  <2>1. Good \in SUBSET (SUBSET S)
    BY DEF Good
  <2>2. \A X \in SUBSET S : X # {} /\ (\A Y \in SUBSET X : Y # X => Y \in Good) => X \in Good
    BY <1>2, Zenon
  <2>. QED  BY <1>1, <2>1, <2>2, SubsetInduction
<1>. QED  BY <1>3

\* A sum of nothing.
LEMMA TotalZero ==
    ASSUME NEW S, IsFiniteSet(S), NEW f, \A x \in S : f[x] = 0
    PROVE  Total(f, S) = 0
<1>. DEFINE Good == {X \in SUBSET S : Total(f, X) = 0}
<1>1. {} \in Good
  <2>1. Total(f, {}) = 0
    BY TotalUnfold, FS_EmptySet
  <2>. QED  BY <2>1
<1>2. ASSUME NEW X \in SUBSET S, X # {}, \A Y \in SUBSET X : Y # X => Y \in Good
      PROVE  X \in Good
  <2>1. PICK x, Q : x = Pick(X) /\ Q = X \ {Pick(X)}
    OBVIOUS
  <2>2. x \in X /\ Q \in SUBSET X /\ Q # X /\ IsFiniteSet(X)
    BY <1>2, <2>1, PickIn, FS_Subset
  <2>3. Total(f, X) = f[x] + Total(f, Q)
    BY <1>2, <2>1, <2>2, TotalUnfold
  <2>4. Total(f, Q) = 0
    BY <1>2, <2>2
  <2>. QED  BY <2>2, <2>3, <2>4
<1>3. Good = SUBSET S
  <2>. HIDE DEF Good
  <2>1. Good \in SUBSET (SUBSET S)
    BY DEF Good
  <2>2. \A X \in SUBSET S : X # {} /\ (\A Y \in SUBSET X : Y # X => Y \in Good) => X \in Good
    BY <1>2, Zenon
  <2>. QED  BY <1>1, <2>1, <2>2, SubsetInduction
<1>. QED  BY <1>3

\* Sums are monotonic.
LEMMA TotalLess ==
    ASSUME NEW S, IsFiniteSet(S), NEW f, NEW g,
           \A x \in S : f[x] \in Nat /\ g[x] \in Nat /\ f[x] <= g[x]
    PROVE  Total(f, S) <= Total(g, S)
<1>. DEFINE Good == {X \in SUBSET S : Total(f, X) <= Total(g, X)}
<1>1. {} \in Good
  <2>1. Total(f, {}) = 0 /\ Total(g, {}) = 0
    BY TotalUnfold, FS_EmptySet
  <2>. QED  BY <2>1
<1>2. ASSUME NEW X \in SUBSET S, X # {}, \A Y \in SUBSET X : Y # X => Y \in Good
      PROVE  X \in Good
  <2>1. PICK x, Q : x = Pick(X) /\ Q = X \ {Pick(X)}
    OBVIOUS
  <2>2. x \in X /\ Q \in SUBSET X /\ Q # X /\ IsFiniteSet(X) /\ IsFiniteSet(Q)
    BY <1>2, <2>1, PickIn, FS_Subset
  <2>3. Total(f, X) = f[x] + Total(f, Q) /\ Total(g, X) = g[x] + Total(g, Q)
    BY <1>2, <2>1, <2>2, TotalUnfold
  <2>4. Total(f, Q) <= Total(g, Q)
    BY <1>2, <2>2
  <2>5. Total(f, Q) \in Nat /\ Total(g, Q) \in Nat
    BY <2>2, TotalNat
  <2>6. f[x] \in Nat /\ g[x] \in Nat /\ f[x] <= g[x]
    BY <2>2
  <2>7. Total(f, X) <= Total(g, X)
    BY <2>3, <2>4, <2>5, <2>6
  <2>. QED  BY <2>7
<1>3. Good = SUBSET S
  <2>. HIDE DEF Good
  <2>1. Good \in SUBSET (SUBSET S)
    BY DEF Good
  <2>2. \A X \in SUBSET S : X # {} /\ (\A Y \in SUBSET X : Y # X => Y \in Good) => X \in Good
    BY <1>2, Zenon
  <2>. QED  BY <1>1, <2>1, <2>2, SubsetInduction
<1>. QED  BY <1>3

\* Equal functions have equal sums.
LEMMA TotalSame ==
    ASSUME NEW S, IsFiniteSet(S), NEW f, NEW g,
           \A x \in S : f[x] \in Nat /\ g[x] = f[x]
    PROVE  Total(g, S) = Total(f, S)
<1>1. Total(f, S) \in Nat /\ Total(g, S) \in Nat
  BY TotalNat
<1>2. Total(f, S) <= Total(g, S) /\ Total(g, S) <= Total(f, S)
  BY TotalLess
<1>. QED  BY <1>1, <1>2

\* The sum grows as one of its terms does.
LEMMA TotalStep ==
    ASSUME NEW S, IsFiniteSet(S), NEW f, NEW g, NEW t \in S, NEW d \in Nat,
           \A x \in S : f[x] \in Nat /\ g[x] = f[x] + (IF x = t THEN d ELSE 0)
    PROVE  Total(g, S) = Total(f, S) + d
<1>. DEFINE Good == {X \in SUBSET S : t \in X => Total(g, X) = Total(f, X) + d}
<1>1. {} \in Good
  OBVIOUS
<1>2. ASSUME NEW X \in SUBSET S, X # {}, \A Y \in SUBSET X : Y # X => Y \in Good
      PROVE  X \in Good
  <2>. SUFFICES ASSUME t \in X PROVE Total(g, X) = Total(f, X) + d
    OBVIOUS
  <2>1. PICK x, Q : x = Pick(X) /\ Q = X \ {Pick(X)}
    OBVIOUS
  <2>2. x \in X /\ Q \in SUBSET X /\ Q # X /\ IsFiniteSet(X) /\ IsFiniteSet(Q)
    BY <1>2, <2>1, PickIn, FS_Subset
  <2>3. Total(f, X) = f[x] + Total(f, Q) /\ Total(g, X) = g[x] + Total(g, Q)
    BY <1>2, <2>1, <2>2, TotalUnfold
  <2>4. f[x] \in Nat /\ Total(f, Q) \in Nat
    BY <2>2, TotalNat
  <2>5. CASE x = t
    <3>1. Total(g, Q) = Total(f, Q)
      BY <2>1, <2>2, <2>5, TotalSame
    <3>2. g[x] = f[x] + d
      BY <2>2, <2>5
    <3>. QED  BY <2>3, <2>4, <3>1, <3>2
  <2>6. CASE x # t
    <3>1. t \in Q /\ Q \in Good
      BY <1>2, <2>1, <2>2, <2>6
    <3>2. Total(g, Q) = Total(f, Q) + d
      BY <3>1
    <3>3. g[x] = f[x]
      BY <2>2, <2>4, <2>6
    <3>. QED  BY <2>3, <2>4, <3>2, <3>3
  <2>. QED  BY <2>5, <2>6
<1>3. Good = SUBSET S
  <2>. HIDE DEF Good
  <2>1. Good \in SUBSET (SUBSET S)
    BY DEF Good
  <2>2. \A X \in SUBSET S : X # {} /\ (\A Y \in SUBSET X : Y # X => Y \in Good) => X \in Good
    BY <1>2, Zenon
  <2>. QED  BY <1>1, <2>1, <2>2, SubsetInduction
<1>. QED  BY <1>3

\* The sum over one element.
LEMMA TotalOne ==
    ASSUME NEW f, NEW t, f[t] \in Nat
    PROVE  Total(f, {t}) = f[t]
<1>1. Pick({t}) = t /\ {t} \ {Pick({t})} = {}
  BY PickIn
<1>2. IsFiniteSet({t})
  BY FS_Singleton
<1>3. Total(f, {t}) = f[t] + Total(f, {}) /\ Total(f, {}) = 0
  BY <1>1, <1>2, TotalUnfold
<1>. QED  BY <1>3

-----------------------------------------------------------------------------

\* A call is about an entry that the node has on the right side, and only a
\* thread that sends has targets.
ArgsFit ==
    \A t \in Thread :
        /\ pc[t] = "idle" <=> arg[t] = NoSync
        /\ Waiting(t) => NodeOf[t] \in Receivers(arg[t])
        /\ pc[t] \in {"signal", "send"} => NodeOf[t] \in Senders(arg[t])
        /\ pc[t] = "send" => targets[t] # {} /\ targets[t] \subseteq Receivers(arg[t])
        /\ pc[t] # "send" => targets[t] = {}

\* The messages that node n may find: signals of a sender to a receiver.
Mail(n) == {m \in Message : n \in Receivers(m.sync) /\ m.source \in Senders(m.sync)}

MailFits == \A n \in Node : inbox[n] \in Seq(Mail(n))

\* The inductive form of EntriesInUse.
OneUser ==
    /\ \A n \in Node, s \in Sync :
         s \in busy[n] <=> \E t \in Thread : NodeOf[t] = n /\ arg[t] = s
    /\ \A t \in Thread : arg[t] # NoSync => refcount[NodeOf[t]][arg[t]] > 0
    /\ \A t, u \in Thread :
         arg[t] # NoSync /\ arg[t] = arg[u] /\ NodeOf[t] = NodeOf[u] => t = u

\* Who holds the two locks.
LocksHeld ==
    \A t \in Thread :
        /\ pc[t] = "read" <=> waitLock[NodeOf[t]] = t
        /\ pc[t] = "send" <=> signalLock[NodeOf[t]] = t

SyncInv ==
    /\ TypeOK /\ ArgsFit /\ MailFits /\ OneUser /\ LocksHeld
    /\ BarrierCounts /\ SignalsConserved

\* A step of thread t, s being the point that it passes if it calls.
Moves(t, s) == Call(t, s) \/ Step(t) \/ ReadError(t) \/ SendError(t)

-----------------------------------------------------------------------------
\* Counting one more in a table.
LEMMA OneMore ==
    ASSUME NEW A, NEW B, NEW C, NEW f \in [A -> [B -> [C -> Nat]]],
           NEW a \in A, NEW b \in B, NEW c \in C
    PROVE  [f EXCEPT ![a][b][c] = @ + 1] \in [A -> [B -> [C -> Nat]]]
<1>1. f[a] \in [B -> [C -> Nat]] /\ f[a][b] \in [C -> Nat] /\ f[a][b][c] + 1 \in Nat
  OBVIOUS
<1>2. PICK g : g = [f[a][b] EXCEPT ![c] = @ + 1]
  OBVIOUS
<1>3. PICK h : h = [f[a] EXCEPT ![b] = g]
  OBVIOUS
<1>4. g \in [C -> Nat]
  BY <1>1, <1>2
<1>5. h \in [B -> [C -> Nat]]
  BY <1>1, <1>3, <1>4
<1>6. [f EXCEPT ![a][b][c] = @ + 1] = [f EXCEPT ![a] = h]
  BY <1>2, <1>3
<1>. QED  BY <1>5, <1>6

\* The two ends of a point are separate, and none is empty.
LEMMA Ends ==
    ASSUME NEW s \in Sync
    PROVE  /\ Senders(s) \subseteq Node /\ Receivers(s) \subseteq Node
           /\ Senders(s) \cap Receivers(s) = {}
           /\ Senders(s) # {} /\ Receivers(s) # {}
BY SyncAssumption DEF Senders, Receivers

-----------------------------------------------------------------------------
\* A label is entered only from the labels before it, with the argument of the call.
LEMMA ArgsKept ==
    ASSUME SyncInv, NEW t \in Thread, NEW s \in Sync, Moves(t, s)
    PROVE  ArgsFit'
<1>. USE DEF ArgsFit, Waiting, Goto
<1>0. /\ NoSync \notin Sync /\ NodeOf \in [Thread -> Node]
      /\ pc \in [Thread -> PCs] /\ arg \in [Thread -> Sync \cup {NoSync}]
      /\ targets \in [Thread -> SUBSET Node] /\ ArgsFit
  BY SyncAssumption, NodeAssumption DEF SyncInv, TypeOK
<1>1. CASE Alloc(t, s) \/ Release(t, s)
  BY <1>0, <1>1 DEF Alloc, Release, callVars
<1>2. CASE Wait(t, s)
  BY <1>0, <1>2 DEF Wait, Begin
<1>3. CASE Signal(t, s)
  BY <1>0, <1>3 DEF Signal, Begin
<1>4. CASE TryConsume(t)
  <2>1. /\ pc[t] = "consume" /\ UNCHANGED <<arg, targets>>
        /\ pc' = [pc EXCEPT ![t] = "done"] \/ pc' = [pc EXCEPT ![t] = "lock"]
    BY <1>4 DEF TryConsume, Consume
  <2>. QED  BY <1>0, <2>1
<1>5. CASE LockAndConsume(t)
  <2>1. /\ pc[t] = "lock" /\ UNCHANGED <<arg, targets>>
        /\ pc' = [pc EXCEPT ![t] = "done"] \/ pc' = [pc EXCEPT ![t] = "read"]
    BY <1>5 DEF LockAndConsume, Consume
  <2>. QED  BY <1>0, <2>1
<1>6. CASE Read(t) \/ ReadError(t)
  <2>1. /\ pc[t] = "read" /\ UNCHANGED <<arg, targets>>
        /\ pc' = [pc EXCEPT ![t] = "done"] \/ pc' = [pc EXCEPT ![t] = "consume"]
    BY <1>6 DEF Read, ReadError
  <2>. QED  BY <1>0, <2>1
<1>7. CASE SignalLock(t)
  <2>1. arg[t] \in Sync
    BY <1>0, <1>7 DEF SignalLock
  <2>2. Receivers(arg[t]) # {} /\ Receivers(arg[t]) \subseteq Node
    BY <2>1, Ends
  <2>. QED  BY <1>0, <1>7, <2>2 DEF SignalLock
<1>8. CASE Send(t) \/ SendError(t)
  <2>1. PICK rest \in SUBSET targets[t] :
          /\ pc[t] = "send" /\ UNCHANGED arg
          /\ targets' = [targets EXCEPT ![t] = rest]
          /\ \/ rest = {} /\ pc' = [pc EXCEPT ![t] = "done"]
             \/ rest # {} /\ UNCHANGED pc
    <3>1. CASE Send(t)
      <4>1. targets[t] # {} /\ targets[t] \in SUBSET Node
        BY <1>0, <3>1 DEF Send
      <4>2. PICK k : k = Min(targets[t])
        OBVIOUS
      <4>3. /\ pc[t] = "send" /\ UNCHANGED arg
            /\ targets' = [targets EXCEPT ![t] = @ \ {k}]
            /\ \/ targets[t] = {k} /\ pc' = [pc EXCEPT ![t] = "done"]
               \/ targets[t] # {k} /\ UNCHANGED pc
        BY <3>1, <4>2 DEF Send
      <4>4. targets[t] = {k} <=> targets[t] \ {k} = {}
        BY <4>1
      <4>5. targets' = [targets EXCEPT ![t] = targets[t] \ {k}]
        BY <4>3
      <4>. QED  BY <4>3, <4>4, <4>5, Zenon
    <3>2. CASE SendError(t)
      BY <1>0, <3>2 DEF SendError
    <3>. QED  BY <1>8, <3>1, <3>2
  <2>. QED  BY <1>0, <2>1
<1>9. CASE Finish(t)
  BY <1>0, <1>9 DEF Finish
<1>. QED
  BY <1>1, <1>2, <1>3, <1>4, <1>5, <1>6, <1>7, <1>8, <1>9 DEF Moves, Call, Step

\* A lock is taken by a thread when it is free, and given back by its holder.
LEMMA LocksKept ==
    ASSUME SyncInv, NEW t \in Thread, NEW s \in Sync, Moves(t, s)
    PROVE  LocksHeld'
<1>. USE DEF LocksHeld, Goto
<1>0. /\ NoThread \notin Thread /\ NodeOf \in [Thread -> Node]
      /\ pc \in [Thread -> PCs] /\ LocksHeld
      /\ waitLock \in [Node -> Thread \cup {NoThread}]
      /\ signalLock \in [Node -> Thread \cup {NoThread}]
  BY NodeAssumption DEF SyncInv, TypeOK
<1>1. CASE Alloc(t, s) \/ Release(t, s)
  BY <1>0, <1>1 DEF Alloc, Release, lockVars, callVars
<1>2. CASE Wait(t, s) \/ Signal(t, s) \/ TryConsume(t) \/ Finish(t)
  <2>1. /\ pc[t] \in {"idle", "consume", "done"} /\ UNCHANGED <<waitLock, signalLock>>
        /\ \E l \in {"idle", "consume", "signal", "lock", "done"} : pc' = [pc EXCEPT ![t] = l]
    BY <1>2 DEF Wait, Signal, Begin, TryConsume, Consume, Finish, lockVars
  <2>. QED  BY <1>0, <2>1
<1>3. CASE LockAndConsume(t)
  <2>1. CASE Consume(t)
    BY <1>0, <1>3, <2>1 DEF LockAndConsume, Consume, lockVars
  <2>2. CASE ~Consume(t)
    BY <1>0, <1>3, <2>2 DEF LockAndConsume
  <2>. QED  BY <2>1, <2>2
<1>4. CASE Read(t) \/ ReadError(t)
  <2>1. /\ pc[t] = "read" /\ waitLock' = [waitLock EXCEPT ![NodeOf[t]] = NoThread]
        /\ UNCHANGED signalLock
        /\ pc' = [pc EXCEPT ![t] = "done"] \/ pc' = [pc EXCEPT ![t] = "consume"]
    BY <1>4 DEF Read, ReadError
  <2>. QED  BY <1>0, <2>1
<1>5. CASE SignalLock(t)
  BY <1>0, <1>5 DEF SignalLock
<1>6. CASE Send(t) \/ SendError(t)
  <2>1. /\ pc[t] = "send" /\ UNCHANGED waitLock
        /\ \/ UNCHANGED <<pc, signalLock>>
           \/ /\ signalLock' = [signalLock EXCEPT ![NodeOf[t]] = NoThread]
              /\ pc' = [pc EXCEPT ![t] = "done"]
    BY <1>6 DEF Send, SendError
  <2>. QED  BY <1>0, <2>1
<1>. QED  BY <1>1, <1>2, <1>3, <1>4, <1>5, <1>6 DEF Moves, Call, Step

\* A call starts on an entry that is not busy, and no such entry is removed.
LEMMA UsersKept ==
    ASSUME SyncInv, NEW t \in Thread, NEW s \in Sync, Moves(t, s)
    PROVE  OneUser'
<1>. USE DEF OneUser
<1>0. /\ NoSync \notin Sync /\ NodeOf \in [Thread -> Node]
      /\ arg \in [Thread -> Sync \cup {NoSync}] /\ busy \in [Node -> SUBSET Sync]
      /\ refcount \in [Node -> [Sync -> Nat]]
      /\ pc[t] = "idle" <=> arg[t] = NoSync
  BY SyncAssumption, NodeAssumption DEF SyncInv, TypeOK, ArgsFit
<1>1. OneUser
  BY DEF SyncInv
<1>2. CASE Alloc(t, s)
  <2>1. UNCHANGED <<busy, arg>> /\ refcount' = [refcount EXCEPT ![NodeOf[t]][s] = @ + 1]
    BY <1>2 DEF Alloc, callVars
  <2>2. ASSUME NEW n \in Node, NEW r \in Sync, refcount[n][r] > 0 PROVE refcount'[n][r] > 0
    BY <1>0, <2>1, <2>2
  <2>. QED  BY <1>0, <1>1, <2>1, <2>2
<1>3. CASE Release(t, s)
  <2>1. /\ UNCHANGED <<busy, arg>> /\ s \notin busy[NodeOf[t]]
        /\ refcount' = [refcount EXCEPT ![NodeOf[t]][s] = @ - 1]
    BY <1>3 DEF Release, callVars
  <2>2. ASSUME NEW u \in Thread, arg[u] # NoSync PROVE refcount'[NodeOf[u]][arg[u]] > 0
    <3>1. arg[u] \in busy[NodeOf[u]] /\ arg[u] \in Sync /\ NodeOf[u] \in Node
      BY <1>0, <1>1, <2>2
    <3>2. refcount'[NodeOf[u]][arg[u]] = refcount[NodeOf[u]][arg[u]]
      BY <1>0, <2>1, <3>1
    <3>. QED  BY <1>1, <2>2, <3>2
  <2>. QED  BY <1>1, <2>1, <2>2
<1>4. CASE Wait(t, s) \/ Signal(t, s)
  <2>1. /\ arg[t] = NoSync /\ refcount[NodeOf[t]][s] > 0 /\ s \notin busy[NodeOf[t]]
        /\ UNCHANGED refcount
        /\ busy' = [busy EXCEPT ![NodeOf[t]] = @ \cup {s}]
        /\ arg' = [arg EXCEPT ![t] = s]
    BY <1>0, <1>4 DEF Wait, Signal, Begin
  <2>. QED  BY <1>0, <1>1, <2>1
<1>5. CASE TryConsume(t) \/ LockAndConsume(t) \/ Read(t) \/ ReadError(t)
           \/ SignalLock(t) \/ Send(t) \/ SendError(t)
  <2>1. UNCHANGED <<refcount, busy, arg>>
    BY <1>5 DEF TryConsume, LockAndConsume, Consume, Read, ReadError, SignalLock, Send,
                SendError, tableVars
  <2>. QED  BY <1>1, <2>1
<1>6. CASE Finish(t)
  <2>1. /\ arg[t] \in Sync /\ UNCHANGED refcount
        /\ busy' = [busy EXCEPT ![NodeOf[t]] = @ \ {arg[t]}]
        /\ arg' = [arg EXCEPT ![t] = NoSync]
    BY <1>0, <1>6, SMTT(30) DEF Finish
  <2>. QED  BY <1>0, <1>1, <2>1
<1>. QED  BY <1>2, <1>3, <1>4, <1>5, <1>6 DEF Moves, Call, Step

\* Only a sender sends, and only to receivers.
LEMMA MailKept ==
    ASSUME SyncInv, NEW t \in Thread, NEW s \in Sync, Moves(t, s)
    PROVE  MailFits'
<1>. USE DEF MailFits
<1>1. CASE Read(t)
  <2>1. /\ inbox \in [Node -> Seq(Message)] /\ NodeOf[t] \in Node
        /\ \A n \in Node : inbox[n] \in Seq(Mail(n))
        /\ inbox[NodeOf[t]] # <<>>
        /\ inbox' = [inbox EXCEPT ![NodeOf[t]] = Tail(@)]
    BY <1>1, NodeAssumption DEF Read, SyncInv, TypeOK
  <2>2. Tail(inbox[NodeOf[t]]) \in Seq(Mail(NodeOf[t]))
    BY <2>1, HeadAndTail, Zenon
  <2>. QED  BY <2>1, <2>2, SMTT(30)
<1>2. CASE Send(t)
  <2>. DEFINE n == NodeOf[t]
              k == Min(targets[t])
              msg == [sync |-> arg[t], source |-> n]
  <2>1. targets[t] # {} /\ targets[t] \subseteq Receivers(arg[t]) /\ n \in Senders(arg[t])
        /\ arg[t] \in Sync
    BY <1>2, SyncAssumption DEF SyncInv, ArgsFit, Send, TypeOK
  <2>2. k \in Receivers(arg[t]) /\ k \in Node
    BY <2>1, MinIsIn, NodeAssumption, Ends
  <2>3. msg \in Mail(k)
    BY <2>1, <2>2, Ends DEF Mail, Message
  <2>4. inbox' = [inbox EXCEPT ![k] = Append(@, msg)]
    BY <1>2 DEF Send
  <2>. HIDE DEF k, msg
  <2>. QED  BY <2>2, <2>3, <2>4 DEF SyncInv, TypeOK
<1>3. CASE UNCHANGED inbox
  BY <1>3 DEF SyncInv
<1>. QED  BY <1>1, <1>2, <1>3 DEF Moves, Call, Step, Alloc, Release, Wait, Signal, Begin,
            TryConsume, LockAndConsume, Consume, ReadError, SendError, SignalLock, Finish

-----------------------------------------------------------------------------
(* What a signal does to the entry that it arrives at.                     *)

\* The counts of BarrierCounts, for one entry.
Counts(n, s) ==
    /\ barrier[n][s] = {m \in Node : nreceived[n][s][m] > 0}
    /\ barrier[n][s] \subseteq Senders(s)
    /\ barrier[n][s] # Senders(s)

EntryTypes ==
    /\ barrier \in [Node -> [Sync -> SUBSET Node]]
    /\ nreceived \in [Node -> [Sync -> [Node -> Nat]]]
    /\ nbarriers \in [Node -> [Sync -> Nat]]

\* Nothing happens to the entry for r on node p.
SameEntry(p, r) ==
    /\ barrier'[p][r] = barrier[p][r]
    /\ nreceived'[p][r] = nreceived[p][r]
    /\ nbarriers'[p][r] = nbarriers[p][r]

\* The entry counts as it should after a signal from m, which adds one to what m has
\* in it and nothing to what the others have: a barrier takes from each sender
\* what it gives to the complete ones.
LEMMA ArriveCounts ==
    ASSUME EntryTypes, NEW n \in Node, NEW s \in Sync, NEW m \in Senders(s),
           Counts(n, s), Arrive(n, s, m)
    PROVE  /\ EntryTypes' /\ Counts(n, s)'
           /\ \A k \in Senders(s) :
                nreceived'[n][s][k] + nbarriers'[n][s] =
                  nreceived[n][s][k] + nbarriers[n][s] + (IF k = m THEN 1 ELSE 0)
           /\ \A p \in Node, r \in Sync : p # n \/ r # s => SameEntry(p, r)
<1>1. m \in Node /\ Senders(s) \subseteq Node
  BY Ends
<1>2. PICK bits : bits = barrier[n][s] \cup {m}
  OBVIOUS
<1>3. PICK old : old = nreceived[n][s]
  OBVIOUS
<1>4. PICK count : count = [old EXCEPT ![m] = @ + 1]
  OBVIOUS
<1>5. old \in [Node -> Nat] /\ count \in [Node -> Nat] /\ bits \subseteq Senders(s)
  BY <1>1, <1>2, <1>3, <1>4 DEF EntryTypes, Counts
<1>6. /\ \A k \in Node : k \in bits <=> count[k] > 0
      /\ \A k \in Node : count[k] = old[k] + (IF k = m THEN 1 ELSE 0)
  BY <1>1, <1>2, <1>3, <1>4, <1>5 DEF Counts
<1>7. CASE bits = Senders(s)
  <2>1. PICK ahead : ahead = StillAhead(bits, count)
    OBVIOUS
  <2>2. PICK rest : rest = OneLess(bits, count)
    OBVIOUS
  <2>3. /\ barrier' = [barrier EXCEPT ![n][s] = ahead]
        /\ nreceived' = [nreceived EXCEPT ![n][s] = rest]
        /\ nbarriers' = [nbarriers EXCEPT ![n][s] = @ + 1]
    BY <1>2, <1>3, <1>4, <1>7, <2>1, <2>2 DEF Arrive
  <2>4. /\ rest \in [Node -> Nat]
        /\ \A k \in Node : rest[k] = IF k \in bits THEN count[k] - 1 ELSE count[k]
    BY <1>5, <1>6, <2>2 DEF OneLess
  <2>5. ahead \subseteq bits /\ \A k \in Node : k \in ahead <=> rest[k] > 0
    BY <1>1, <1>5, <1>6, <1>7, <2>1, <2>4 DEF StillAhead
  <2>6. m \notin ahead
    <3>1. m \notin barrier[n][s]
      BY <1>2, <1>7 DEF Counts
    <3>2. old[m] = 0
      BY <1>1, <1>3, <1>5, <3>1 DEF Counts
    <3>3. count[m] = 1 /\ m \in bits
      BY <1>1, <1>2, <1>6, <3>2
    <3>. QED  BY <2>1, <3>3 DEF StillAhead
  <2>7. /\ EntryTypes'
        /\ barrier'[n][s] = ahead /\ nreceived'[n][s] = rest
        /\ nbarriers'[n][s] = nbarriers[n][s] + 1
        /\ \A p \in Node, r \in Sync : p # n \/ r # s => SameEntry(p, r)
    <3>1. ahead \in SUBSET Node
      BY <1>1, <1>7, <2>5
    <3>2. EntryTypes'
      <4>1. barrier' \in [Node -> [Sync -> SUBSET Node]]
        BY <2>3, <3>1 DEF EntryTypes
      <4>2. nreceived' \in [Node -> [Sync -> [Node -> Nat]]]
        BY <2>3, <2>4 DEF EntryTypes
      <4>3. nbarriers' \in [Node -> [Sync -> Nat]]
        BY <2>3 DEF EntryTypes
      <4>. QED  BY <4>1, <4>2, <4>3 DEF EntryTypes
    <3>. QED  BY <2>3, <3>2 DEF EntryTypes, SameEntry
  <2>8. Counts(n, s)'
    BY <1>1, <1>5, <2>4, <2>5, <2>6, <2>7 DEF Counts
  <2>9. ASSUME NEW k \in Senders(s)
        PROVE  nreceived'[n][s][k] + nbarriers'[n][s] =
                  nreceived[n][s][k] + nbarriers[n][s] + (IF k = m THEN 1 ELSE 0)
    <3>1. k \in Node /\ k \in bits /\ count[k] \in Nat /\ old[k] \in Nat
          /\ nbarriers[n][s] \in Nat
      BY <1>1, <1>5, <1>7 DEF EntryTypes
    <3>2. rest[k] = count[k] - 1 /\ count[k] = old[k] + (IF k = m THEN 1 ELSE 0)
      BY <1>6, <2>4, <3>1
    <3>. QED  BY <1>3, <2>7, <3>1, <3>2
  <2>. QED  BY <2>7, <2>8, <2>9
<1>8. CASE bits # Senders(s)
  <2>1. /\ barrier' = [barrier EXCEPT ![n][s] = bits]
        /\ nreceived' = [nreceived EXCEPT ![n][s] = count]
        /\ UNCHANGED nbarriers
    BY <1>2, <1>3, <1>4, <1>8 DEF Arrive
  <2>2. /\ EntryTypes'
        /\ barrier'[n][s] = bits /\ nreceived'[n][s] = count
        /\ nbarriers'[n][s] = nbarriers[n][s]
        /\ \A p \in Node, r \in Sync : p # n \/ r # s => SameEntry(p, r)
    BY <1>1, <1>5, <2>1 DEF EntryTypes, SameEntry
  <2>3. Counts(n, s)'
    BY <1>1, <1>5, <1>6, <1>8, <2>2 DEF Counts
  <2>4. ASSUME NEW k \in Senders(s)
        PROVE  nreceived'[n][s][k] + nbarriers'[n][s] =
                  nreceived[n][s][k] + nbarriers[n][s] + (IF k = m THEN 1 ELSE 0)
    <3>1. k \in Node /\ old[k] \in Nat /\ nbarriers[n][s] \in Nat
      BY <1>1, <1>5 DEF EntryTypes
    <3>. QED  BY <1>3, <1>6, <2>2, <3>1
  <2>. QED  BY <2>2, <2>3, <2>4
<1>. QED  BY <1>7, <1>8

\* What a reader finds, and what it does to its entry.
LEMMA ReadSteps ==
    ASSUME SyncInv, NEW t \in Thread, Read(t),
           NEW n, n = NodeOf[t], NEW q, q = inbox[n],
           NEW r, r = Head(q).sync, NEW k, k = Head(q).source
    PROVE  /\ n \in Node /\ q \in Seq(Message) /\ q # <<>>
           /\ r \in Sync /\ n \in Receivers(r) /\ k \in Senders(r) /\ k \in Node
           /\ inbox' = [inbox EXCEPT ![n] = Tail(q)]
           /\ refcount[n][r] > 0 => Counts(n, r) /\ Arrive(n, r, k) /\ UNCHANGED lost
           /\ ~(refcount[n][r] > 0) => /\ lost' = [lost EXCEPT ![n][r][k] = @ + 1]
                                       /\ UNCHANGED <<barrier, nreceived, nbarriers>>
<1>1. n \in Node /\ q \in Seq(Message) /\ q \in Seq(Mail(n)) /\ q # <<>>
  BY NodeAssumption DEF Read, SyncInv, TypeOK, MailFits
<1>2. Head(q) \in Mail(n)
  BY <1>1, HeadAndTail, Zenon
<1>3. r \in Sync /\ n \in Receivers(r) /\ k \in Senders(r) /\ k \in Node
  BY <1>2 DEF Mail, Message
<1>4. refcount[n][r] > 0 => Counts(n, r)
  BY <1>1, <1>3 DEF SyncInv, BarrierCounts, Counts
<1>5. /\ inbox' = [inbox EXCEPT ![n] = Tail(q)]
      /\ refcount[n][r] > 0 => Arrive(n, r, k) /\ UNCHANGED lost
      /\ ~(refcount[n][r] > 0) => /\ lost' = [lost EXCEPT ![n][r][k] = @ + 1]
                                  /\ UNCHANGED <<barrier, nreceived, nbarriers>>
  BY DEF Read
<1>. QED  BY <1>1, <1>3, <1>4, <1>5

-----------------------------------------------------------------------------
\* The types: what is subtracted from a count was in it.
LEMMA TypeKept ==
    ASSUME SyncInv, NEW t \in Thread, NEW s \in Sync, Moves(t, s)
    PROVE  TypeOK'
<1>1. TypeOK /\ NodeOf[t] \in Node /\ NodeOf \in [Thread -> Node]
  BY NodeAssumption DEF SyncInv
<1>. USE DEF Goto
<1>2. /\ pc' \in [Thread -> PCs] /\ arg' \in [Thread -> Sync \cup {NoSync}]
  <2>. USE <1>1 DEF TypeOK
  <2>1. CASE Alloc(t, s) \/ Release(t, s)
    BY <2>1 DEF Alloc, Release, callVars
  <2>2. CASE Wait(t, s) \/ Signal(t, s) \/ Finish(t)
    <3>1. /\ \E l \in PCs : pc' = [pc EXCEPT ![t] = l]
          /\ \E r \in Sync \cup {NoSync} : arg' = [arg EXCEPT ![t] = r]
      BY <2>2 DEF Wait, Signal, Begin, Finish, PCs
    <3>2. PICK l \in PCs, r \in Sync \cup {NoSync} :
            pc' = [pc EXCEPT ![t] = l] /\ arg' = [arg EXCEPT ![t] = r]
      BY <3>1
    <3>. QED  BY <3>2
  <2>3. CASE TryConsume(t) \/ LockAndConsume(t) \/ Read(t) \/ ReadError(t)
             \/ SignalLock(t) \/ Send(t) \/ SendError(t)
    <3>1. UNCHANGED arg /\ (UNCHANGED pc \/ \E l \in PCs : pc' = [pc EXCEPT ![t] = l])
      BY <2>3 DEF TryConsume, Consume, LockAndConsume, Read, ReadError, SignalLock, Send,
                  SendError, PCs
    <3>. QED  BY <3>1
  <2>. QED  BY <2>1, <2>2, <2>3 DEF Moves, Call, Step
<1>12. busy' \in [Node -> SUBSET Sync]
  <2>. USE <1>1 DEF TypeOK
  <2>1. CASE Wait(t, s) \/ Signal(t, s) \/ Finish(t)
    <3>1. \E b \in SUBSET Sync : busy' = [busy EXCEPT ![NodeOf[t]] = b]
      BY <2>1 DEF Wait, Signal, Begin, Finish
    <3>. QED  BY <3>1
  <2>2. CASE UNCHANGED busy
    BY <2>2
  <2>. QED  BY <2>1, <2>2 DEF Moves, Call, Step, Alloc, Release, TryConsume, LockAndConsume,
              Consume, Read, ReadError, SignalLock, Send, SendError, tableVars
<1>13. waitLock' \in [Node -> Thread \cup {NoThread}]
  <2>1. UNCHANGED waitLock \/ \E u \in Thread \cup {NoThread} :
                                waitLock' = [waitLock EXCEPT ![NodeOf[t]] = u]
    BY DEF Moves, Call, Step, Alloc, Release, Wait, Signal, Begin, TryConsume, LockAndConsume,
           Consume, Read, ReadError, SignalLock, Send, SendError, Finish, lockVars
  <2>. QED  BY <1>1, <2>1 DEF TypeOK
<1>14. signalLock' \in [Node -> Thread \cup {NoThread}]
  <2>1. UNCHANGED signalLock \/ \E u \in Thread \cup {NoThread} :
                                  signalLock' = [signalLock EXCEPT ![NodeOf[t]] = u]
    BY ZenonT(40) DEF Moves, Call, Step, Alloc, Release, Wait, Signal, Begin, TryConsume, LockAndConsume,
           Consume, Read, ReadError, SignalLock, Send, SendError, Finish, lockVars
  <2>. QED  BY <1>1, <2>1 DEF TypeOK
<1>3. targets' \in [Thread -> SUBSET Node]
  <2>. USE <1>1 DEF TypeOK
  <2>1. CASE SignalLock(t)
    <3>1. Receivers(arg[t]) \subseteq Node
      BY <2>1, Ends DEF SignalLock, SyncInv, ArgsFit
    <3>. QED  BY <2>1, <3>1 DEF SignalLock
  <2>2. CASE Send(t) \/ SendError(t)
    <3>1. \E rest \in SUBSET Node : targets' = [targets EXCEPT ![t] = rest]
      BY <2>2 DEF Send, SendError
    <3>. QED  BY <3>1
  <2>3. CASE UNCHANGED targets
    BY <2>3
  <2>. QED  BY <2>1, <2>2, <2>3 DEF Moves, Call, Step, Alloc, Release, Wait, Signal, Begin,
              TryConsume, LockAndConsume, Consume, Read, ReadError, Finish, callVars
<1>4. refcount' \in [Node -> [Sync -> Nat]]
  <2>. USE <1>1 DEF TypeOK
  <2>1. CASE Alloc(t, s)
    BY <2>1 DEF Alloc
  <2>2. CASE Release(t, s)
    <3>1. refcount[NodeOf[t]][s] - 1 \in Nat
      <4>1. refcount[NodeOf[t]][s] \in Nat /\ refcount[NodeOf[t]][s] > 0
        BY <2>2 DEF Release
      <4>. QED  BY <4>1
    <3>. QED  BY <2>2, <3>1 DEF Release
  <2>3. CASE UNCHANGED refcount
    BY <2>3
  <2>. QED  BY <2>1, <2>2, <2>3 DEF Moves, Call, Step, Wait, Signal, Begin, TryConsume,
              LockAndConsume, Consume, Read, ReadError, SignalLock, Send, SendError, Finish,
              tableVars
<1>5. inbox' \in [Node -> Seq(Message)]
  <2>1. MailFits' /\ \A n \in Node : Mail(n) \subseteq Message
    BY MailKept DEF Mail
  <2>2. DOMAIN inbox' = Node /\ inbox' = [n \in DOMAIN inbox' |-> inbox'[n]]
    BY <1>1 DEF TypeOK, Moves, Call, Step, Alloc, Release, Wait, Signal, Begin, TryConsume,
                LockAndConsume, Consume, Read, ReadError, SignalLock, Send, SendError, Finish
  <2>3. ASSUME NEW n \in Node PROVE inbox'[n] \in Seq(Message)
    <3>1. PICK q, M : q = inbox'[n] /\ M = Mail(n)
      OBVIOUS
    <3>2. q \in Seq(M) /\ M \subseteq Message
      BY <2>1, <3>1 DEF MailFits
    <3>3. q \in Seq(Message)
      BY <3>2
    <3>. QED  BY <3>1, <3>3
  <2>. QED  BY <2>2, <2>3
<1>6. EntryTypes' /\ lost' \in [Node -> [Sync -> [Node -> Nat]]]
      /\ released' \in [Node -> [Sync -> Nat]]
  <2>1. EntryTypes /\ lost \in [Node -> [Sync -> [Node -> Nat]]]
        /\ released \in [Node -> [Sync -> Nat]]
    BY <1>1 DEF TypeOK, EntryTypes
  <2>2. CASE Alloc(t, s)
    <3>1. UNCHANGED <<lost, released>>
      BY <2>2 DEF Alloc, historyVars
    <3>2. CASE UNCHANGED <<barrier, nreceived, nbarriers>>
      BY <2>1, <3>1, <3>2 DEF EntryTypes
    <3>3. CASE /\ barrier' = [barrier EXCEPT ![NodeOf[t]][s] = {}]
               /\ nreceived' = [nreceived EXCEPT ![NodeOf[t]][s] = [m \in Node |-> 0]]
               /\ nbarriers' = [nbarriers EXCEPT ![NodeOf[t]][s] = 0]
      <4>1. [m \in Node |-> 0] \in [Node -> Nat]
        OBVIOUS
      <4>2. PICK n, zeros : n = NodeOf[t] /\ zeros = [m \in Node |-> 0]
        OBVIOUS
      <4>3. nreceived' \in [Node -> [Sync -> [Node -> Nat]]]
        BY <1>1, <2>1, <3>3, <4>1, <4>2 DEF EntryTypes
      <4>4. barrier' \in [Node -> [Sync -> SUBSET Node]] /\ nbarriers' \in [Node -> [Sync -> Nat]]
        BY <1>1, <2>1, <3>3 DEF EntryTypes
      <4>. QED  BY <2>1, <3>1, <4>3, <4>4 DEF EntryTypes
    <3>. QED  BY <2>2, <3>2, <3>3 DEF Alloc
  <2>3. CASE Release(t, s)
    <3>1. PICK n \in Node : n = NodeOf[t]
      BY <1>1
    <3>2. PICK forgotten :
            forgotten = [m \in Node |-> lost[n][s][m] + nreceived[n][s][m]
                           + (IF m \in Senders(s) THEN nbarriers[n][s] ELSE 0)]
      OBVIOUS
    <3>3. forgotten \in [Node -> Nat]
      BY <2>1, <3>2 DEF EntryTypes
    <3>4. /\ UNCHANGED <<nreceived, nbarriers, released>>
          /\ \/ UNCHANGED <<barrier, lost>>
             \/ /\ barrier' = [barrier EXCEPT ![n][s] = {}]
                /\ lost' = [lost EXCEPT ![n][s] = forgotten]
      BY <2>1, <2>3, <3>1, <3>2 DEF Release
    <3>5. barrier' \in [Node -> [Sync -> SUBSET Node]]
      <4>1. CASE UNCHANGED barrier
        BY <2>1, <4>1 DEF EntryTypes
      <4>2. CASE barrier' = [barrier EXCEPT ![n][s] = {}]
        BY <2>1, <4>2 DEF EntryTypes
      <4>. QED  BY <3>4, <4>1, <4>2
    <3>6. lost' \in [Node -> [Sync -> [Node -> Nat]]]
      <4>1. CASE UNCHANGED lost
        BY <2>1, <4>1
      <4>2. CASE lost' = [lost EXCEPT ![n][s] = forgotten]
        BY <2>1, <3>3, <4>2
      <4>. QED  BY <3>4, <4>1, <4>2
    <3>. QED  BY <2>1, <3>4, <3>5, <3>6 DEF EntryTypes
  <2>4. CASE Consume(t) /\ pc[t] # "idle"
    <3>1. arg[t] \in Sync
      BY <1>1, <2>4 DEF TypeOK, SyncInv, ArgsFit
    <3>2. nbarriers[NodeOf[t]][arg[t]] - 1 \in Nat
      BY <1>1, <2>1, <2>4, <3>1 DEF Consume, EntryTypes
    <3>. QED  BY <1>1, <2>1, <2>4, <3>1, <3>2 DEF Consume, EntryTypes
  <2>5. CASE Read(t)
    <3>1. PICK n, q, r, k : n = NodeOf[t] /\ q = inbox[n] /\ r = Head(q).sync /\ k = Head(q).source
      OBVIOUS
    <3>2. UNCHANGED released
      BY <2>5 DEF Read
    <3>3. n \in Node /\ r \in Sync /\ k \in Senders(r) /\ k \in Node
      BY <2>5, <3>1, ReadSteps
    <3>4. CASE refcount[n][r] > 0
      <4>1. Counts(n, r) /\ Arrive(n, r, k) /\ UNCHANGED lost
        BY <2>5, <3>1, <3>4, ReadSteps
      <4>2. EntryTypes'
        BY <2>1, <3>3, <4>1, ArriveCounts
      <4>. QED  BY <2>1, <3>2, <4>1, <4>2
    <3>5. CASE ~(refcount[n][r] > 0)
      <4>1. lost' = [lost EXCEPT ![n][r][k] = @ + 1] /\ UNCHANGED <<barrier, nreceived, nbarriers>>
        BY <2>5, <3>1, <3>5 DEF Read
      <4>2. EntryTypes'
        BY <2>1, <4>1 DEF EntryTypes
      <4>3. lost' \in [Node -> [Sync -> [Node -> Nat]]]
        BY <2>1, <3>3, <4>1, OneMore
      <4>. QED  BY <2>1, <3>2, <4>2, <4>3
    <3>. QED  BY <3>4, <3>5
  <2>6. CASE UNCHANGED <<barrier, nreceived, nbarriers, lost, released>>
    BY <2>1, <2>6 DEF EntryTypes
  <2>. QED  BY <2>2, <2>3, <2>4, <2>5, <2>6 DEF Moves, Call, Step, Wait, Signal, Begin,
              TryConsume, LockAndConsume, ReadError, SignalLock, Send, SendError, Finish,
              tableVars, historyVars
<1>7. sent' \in [Sync -> [Node -> [Node -> Nat]]]
  <2>1. CASE Send(t)
    <3>1. arg[t] \in Sync /\ Min(targets[t]) \in Node
      BY <1>1, <2>1, SyncAssumption, NodeAssumption, MinIsIn
         DEF SyncInv, ArgsFit, TypeOK, Send
    <3>2. PICK k : k = Min(targets[t])
      OBVIOUS
    <3>3. k \in Node /\ sent' = [sent EXCEPT ![arg[t]][NodeOf[t]][k] = @ + 1]
      BY <2>1, <3>1, <3>2 DEF Send
    <3>. QED  BY <1>1, <3>1, <3>3, OneMore DEF TypeOK
  <2>2. CASE UNCHANGED sent
    BY <1>1, <2>2 DEF TypeOK
  <2>. QED  BY <2>1, <2>2 DEF Moves, Call, Step, Alloc, Release, Wait, Signal, Begin,
              TryConsume, LockAndConsume, Consume, Read, ReadError, SignalLock, SendError,
              Finish, historyVars
<1>. QED  BY <1>2, <1>3, <1>4, <1>5, <1>6, <1>7, <1>12, <1>13, <1>14 DEF TypeOK, EntryTypes

\* The steps that leave what BarrierCounts and SignalsConserved are about alone.
Quiet(t, s) ==
    Wait(t, s) \/ Signal(t, s) \/ ReadError(t) \/ SignalLock(t) \/ SendError(t) \/ Finish(t)
    \/ ((TryConsume(t) \/ LockAndConsume(t)) /\ ~Consume(t))

\* What they leave alone.
LEMMA QuietSteps ==
    ASSUME NEW t \in Thread, NEW s \in Sync, Quiet(t, s)
    PROVE  UNCHANGED <<refcount, barrier, nreceived, nbarriers, inbox, sent, lost, released>>
BY DEF Quiet, Wait, Signal, Begin, ReadError, SignalLock, SendError, Finish, TryConsume,
       LockAndConsume, tableVars, historyVars

\* The book-keeping of the entries is kept.
LEMMA CountsKept ==
    ASSUME SyncInv, NEW t \in Thread, NEW s \in Sync, Moves(t, s)
    PROVE  BarrierCounts'
<1>. SUFFICES ASSUME NEW p \in Node, NEW r \in Sync, refcount'[p][r] > 0, p \in Receivers(r)
              PROVE  Counts(p, r)'
  BY DEF BarrierCounts, Counts
<1>1. /\ EntryTypes /\ refcount \in [Node -> [Sync -> Nat]] /\ NodeOf[t] \in Node
      /\ refcount[p][r] > 0 => Counts(p, r)
  BY NodeAssumption DEF SyncInv, TypeOK, EntryTypes, BarrierCounts, Counts
<1>2. ASSUME refcount[p][r] > 0, SameEntry(p, r) PROVE Counts(p, r)'
  BY <1>1, <1>2 DEF Counts, SameEntry
<1>3. CASE Alloc(t, s)
  <2>1. CASE p = NodeOf[t] /\ r = s /\ refcount[p][r] = 0
    <3>1. barrier'[p][r] = {} /\ nreceived'[p][r] = [m \in Node |-> 0]
      BY <1>1, <1>3, <2>1 DEF Alloc, EntryTypes
    <3>. QED  BY <3>1, Ends DEF Counts
  <2>2. CASE ~(p = NodeOf[t] /\ r = s /\ refcount[p][r] = 0)
    <3>1. refcount[p][r] > 0
      BY <1>1, <1>3, <2>2 DEF Alloc
    <3>2. SameEntry(p, r)
      BY <1>1, <1>3, <2>2 DEF Alloc, SameEntry, EntryTypes
    <3>. QED  BY <1>2, <3>1, <3>2
  <2>. QED  BY <2>1, <2>2
<1>4. CASE Release(t, s)
  <2>1. /\ UNCHANGED <<nreceived, nbarriers>>
        /\ refcount' = [refcount EXCEPT ![NodeOf[t]][s] = @ - 1]
        /\ \/ UNCHANGED barrier
           \/ refcount[NodeOf[t]][s] = 1 /\ barrier' = [barrier EXCEPT ![NodeOf[t]][s] = {}]
    BY <1>4 DEF Release
  <2>2. refcount[p][r] > 0 /\ SameEntry(p, r)
    BY <1>1, <2>1 DEF SameEntry, EntryTypes
  <2>. QED  BY <1>2, <2>2
<1>5. CASE Consume(t) /\ pc[t] # "idle"
  <2>1. UNCHANGED <<refcount, barrier, nreceived>>
    BY <1>5 DEF Consume
  <2>. QED  BY <1>1, <2>1 DEF Counts
<1>6. CASE Read(t)
  <2>1. PICK n, q, a, k : n = NodeOf[t] /\ q = inbox[n] /\ a = Head(q).sync /\ k = Head(q).source
    OBVIOUS
  <2>2. UNCHANGED refcount
    BY <1>6 DEF Read
  <2>3. CASE refcount[n][a] > 0
    <3>1. n \in Node /\ a \in Sync /\ k \in Senders(a) /\ Counts(n, a) /\ Arrive(n, a, k)
      BY <1>6, <2>1, <2>3, ReadSteps
    <3>2. Counts(n, a)' /\ (p # n \/ r # a => SameEntry(p, r))
      BY <1>1, <3>1, ArriveCounts
    <3>. QED  BY <1>2, <2>2, <3>2
  <2>4. CASE ~(refcount[n][a] > 0)
    <3>1. UNCHANGED <<barrier, nreceived, nbarriers>>
      BY <1>6, <2>1, <2>4, ReadSteps
    <3>. QED  BY <1>2, <2>2, <3>1 DEF SameEntry
  <2>. QED  BY <2>3, <2>4
<1>7. CASE Send(t)
  BY <1>2, <1>7 DEF Send, SameEntry, tableVars
<1>8. CASE Quiet(t, s)
  BY <1>2, <1>8, QuietSteps DEF SameEntry
<1>9. Moves(t, s) => \/ Alloc(t, s) \/ Release(t, s) \/ Read(t) \/ Send(t) \/ Quiet(t, s)
                    \/ (Consume(t) /\ pc[t] # "idle")
  BY DEF Moves, Call, Step, Quiet, TryConsume, LockAndConsume
<1>. QED  BY <1>3, <1>4, <1>5, <1>6, <1>7, <1>8, <1>9

-----------------------------------------------------------------------------
\* SignalsConserved, for one receiver and one sender.
Conserved(n, s, m) ==
    sent[s][m][n] = InMail(n, s, m) + Counted(n, s, m) + released[n][s] + lost[n][s][m]

\* How often a signal is in a mailbox.
LEMMA MailCount ==
    ASSUME TypeOK, NEW n \in Node, NEW s, NEW m
    PROVE  /\ InMail(n, s, m) = Cardinality(Places(inbox[n], [sync |-> s, source |-> m]))
           /\ InMail(n, s, m) \in Nat
<1>1. InMail(n, s, m) = Cardinality(Places(inbox[n], [sync |-> s, source |-> m]))
  BY DEF InMail, Places
<1>2. PICK x : x = [sync |-> s, source |-> m]
  OBVIOUS
<1>3. Cardinality(Places(inbox[n], x)) \in Nat
  BY PlacesFinite DEF TypeOK
<1>. QED  BY <1>1, <1>2, <1>3

\* A signal moves from the mailbox to the counts, from there to a wait that returns
\* or, with the entry, to those that are forgotten.
LEMMA SignalsKept ==
    ASSUME SyncInv, TypeOK', NEW t \in Thread, NEW s \in Sync, Moves(t, s)
    PROVE  SignalsConserved'
<1>. SUFFICES ASSUME NEW r \in Sync, NEW p \in Receivers(r), NEW k \in Senders(r)
              PROVE  Conserved(p, r, k)'
  BY DEF SignalsConserved, Conserved
<1>1. p \in Node /\ k \in Node /\ Conserved(p, r, k) /\ NodeOf[t] \in Node
  BY Ends, NodeAssumption DEF SyncInv, SignalsConserved, Conserved
<1>2. TypeOK
  BY DEF SyncInv
<1>3. /\ InMail(p, r, k) \in Nat /\ InMail(p, r, k)' \in Nat
      /\ sent[r][k][p] \in Nat /\ released[p][r] \in Nat /\ lost[p][r][k] \in Nat
      /\ nreceived[p][r][k] \in Nat /\ nbarriers[p][r] \in Nat /\ refcount[p][r] \in Nat
  <2>1. InMail(p, r, k) \in Nat
    BY <1>1, <1>2, MailCount
  <2>2. InMail(p, r, k)' \in Nat
    <3>1. PICK x : x = [sync |-> r, source |-> k]
      OBVIOUS
    <3>2. InMail(p, r, k)' = Cardinality(Places(inbox'[p], x))
      BY <3>1 DEF InMail, Places
    <3>3. inbox'[p] \in Seq(Message)
      BY <1>1 DEF TypeOK
    <3>. QED  BY <3>2, <3>3, PlacesFinite
  <2>. QED  BY <1>1, <1>2, <2>1, <2>2 DEF TypeOK
<1>12. refcount \in [Node -> [Sync -> Nat]]
  BY <1>2 DEF TypeOK
<1>13. nreceived \in [Node -> [Sync -> [Node -> Nat]]]
  BY <1>2 DEF TypeOK
<1>14. nbarriers \in [Node -> [Sync -> Nat]]
  BY <1>2 DEF TypeOK
<1>15. lost \in [Node -> [Sync -> [Node -> Nat]]]
  BY <1>2 DEF TypeOK
<1>16. released \in [Node -> [Sync -> Nat]]
  BY <1>2 DEF TypeOK
<1>17. sent \in [Sync -> [Node -> [Node -> Nat]]]
  BY <1>2 DEF TypeOK
<1>4. inbox'[p] = inbox[p] => InMail(p, r, k)' = InMail(p, r, k)
  BY DEF InMail
<1>5. CASE Alloc(t, s)
  <2>1. /\ UNCHANGED <<inbox, sent, released, lost>>
        /\ refcount' = [refcount EXCEPT ![NodeOf[t]][s] = @ + 1]
    BY <1>5 DEF Alloc, historyVars
  <2>2. CASE p = NodeOf[t] /\ r = s /\ refcount[p][r] = 0
    <3>1. nreceived'[p][r][k] = 0 /\ nbarriers'[p][r] = 0
      <4>1. PICK zeros : zeros = [m \in Node |-> 0]
        OBVIOUS
      <4>2. /\ nreceived' = [nreceived EXCEPT ![p][r] = zeros]
            /\ nbarriers' = [nbarriers EXCEPT ![p][r] = 0]
        BY <1>5, <2>2, <4>1 DEF Alloc
      <4>. QED  BY <1>1, <1>13, <1>14, <4>1, <4>2
    <3>2. Counted(p, r, k)' = 0 /\ Counted(p, r, k) = 0
      BY <2>2, <3>1 DEF Counted
    <3>. QED  BY <1>1, <1>4, <2>1, <3>2 DEF Conserved
  <2>3. CASE ~(p = NodeOf[t] /\ r = s /\ refcount[p][r] = 0)
    <3>1. /\ nreceived'[p][r] = nreceived[p][r] /\ nbarriers'[p][r] = nbarriers[p][r]
          /\ refcount'[p][r] > 0 <=> refcount[p][r] > 0
      <4>1. CASE p = NodeOf[t] /\ r = s
        BY <1>1, <1>3, <1>5, <1>12, <2>1, <2>3, <4>1 DEF Alloc
      <4>2. CASE ~(p = NodeOf[t] /\ r = s)
        <5>1. refcount'[p][r] = refcount[p][r]
          BY <1>1, <1>12, <2>1, <4>2
        <5>2. nreceived'[p][r] = nreceived[p][r]
          BY <1>1, <1>5, <1>13, <4>2 DEF Alloc
        <5>3. nbarriers'[p][r] = nbarriers[p][r]
          BY <1>1, <1>5, <1>14, <4>2 DEF Alloc
        <5>. QED  BY <5>1, <5>2, <5>3
      <4>. QED  BY <4>1, <4>2
    <3>2. Counted(p, r, k)' = Counted(p, r, k)
      BY <3>1 DEF Counted
    <3>. QED  BY <1>1, <1>4, <2>1, <3>2 DEF Conserved
  <2>. QED  BY <2>2, <2>3
<1>6. CASE Release(t, s)
  <2>1. /\ UNCHANGED <<inbox, sent, released, nreceived, nbarriers>> /\ refcount[NodeOf[t]][s] > 0
        /\ refcount' = [refcount EXCEPT ![NodeOf[t]][s] = @ - 1]
    BY <1>6 DEF Release
  <2>2. CASE p = NodeOf[t] /\ r = s /\ refcount[p][r] = 1
    <3>1. lost'[p][r][k] = lost[p][r][k] + nreceived[p][r][k] + nbarriers[p][r]
      <4>1. PICK forgotten :
              forgotten = [m \in Node |-> lost[p][r][m] + nreceived[p][r][m]
                             + (IF m \in Senders(r) THEN nbarriers[p][r] ELSE 0)]
        OBVIOUS
      <4>2. lost' = [lost EXCEPT ![p][r] = forgotten]
        BY <1>6, <2>2, <4>1 DEF Release
      <4>3. lost'[p][r] = forgotten
        BY <1>1, <1>15, <4>2
      <4>. QED  BY <1>1, <1>3, <4>1, <4>3
    <3>2. refcount'[p][r] = 0
      BY <1>1, <1>12, <2>1, <2>2
    <3>3. Counted(p, r, k)' = 0 /\ Counted(p, r, k) = nreceived[p][r][k] + nbarriers[p][r]
      BY <2>2, <3>2 DEF Counted
    <3>. QED  BY <1>1, <1>3, <1>4, <2>1, <3>1, <3>3 DEF Conserved
  <2>3. CASE ~(p = NodeOf[t] /\ r = s /\ refcount[p][r] = 1)
    <3>1. lost'[p][r][k] = lost[p][r][k]
      <4>1. CASE refcount[NodeOf[t]][s] = 1
        <5>1. \E v : lost' = [lost EXCEPT ![NodeOf[t]][s] = v]
          BY <1>6, <4>1 DEF Release
        <5>2. ~(p = NodeOf[t] /\ r = s)
          BY <2>3, <4>1
        <5>. QED  BY <1>1, <1>15, <5>1, <5>2
      <4>2. CASE refcount[NodeOf[t]][s] # 1
        BY <1>6, <4>2 DEF Release
      <4>. QED  BY <4>1, <4>2
    <3>2. refcount'[p][r] > 0 <=> refcount[p][r] > 0
      <4>1. CASE p = NodeOf[t] /\ r = s
        BY <1>1, <1>3, <1>12, <2>1, <2>3, <4>1
      <4>2. CASE ~(p = NodeOf[t] /\ r = s)
        BY <1>1, <1>12, <2>1, <4>2
      <4>. QED  BY <4>1, <4>2
    <3>3. Counted(p, r, k)' = Counted(p, r, k)
      BY <2>1, <3>2 DEF Counted
    <3>. QED  BY <1>1, <1>4, <2>1, <3>1, <3>3 DEF Conserved
  <2>. QED  BY <2>2, <2>3
<1>7. CASE Consume(t) /\ pc[t] # "idle"
  <2>1. PICK n, a : n = NodeOf[t] /\ a = arg[t]
    OBVIOUS
  <2>2. n \in Node /\ a \in Sync /\ refcount[n][a] > 0
    <3>1. arg[t] # NoSync /\ arg[t] \in Sync
      BY <1>2, <1>7 DEF SyncInv, TypeOK, ArgsFit
    <3>2. refcount[NodeOf[t]][arg[t]] > 0
      BY <3>1 DEF SyncInv, OneUser
    <3>. QED  BY <1>1, <2>1, <3>1, <3>2
  <2>3. /\ nbarriers' = [nbarriers EXCEPT ![n][a] = @ - 1]
        /\ released' = [released EXCEPT ![n][a] = @ + 1]
        /\ UNCHANGED <<refcount, nreceived, inbox, sent, lost>>
    BY <1>7, <2>1 DEF Consume
  <2>4. CASE p = n /\ r = a
    <3>1. nbarriers'[p][r] = nbarriers[p][r] - 1 /\ released'[p][r] = released[p][r] + 1
      BY <1>14, <1>16, <2>2, <2>3, <2>4
    <3>2. /\ Counted(p, r, k) = nreceived[p][r][k] + nbarriers[p][r]
          /\ Counted(p, r, k)' = nreceived[p][r][k] + nbarriers[p][r] - 1
      BY <1>3, <2>2, <2>3, <2>4, <3>1 DEF Counted
    <3>. QED  BY <1>1, <1>3, <1>4, <2>3, <3>1, <3>2 DEF Conserved
  <2>5. CASE ~(p = n /\ r = a)
    <3>1. nbarriers'[p][r] = nbarriers[p][r] /\ released'[p][r] = released[p][r]
      <4>1. nbarriers'[p][r] = nbarriers[p][r]
        BY <1>1, <1>14, <2>2, <2>3, <2>5
      <4>2. released'[p][r] = released[p][r]
        BY <1>1, <1>16, <2>2, <2>3, <2>5
      <4>. QED  BY <4>1, <4>2
    <3>2. Counted(p, r, k)' = Counted(p, r, k)
      BY <2>3, <3>1 DEF Counted
    <3>. QED  BY <1>1, <1>4, <2>3, <3>1, <3>2 DEF Conserved
  <2>. QED  BY <2>4, <2>5
<1>8. CASE Read(t)
  <2>1. PICK n, q, a, m : n = NodeOf[t] /\ q = inbox[n] /\ a = Head(q).sync /\ m = Head(q).source
    OBVIOUS
  <2>2. /\ n \in Node /\ q \in Seq(Message) /\ q # <<>> /\ a \in Sync /\ m \in Senders(a)
        /\ n \in Receivers(a) /\ m \in Node /\ Head(q) = [sync |-> a, source |-> m]
    <3>1. n \in Node /\ q \in Seq(Message) /\ q # <<>>
      BY <1>8, <2>1, ReadSteps
    <3>3. Head(q) = [sync |-> a, source |-> m]
      <4>1. Head(q) \in Message
        BY <3>1, HeadAndTail, Zenon
      <4>. QED  BY <2>1, <4>1 DEF Message
    <3>2. a \in Sync /\ m \in Senders(a) /\ n \in Receivers(a) /\ m \in Node
      BY <1>8, <2>1, ReadSteps
    <3>. QED  BY <3>1, <3>2, <3>3
  <2>3. inbox' = [inbox EXCEPT ![n] = Tail(q)] /\ UNCHANGED <<refcount, sent, released>>
    BY <1>8, <2>1 DEF Read
  <2>4. InMail(p, r, k) = InMail(p, r, k)' + (IF p = n /\ r = a /\ k = m THEN 1 ELSE 0)
    <3>1. CASE p = n
      <4>1. PICK x : x = [sync |-> r, source |-> k]
        OBVIOUS
      <4>2. InMail(p, r, k) = Cardinality(Places(q, x))
        BY <2>1, <3>1, <4>1 DEF InMail, Places
      <4>3. inbox'[p] = Tail(q)
        BY <1>2, <2>2, <2>3, <3>1 DEF TypeOK
      <4>4. InMail(p, r, k)' = Cardinality(Places(Tail(q), x))
        BY <4>1, <4>3 DEF InMail, Places
      <4>5. Cardinality(Places(q, x)) =
              Cardinality(Places(Tail(q), x)) + (IF Head(q) = x THEN 1 ELSE 0)
        BY <2>2, CountTail
      <4>6. Head(q) = x <=> r = a /\ k = m
        BY <2>2, <4>1
      <4>. QED  BY <3>1, <4>2, <4>4, <4>5, <4>6
    <3>2. CASE p # n
      BY <1>1, <1>2, <1>3, <1>4, <2>2, <2>3, <3>2 DEF TypeOK
    <3>. QED  BY <3>1, <3>2
  <2>5. CASE refcount[n][a] > 0
    <3>1. Counts(n, a) /\ Arrive(n, a, m) /\ UNCHANGED lost /\ EntryTypes
      BY <1>2, <1>8, <2>1, <2>5, ReadSteps DEF TypeOK, EntryTypes
    <3>2. CASE p = n /\ r = a
      <4>1. nreceived'[p][r][k] + nbarriers'[p][r] =
              nreceived[p][r][k] + nbarriers[p][r] + (IF k = m THEN 1 ELSE 0)
        BY <2>2, <3>1, <3>2, ArriveCounts
      <4>2. Counted(p, r, k)' = Counted(p, r, k) + (IF k = m THEN 1 ELSE 0)
        BY <2>3, <2>5, <3>2, <4>1 DEF Counted
      <4>3. InMail(p, r, k) = InMail(p, r, k)' + (IF k = m THEN 1 ELSE 0)
        BY <2>4, <3>2
      <4>4. Counted(p, r, k) \in Nat
        BY <1>3 DEF Counted
      <4>. QED  BY <1>1, <1>3, <2>3, <3>1, <4>2, <4>3, <4>4 DEF Conserved
    <3>3. CASE ~(p = n /\ r = a)
      <4>1. SameEntry(p, r)
        BY <1>1, <2>2, <3>1, <3>3, ArriveCounts
      <4>2. Counted(p, r, k)' = Counted(p, r, k) /\ InMail(p, r, k)' = InMail(p, r, k)
        BY <1>3, <2>3, <2>4, <3>3, <4>1 DEF Counted, SameEntry
      <4>. QED  BY <1>1, <2>3, <3>1, <4>2 DEF Conserved
    <3>. QED  BY <3>2, <3>3
  <2>6. CASE ~(refcount[n][a] > 0)
    <3>1. lost' = [lost EXCEPT ![n][a][m] = @ + 1] /\ UNCHANGED <<barrier, nreceived, nbarriers>>
      BY <1>8, <2>1, <2>6 DEF Read
    <3>2. lost'[p][r][k] = lost[p][r][k] + (IF p = n /\ r = a /\ k = m THEN 1 ELSE 0)
      <4>1. CASE p = n /\ r = a
        <5>1. lost'[p][r] = [lost[p][r] EXCEPT ![m] = @ + 1]
          BY <1>1, <1>15, <2>2, <3>1, <4>1
        <5>2. lost[p][r] \in [Node -> Nat]
          BY <1>1, <1>15
        <5>. QED  BY <1>1, <1>3, <2>2, <4>1, <5>1, <5>2, SMTT(30)
      <4>2. CASE ~(p = n /\ r = a)
        <5>1. lost'[p][r] = lost[p][r]
          BY <1>1, <1>15, <2>2, <3>1, <4>2
        <5>. QED  BY <1>3, <4>2, <5>1
      <4>. QED  BY <4>1, <4>2
    <3>3. Counted(p, r, k)' = Counted(p, r, k) /\ Counted(p, r, k) \in Nat
      BY <1>3, <2>3, <3>1 DEF Counted
    <3>4. PICK one \in {0, 1} : one = IF p = n /\ r = a /\ k = m THEN 1 ELSE 0
      OBVIOUS
    <3>5. lost'[p][r][k] = lost[p][r][k] + one /\ InMail(p, r, k) = InMail(p, r, k)' + one
      BY <2>4, <3>2, <3>4, Zenon
    <3>6. sent'[r][k][p] = sent[r][k][p] /\ released'[p][r] = released[p][r]
      BY <2>3
    <3>7. sent[r][k][p] = InMail(p, r, k)' + Counted(p, r, k) + released[p][r] + lost'[p][r][k]
      BY <1>1, <1>3, <3>3, <3>5 DEF Conserved
    <3>. QED  BY <3>3, <3>6, <3>7 DEF Conserved
  <2>. QED  BY <2>5, <2>6
<1>9. CASE Send(t)
  <2>1. PICK n, a, to : n = NodeOf[t] /\ a = arg[t] /\ to = Min(targets[t])
    OBVIOUS
  <2>2. n \in Node /\ a \in Sync /\ to \in Node
    BY <1>1, <1>9, <2>1, NodeAssumption, MinIsIn DEF SyncInv, ArgsFit, TypeOK, Send
  <2>3. PICK msg : msg = [sync |-> a, source |-> n]
    OBVIOUS
  <2>4. /\ inbox' = [inbox EXCEPT ![to] = Append(@, msg)]
        /\ sent' = [sent EXCEPT ![a][n][to] = @ + 1]
        /\ UNCHANGED <<refcount, nreceived, nbarriers, lost, released>>
    BY <1>9, <2>1, <2>3 DEF Send, tableVars
  <2>5. sent'[r][k][p] = sent[r][k][p] + (IF p = to /\ r = a /\ k = n THEN 1 ELSE 0)
    <3>1. CASE r = a /\ k = n
      <4>1. sent'[r][k] = [sent[r][k] EXCEPT ![to] = @ + 1]
        BY <1>1, <1>17, <2>2, <2>4, <3>1
      <4>2. sent[r][k] \in [Node -> Nat]
        BY <1>1, <1>17
      <4>. QED  BY <1>1, <1>3, <2>2, <3>1, <4>1, <4>2
    <3>2. CASE ~(r = a /\ k = n)
      <4>1. sent'[r][k] = sent[r][k]
        BY <1>1, <1>17, <2>2, <2>4, <3>2
      <4>. QED  BY <1>3, <3>2, <4>1
    <3>. QED  BY <3>1, <3>2
  <2>6. InMail(p, r, k)' = InMail(p, r, k) + (IF p = to /\ r = a /\ k = n THEN 1 ELSE 0)
    <3>1. CASE p = to
      <4>1. PICK x, q : x = [sync |-> r, source |-> k] /\ q = inbox[p]
        OBVIOUS
      <4>2. InMail(p, r, k) = Cardinality(Places(q, x))
        BY <4>1 DEF InMail, Places
      <4>3. inbox'[p] = Append(q, msg) /\ q \in Seq(Message)
        BY <1>1, <1>2, <2>2, <2>4, <3>1, <4>1 DEF TypeOK
      <4>4. InMail(p, r, k)' = Cardinality(Places(Append(q, msg), x))
        BY <4>1, <4>3 DEF InMail, Places
      <4>5. msg \in Message
        BY <2>2, <2>3 DEF Message
      <4>6. Cardinality(Places(Append(q, msg), x)) =
              Cardinality(Places(q, x)) + (IF msg = x THEN 1 ELSE 0)
        BY <4>3, <4>5, CountAppend
      <4>7. msg = x <=> r = a /\ k = n
        BY <2>3, <4>1
      <4>. QED  BY <3>1, <4>2, <4>4, <4>6, <4>7
    <3>2. CASE p # to
      BY <1>1, <1>2, <1>3, <1>4, <2>2, <2>4, <3>2 DEF TypeOK
    <3>. QED  BY <3>1, <3>2
  <2>7. Counted(p, r, k)' = Counted(p, r, k) /\ Counted(p, r, k) \in Nat
    BY <1>3, <2>4 DEF Counted
  <2>8. PICK one \in {0, 1} : one = IF p = to /\ r = a /\ k = n THEN 1 ELSE 0
    OBVIOUS
  <2>9. sent'[r][k][p] = sent[r][k][p] + one /\ InMail(p, r, k)' = InMail(p, r, k) + one
    BY <2>5, <2>6, <2>8, Zenon
  <2>10. released'[p][r] = released[p][r] /\ lost'[p][r][k] = lost[p][r][k]
    BY <2>4
  <2>11. sent'[r][k][p] = InMail(p, r, k)' + Counted(p, r, k) + released[p][r] + lost[p][r][k]
    BY <1>1, <1>3, <2>7, <2>9 DEF Conserved
  <2>. QED  BY <2>7, <2>10, <2>11 DEF Conserved
<1>10. CASE Quiet(t, s)
  <2>1. UNCHANGED <<refcount, nreceived, nbarriers, inbox, sent, lost, released>>
    BY <1>10, QuietSteps
  <2>2. Counted(p, r, k)' = Counted(p, r, k)
    BY <2>1 DEF Counted
  <2>. QED  BY <1>1, <1>4, <2>1, <2>2 DEF Conserved
<1>11. Moves(t, s) => \/ Alloc(t, s) \/ Release(t, s) \/ Read(t) \/ Send(t) \/ Quiet(t, s)
                     \/ (Consume(t) /\ pc[t] # "idle")
  BY DEF Moves, Call, Step, Quiet, TryConsume, LockAndConsume
<1>. QED  BY <1>5, <1>6, <1>7, <1>8, <1>9, <1>10, <1>11

-----------------------------------------------------------------------------
\* The tables may start with any references: Barrier starts with those that
\* its threads have.
LEMMA InitHolds ==
    ASSUME NEW refs \in [Node -> [Sync -> Nat]], InitWith(refs)
    PROVE  SyncInv
<1>. USE DEF InitWith
<1>1. TypeOK
  BY DEF TypeOK, PCs
<1>2. ArgsFit /\ LocksHeld
  BY NodeAssumption DEF ArgsFit, LocksHeld, Waiting
<1>3. MailFits
  BY DEF MailFits
<1>4. OneUser
  BY SyncAssumption DEF OneUser
<1>5. BarrierCounts
  BY Ends DEF BarrierCounts
<1>6. SignalsConserved
  <2>1. SUFFICES ASSUME NEW s \in Sync, NEW n \in Receivers(s), NEW m \in Senders(s)
                 PROVE  Conserved(n, s, m)
    BY DEF SignalsConserved, Conserved
  <2>2. n \in Node /\ m \in Node
    BY Ends
  <2>3. InMail(n, s, m) = 0
    <3>1. {i \in DOMAIN inbox[n] : inbox[n][i] = [sync |-> s, source |-> m]} = {}
      BY <2>2
    <3>. QED  BY <3>1, FS_EmptySet DEF InMail
  <2>4. Counted(n, s, m) = 0
    BY <2>2 DEF Counted
  <2>. QED  BY <2>2, <2>3, <2>4 DEF Conserved
<1>. QED  BY <1>1, <1>2, <1>3, <1>4, <1>5, <1>6 DEF SyncInv

\* A step of a thread keeps the invariant.
LEMMA SyncStep ==
    ASSUME SyncInv, NEW t \in Thread, NEW s \in Sync, Moves(t, s)
    PROVE  SyncInv'
<1>1. TypeOK'
  BY TypeKept
<1>. QED  BY <1>1, ArgsKept, LocksKept, UsersKept, MailKept, CountsKept, SignalsKept, Zenon
          DEF SyncInv

\* The same for a step that changes nothing.
LEMMA SyncStutter == SyncInv /\ UNCHANGED vars => SyncInv'
<1>. SUFFICES ASSUME SyncInv, UNCHANGED vars PROVE SyncInv'
  OBVIOUS
<1>. USE DEF vars, tableVars, lockVars, callVars, historyVars, SyncInv
<1>1. TypeOK'
  BY DEF TypeOK
<1>2. ArgsFit' /\ LocksHeld' /\ OneUser' /\ MailFits'
  BY DEF ArgsFit, Waiting, LocksHeld, OneUser, MailFits
<1>3. BarrierCounts'
  BY DEF BarrierCounts
<1>4. SignalsConserved'
  BY DEF SignalsConserved, InMail, Counted
<1>. QED  BY <1>1, <1>2, <1>3, <1>4

\* A thread may use only the points that it is given, which are points.
LEMMA NextMoves ==
    ASSUME SyncInv, [Next]_vars
    PROVE  SyncInv'
<1>1. CASE UNCHANGED vars
  BY <1>1, SyncStutter
<1>2. CASE Next
  <2>1. PICK t \in Thread : (\E s \in Uses[t] : Call(t, s)) \/ Step(t) \/ ReadError(t) \/ SendError(t)
    BY <1>2 DEF Next
  <2>2. CASE \E s \in Uses[t] : Call(t, s)
    <3>1. PICK s \in Uses[t] : Call(t, s)
      BY <2>2
    <3>2. s \in Sync
      BY LimitAssumption
    <3>. QED  BY <3>1, <3>2, SyncStep DEF Moves
  <2>3. CASE Step(t) \/ ReadError(t) \/ SendError(t)
    <3>1. PICK s : s \in Sync
      <4>1. Step(t) \/ ReadError(t) \/ SendError(t) => pc[t] # "idle"
        BY DEF Step, TryConsume, LockAndConsume, Read, SignalLock, Send, Finish, ReadError, SendError
      <4>2. arg[t] \in Sync
        BY <2>3, <4>1 DEF SyncInv, ArgsFit, TypeOK
      <4>. QED  BY <4>2
    <3>. QED  BY <2>3, <3>1, SyncStep DEF Moves
  <2>. QED  BY <2>1, <2>2, <2>3
<1>. QED  BY <1>1, <1>2

\* The busy mark belongs to one thread.
LEMMA OneUserImplies ==
    ASSUME SyncInv
    PROVE  EntriesInUse
<1>. SUFFICES ASSUME NEW n \in Node, NEW s \in Sync
              PROVE  LET users == {t \in Thread : NodeOf[t] = n /\ arg[t] = s}
                     IN /\ s \in busy[n] <=> users # {}
                        /\ users # {} => refcount[n][s] > 0 /\ Cardinality(users) = 1
  BY DEF EntriesInUse
<1>. DEFINE users == {t \in Thread : NodeOf[t] = n /\ arg[t] = s}
<1>1. OneUser /\ s # NoSync
  BY SyncAssumption DEF SyncInv
<1>2. s \in busy[n] <=> users # {}
  BY <1>1 DEF OneUser
<1>3. ASSUME users # {} PROVE refcount[n][s] > 0 /\ Cardinality(users) = 1
  <2>1. PICK t \in users : TRUE
    BY <1>3
  <2>2. refcount[n][s] > 0
    BY <1>1, <2>1 DEF OneUser
  <2>3. users = {t}
    BY <1>1, <2>1 DEF OneUser
  <2>. QED  BY <2>2, <2>3, FS_Singleton
<1>. QED  BY <1>2, <1>3

-----------------------------------------------------------------------------
\* The inductive invariant.
THEOREM SyncInductive == Spec => []SyncInv
<1>1. Init => SyncInv
  <2>1. [n \in Node |-> [s \in Sync |-> 0]] \in [Node -> [Sync -> Nat]]
    OBVIOUS
  <2>. QED  BY <2>1, InitHolds DEF Init
<1>2. SyncInv /\ [Next]_vars => SyncInv'
  BY NextMoves
<1>. QED  BY <1>1, <1>2, PTL DEF Spec

\* Every variable keeps its type: no count in a table goes below zero.
THEOREM SyncTyped == Spec => []TypeOK
<1>1. SyncInv => TypeOK
  BY DEF SyncInv
<1>. QED  BY <1>1, SyncInductive, PTL

\* Two threads of a node that read its mailbox are the same.
ReadsInTurn ==
    \A t, u \in Thread : pc[t] = "read" /\ pc[u] = "read" /\ NodeOf[t] = NodeOf[u] => t = u

\* The mailbox of a node is read by one thread at a time, as wait_lock is for.
THEOREM SyncReadsInTurn == Spec => []ReadsInTurn
<1>1. SyncInv => ReadsInTurn
  BY DEF SyncInv, LocksHeld, ReadsInTurn
<1>. QED  BY <1>1, SyncInductive, PTL

\* The book-keeping of the entries: ksync_barrier_reset leaves in the barrier
\* exactly the senders that are ahead, and never leaves it complete.
THEOREM SyncBarrierCounts == Spec => []BarrierCounts
<1>1. SyncInv => BarrierCounts
  BY DEF SyncInv
<1>. QED  BY <1>1, SyncInductive, PTL

\* No signal is counted twice or disappears, whoever reads the mailbox and however
\* often entries are removed and created again.
THEOREM SyncSignalsConserved == Spec => []SignalsConserved
<1>1. SyncInv => SignalsConserved
  BY DEF SyncInv
<1>. QED  BY <1>1, SyncInductive, PTL

\* An entry is never removed under a call, nor used by two, although global_lock is
\* not held during a call: the busy mark is enough.
THEOREM SyncEntriesInUse == Spec => []EntriesInUse
<1>. QED  BY OneUserImplies, SyncInductive, PTL

-----------------------------------------------------------------------------
(***************************************************************************)
(* Barrier                                                                 *)
(***************************************************************************)

\* The types of Barrier's own variables.
BarrierTypes ==
    /\ scene \in Scenes /\ faults \in 0..scene.faults
    /\ at \in [Thread -> {"none", "created", "ready", "first", "between", "second", "closing"}]
    /\ syncs \in [Thread -> SUBSET {Arrival, Departure}]
    /\ held \in [Thread -> SUBSET {Arrival, Departure}]
    /\ failed \in [Thread -> BOOLEAN]
    /\ entered \in [Thread -> 0..MaxRounds]
    /\ left \in [Thread -> 0..MaxRounds]
    /\ leaked \in [Node -> [Sync -> Nat]]
    /\ taken \in [Node -> SUBSET {Arrival, Departure}]

\* Where a thread is in Sync and in its barrier.
BarrierFits ==
    \A t \in Thread :
        /\ t \notin scene.who => at[t] \in {"none", "ready"}
        /\ pc[t] # "idle" <=> at[t] \in {"first", "second"}
        /\ at[t] = "first" => arg[t] = Arrival
        /\ at[t] = "second" => arg[t] = Departure
        /\ at[t] = "created" => held[t] \subseteq {Input(t)}
        /\ entered[t] <= scene.rounds
        /\ left[t] + (IF Inside(t) THEN 1 ELSE 0) <= entered[t]

\* Nothing is sent through other points, and nothing counted where it is not sent to.
OnlyItsOwn ==
    /\ \A s \in Sync \ {Arrival, Departure}, m, n \in Node : sent[s][m][n] = 0
    /\ \A n \in Node, s \in Sync : n \notin Receivers(s) =>
         /\ barrier[n][s] = {} /\ nbarriers[n][s] = 0
         /\ \A m \in Node : nreceived[n][s][m] = 0

\* The round that a thread is in still lacks its wait, or its signal to node k.
In(t, s) == at[t] = IF s = Arrival THEN "first" ELSE "second"
Before(t, s) == s = Departure /\ at[t] \in {"first", "between"}
WaitDue(t) == Before(t, Input(t)) \/ (In(t, Input(t)) /\ pc[t] # "done")
SendDue(t, k) ==
    \/ Before(t, Output(t))
    \/ In(t, Output(t)) /\ (pc[t] = "signal" \/ (pc[t] = "send" /\ k \in targets[t]))

Got == [t \in Thread |-> entered[t] - (IF WaitDue(t) THEN 1 ELSE 0)]
Gave(k) == [t \in Thread |-> entered[t] - (IF SendDue(t, k) THEN 1 ELSE 0)]

\* What a node has taken part in is what its threads have.
Ledger ==
    /\ \A s \in {Arrival, Departure} : \A n \in Receivers(s) :
         released[n][s] = Total(Got, On(n))
    /\ \A s \in {Arrival, Departure} : \A m \in Senders(s), n \in Receivers(s) :
         sent[s][m][n] = Total(Gave(n), On(m))

\* Nothing is counted in the entry for s on node n.
Uncounted(n, s) ==
    nbarriers[n][s] = 0 /\ \A m \in Node : nreceived[n][s][m] = 0

\* The points of which a barrier has references, and ids, if no call ever fails.
Owned(t) ==
    CASE at[t] = "none" -> {}
      [] at[t] = "created" -> {Input(t)}
      [] at[t] = "closing" -> {Departure}
      [] OTHER -> {Arrival, Departure}

Named(t) ==
    at[t] # "none" =>
        syncs[t] = IF at[t] = "created" THEN {Input(t)} ELSE {Arrival, Departure}

\* Where each node has one thread and nothing fails, who does not wait has nothing
\* counted for it.
Alone ==
    /\ faults = 0 /\ NoErrorYet /\ taken = [n \in Node |-> {}]
    /\ \A t \in scene.who :
         /\ ~failed[t] /\ held[t] = Owned(t) /\ Named(t)
         /\ ~Waiting(t) => Uncounted(NodeOf[t], Input(t))

BarrierInv ==
    /\ SyncInv /\ BarrierTypes /\ BarrierFits /\ RefsHeld /\ OnlyItsOwn
    /\ NoErrorYet => Ledger
    /\ OneEach => Alone /\ NothingLost

-----------------------------------------------------------------------------
\* The two points and their ends.
LEMMA Points ==
    /\ Arrival \in Sync /\ Departure \in Sync /\ Arrival # Departure
    /\ Master[Arrival] \in Node /\ Members[Arrival] \subseteq Node
    /\ Receivers(Arrival) = {Master[Arrival]} /\ Senders(Departure) = {Master[Arrival]}
    /\ Senders(Arrival) = Members[Arrival] \ {Master[Arrival]}
    /\ Receivers(Departure) = Members[Arrival] \ {Master[Arrival]}
BY BarrierAssumption, SyncAssumption DEF Senders, Receivers

\* A thread has one end of each.
LEMMA EndsOf ==
    ASSUME NEW t \in Thread
    PROVE  /\ Input(t) \in {Arrival, Departure} /\ Output(t) \in {Arrival, Departure}
           /\ Input(t) # Output(t) /\ Input(t) \in Sync /\ Output(t) \in Sync
           /\ NodeOf[t] \in Node
           /\ NodeOf[t] \in Members[Arrival] =>
                 NodeOf[t] \in Receivers(Input(t)) /\ NodeOf[t] \in Senders(Output(t))
           /\ NodeOf[t] \in Receivers(Arrival) \/ NodeOf[t] \in Senders(Departure) =>
                 Input(t) = Arrival
           /\ NodeOf[t] \in Receivers(Departure) \/ NodeOf[t] \in Senders(Arrival) =>
                 Input(t) = Departure
BY Points, NodeAssumption DEF Input, Output, Leader

\* The threads of a scene are finitely many, on the nodes of the list.
LEMMA Who ==
    ASSUME scene \in Scenes
    PROVE  /\ scene.who \subseteq Thread /\ scene.rounds \in 0..MaxRounds /\ scene.faults \in Nat
           /\ \A t \in scene.who : NodeOf[t] \in Members[Arrival]
           /\ \A n : /\ On(n) \subseteq scene.who /\ On(n) \subseteq Thread
                     /\ IsFiniteSet(On(n))
<1>1. /\ scene.who \subseteq Thread /\ scene.rounds \in 0..MaxRounds /\ scene.faults \in Nat
      /\ \A t \in scene.who : NodeOf[t] \in Members[Arrival]
      /\ IsFiniteSet(scene.who)
  BY SceneAssumption
<1>2. \A n : On(n) \subseteq scene.who
  BY DEF On
<1>. QED  BY <1>1, <1>2, FS_Subset

\* Each step is about one thread and is one of Sync, or none.
BarrierStep(t) ==
    \/ Create(t) \/ GiveUp(t) \/ Destroy(t)
    \/ Refuse(t) \/ Enter(t) \/ Proceed(t) \/ Run(t) \/ Fail(t)

\* A step of Barrier does nothing to Sync, or is one of its steps: the barrier uses
\* its points by their calls alone.
LEMMA BarrierMoves ==
    ASSUME NEW t \in Thread, BarrierStep(t)
    PROVE  UNCHANGED vars \/ \E s \in Sync : Moves(t, s)
<1>1. Arrival \in Sync /\ Departure \in Sync /\ Input(t) \in Sync /\ Output(t) \in Sync
  BY Points, EndsOf
<1>2. CASE Create(t)
  <2>1. UNCHANGED vars \/ Alloc(t, Input(t)) \/ Alloc(t, Output(t))
    BY <1>2 DEF Create, CreateInput, CreateOutput
  <2>. QED  BY <1>1, <2>1 DEF Moves, Call
<1>3. CASE GiveUp(t) \/ Refuse(t)
  BY <1>3 DEF GiveUp, Refuse
<1>4. CASE Destroy(t)
  <2>1. UNCHANGED vars \/ Release(t, Arrival) \/ Release(t, Departure)
    BY <1>4 DEF Destroy, DestroyFirst, DestroySecond, Remove
  <2>. QED  BY <1>1, <2>1 DEF Moves, Call
<1>5. CASE Enter(t) \/ Proceed(t)
  <2>1. Calls(t)[1] = Arrival /\ Calls(t)[2] = Departure
    BY DEF Calls
  <2>2. UNCHANGED vars \/ Wait(t, Arrival) \/ Signal(t, Arrival)
        \/ Wait(t, Departure) \/ Signal(t, Departure)
    BY <1>5, <2>1 DEF Enter, Proceed
  <2>. QED  BY <1>1, <2>2 DEF Moves, Call
<1>6. CASE Run(t) \/ Fail(t)
  BY <1>1, <1>6 DEF Run, Fail, Moves
<1>. QED  BY <1>2, <1>3, <1>4, <1>5, <1>6 DEF BarrierStep

\* So what is invariant of Sync is invariant of the points of a barrier.
LEMMA SyncInvKept ==
    ASSUME SyncInv, NEW t \in Thread, BarrierStep(t)
    PROVE  SyncInv'
<1>1. CASE UNCHANGED vars
  BY <1>1, SyncStutter
<1>2. CASE \E s \in Sync : Moves(t, s)
  BY <1>2, SyncStep
<1>. QED  BY <1>1, <1>2, BarrierMoves

\* What a step of Sync does to the place of its thread.
LEMMA CallPlaces ==
    ASSUME TypeOK, NEW t \in Thread, NEW s \in Sync
    PROVE  /\ Alloc(t, s) \/ Release(t, s) => pc[t] = "idle" /\ UNCHANGED <<pc, arg, targets>>
           /\ Wait(t, s) => /\ pc[t] = "idle" /\ NodeOf[t] \in Receivers(s)
                            /\ pc' = [pc EXCEPT ![t] = "consume"]
                            /\ arg' = [arg EXCEPT ![t] = s]
           /\ Signal(t, s) => /\ pc[t] = "idle" /\ NodeOf[t] \in Senders(s)
                              /\ pc' = [pc EXCEPT ![t] = "signal"]
                              /\ arg' = [arg EXCEPT ![t] = s]
BY DEF Alloc, Release, Wait, Signal, Begin, Goto, callVars

\* Inside a call, a thread stays there up to Finish.
LEMMA StepPlaces ==
    ASSUME TypeOK, NEW t \in Thread, Step(t) \/ ReadError(t) \/ SendError(t)
    PROVE  /\ pc[t] # "idle"
           /\ \/ /\ ~Finish(t) /\ UNCHANGED arg
                 /\ \E l \in PCs \ {"idle"} : pc' = [pc EXCEPT ![t] = l]
              \/ /\ Finish(t) /\ pc[t] = "done" /\ pc' = [pc EXCEPT ![t] = "idle"]
                 /\ arg' = [arg EXCEPT ![t] = NoSync]
<1>. USE DEF PCs, Goto
<1>0. pc \in [Thread -> PCs]
  BY DEF TypeOK
<1>1. CASE Finish(t)
  BY <1>1 DEF Finish
<1>2. CASE TryConsume(t) \/ LockAndConsume(t) \/ Read(t) \/ SignalLock(t)
           \/ ReadError(t) \/ SendError(t)
  <2>1. /\ pc[t] \in {"consume", "lock", "read", "signal", "send"} /\ UNCHANGED arg
        /\ \E l \in PCs \ {"idle"} : pc' = [pc EXCEPT ![t] = l]
    BY <1>2 DEF TryConsume, LockAndConsume, Consume, Read, SignalLock, ReadError, SendError
  <2>2. ~Finish(t)
    BY <2>1 DEF Finish
  <2>. QED  BY <2>1, <2>2
<1>3. CASE Send(t)
  <2>1. /\ pc[t] = "send" /\ UNCHANGED arg
        /\ UNCHANGED pc \/ pc' = [pc EXCEPT ![t] = "done"]
    BY <1>3 DEF Send
  <2>2. UNCHANGED pc => pc' = [pc EXCEPT ![t] = "send"]
    BY <1>0, <2>1
  <2>3. ~Finish(t)
    BY <2>1 DEF Finish
  <2>. QED  BY <2>1, <2>2, <2>3
<1>. QED  BY <1>1, <1>2, <1>3 DEF Step

\* What Run and Fail do to the barrier: nothing, unless the call returns.
LEMMA InCall ==
    ASSUME TypeOK, BarrierTypes, BarrierFits, NEW t \in Thread, Run(t) \/ Fail(t)
    PROVE  /\ at[t] \in {"first", "second"} /\ pc[t] # "idle"
           /\ UNCHANGED <<scene, syncs, held, entered, leaked, taken>> /\ faults' \in 0..scene.faults
           /\ \/ /\ UNCHANGED <<at, left, arg>>
                 /\ \E l \in PCs \ {"idle"} : pc' = [pc EXCEPT ![t] = l]
                 /\ failed' = failed \/ (Fail(t) /\ failed' = [failed EXCEPT ![t] = TRUE])
              \/ /\ Finish(t) /\ pc' = [pc EXCEPT ![t] = "idle"]
                 /\ arg' = [arg EXCEPT ![t] = NoSync]
                 /\ \/ /\ at[t] = "first" /\ at' = [at EXCEPT ![t] = "between"]
                       /\ UNCHANGED <<failed, left>>
                    \/ /\ at[t] = "second" /\ at' = [at EXCEPT ![t] = "ready"]
                       /\ failed' = [failed EXCEPT ![t] = FALSE]
                       /\ left' = IF failed[t] THEN left ELSE [left EXCEPT ![t] = @ + 1]
<1>1. Step(t) \/ ReadError(t) \/ SendError(t)
  BY DEF Run, Fail
<1>2. at[t] \in {"first", "second"} /\ pc[t] # "idle" /\ pc \in [Thread -> PCs]
  BY <1>1, StepPlaces DEF BarrierFits, TypeOK
<1>3. faults \in 0..scene.faults /\ scene.faults \in Nat
  BY Who DEF BarrierTypes
<1>4. CASE Fail(t)
  <2>1. pc[t] # "done"
    BY <1>4 DEF Fail, ReadError, SendError
  <2>2. UNCHANGED arg /\ \E l \in PCs \ {"idle"} : pc' = [pc EXCEPT ![t] = l]
    BY <1>1, <2>1, StepPlaces
  <2>3. /\ UNCHANGED <<scene, at, syncs, held, entered, left, leaked, taken>>
        /\ faults > 0 /\ faults' = faults - 1
        /\ failed' = [failed EXCEPT ![t] = TRUE]
    BY <1>4 DEF Fail, OneFails, historyOfWaits, historyOfRefs
  <2>4. faults' \in 0..scene.faults
    BY <1>3, <2>3
  <2>. QED  BY <1>2, <1>4, <2>2, <2>3, <2>4
<1>5. CASE Run(t)
  <2>1. CASE Finish(t)
    <3>1. pc' = [pc EXCEPT ![t] = "idle"] /\ arg' = [arg EXCEPT ![t] = NoSync]
      BY <2>1 DEF Finish, Goto
    <3>2. pc'[t] = "idle"
      BY <1>2, <3>1
    <3>3. CASE at[t] = "first"
      <4>1. /\ at' = [at EXCEPT ![t] = "between"]
            /\ UNCHANGED <<scene, faults, syncs, held, failed, entered, left, leaked, taken>>
        BY <1>5, <3>2, <3>3 DEF Run, Goes, At, historyOfWaits, historyOfRefs
      <4>. QED  BY <1>2, <1>3, <2>1, <3>1, <3>3, <4>1
    <3>4. CASE at[t] = "second"
      <4>1. /\ at' = [at EXCEPT ![t] = "ready"]
            /\ UNCHANGED <<scene, faults, syncs, held, entered, leaked, taken>>
            /\ failed' = [failed EXCEPT ![t] = FALSE]
            /\ left' = IF failed[t] THEN left ELSE [left EXCEPT ![t] = @ + 1]
        BY <1>5, <3>2, <3>4 DEF Run, Goes, At, Return, historyOfRefs
      <4>. QED  BY <1>2, <1>3, <2>1, <3>1, <3>4, <4>1
    <3>. QED  BY <1>2, <3>3, <3>4
  <2>2. CASE ~Finish(t)
    <3>1. UNCHANGED arg /\ \E l \in PCs \ {"idle"} : pc' = [pc EXCEPT ![t] = l]
      BY <1>1, <2>2, StepPlaces
    <3>2. pc'[t] # "idle"
      BY <1>2, <3>1
    <3>3. UNCHANGED <<scene, faults, at, syncs, held, failed, entered, left, leaked, taken>>
      BY <1>5, <3>2 DEF Run, Goes, barrierVars, historyOfWaits, historyOfRefs
    <3>. QED  BY <1>2, <1>3, <3>1, <3>3
  <2>. QED  BY <2>1, <2>2
<1>. QED  BY <1>4, <1>5

\* What the start of a call in barrier_wait does.
LEMMA Starts ==
    ASSUME TypeOK, BarrierTypes, BarrierFits, NEW t \in Thread, Enter(t) \/ Proceed(t)
    PROVE  /\ pc[t] = "idle" /\ UNCHANGED <<scene, faults, syncs, held, leaked, taken, left>>
           /\ \/ Enter(t) /\ at[t] = "ready" /\ IsValid(t) /\ entered[t] < scene.rounds
                 /\ entered' = [entered EXCEPT ![t] = @ + 1]
              \/ Proceed(t) /\ at[t] = "between" /\ UNCHANGED entered
           /\ \/ /\ Enter(t) /\ (Wait(t, Arrival) \/ Signal(t, Arrival))
                 /\ at' = [at EXCEPT ![t] = "first"] /\ UNCHANGED failed
              \/ /\ Enter(t) /\ Rejected(t, Arrival) /\ UNCHANGED vars
                 /\ at' = [at EXCEPT ![t] = "between"]
                 /\ failed' = [failed EXCEPT ![t] = TRUE]
              \/ /\ Proceed(t) /\ (Wait(t, Departure) \/ Signal(t, Departure))
                 /\ at' = [at EXCEPT ![t] = "second"] /\ UNCHANGED failed
              \/ /\ Proceed(t) /\ Rejected(t, Departure) /\ UNCHANGED vars
                 /\ at' = [at EXCEPT ![t] = "ready"]
                 /\ failed' = [failed EXCEPT ![t] = FALSE]
<1>1. Calls(t)[1] = Arrival /\ Calls(t)[2] = Departure
  BY DEF Calls
<1>2. CASE Enter(t)
  <2>1. at[t] = "ready" /\ pc[t] = "idle"
    BY <1>2 DEF Enter, BarrierFits
  <2>. QED  BY <1>1, <1>2, <2>1 DEF Enter, At, historyOfRefs
<1>3. CASE Proceed(t)
  <2>1. at[t] = "between" /\ pc[t] = "idle"
    BY <1>3 DEF Proceed, BarrierFits
  <2>. QED  BY <1>1, <1>3, <2>1 DEF Proceed, At, Return, historyOfWaits, historyOfRefs
<1>. QED  BY <1>2, <1>3

\* What the calls that create or remove points do.
LEMMA Changes ==
    ASSUME TypeOK, BarrierTypes, BarrierFits, NEW t \in Thread,
           Create(t) \/ GiveUp(t) \/ Destroy(t)
    PROVE  /\ pc[t] = "idle" /\ UNCHANGED <<scene, entered, left, pc, arg, targets>>
           /\ faults' \in 0..scene.faults
           /\ UNCHANGED failed \/ \E b \in BOOLEAN : failed' = [failed EXCEPT ![t] = b]
           /\ \/ /\ at[t] = "none" /\ at' = [at EXCEPT ![t] = "created"] /\ UNCHANGED taken
                 /\ \/ /\ syncs' = [syncs EXCEPT ![t] = {Input(t)}]
                       /\ held' = [held EXCEPT ![t] = {Input(t)}] /\ UNCHANGED <<faults, failed>>
                    \/ /\ syncs' = [syncs EXCEPT ![t] = {}]
                       /\ held' = [held EXCEPT ![t] = {}] /\ faults > 0
              \/ /\ at[t] = "created" /\ at' = [at EXCEPT ![t] = "ready"]
                 /\ UNCHANGED <<leaked, taken>>
                 /\ \/ /\ syncs' = [syncs EXCEPT ![t] = @ \cup {Output(t)}]
                       /\ held' = [held EXCEPT ![t] = @ \cup {Output(t)}] /\ UNCHANGED <<faults, failed>>
                    \/ UNCHANGED <<syncs, held>> /\ faults > 0
              \/ /\ at[t] = "ready" /\ at' = [at EXCEPT ![t] = "none"] /\ ~IsValid(t)
                 /\ UNCHANGED <<vars, faults, syncs, held, leaked, taken>>
              \/ /\ at[t] = "ready" /\ at' = [at EXCEPT ![t] = "closing"] /\ IsValid(t)
                 /\ UNCHANGED <<faults, syncs, leaked>>
                 /\ \/ Remove(t, Arrival) /\ UNCHANGED failed
                    \/ Rejected(t, Arrival) /\ UNCHANGED <<vars, held, taken>>
              \/ /\ at[t] = "closing" /\ UNCHANGED <<faults, syncs, leaked>>
                 /\ \/ /\ Remove(t, Departure)
                       /\ \/ at' = [at EXCEPT ![t] = "none"]
                          \/ failed[t] /\ at' = [at EXCEPT ![t] = "ready"]
                    \/ /\ Rejected(t, Departure) /\ UNCHANGED <<vars, held, taken>>
                       /\ \E l \in {"none", "ready"} : at' = [at EXCEPT ![t] = l]
                 /\ failed' = [failed EXCEPT ![t] = FALSE]
<1>1. /\ at[t] \in {"none", "created", "ready", "closing"} => pc[t] = "idle"
      /\ faults \in 0..scene.faults /\ scene.faults \in Nat
  BY Who DEF BarrierFits, BarrierTypes
<1>2. Input(t) \in Sync /\ Output(t) \in Sync /\ Arrival \in Sync /\ Departure \in Sync
  BY Points, EndsOf
<1>3. /\ UNCHANGED vars => UNCHANGED <<pc, arg, targets>>
      /\ \A s \in Sync : Alloc(t, s) \/ Release(t, s) => UNCHANGED <<pc, arg, targets>>
  BY DEF vars, callVars, Alloc, Release
<1>4. OneFails => faults > 0 /\ faults' \in 0..scene.faults
  BY <1>1 DEF OneFails
<1>5. CASE Create(t)
  <2>1. UNCHANGED <<scene, failed, entered, left, taken>>
    BY <1>5 DEF Create, historyOfWaits
  <2>2. CASE CreateInput(t)
    BY <1>1, <1>2, <1>3, <1>4, <2>1, <2>2 DEF CreateInput, At
  <2>3. CASE CreateOutput(t)
    BY <1>1, <1>2, <1>3, <1>4, <2>1, <2>3 DEF CreateOutput, At
  <2>. QED  BY <1>5, <2>2, <2>3 DEF Create
<1>6. CASE GiveUp(t)
  BY <1>1, <1>3, <1>6 DEF GiveUp, At, historyOfWaits, historyOfRefs
<1>7. CASE Destroy(t)
  <2>1. UNCHANGED <<scene, faults, syncs, entered, left, leaked>>
    BY <1>7 DEF Destroy, historyOfWaits
  <2>2. \A s \in {Arrival, Departure} : Remove(t, s) => UNCHANGED <<pc, arg, targets>>
    BY <1>2, <1>3 DEF Remove
  <2>3. CASE DestroyFirst(t)
    BY <1>1, <1>3, <2>1, <2>2, <2>3 DEF DestroyFirst, At
  <2>4. CASE DestroySecond(t)
    BY <1>1, <1>3, <2>1, <2>2, <2>4 DEF DestroySecond, At
  <2>. QED  BY <1>7, <2>3, <2>4 DEF Destroy
<1>. QED  BY <1>5, <1>6, <1>7

\* The types.
LEMMA BarrierTypesKept ==
    ASSUME BarrierInv, NEW t \in Thread, BarrierStep(t)
    PROVE  BarrierTypes'
<1>0. TypeOK /\ BarrierTypes /\ BarrierFits /\ SyncInv
  BY DEF BarrierInv, SyncInv
<1>1. scene.rounds \in 0..MaxRounds /\ MaxRounds \in Nat
  BY <1>0, Who, BarrierAssumption DEF BarrierTypes
<1>2. Input(t) \in {Arrival, Departure} /\ Output(t) \in {Arrival, Departure}
  BY EndsOf
<1>3. CASE Create(t) \/ GiveUp(t) \/ Destroy(t)
  <2>1. /\ UNCHANGED <<scene, entered, left>> /\ faults' \in 0..scene.faults
        /\ UNCHANGED failed \/ \E b \in BOOLEAN : failed' = [failed EXCEPT ![t] = b]
        /\ \E l \in {"none", "created", "ready", "closing"} : at' = [at EXCEPT ![t] = l]
    BY <1>0, <1>3, Changes
  <2>2. UNCHANGED held \/ \E S \in SUBSET {Arrival, Departure} : held' = [held EXCEPT ![t] = S]
    <3>1. \A s : Remove(t, s) => held' = [held EXCEPT ![t] = @ \ {s}]
      BY DEF Remove
    <3>2. \/ UNCHANGED held \/ held' = [held EXCEPT ![t] = {Input(t)}]
          \/ held' = [held EXCEPT ![t] = {}]
          \/ held' = [held EXCEPT ![t] = @ \cup {Output(t)}]
          \/ \E s : held' = [held EXCEPT ![t] = @ \ {s}]
      BY <1>0, <1>3, <3>1, Changes, Zenon
    <3>3. held[t] \in SUBSET {Arrival, Departure}
      BY <1>0 DEF BarrierTypes
    <3>. QED  BY <1>2, <3>2, <3>3
  <2>4. UNCHANGED syncs \/ \E S \in SUBSET {Arrival, Departure} : syncs' = [syncs EXCEPT ![t] = S]
    <3>1. \/ UNCHANGED syncs \/ syncs' = [syncs EXCEPT ![t] = {Input(t)}]
          \/ syncs' = [syncs EXCEPT ![t] = {}]
          \/ syncs' = [syncs EXCEPT ![t] = @ \cup {Output(t)}]
      BY <1>0, <1>3, Changes, Zenon
    <3>2. syncs[t] \in SUBSET {Arrival, Departure}
      BY <1>0 DEF BarrierTypes
    <3>. QED  BY <1>2, <3>1, <3>2
  <2>5. taken' \in [Node -> SUBSET {Arrival, Departure}]
    <3>1. UNCHANGED taken \/ Remove(t, Arrival) \/ Remove(t, Departure)
      BY <1>0, <1>3, Changes
    <3>2. NodeOf[t] \in Node /\ taken \in [Node -> SUBSET {Arrival, Departure}]
      BY <1>0, NodeAssumption DEF BarrierTypes
    <3>. QED  BY <3>1, <3>2 DEF Remove
  <2>3. leaked' \in [Node -> [Sync -> Nat]]
    <3>1. CASE UNCHANGED leaked
      BY <1>0, <3>1 DEF BarrierTypes
    <3>2. CASE CreateInput(t)
      <4>1. PICK n \in Node : n = NodeOf[t]
        BY NodeAssumption
      <4>2. PICK S : S = held[t] \ taken[n]
        OBVIOUS
      <4>3. leaked' = [leaked EXCEPT ![n] = [s \in Sync |-> @[s] + (IF s \in S THEN 1 ELSE 0)]]
        BY <3>2, <4>1, <4>2 DEF CreateInput
      <4>4. [s \in Sync |-> leaked[n][s] + (IF s \in S THEN 1 ELSE 0)] \in [Sync -> Nat]
        BY <1>0, <4>1 DEF BarrierTypes
      <4>. QED  BY <1>0, <4>3, <4>4 DEF BarrierTypes
    <3>. QED  BY <1>3, <3>1, <3>2 DEF Create, CreateOutput, GiveUp, Destroy, historyOfRefs
  <2>. QED  BY <1>0, <2>1, <2>2, <2>3, <2>4, <2>5 DEF BarrierTypes
<1>4. CASE Refuse(t)
  <2>1. /\ UNCHANGED <<scene, faults, at, syncs, held, failed, left, leaked, taken>>
        /\ entered[t] < scene.rounds /\ entered' = [entered EXCEPT ![t] = @ + 1]
    BY <1>4 DEF Refuse, historyOfRefs
  <2>2. entered[t] + 1 \in 0..MaxRounds
    BY <1>0, <1>1, <2>1 DEF BarrierTypes
  <2>. QED  BY <1>0, <2>1, <2>2 DEF BarrierTypes
<1>5. CASE Enter(t) \/ Proceed(t)
  <2>1. /\ UNCHANGED <<scene, faults, syncs, held, leaked, taken, left>>
        /\ UNCHANGED entered \/ (entered[t] < scene.rounds /\ entered' = [entered EXCEPT ![t] = @ + 1])
    BY <1>0, <1>5, Starts
  <2>3. \E l \in {"first", "between", "second", "ready"} : at' = [at EXCEPT ![t] = l]
    BY <1>0, <1>5, Starts
  <2>4. UNCHANGED failed \/ \E b \in BOOLEAN : failed' = [failed EXCEPT ![t] = b]
    <3>1. UNCHANGED failed \/ failed' = [failed EXCEPT ![t] = TRUE]
          \/ failed' = [failed EXCEPT ![t] = FALSE]
      BY <1>0, <1>5, Starts, Zenon
    <3>. QED  BY <3>1
  <2>2. entered' \in [Thread -> 0..MaxRounds]
    <3>1. entered[t] < scene.rounds => entered[t] + 1 \in 0..MaxRounds
      BY <1>0, <1>1 DEF BarrierTypes
    <3>. QED  BY <1>0, <2>1, <3>1 DEF BarrierTypes
  <2>. QED  BY <1>0, <2>1, <2>2, <2>3, <2>4 DEF BarrierTypes
<1>6. CASE Run(t) \/ Fail(t)
  <2>1. /\ UNCHANGED <<scene, syncs, held, entered, leaked, taken>> /\ faults' \in 0..scene.faults
        /\ UNCHANGED at \/ \E l \in {"between", "ready"} : at' = [at EXCEPT ![t] = l]
        /\ UNCHANGED failed \/ \E b \in BOOLEAN : failed' = [failed EXCEPT ![t] = b]
        /\ UNCHANGED left \/ (at[t] = "second" /\ left' = [left EXCEPT ![t] = @ + 1])
    BY <1>0, <1>6, InCall
  <2>2. left' \in [Thread -> 0..MaxRounds]
    <3>1. at[t] = "second" => left[t] + 1 <= entered[t]
      BY <1>0 DEF BarrierFits, Inside
    <3>2. at[t] = "second" => left[t] + 1 \in 0..MaxRounds
      BY <1>0, <1>1, <3>1 DEF BarrierTypes
    <3>. QED  BY <1>0, <2>1, <3>2 DEF BarrierTypes
  <2>. QED  BY <1>0, <2>1, <2>2 DEF BarrierTypes
<1>. QED  BY <1>3, <1>4, <1>5, <1>6 DEF BarrierStep

\* The places.
LEMMA BarrierFitsKept ==
    ASSUME BarrierInv, NEW t \in scene.who, BarrierStep(t)
    PROVE  BarrierFits'
<1>. USE DEF BarrierFits, Inside
<1>0. TypeOK /\ BarrierTypes /\ BarrierFits /\ t \in Thread
  BY Who DEF BarrierInv, SyncInv, BarrierTypes
<1>1. /\ pc \in [Thread -> PCs] /\ arg \in [Thread -> Sync \cup {NoSync}]
      /\ at \in [Thread -> {"none", "created", "ready", "first", "between", "second", "closing"}]
      /\ held \in [Thread -> SUBSET {Arrival, Departure}]
  BY <1>0 DEF TypeOK, BarrierTypes
<1>6. /\ entered \in [Thread -> Nat] /\ left \in [Thread -> Nat]
      /\ scene.rounds \in Nat /\ Arrival # Departure
  <2>1. scene.rounds \in 0..MaxRounds /\ MaxRounds \in Nat
    BY <1>0, Who, BarrierAssumption DEF BarrierTypes
  <2>2. entered \in [Thread -> 0..MaxRounds] /\ left \in [Thread -> 0..MaxRounds]
    BY <1>0 DEF BarrierTypes
  <2>. QED  BY <2>1, <2>2, Points
<1>. USE <1>6
<1>2. CASE Create(t) \/ GiveUp(t) \/ Destroy(t)
  <2>1. /\ pc[t] = "idle" /\ UNCHANGED <<scene, entered, left, pc, arg>>
    BY <1>0, <1>2, Changes
  <2>2. /\ at[t] \notin {"first", "between", "second"}
        /\ \E l \in {"none", "created", "ready", "closing"} : at' = [at EXCEPT ![t] = l]
    BY <1>0, <1>2, Changes
  <2>3. \A u \in Thread : u # t => held'[u] = held[u] /\ at'[u] = at[u]
    <3>1. \A s : Remove(t, s) => held' = [held EXCEPT ![t] = @ \ {s}]
      BY DEF Remove
    <3>2. UNCHANGED held \/ \E S : held' = [held EXCEPT ![t] = S]
      BY <1>0, <1>2, <3>1, Changes, Zenon
    <3>. QED  BY <1>1, <2>2, <3>2
  <2>4. at'[t] = "created" => held'[t] \subseteq {Input(t)}
    <3>1. \/ \E l \in {"none", "ready", "closing"} : at' = [at EXCEPT ![t] = l]
          \/ held' = [held EXCEPT ![t] = {Input(t)}] \/ held' = [held EXCEPT ![t] = {}]
      BY <1>0, <1>2, Changes
    <3>2. at'[t] = "created" => \/ held' = [held EXCEPT ![t] = {Input(t)}]
                               \/ held' = [held EXCEPT ![t] = {}]
      BY <1>0, <1>1, <3>1
    <3>. QED  BY <1>0, <1>1, <3>2
  <2>. QED  BY <1>0, <1>1, <2>1, <2>2, <2>3, <2>4
<1>3. CASE Refuse(t)
  BY <1>0, <1>1, <1>3 DEF Refuse, vars, callVars
<1>4. CASE Enter(t) \/ Proceed(t)
  <2>1. pc[t] = "idle" /\ UNCHANGED <<scene, held, left>>
    BY <1>0, <1>4, Starts
  <2>2. \/ /\ \E l \in {"consume", "signal"} : pc' = [pc EXCEPT ![t] = l]
           /\ \/ at' = [at EXCEPT ![t] = "first"] /\ arg' = [arg EXCEPT ![t] = Arrival]
              \/ at' = [at EXCEPT ![t] = "second"] /\ arg' = [arg EXCEPT ![t] = Departure]
        \/ /\ UNCHANGED <<pc, arg>>
           /\ \E l \in {"between", "ready"} : at' = [at EXCEPT ![t] = l]
    <3>1. UNCHANGED vars => UNCHANGED <<pc, arg>>
      BY DEF vars, callVars
    <3>. QED  BY <1>0, <1>4, <3>1, Starts, CallPlaces, Points
  <2>3. \/ at[t] = "ready" /\ entered[t] < scene.rounds /\ entered' = [entered EXCEPT ![t] = @ + 1]
        \/ at[t] = "between" /\ UNCHANGED entered
    BY <1>0, <1>4, Starts
  <2>. QED  BY <1>0, <1>1, <2>1, <2>2, <2>3
<1>5. CASE Run(t) \/ Fail(t)
  <2>1. at[t] \in {"first", "second"} /\ pc[t] # "idle" /\ UNCHANGED <<scene, held, entered>>
    BY <1>0, <1>5, InCall
  <2>2. \/ /\ UNCHANGED <<at, left, arg>>
           /\ \E l \in PCs \ {"idle"} : pc' = [pc EXCEPT ![t] = l]
        \/ /\ pc' = [pc EXCEPT ![t] = "idle"]
           /\ \/ at[t] = "first" /\ at' = [at EXCEPT ![t] = "between"] /\ UNCHANGED left
              \/ /\ at[t] = "second" /\ at' = [at EXCEPT ![t] = "ready"]
                 /\ UNCHANGED left \/ left' = [left EXCEPT ![t] = @ + 1]
           /\ arg' = [arg EXCEPT ![t] = NoSync]
    BY <1>0, <1>5, InCall
  <2>3. CASE UNCHANGED <<at, left, arg>> /\ \E l \in PCs \ {"idle"} : pc' = [pc EXCEPT ![t] = l]
    BY <1>0, <1>1, <2>1, <2>3
  <2>4. CASE /\ pc' = [pc EXCEPT ![t] = "idle"] /\ arg' = [arg EXCEPT ![t] = NoSync]
             /\ \/ at[t] = "first" /\ at' = [at EXCEPT ![t] = "between"] /\ UNCHANGED left
                \/ /\ at[t] = "second" /\ at' = [at EXCEPT ![t] = "ready"]
                   /\ UNCHANGED left \/ left' = [left EXCEPT ![t] = @ + 1]
    BY <1>0, <1>1, <2>1, <2>4
  <2>. QED  BY <2>2, <2>3, <2>4
<1>. QED  BY <1>2, <1>3, <1>4, <1>5 DEF BarrierStep

-----------------------------------------------------------------------------
(* The references.                                                         *)

Holders(n, s) == {u \in On(n) : s \in held[u]}

Part(s, S) == IF s \in S THEN 1 ELSE 0

\* How many hold a point when one thread changes its hold.
LEMMA HoldersChange ==
    ASSUME BarrierTypes, UNCHANGED scene, NEW t \in scene.who,
           \A u \in Thread : u # t => held'[u] = held[u], NEW s
    PROVE  /\ Cardinality(Holders(NodeOf[t], s)) \in Nat
           /\ Cardinality(Holders(NodeOf[t], s)') \in Nat
           /\ Cardinality(Holders(NodeOf[t], s)') + Part(s, held[t]) =
                 Cardinality(Holders(NodeOf[t], s)) + Part(s, held'[t])
<1>1. t \in Thread /\ held \in [Thread -> SUBSET {Arrival, Departure}]
      /\ On(NodeOf[t]) \subseteq Thread /\ t \in On(NodeOf[t]) /\ IsFiniteSet(On(NodeOf[t]))
  BY Who DEF BarrierTypes, On
<1>2. PICK others : others = {u \in On(NodeOf[t]) \ {t} : s \in held[u]}
  OBVIOUS
<1>3. /\ others \subseteq On(NodeOf[t]) /\ t \notin others
      /\ Holders(NodeOf[t], s) = IF s \in held[t] THEN others \cup {t} ELSE others
  BY <1>1, <1>2 DEF Holders
<1>4. Holders(NodeOf[t], s)' = IF s \in held'[t] THEN others \cup {t} ELSE others
  <2>1. Holders(NodeOf[t], s)' = {u \in On(NodeOf[t]) : s \in held'[u]}
    BY DEF Holders, On
  <2>. QED  BY <1>1, <1>2, <2>1
<1>5. IsFiniteSet(others) /\ Cardinality(others) \in Nat
      /\ Cardinality(others \cup {t}) = Cardinality(others) + 1
  BY <1>1, <1>3, FS_Subset, FS_CardinalityType, FS_AddElement
<1>. QED  BY <1>3, <1>4, <1>5 DEF Part

\* The references and the holds of a node change together.
LEMMA RefsChange ==
    ASSUME BarrierTypes, RefsHeld, TypeOK, UNCHANGED scene, NEW t \in scene.who,
           \A u \in Thread : u # t => held'[u] = held[u], BarrierTypes', TypeOK',
           NEW k, k = NodeOf[t],
           \A p \in Node, s \in Sync : p # k => refcount'[p][s] = refcount[p][s],
           \A p \in Node, s \in Sync : p # k => leaked'[p][s] = leaked[p][s],
           \A p \in Node : taken[p] \subseteq taken'[p],
           \A s \in {Arrival, Departure} \ taken'[k] :
              refcount'[k][s] + Part(s, held[t]) + leaked[k][s] =
                 refcount[k][s] + Part(s, held'[t]) + leaked'[k][s]
    PROVE  RefsHeld'
<1>1. SUFFICES ASSUME NEW n \in Node, NEW s \in {Arrival, Departure} \ taken'[n]
               PROVE  refcount'[n][s] = Cardinality(Holders(n, s)') + leaked'[n][s]
  BY DEF RefsHeld, Holders
<1>2. refcount[n][s] = Cardinality(Holders(n, s)) + leaked[n][s]
  BY DEF RefsHeld, Holders
<1>3. CASE n = NodeOf[t]
  <2>1. /\ refcount[n][s] \in Nat /\ leaked[n][s] \in Nat
        /\ refcount'[n][s] \in Nat /\ leaked'[n][s] \in Nat
    <3>1. /\ refcount \in [Node -> [Sync -> Nat]] /\ leaked \in [Node -> [Sync -> Nat]]
          /\ refcount' \in [Node -> [Sync -> Nat]] /\ leaked' \in [Node -> [Sync -> Nat]]
      BY DEF BarrierTypes, TypeOK
    <3>2. s \in Sync
      BY Points
    <3>. QED  BY <3>1, <3>2
  <2>2. refcount'[n][s] + Part(s, held[t]) + leaked[n][s] =
          refcount[n][s] + Part(s, held'[t]) + leaked'[n][s]
    BY <1>3
  <2>3. /\ Cardinality(Holders(n, s)) \in Nat /\ Cardinality(Holders(n, s)') \in Nat
        /\ Cardinality(Holders(n, s)') + Part(s, held[t]) =
             Cardinality(Holders(n, s)) + Part(s, held'[t])
    BY <1>3, HoldersChange
  <2>4. Part(s, held[t]) \in Nat /\ Part(s, held'[t]) \in Nat
    BY DEF Part
  <2>. QED  BY <1>2, <2>1, <2>2, <2>3, <2>4, SMTT(30)
<1>4. CASE n # NodeOf[t]
  <2>1. t \in Thread /\ held \in [Thread -> SUBSET {Arrival, Departure}]
        /\ On(n) \subseteq Thread /\ t \notin On(n) /\ On(n)' = On(n)
    BY <1>4, Who DEF BarrierTypes, On
  <2>2. Holders(n, s)' = Holders(n, s)
    BY <2>1 DEF Holders
  <2>. QED  BY <1>2, <1>4, <2>2, Points
<1>. QED  BY <1>3, <1>4

\* A barrier_create takes a reference for the barrier or leaves the old one behind,
\* a removal gives one back.
LEMMA RefsKept ==
    ASSUME BarrierInv, NEW t \in scene.who, BarrierStep(t), TypeOK', BarrierTypes'
    PROVE  RefsHeld'
<1>0. TypeOK /\ BarrierTypes /\ BarrierFits /\ RefsHeld /\ t \in Thread
  BY Who DEF BarrierInv, SyncInv, BarrierTypes
<1>1. PICK n : n = NodeOf[t]
  OBVIOUS
<1>2. /\ n \in Node /\ Input(t) \in {Arrival, Departure} /\ Output(t) \in {Arrival, Departure}
      /\ Input(t) # Output(t) /\ Arrival # Departure
      /\ Arrival \in Sync /\ Departure \in Sync
      /\ refcount \in [Node -> [Sync -> Nat]] /\ leaked \in [Node -> [Sync -> Nat]]
      /\ held \in [Thread -> SUBSET {Arrival, Departure}]
      /\ taken \in [Node -> SUBSET {Arrival, Departure}]
  BY <1>0, <1>1, EndsOf, Points DEF TypeOK, BarrierTypes
<1>3. /\ \A s : Alloc(t, s) => refcount' = [refcount EXCEPT ![n][s] = @ + 1]
      /\ \A s : Release(t, s) => refcount[n][s] > 0 /\ refcount' = [refcount EXCEPT ![n][s] = @ - 1]
      /\ UNCHANGED vars => UNCHANGED refcount
  BY <1>1 DEF Alloc, Release, vars, tableVars
<1>. DEFINE Apart == \A u \in Thread : u # t => held'[u] = held[u]
            SameRefs == \A p \in Node, s \in Sync : p # n => refcount'[p][s] = refcount[p][s]
            SameLeaks == \A p \in Node, s \in Sync : p # n => leaked'[p][s] = leaked[p][s]
            MoreTaken == \A p \in Node : taken[p] \subseteq taken'[p]
            Balance == \A s \in {Arrival, Departure} \ taken'[n] :
                          refcount'[n][s] + Part(s, held[t]) + leaked[n][s] =
                             refcount[n][s] + Part(s, held'[t]) + leaked'[n][s]
<1>11. ASSUME UNCHANGED scene, Apart, SameRefs, SameLeaks, MoreTaken, Balance PROVE RefsHeld'
  BY <1>0, <1>1, <1>11, RefsChange
<1>4. CASE CreateInput(t) /\ UNCHANGED <<scene, taken>>
  <2>1. PICK old : old = held[t]
    OBVIOUS
  <2>2. leaked' = [leaked EXCEPT ![n] =
                      [s \in Sync |-> @[s] + (IF s \in old \ taken[n] THEN 1 ELSE 0)]]
    BY <1>1, <1>4, <2>1 DEF CreateInput
  <2>3. /\ \A s \in Sync \ taken[n] : leaked'[n][s] = leaked[n][s] + Part(s, old)
        /\ \A p \in Node, s \in Sync : p # n => leaked'[p][s] = leaked[p][s]
    BY <1>2, <2>2 DEF Part
  <2>4. CASE Alloc(t, Input(t)) /\ held' = [held EXCEPT ![t] = {Input(t)}]
    <3>1. refcount' = [refcount EXCEPT ![n][Input(t)] = @ + 1]
      BY <1>3, <2>4
    <3>2. /\ \A s \in Sync : refcount'[n][s] = refcount[n][s] + Part(s, {Input(t)})
          /\ \A p \in Node, s \in Sync : p # n => refcount'[p][s] = refcount[p][s]
      BY <1>2, <3>1 DEF Part
    <3>3. \A s \in {Arrival, Departure} \ taken[n] :
             refcount'[n][s] + Part(s, held[t]) + leaked[n][s] =
                 refcount[n][s] + Part(s, {Input(t)}) + leaked'[n][s]
      <4>1. SUFFICES ASSUME NEW s \in {Arrival, Departure} \ taken[n]
                     PROVE  refcount'[n][s] + Part(s, old) + leaked[n][s] =
                              refcount[n][s] + Part(s, {Input(t)}) + leaked'[n][s]
        BY <2>1
      <4>2. /\ refcount'[n][s] = refcount[n][s] + Part(s, {Input(t)})
            /\ leaked'[n][s] = leaked[n][s] + Part(s, old)
        BY <1>2, <2>3, <3>2
      <4>4. /\ refcount[n][s] \in Nat /\ leaked[n][s] \in Nat
            /\ Part(s, {Input(t)}) \in Nat /\ Part(s, old) \in Nat
        BY <1>2 DEF Part
      <4>. QED  BY <4>2, <4>4
    <3>4. \A p \in Node, s \in Sync : p # n => leaked'[p][s] = leaked[p][s]
      BY <2>3
    <3>5. held'[t] = {Input(t)} /\ \A u \in Thread : u # t => held'[u] = held[u]
      BY <1>0, <1>2, <2>4
    <3>9. MoreTaken /\ Balance
      BY <1>4, <3>3, <3>5
    <3>. QED  BY <1>4, <1>11, <3>2, <3>4, <3>5, <3>9
  <2>5. CASE UNCHANGED refcount /\ held' = [held EXCEPT ![t] = {}]
    <3>1. \A s \in {Arrival, Departure} \ taken[n] :
             refcount'[n][s] + Part(s, held[t]) + leaked[n][s] =
                 refcount[n][s] + Part(s, {}) + leaked'[n][s]
      <4>1. SUFFICES ASSUME NEW s \in {Arrival, Departure} \ taken[n]
                     PROVE  refcount'[n][s] + Part(s, old) + leaked[n][s] =
                              refcount[n][s] + Part(s, {}) + leaked'[n][s]
        BY <2>1
      <4>2. refcount'[n][s] = refcount[n][s] /\ leaked'[n][s] = leaked[n][s] + Part(s, old)
        BY <1>2, <2>3, <2>5
      <4>3. Part(s, {}) = 0
        BY DEF Part
      <4>4. refcount[n][s] \in Nat /\ leaked[n][s] \in Nat /\ Part(s, old) \in Nat
        BY <1>2 DEF Part
      <4>. QED  BY <4>2, <4>3, <4>4
    <3>2. /\ \A p \in Node, s \in Sync : p # n => refcount'[p][s] = refcount[p][s]
          /\ \A p \in Node, s \in Sync : p # n => leaked'[p][s] = leaked[p][s]
      BY <2>3, <2>5
    <3>3. held'[t] = {} /\ \A u \in Thread : u # t => held'[u] = held[u]
      BY <1>0, <1>2, <2>5
    <3>9. MoreTaken /\ Balance
      BY <1>4, <3>1, <3>3
    <3>. QED  BY <1>4, <1>11, <3>2, <3>3, <3>9
  <2>. QED  BY <1>3, <1>4, <2>4, <2>5 DEF CreateInput
<1>5. CASE UNCHANGED <<scene, held, refcount, leaked, taken>>
  BY <1>0, <1>5 DEF RefsHeld, On
<1>6. CASE CreateOutput(t) /\ UNCHANGED <<scene, taken>>
  <2>1. CASE Alloc(t, Output(t)) /\ held' = [held EXCEPT ![t] = @ \cup {Output(t)}]
    <3>1. refcount' = [refcount EXCEPT ![n][Output(t)] = @ + 1] /\ UNCHANGED leaked
      BY <1>3, <1>6, <2>1 DEF CreateOutput
    <3>2. Output(t) \notin held[t]
      BY <1>0, <1>2, <1>6 DEF CreateOutput, BarrierFits
    <3>3. /\ \A s \in Sync : refcount'[n][s] = refcount[n][s] + Part(s, {Output(t)})
          /\ \A p \in Node, s \in Sync : p # n => refcount'[p][s] = refcount[p][s]
      BY <1>2, <3>1 DEF Part
    <3>4. \A s \in {Arrival, Departure} :
             refcount'[n][s] + Part(s, held[t]) + leaked[n][s] =
                 refcount[n][s] + Part(s, held[t] \cup {Output(t)}) + leaked'[n][s]
      BY <1>2, <3>1, <3>2, <3>3 DEF Part
    <3>5. held'[t] = held[t] \cup {Output(t)} /\ \A u \in Thread : u # t => held'[u] = held[u]
      BY <1>0, <1>2, <2>1
    <3>6. \A p \in Node, s \in Sync : p # n => leaked'[p][s] = leaked[p][s]
      BY <3>1
    <3>9. MoreTaken /\ Balance
      BY <1>6, <3>4, <3>5
    <3>. QED  BY <1>6, <1>11, <3>3, <3>5, <3>6, <3>9
  <2>2. CASE UNCHANGED <<vars, held>>
    BY <1>3, <1>5, <1>6, <2>2 DEF CreateOutput
  <2>. QED  BY <1>6, <2>1, <2>2 DEF CreateOutput
<1>7. CASE Destroy(t)
  <2>1. UNCHANGED <<scene, leaked>>
    BY <1>7 DEF Destroy
  <2>2. CASE UNCHANGED <<vars, held, taken>>
    BY <1>3, <1>5, <2>1, <2>2
  <2>3. CASE \E s \in {Arrival, Departure} : Remove(t, s)
    <3>1. PICK s0 \in {Arrival, Departure} : Remove(t, s0)
      BY <2>3
    <3>2. /\ refcount[n][s0] > 0 /\ refcount' = [refcount EXCEPT ![n][s0] = @ - 1]
          /\ held' = [held EXCEPT ![t] = @ \ {s0}]
      BY <1>3, <3>1 DEF Remove
    <3>3. MoreTaken /\ (s0 \notin taken'[n] => s0 \in held[t])
      BY <1>1, <1>2, <3>1 DEF Remove
    <3>4. held'[t] = held[t] \ {s0} /\ \A u \in Thread : u # t => held'[u] = held[u]
      BY <1>0, <1>2, <3>2
    <3>5. /\ \A s \in Sync : refcount'[n][s] + Part(s, {s0}) = refcount[n][s]
          /\ \A p \in Node, s \in Sync : p # n => refcount'[p][s] = refcount[p][s]
      BY <1>2, <3>1, <3>2 DEF Part
    <3>6. \A p \in Node, s \in Sync : p # n => leaked'[p][s] = leaked[p][s]
      BY <2>1
    <3>7. ASSUME NEW s \in {Arrival, Departure} \ taken'[n]
          PROVE  refcount'[n][s] + Part(s, held[t]) + leaked[n][s] =
                   refcount[n][s] + Part(s, held'[t]) + leaked'[n][s]
      <4>1. refcount'[n][s] + Part(s, {s0}) = refcount[n][s] /\ leaked'[n][s] = leaked[n][s]
        BY <1>2, <2>1, <3>5, <3>7
      <4>2. Part(s, held[t]) = Part(s, {s0}) + Part(s, held'[t])
        BY <3>3, <3>4, <3>7 DEF Part
      <4>3. /\ refcount[n][s] \in Nat /\ leaked[n][s] \in Nat /\ refcount'[n][s] \in Nat
            /\ Part(s, {s0}) \in Nat /\ Part(s, held'[t]) \in Nat
        BY <1>2, <3>7, SMTT(30) DEF Part, TypeOK
      <4>. QED  BY <4>1, <4>2, <4>3
    <3>. QED  BY <1>11, <2>1, <3>3, <3>4, <3>5, <3>6, <3>7
  <2>. QED  BY <1>7, <2>2, <2>3 DEF Destroy, DestroyFirst, DestroySecond
<1>8. CASE GiveUp(t) \/ Refuse(t)
  BY <1>3, <1>5, <1>8 DEF GiveUp, Refuse, historyOfRefs
<1>9. CASE Enter(t) \/ Proceed(t)
  <2>1. UNCHANGED <<scene, held, leaked, taken>>
    BY <1>0, <1>9, Starts
  <2>2. UNCHANGED refcount
    BY <1>0, <1>3, <1>9, Starts DEF Wait, Signal
  <2>. QED  BY <1>5, <2>1, <2>2
<1>10. CASE Run(t) \/ Fail(t)
  <2>1. UNCHANGED <<scene, held, leaked, taken>>
    BY <1>0, <1>10, InCall
  <2>2. UNCHANGED refcount
    BY <1>10 DEF Run, Fail, Step, TryConsume, LockAndConsume, Consume, Read, SignalLock, Send,
                 Finish, ReadError, SendError, tableVars
  <2>. QED  BY <1>5, <2>1, <2>2
<1>. QED  BY <1>4, <1>6, <1>7, <1>8, <1>9, <1>10 DEF BarrierStep, Create

-----------------------------------------------------------------------------
(* The signals.                                                            *)

\* Entries in which nothing is ever counted.
CountsNothing(n, s) ==
    /\ barrier[n][s] = {} /\ nbarriers[n][s] = 0
    /\ \A m \in Node : nreceived[n][s][m] = 0

\* A step of Sync counts only at receivers.
LEMMA NothingCounted ==
    ASSUME SyncInv, NEW t \in Thread, NEW s0 \in Sync, Moves(t, s0),
           NEW n \in Node, NEW s \in Sync, n \notin Receivers(s), CountsNothing(n, s)
    PROVE  CountsNothing(n, s)'
<1>. USE DEF CountsNothing
<1>0. EntryTypes /\ NodeOf[t] \in Node /\ arg \in [Thread -> Sync \cup {NoSync}]
  BY NodeAssumption DEF SyncInv, TypeOK, EntryTypes
<1>1. CASE Alloc(t, s0)
  <2>1. CASE UNCHANGED <<barrier, nreceived, nbarriers>>
    BY <2>1
  <2>2. CASE /\ barrier' = [barrier EXCEPT ![NodeOf[t]][s0] = {}]
             /\ nreceived' = [nreceived EXCEPT ![NodeOf[t]][s0] = [m \in Node |-> 0]]
             /\ nbarriers' = [nbarriers EXCEPT ![NodeOf[t]][s0] = 0]
    BY <1>0, <2>2 DEF EntryTypes
  <2>. QED  BY <1>1, <2>1, <2>2 DEF Alloc
<1>2. CASE Release(t, s0)
  <2>1. UNCHANGED <<nreceived, nbarriers>>
    BY <1>2 DEF Release
  <2>2. UNCHANGED barrier \/ barrier' = [barrier EXCEPT ![NodeOf[t]][s0] = {}]
    BY <1>2 DEF Release
  <2>3. barrier'[n][s] = {}
    <3>1. barrier \in [Node -> [Sync -> SUBSET Node]] /\ barrier[n][s] = {}
      BY <1>0 DEF EntryTypes
    <3>2. CASE barrier' = [barrier EXCEPT ![NodeOf[t]][s0] = {}]
      BY <1>0, <3>1, <3>2
    <3>. QED  BY <2>2, <3>1, <3>2
  <2>. QED  BY <2>1, <2>3
<1>3. CASE Consume(t) /\ (pc[t] = "consume" \/ pc[t] = "lock")
  <2>1. UNCHANGED <<barrier, nreceived>> /\ nbarriers' = [nbarriers EXCEPT ![NodeOf[t]][arg[t]] = @ - 1]
    BY <1>3 DEF Consume
  <2>2. NodeOf[t] \in Receivers(arg[t])
    BY <1>3 DEF SyncInv, ArgsFit, Waiting
  <2>3. nbarriers'[n][s] = nbarriers[n][s]
    BY <1>0, <2>1, <2>2 DEF EntryTypes
  <2>. QED  BY <2>1, <2>3
<1>4. CASE Read(t)
  <2>1. PICK p, q, r, k : p = NodeOf[t] /\ q = inbox[p] /\ r = Head(q).sync /\ k = Head(q).source
    OBVIOUS
  <2>2. /\ p \in Node /\ r \in Sync /\ p \in Receivers(r) /\ k \in Senders(r)
        /\ refcount[p][r] > 0 => Counts(p, r) /\ Arrive(p, r, k)
        /\ ~(refcount[p][r] > 0) => UNCHANGED <<barrier, nreceived, nbarriers>>
    BY <1>4, <2>1, ReadSteps
  <2>3. CASE refcount[p][r] > 0
    <3>1. \A pp \in Node, rr \in Sync : pp # p \/ rr # r => SameEntry(pp, rr)
      BY <1>0, <2>2, <2>3, ArriveCounts
    <3>2. SameEntry(n, s)
      BY <2>2, <3>1
    <3>. QED  BY <3>2 DEF SameEntry
  <2>. QED  BY <2>2, <2>3
<1>5. CASE UNCHANGED <<barrier, nreceived, nbarriers>>
  BY <1>5
<1>. QED
  BY <1>1, <1>2, <1>3, <1>4, <1>5 DEF Moves, Call, Step, Wait, Signal, TryConsume, LockAndConsume,
     ReadError, SignalLock, Send, SendError, Finish, tableVars

\* Only the barrier's points carry signals, and only their receivers count them.
LEMMA OnlyItsOwnKept ==
    ASSUME BarrierInv, NEW t \in scene.who, BarrierStep(t)
    PROVE  OnlyItsOwn'
<1>0. SyncInv /\ TypeOK /\ BarrierFits /\ OnlyItsOwn /\ t \in Thread
  BY Who DEF BarrierInv, SyncInv, BarrierTypes
<1>1. ASSUME NEW n \in Node, NEW s \in Sync, n \notin Receivers(s) PROVE CountsNothing(n, s)'
  <2>1. CountsNothing(n, s)
    BY <1>0, <1>1 DEF OnlyItsOwn, CountsNothing
  <2>2. CASE UNCHANGED vars
    BY <2>1, <2>2 DEF CountsNothing, vars, tableVars
  <2>3. CASE \E s0 \in Sync : Moves(t, s0)
    BY <1>0, <1>1, <2>1, <2>3, NothingCounted
  <2>. QED  BY <1>0, <2>2, <2>3, BarrierMoves
<1>2. ASSUME NEW s \in Sync \ {Arrival, Departure}, NEW m \in Node, NEW n \in Node
      PROVE  sent'[s][m][n] = 0
  <2>1. sent[s][m][n] = 0
    BY <1>0 DEF OnlyItsOwn
  <2>2. CASE UNCHANGED sent
    BY <2>1, <2>2
  <2>3. CASE Send(t)
    <3>1. sent \in [Sync -> [Node -> [Node -> Nat]]]
      BY <1>0 DEF TypeOK
    <3>2. arg[t] \in {Arrival, Departure}
      BY <1>0, <2>3 DEF Send, BarrierFits
    <3>3. sent'[s] = sent[s]
      BY <3>1, <3>2, <2>3 DEF Send
    <3>. QED  BY <2>1, <3>3
  <2>4. UNCHANGED sent \/ Send(t)
    <3>1. UNCHANGED vars => UNCHANGED sent
      BY DEF vars, historyVars
    <3>2. \A s0 : Moves(t, s0) => UNCHANGED sent \/ Send(t)
      BY DEF Moves, Call, Step, Alloc, Release, Wait, Signal, TryConsume, LockAndConsume, Consume,
             Read, ReadError, SignalLock, SendError, Finish, historyVars
    <3>. QED  BY <1>0, <3>1, <3>2, BarrierMoves
  <2>. QED  BY <2>2, <2>3, <2>4
<1>. QED  BY <1>1, <1>2 DEF OnlyItsOwn, CountsNothing

-----------------------------------------------------------------------------
(* The ledger.                                                             *)

\* A step leaves the other threads alone.
LEMMA OthersKeep ==
    ASSUME TypeOK, BarrierTypes, BarrierFits, NEW t \in Thread, BarrierStep(t),
           NEW u \in Thread, u # t
    PROVE  /\ pc'[u] = pc[u] /\ arg'[u] = arg[u] /\ targets'[u] = targets[u]
           /\ at'[u] = at[u] /\ failed'[u] = failed[u]
           /\ syncs'[u] = syncs[u] /\ held'[u] = held[u]
           /\ entered'[u] = entered[u] /\ left'[u] = left[u]
<1>1. pc'[u] = pc[u] /\ arg'[u] = arg[u] /\ targets'[u] = targets[u]
  <2>1. /\ pc \in [Thread -> PCs] /\ arg \in [Thread -> Sync \cup {NoSync}]
        /\ targets \in [Thread -> SUBSET Node]
    BY DEF TypeOK
  <2>2. CASE UNCHANGED vars
    BY <2>2 DEF vars, callVars
  <2>3. CASE \E s \in Sync : Moves(t, s)
    <3>1. PICK s \in Sync : Moves(t, s)
      BY <2>3
    <3>2. UNCHANGED pc \/ \E l : pc' = [pc EXCEPT ![t] = l]
      BY <3>1, CallPlaces, StepPlaces, Zenon DEF Moves, Call
    <3>3. UNCHANGED arg \/ \E r : arg' = [arg EXCEPT ![t] = r]
      BY <3>1, CallPlaces, StepPlaces, ZenonT(40) DEF Moves, Call
    <3>4. UNCHANGED targets \/ \E S : targets' = [targets EXCEPT ![t] = S]
      <4>1. CASE SignalLock(t) \/ Send(t) \/ SendError(t)
        <5>1. \/ targets' = [targets EXCEPT ![t] = Receivers(arg[t])]
              \/ targets' = [targets EXCEPT ![t] = targets[t] \ {Min(targets[t])}]
              \/ targets' = [targets EXCEPT ![t] = {}]
          BY <4>1 DEF SignalLock, Send, SendError
        <5>. QED  BY <5>1, Zenon
      <4>2. CASE UNCHANGED targets
        BY <4>2
      <4>. QED  BY <3>1, <4>1, <4>2 DEF Moves, Call, Step, Alloc, Release, Wait, Signal,
                  TryConsume, LockAndConsume, Consume, Read, ReadError, Finish, callVars
    <3>. QED  BY <2>1, <3>2, <3>3, <3>4
  <2>. QED  BY <2>2, <2>3, BarrierMoves
<1>2. /\ at'[u] = at[u] /\ failed'[u] = failed[u]
      /\ syncs'[u] = syncs[u] /\ held'[u] = held[u]
      /\ entered'[u] = entered[u] /\ left'[u] = left[u]
  <2>1. UNCHANGED at \/ \E l : at' = [at EXCEPT ![t] = l]
    BY DEF BarrierStep, Create, CreateInput, CreateOutput, GiveUp, Destroy, DestroyFirst, DestroySecond,
           Refuse, Enter, Proceed, Run, Fail, Goes, At, Return, barrierVars
  <2>2. UNCHANGED held \/ \E S : held' = [held EXCEPT ![t] = S]
    <3>1. \A x : Remove(t, x) => held' = [held EXCEPT ![t] = held[t] \ {x}]
      BY DEF Remove
    <3>. QED  BY <3>1, Zenon DEF BarrierStep, Create, CreateInput, CreateOutput, GiveUp, Destroy,
                DestroyFirst, DestroySecond, Refuse, Enter, Proceed, Run, Fail, Goes, Return, barrierVars
  <2>6. UNCHANGED syncs \/ \E S : syncs' = [syncs EXCEPT ![t] = S]
    BY Zenon DEF BarrierStep, Create, CreateInput, CreateOutput, GiveUp, Destroy, Refuse, Enter, Proceed,
                 Run, Fail, Goes, Return, barrierVars
  <2>3. UNCHANGED failed \/ \E b : failed' = [failed EXCEPT ![t] = b]
    BY DEF BarrierStep, Create, GiveUp, Destroy, DestroyFirst, DestroySecond, Refuse, Enter, Proceed, Run,
           Fail, Goes, Return, barrierVars
  <2>4. UNCHANGED entered \/ entered' = [entered EXCEPT ![t] = entered[t] + 1]
    BY DEF BarrierStep, Create, GiveUp, Destroy, Refuse, Enter, Proceed, Run, Fail, Goes, Return,
           barrierVars, historyOfWaits
  <2>5. UNCHANGED left \/ left' = [left EXCEPT ![t] = left[t] + 1]
    BY DEF BarrierStep, Create, GiveUp, Destroy, Refuse, Enter, Proceed, Run, Fail, Goes, Return,
           barrierVars, historyOfWaits
  <2>. QED  BY <2>1, <2>2, <2>3, <2>4, <2>5, <2>6 DEF BarrierTypes
<1>. QED  BY <1>1, <1>2

\* A thread that has met no error up to now.
Clean(u) == entered[u] = left[u] + (IF Inside(u) /\ ~failed[u] THEN 1 ELSE 0)

\* Such a thread is inside its one unfinished wait, or in none.
LEMMA CleanNow ==
    ASSUME BarrierTypes, BarrierFits, NEW u \in Thread, Clean(u)
    PROVE  Inside(u) => ~failed[u] /\ entered[u] = left[u] + 1
BY DEF Clean, BarrierFits, BarrierTypes

\* Who takes part is chosen once.
LEMMA SceneKept ==
    ASSUME NEW t, BarrierStep(t)
    PROVE  UNCHANGED scene
BY DEF BarrierStep, Create, GiveUp, Destroy, Refuse, Enter, Proceed, Run, Fail, Goes, Return, barrierVars

\* An error is never forgotten: where there is none there was none, and the step has
\* not met one.
LEMMA CleanSteps ==
    ASSUME BarrierInv, NEW t \in scene.who, BarrierStep(t), NoErrorYet', BarrierTypes', BarrierFits'
    PROVE  /\ NoErrorYet
           /\ Inside(t)' => ~failed'[t] /\ entered'[t] = left'[t] + 1
           /\ Inside(t) => ~failed[t] /\ entered[t] = left[t] + 1
           /\ \/ Create(t) \/ GiveUp(t) \/ Destroy(t)
              \/ Enter(t) /\ (Wait(t, Arrival) \/ Signal(t, Arrival))
                 /\ at' = [at EXCEPT ![t] = "first"]
              \/ Proceed(t) /\ (Wait(t, Departure) \/ Signal(t, Departure))
                 /\ at' = [at EXCEPT ![t] = "second"]
              \/ Run(t)
<1>0. TypeOK /\ BarrierTypes /\ BarrierFits /\ t \in Thread /\ scene.who \subseteq Thread
      /\ UNCHANGED scene
  BY Who, SceneKept DEF BarrierInv, SyncInv, BarrierTypes
<1>1. Clean(t)' /\ \A u \in scene.who : Clean(u)'
  BY <1>0 DEF NoErrorYet, Clean
<1>2. ASSUME NEW u \in scene.who, u # t PROVE Clean(u)
  <2>1. u \in Thread
    BY <1>0
  <2>2. at'[u] = at[u] /\ failed'[u] = failed[u] /\ entered'[u] = entered[u] /\ left'[u] = left[u]
    BY <1>0, <1>2, <2>1, OthersKeep
  <2>3. Clean(u)'
    BY <1>1
  <2>. QED  BY <2>2, <2>3 DEF Clean, Inside
<1>3. Inside(t)' => ~failed'[t] /\ entered'[t] = left'[t] + 1
  BY <1>0, <1>1 DEF Clean, BarrierFits, BarrierTypes
<1>4. /\ entered[t] \in Nat /\ left[t] \in Nat /\ entered'[t] \in Nat /\ left'[t] \in Nat
      /\ left[t] + (IF Inside(t) THEN 1 ELSE 0) <= entered[t]
      /\ failed[t] \in BOOLEAN
      /\ entered'[t] = left'[t] + (IF Inside(t)' /\ ~failed'[t] THEN 1 ELSE 0)
  <2>1. entered[t] \in 0..MaxRounds /\ left[t] \in 0..MaxRounds /\ failed[t] \in BOOLEAN
    BY <1>0 DEF BarrierTypes
  <2>2. entered'[t] \in 0..MaxRounds /\ left'[t] \in 0..MaxRounds
    BY <1>0 DEF BarrierTypes
  <2>3. entered'[t] = left'[t] + (IF Inside(t)' /\ ~failed'[t] THEN 1 ELSE 0)
    BY <1>1 DEF Clean
  <2>4. left[t] + (IF Inside(t) THEN 1 ELSE 0) <= entered[t]
    BY <1>0 DEF BarrierFits
  <2>5. MaxRounds \in Nat
    BY BarrierAssumption
  <2>. QED  BY <2>1, <2>2, <2>3, <2>4, <2>5
<1>5. /\ at \in [Thread -> {"none", "created", "ready", "first", "between", "second", "closing"}]
      /\ failed \in [Thread -> BOOLEAN] /\ entered \in [Thread -> 0..MaxRounds]
      /\ left \in [Thread -> 0..MaxRounds]
  BY <1>0 DEF BarrierTypes
<1>. DEFINE Good == /\ \/ Create(t) \/ GiveUp(t) \/ Destroy(t)
                       \/ Enter(t) /\ (Wait(t, Arrival) \/ Signal(t, Arrival))
                          /\ at' = [at EXCEPT ![t] = "first"]
                       \/ Proceed(t) /\ (Wait(t, Departure) \/ Signal(t, Departure))
                          /\ at' = [at EXCEPT ![t] = "second"]
                       \/ Run(t)
<1>6. Good /\ Clean(t)
  <2>1. CASE Create(t) \/ GiveUp(t) \/ Destroy(t)
    <3>1. UNCHANGED <<entered, left>>
      BY <1>0, <2>1, Changes
    <3>2. /\ at[t] \in {"none", "created", "ready", "closing"}
          /\ \E l \in {"none", "created", "ready", "closing"} : at' = [at EXCEPT ![t] = l]
      BY <1>0, <2>1, Changes
    <3>3. ~Inside(t) /\ ~Inside(t)'
      BY <1>0, <1>5, <3>2 DEF Inside
    <3>4. Clean(t)
      BY <1>4, <3>1, <3>3 DEF Clean
    <3>. QED  BY <2>1, <3>4
  <2>2. CASE Refuse(t)
    <3>1. /\ at[t] = "ready" /\ UNCHANGED <<at, left>> /\ entered' = [entered EXCEPT ![t] = @ + 1]
      BY <2>2 DEF Refuse
    <3>2. ~Inside(t) /\ ~Inside(t)' /\ entered'[t] = entered[t] + 1 /\ left'[t] = left[t]
      BY <1>0, <1>5, <3>1 DEF Inside
    <3>. QED  BY <1>4, <3>2
  <2>3. CASE Enter(t) \/ Proceed(t)
    <3>1. UNCHANGED left
      BY <1>0, <2>3, Starts
    <3>2. CASE Enter(t) /\ at[t] = "ready" /\ entered' = [entered EXCEPT ![t] = @ + 1]
      <4>1. ~Inside(t) /\ entered'[t] = entered[t] + 1 /\ left'[t] = left[t]
        BY <1>0, <1>5, <3>1, <3>2 DEF Inside
      <4>2. entered[t] = left[t] /\ ~failed'[t]
        BY <1>4, <4>1
      <4>3. ~Proceed(t)
        BY <3>2 DEF Proceed
      <4>4. \/ (Wait(t, Arrival) \/ Signal(t, Arrival)) /\ at' = [at EXCEPT ![t] = "first"]
            \/ failed' = [failed EXCEPT ![t] = TRUE]
        BY <1>0, <2>3, <4>3, Starts
      <4>5. failed' # [failed EXCEPT ![t] = TRUE]
        BY <1>0, <1>5, <4>2
      <4>. QED  BY <1>4, <3>2, <4>1, <4>2, <4>4, <4>5 DEF Clean
    <3>3. CASE Proceed(t) /\ at[t] = "between" /\ UNCHANGED entered
      <4>1. Inside(t) /\ entered'[t] = entered[t] /\ left'[t] = left[t]
        BY <3>1, <3>3 DEF Inside
      <4>2. Inside(t)' /\ ~failed'[t]
        BY <1>4, <4>1
      <4>3. ~Enter(t)
        BY <3>3 DEF Enter
      <4>4. \/ (Wait(t, Departure) \/ Signal(t, Departure)) /\ at' = [at EXCEPT ![t] = "second"]
               /\ UNCHANGED failed
            \/ at' = [at EXCEPT ![t] = "ready"]
        BY <1>0, <2>3, <4>3, Starts
      <4>5. at' # [at EXCEPT ![t] = "ready"]
        BY <1>0, <1>5, <4>2 DEF Inside
      <4>. QED  BY <1>4, <3>3, <4>1, <4>2, <4>4, <4>5 DEF Clean
    <3>. QED  BY <1>0, <2>3, <3>2, <3>3, Starts
  <2>4. CASE Run(t) \/ Fail(t)
    <3>1. at[t] \in {"first", "second"} /\ UNCHANGED entered
      BY <1>0, <2>4, InCall
    <3>2. Inside(t) /\ entered'[t] = entered[t]
      BY <3>1 DEF Inside
    <3>3. CASE UNCHANGED <<at, left>> /\ (UNCHANGED failed \/ failed' = [failed EXCEPT ![t] = TRUE])
      <4>1. Inside(t)' /\ left'[t] = left[t]
        BY <3>2, <3>3 DEF Inside
      <4>2. ~failed'[t]
        BY <1>4, <3>2, <4>1
      <4>3. failed' # [failed EXCEPT ![t] = TRUE]
        BY <1>0, <1>5, <4>2
      <4>4. Run(t)
        BY <2>4, <4>3 DEF Fail
      <4>. QED  BY <1>4, <3>2, <3>3, <4>1, <4>2, <4>3, <4>4 DEF Clean
    <3>4. CASE at[t] = "first" /\ at' = [at EXCEPT ![t] = "between"] /\ UNCHANGED <<failed, left>>
      <4>1. Inside(t)' /\ left'[t] = left[t]
        BY <1>0, <1>5, <3>4 DEF Inside
      <4>2. ~failed'[t]
        BY <1>4, <3>2, <4>1
      <4>3. failed' # [failed EXCEPT ![t] = TRUE]
        BY <1>0, <1>5, <4>2
      <4>4. Run(t)
        BY <2>4, <4>3 DEF Fail
      <4>. QED  BY <1>4, <3>2, <3>4, <4>1, <4>2, <4>3, <4>4 DEF Clean
    <3>5. CASE /\ at' = [at EXCEPT ![t] = "ready"] /\ failed' = [failed EXCEPT ![t] = FALSE]
               /\ left' = IF failed[t] THEN left ELSE [left EXCEPT ![t] = @ + 1]
      <4>1. ~Inside(t)' /\ ~failed'[t]
        BY <1>0, <1>5, <3>5 DEF Inside
      <4>2. left'[t] = left[t] + (IF failed[t] THEN 0 ELSE 1)
        BY <1>0, <1>5, <3>5
      <4>3. ~failed[t] /\ entered[t] = left[t] + 1
        BY <1>4, <3>2, <4>1, <4>2
      <4>4. failed' # [failed EXCEPT ![t] = TRUE]
        BY <1>0, <1>5, <4>1
      <4>5. Run(t)
        BY <2>4, <4>4 DEF Fail
      <4>. QED  BY <3>2, <4>3, <4>5 DEF Clean
    <3>. QED  BY <1>0, <2>4, <3>3, <3>4, <3>5, InCall
  <2>. QED  BY <2>1, <2>2, <2>3, <2>4 DEF BarrierStep
<1>7. NoErrorYet
  BY <1>2, <1>6 DEF NoErrorYet, Clean
<1>. QED  BY <1>0, <1>3, <1>6, <1>7, CleanNow

\* What a node's waits and signals come to changes only with its own threads.
LEMMA OwnHistory ==
    ASSUME TypeOK, BarrierTypes, BarrierFits, NEW t \in Thread, BarrierStep(t)
    PROVE  /\ \A n \in Node, s \in Sync : n # NodeOf[t] => released'[n][s] = released[n][s]
           /\ \A m, n \in Node, s \in Sync : m # NodeOf[t] => sent'[s][m][n] = sent[s][m][n]
           /\ ~Run(t) => UNCHANGED <<released, sent>>
           /\ Run(t) => /\ (Send(t) \/ UNCHANGED sent)
                        /\ (UNCHANGED released
                              \/ (Consume(t) /\ ~Send(t) /\ Waiting(t)
                                    /\ (TryConsume(t) \/ LockAndConsume(t))))
<1>1. /\ released \in [Node -> [Sync -> Nat]] /\ sent \in [Sync -> [Node -> [Node -> Nat]]]
      /\ NodeOf[t] \in Node
  BY NodeAssumption DEF TypeOK
<1>2. UNCHANGED vars => UNCHANGED <<released, sent>>
  BY DEF vars, historyVars
<1>3. CASE ~Run(t)
  <2>1. \A s : Alloc(t, s) \/ Release(t, s) \/ Wait(t, s) \/ Signal(t, s) => UNCHANGED <<released, sent>>
    BY DEF Alloc, Release, Wait, Signal, historyVars
  <2>2. ReadError(t) \/ SendError(t) => UNCHANGED <<released, sent>>
    BY DEF ReadError, SendError, historyVars
  <2>3. UNCHANGED <<released, sent>>
    BY <1>2, <1>3, <2>1, <2>2, ZenonT(40) DEF BarrierStep, Create, CreateInput, CreateOutput, GiveUp,
       Destroy, DestroyFirst, DestroySecond, Remove, Refuse, Enter, Proceed, Fail
  <2>. QED  BY <1>3, <2>3
<1>4. CASE Run(t)
  <2>1. Send(t) \/ UNCHANGED sent
    BY <1>4 DEF Run, Step, TryConsume, LockAndConsume, Consume, Read, SignalLock, Finish, historyVars
  <2>2. \/ UNCHANGED released
        \/ Consume(t) /\ ~Send(t) /\ Waiting(t) /\ (TryConsume(t) \/ LockAndConsume(t))
    BY <1>4 DEF Run, Step, TryConsume, LockAndConsume, Read, SignalLock, Send, Finish, historyVars,
                Waiting
  <2>3. \A m, n \in Node, s \in Sync : m # NodeOf[t] => sent'[s][m][n] = sent[s][m][n]
    <3>1. CASE Send(t)
      <4>1. PICK m0, s0, k0 : m0 = NodeOf[t] /\ s0 = arg[t] /\ k0 = Min(targets[t])
        OBVIOUS
      <4>2. sent' = [sent EXCEPT ![s0][m0][k0] = @ + 1]
        BY <3>1, <4>1 DEF Send
      <4>. QED  BY <1>1, <4>1, <4>2
    <3>. QED  BY <2>1, <3>1
  <2>4. \A n \in Node, s \in Sync : n # NodeOf[t] => released'[n][s] = released[n][s]
    <3>1. CASE Consume(t)
      <4>1. PICK n0, s0 : n0 = NodeOf[t] /\ s0 = arg[t]
        OBVIOUS
      <4>2. released' = [released EXCEPT ![n0][s0] = @ + 1]
        BY <3>1, <4>1 DEF Consume
      <4>. QED  BY <1>1, <4>1, <4>2
    <3>. QED  BY <2>2, <3>1
  <2>. QED  BY <1>4, <2>1, <2>2, <2>3, <2>4
<1>. QED  BY <1>3, <1>4

\* The debts of the other threads stay.
LEMMA OthersOwe ==
    ASSUME TypeOK, BarrierTypes, BarrierFits, NEW t \in Thread, BarrierStep(t),
           NEW u \in Thread, u # t, NEW k
    PROVE  Got'[u] = Got[u] /\ Gave(k)'[u] = Gave(k)[u]
<1>1. /\ pc'[u] = pc[u] /\ targets'[u] = targets[u] /\ at'[u] = at[u] /\ entered'[u] = entered[u]
  BY OthersKeep
<1>. QED  BY <1>1 DEF Got, Gave, WaitDue, SendDue, Before, In, Input, Output, Leader

\* Debts are of the round that a thread is in.
LEMMA DuesInside ==
    ASSUME NEW u \in Thread, NEW k
    PROVE  /\ WaitDue(u) => Inside(u)
           /\ SendDue(u, k) => Inside(u)
BY DEF WaitDue, SendDue, Before, In, Inside

\* A thread has one wait more behind it exactly when its node has.
LEMMA GotStep ==
    ASSUME BarrierInv, NEW t \in scene.who, BarrierStep(t), NoErrorYet',
           SyncInv', BarrierTypes', BarrierFits'
    PROVE  \E d \in {0, 1} :
             /\ entered'[t] - (IF WaitDue(t)' THEN 1 ELSE 0) =
                  entered[t] - (IF WaitDue(t) THEN 1 ELSE 0) + d
             /\ released'[NodeOf[t]][Input(t)] = released[NodeOf[t]][Input(t)] + d
<1>0. /\ SyncInv /\ TypeOK /\ BarrierTypes /\ BarrierFits /\ t \in Thread
      /\ NodeOf[t] \in Members[Arrival] /\ UNCHANGED scene
  BY Who, SceneKept DEF BarrierInv, SyncInv, BarrierTypes
<1>1. /\ Input(t) \in {Arrival, Departure} /\ Arrival # Departure /\ NodeOf[t] \in Node
      /\ Input(t) \in Sync
      /\ NodeOf[t] \in Receivers(Input(t)) /\ NodeOf[t] \in Senders(Output(t))
      /\ NodeOf[t] \in Receivers(Arrival) \/ NodeOf[t] \in Senders(Departure) => Input(t) = Arrival
      /\ NodeOf[t] \in Receivers(Departure) \/ NodeOf[t] \in Senders(Arrival) => Input(t) = Departure
  BY <1>0, EndsOf, Points
<1>2. /\ pc \in [Thread -> PCs] /\ arg \in [Thread -> Sync \cup {NoSync}]
      /\ at \in [Thread -> {"none", "created", "ready", "first", "between", "second", "closing"}]
      /\ entered \in [Thread -> 0..MaxRounds] /\ MaxRounds \in Nat
      /\ released \in [Node -> [Sync -> Nat]]
  BY <1>0, BarrierAssumption DEF TypeOK, BarrierTypes
<1>3. entered[t] \in Nat /\ released[NodeOf[t]][Input(t)] \in Nat
  BY <1>0, <1>1, <1>2
<1>5. Input(t)' = Input(t)
  BY DEF Input, Leader
<1>6. CASE Create(t) \/ GiveUp(t) \/ Destroy(t)
  <2>1. /\ at[t] \in {"none", "created", "ready", "closing"} /\ UNCHANGED <<entered, pc>>
        /\ \E l \in {"none", "created", "ready", "closing"} : at' = [at EXCEPT ![t] = l]
    BY <1>0, <1>6, Changes
  <2>2. ~Inside(t) /\ ~Inside(t)'
    BY <1>0, <1>2, <2>1 DEF Inside
  <2>3. ~WaitDue(t) /\ ~WaitDue(t)'
    BY <1>0, <2>2, DuesInside DEF WaitDue, In, Before, Inside, Input, Leader
  <2>4. ~Run(t)
    BY <1>0, <2>2, InCall DEF Inside
  <2>5. UNCHANGED released
    BY <1>0, <2>4, OwnHistory
  <2>. QED  BY <1>3, <2>1, <2>3, <2>5
<1>7. CASE /\ Enter(t) /\ (Wait(t, Arrival) \/ Signal(t, Arrival))
           /\ at' = [at EXCEPT ![t] = "first"]
  <2>1. at[t] = "ready" /\ entered' = [entered EXCEPT ![t] = @ + 1]
    BY <1>7 DEF Enter
  <2>2. ~WaitDue(t)
    BY <2>1 DEF WaitDue, In, Before
  <2>3. at'[t] = "first" /\ entered'[t] = entered[t] + 1
    BY <1>0, <1>2, <1>7, <2>1
  <2>4. WaitDue(t)'
    <3>1. CASE Wait(t, Arrival)
      <4>1. Input(t) = Arrival /\ pc'[t] = "consume"
        BY <1>0, <1>1, <1>2, <3>1, CallPlaces, Points
      <4>. QED  BY <1>5, <2>3, <4>1 DEF WaitDue, In
    <3>2. CASE Signal(t, Arrival)
      <4>1. Input(t) = Departure
        BY <1>0, <1>1, <3>2, CallPlaces, Points
      <4>. QED  BY <1>5, <2>3, <4>1 DEF WaitDue, Before
    <3>. QED  BY <1>7, <3>1, <3>2
  <2>5. UNCHANGED released
    <3>1. ~Run(t)
      BY <1>0, <2>1, InCall
    <3>. QED  BY <1>0, <3>1, OwnHistory
  <2>. QED  BY <1>3, <2>2, <2>3, <2>4, <2>5
<1>8. CASE /\ Proceed(t) /\ (Wait(t, Departure) \/ Signal(t, Departure))
           /\ at' = [at EXCEPT ![t] = "second"]
  <2>1. at[t] = "between" /\ UNCHANGED entered
    <3>1. ~Enter(t)
      BY <1>8 DEF Proceed, Enter
    <3>. QED  BY <1>0, <1>8, <3>1, Starts
  <2>2. at'[t] = "second"
    BY <1>0, <1>2, <1>8
  <2>3. WaitDue(t)' = WaitDue(t)
    <3>1. CASE Wait(t, Departure)
      <4>1. Input(t) = Departure /\ pc'[t] = "consume"
        BY <1>0, <1>1, <1>2, <3>1, CallPlaces, Points
      <4>. QED  BY <1>1, <1>5, <2>1, <2>2, <4>1 DEF WaitDue, In, Before
    <3>2. CASE Signal(t, Departure)
      <4>1. Input(t) = Arrival
        BY <1>0, <1>1, <3>2, CallPlaces, Points
      <4>. QED  BY <1>1, <1>5, <2>1, <2>2, <4>1 DEF WaitDue, Before, In
    <3>. QED  BY <1>8, <3>1, <3>2
  <2>4. UNCHANGED released
    <3>1. ~Run(t)
      BY <1>0, <2>1, InCall
    <3>. QED  BY <1>0, <3>1, OwnHistory
  <2>. QED  BY <1>3, <2>1, <2>3, <2>4
<1>9. CASE Run(t)
  <2>1. /\ at[t] \in {"first", "second"} /\ pc[t] # "idle" /\ UNCHANGED entered
        /\ at[t] = "first" => arg[t] = Arrival
        /\ at[t] = "second" => arg[t] = Departure
    BY <1>0, <1>9, InCall DEF BarrierFits
  <2>2. Waiting(t) => arg[t] = Input(t)
    BY <1>0, <1>1, <2>1 DEF SyncInv, ArgsFit
  <2>3. CASE Consume(t) /\ ~Send(t) /\ Waiting(t) /\ (TryConsume(t) \/ LockAndConsume(t))
    <3>1. /\ pc' = [pc EXCEPT ![t] = "done"] /\ pc[t] # "done"
          /\ released' = [released EXCEPT ![NodeOf[t]][Input(t)] = @ + 1]
      BY <2>2, <2>3 DEF Consume, Goto, Waiting
    <3>2. ~Finish(t)
      BY <3>1 DEF Finish
    <3>3. UNCHANGED at
      BY <1>0, <1>9, <3>2, InCall
    <3>4. pc'[t] = "done"
      BY <1>0, <1>2, <3>1
    <3>5. WaitDue(t) /\ ~WaitDue(t)'
      BY <1>1, <1>5, <2>1, <2>2, <2>3, <3>1, <3>3, <3>4 DEF WaitDue, In, Before
    <3>6. released'[NodeOf[t]][Input(t)] = released[NodeOf[t]][Input(t)] + 1
      BY <1>1, <1>2, <3>1
    <3>. QED  BY <1>3, <2>1, <3>5, <3>6
  <2>4. CASE UNCHANGED released
    <3>1. WaitDue(t)' = WaitDue(t)
      <4>1. CASE Finish(t)
        <5>1. pc[t] = "done"
          BY <4>1 DEF Finish
        <5>2. /\ at[t] = "first" => at'[t] = "between"
              /\ at[t] = "second" => at'[t] = "ready"
          <6>1. pc' = [pc EXCEPT ![t] = "idle"]
            BY <4>1 DEF Finish, Goto
          <6>2. \/ at[t] = "first" /\ at' = [at EXCEPT ![t] = "between"]
                \/ at[t] = "second" /\ at' = [at EXCEPT ![t] = "ready"]
            <7>1. ~ \E l \in PCs \ {"idle"} : pc' = [pc EXCEPT ![t] = l]
              BY <1>0, <1>2, <6>1
            <7>. QED  BY <1>0, <1>9, <7>1, InCall
          <6>. QED  BY <1>0, <1>2, <6>2
        <5>. QED  BY <1>1, <1>5, <2>1, <5>1, <5>2 DEF WaitDue, In, Before
      <4>2. CASE ~Finish(t)
        <5>1. UNCHANGED at
          BY <1>0, <1>9, <4>2, InCall
        <5>2. In(t, Input(t)) => pc[t] # "done" /\ pc'[t] # "done"
          <6>1. In(t, Input(t)) => arg[t] = Input(t)
            BY <1>1, <2>1 DEF In
          <6>2. pc[t] # "send" \/ arg[t] # Input(t)
            BY <1>0, <1>1, Ends DEF SyncInv, ArgsFit
          <6>3. \/ Send(t) /\ pc[t] = "send"
                \/ /\ pc[t] # "done"
                   /\ \E l \in {"lock", "read", "consume", "send"} : pc' = [pc EXCEPT ![t] = l]
            <7>1. ~Consume(t)
              <8>1. SUFFICES ASSUME Consume(t) PROVE FALSE
                OBVIOUS
              <8>2. PICK n, s : n = NodeOf[t] /\ s = arg[t]
                OBVIOUS
              <8>3. n \in Node /\ s \in Sync
                BY <1>1, <2>1, <8>2, Points
              <8>4. released' = [released EXCEPT ![n][s] = @ + 1]
                BY <8>1, <8>2 DEF Consume
              <8>5. released'[n][s] = released[n][s] + 1 /\ released[n][s] \in Nat
                BY <1>2, <8>3, <8>4
              <8>. QED  BY <2>4, <8>5
            <7>. QED  BY <1>9, <4>2, <7>1 DEF Run, Step, TryConsume, LockAndConsume, Read, SignalLock,
                          Send, Goto
          <6>. QED  BY <1>0, <1>2, <6>1, <6>2, <6>3
        <5>. QED  BY <1>5, <5>1, <5>2 DEF WaitDue, In, Before
      <4>. QED  BY <4>1, <4>2
    <3>. QED  BY <1>3, <2>1, <2>4, <3>1
  <2>. QED  BY <1>0, <1>9, <2>3, <2>4, OwnHistory
<1>. QED  BY <1>6, <1>7, <1>8, <1>9, CleanSteps

\* A thread has one signal more to node k behind it exactly when its node has.
LEMMA GaveStep ==
    ASSUME BarrierInv, NEW t \in scene.who, BarrierStep(t), NoErrorYet',
           SyncInv', BarrierTypes', BarrierFits', NEW k \in Receivers(Output(t))
    PROVE  \E d \in {0, 1} :
             /\ entered'[t] - (IF SendDue(t, k)' THEN 1 ELSE 0) =
                  entered[t] - (IF SendDue(t, k) THEN 1 ELSE 0) + d
             /\ sent'[Output(t)][NodeOf[t]][k] = sent[Output(t)][NodeOf[t]][k] + d
<1>0. /\ SyncInv /\ TypeOK /\ BarrierTypes /\ BarrierFits /\ t \in Thread
      /\ NodeOf[t] \in Members[Arrival] /\ UNCHANGED scene
  BY Who, SceneKept DEF BarrierInv, SyncInv, BarrierTypes
<1>1. /\ Output(t) \in {Arrival, Departure} /\ Arrival # Departure /\ NodeOf[t] \in Node
      /\ Output(t) \in Sync /\ k \in Node
      /\ NodeOf[t] \in Receivers(Arrival) \/ NodeOf[t] \in Senders(Departure) => Output(t) = Departure
      /\ NodeOf[t] \in Receivers(Departure) \/ NodeOf[t] \in Senders(Arrival) => Output(t) = Arrival
  BY <1>0, EndsOf, Points, Ends
<1>2. /\ pc \in [Thread -> PCs] /\ arg \in [Thread -> Sync \cup {NoSync}]
      /\ at \in [Thread -> {"none", "created", "ready", "first", "between", "second", "closing"}]
      /\ entered \in [Thread -> 0..MaxRounds] /\ MaxRounds \in Nat
      /\ sent \in [Sync -> [Node -> [Node -> Nat]]] /\ targets \in [Thread -> SUBSET Node]
  BY <1>0, BarrierAssumption DEF TypeOK, BarrierTypes
<1>3. entered[t] \in Nat /\ sent[Output(t)][NodeOf[t]][k] \in Nat
  BY <1>0, <1>1, <1>2
<1>5. Output(t)' = Output(t)
  BY DEF Output, Leader
<1>6. CASE Create(t) \/ GiveUp(t) \/ Destroy(t)
  <2>1. /\ at[t] \in {"none", "created", "ready", "closing"} /\ UNCHANGED <<entered, pc>>
        /\ \E l \in {"none", "created", "ready", "closing"} : at' = [at EXCEPT ![t] = l]
    BY <1>0, <1>6, Changes
  <2>2. ~Inside(t) /\ ~Inside(t)'
    BY <1>0, <1>2, <2>1 DEF Inside
  <2>3. ~SendDue(t, k) /\ ~SendDue(t, k)'
    BY <1>0, <2>2, DuesInside DEF SendDue, In, Before, Inside, Output, Leader
  <2>4. ~Run(t)
    BY <1>0, <2>2, InCall DEF Inside
  <2>5. UNCHANGED sent
    BY <1>0, <2>4, OwnHistory
  <2>. QED  BY <1>3, <2>1, <2>3, <2>5
<1>7. CASE /\ Enter(t) /\ (Wait(t, Arrival) \/ Signal(t, Arrival))
           /\ at' = [at EXCEPT ![t] = "first"]
  <2>1. at[t] = "ready" /\ entered' = [entered EXCEPT ![t] = @ + 1]
    BY <1>7 DEF Enter
  <2>2. ~SendDue(t, k)
    BY <2>1 DEF SendDue, In, Before
  <2>3. at'[t] = "first" /\ entered'[t] = entered[t] + 1
    BY <1>0, <1>2, <1>7, <2>1
  <2>4. SendDue(t, k)'
    <3>1. CASE Wait(t, Arrival)
      <4>1. Output(t) = Departure
        BY <1>0, <1>1, <3>1, CallPlaces, Points
      <4>. QED  BY <1>5, <2>3, <4>1 DEF SendDue, Before
    <3>2. CASE Signal(t, Arrival)
      <4>1. Output(t) = Arrival /\ pc'[t] = "signal"
        BY <1>0, <1>1, <1>2, <3>2, CallPlaces, Points
      <4>. QED  BY <1>5, <2>3, <4>1 DEF SendDue, In
    <3>. QED  BY <1>7, <3>1, <3>2
  <2>5. UNCHANGED sent
    <3>1. ~Run(t)
      BY <1>0, <2>1, InCall
    <3>. QED  BY <1>0, <3>1, OwnHistory
  <2>. QED  BY <1>3, <2>2, <2>3, <2>4, <2>5
<1>8. CASE /\ Proceed(t) /\ (Wait(t, Departure) \/ Signal(t, Departure))
           /\ at' = [at EXCEPT ![t] = "second"]
  <2>1. at[t] = "between" /\ UNCHANGED entered
    <3>1. ~Enter(t)
      BY <1>8 DEF Proceed, Enter
    <3>. QED  BY <1>0, <1>8, <3>1, Starts
  <2>2. at'[t] = "second"
    BY <1>0, <1>2, <1>8
  <2>3. SendDue(t, k)' = SendDue(t, k)
    <3>1. CASE Wait(t, Departure)
      <4>1. Output(t) = Arrival
        BY <1>0, <1>1, <3>1, CallPlaces, Points
      <4>. QED  BY <1>1, <1>5, <2>1, <2>2, <4>1 DEF SendDue, In, Before
    <3>2. CASE Signal(t, Departure)
      <4>1. Output(t) = Departure /\ pc'[t] = "signal"
        BY <1>0, <1>1, <1>2, <3>2, CallPlaces, Points
      <4>. QED  BY <1>1, <1>5, <2>1, <2>2, <4>1 DEF SendDue, Before, In
    <3>. QED  BY <1>8, <3>1, <3>2
  <2>4. UNCHANGED sent
    <3>1. ~Run(t)
      BY <1>0, <2>1, InCall
    <3>. QED  BY <1>0, <3>1, OwnHistory
  <2>. QED  BY <1>3, <2>1, <2>3, <2>4
<1>9. CASE Run(t)
  <2>1. /\ at[t] \in {"first", "second"} /\ pc[t] # "idle" /\ UNCHANGED entered
        /\ at[t] = "first" => arg[t] = Arrival
        /\ at[t] = "second" => arg[t] = Departure
    BY <1>0, <1>9, InCall DEF BarrierFits
  <2>2. /\ pc[t] \in {"signal", "send"} => arg[t] = Output(t)
        /\ Waiting(t) => arg[t] # Output(t)
    BY <1>0, <1>1, <2>1 DEF SyncInv, ArgsFit
  <2>9. arg[t] = Output(t) <=> In(t, Output(t))
    BY <1>1, <2>1 DEF In
  <2>3. CASE Send(t)
    <3>1. PICK k0 : k0 = Min(targets[t])
      OBVIOUS
    <3>2. /\ pc[t] = "send"
          /\ sent' = [sent EXCEPT ![Output(t)][NodeOf[t]][k0] = @ + 1]
          /\ targets' = [targets EXCEPT ![t] = targets[t] \ {k0}]
          /\ \/ targets[t] = {k0} /\ pc' = [pc EXCEPT ![t] = "done"]
             \/ targets[t] # {k0} /\ UNCHANGED pc
      BY <2>2, <2>3, <3>1 DEF Send, Goto
    <3>3. k0 \in targets[t] /\ targets[t] \subseteq Node
      <4>1. targets[t] # {} /\ targets[t] \subseteq Node
        BY <1>0, <1>2, <3>2 DEF SyncInv, ArgsFit
      <4>. QED  BY <3>1, <4>1, MinIsIn, NodeAssumption
    <3>4. ~Finish(t)
      BY <3>2 DEF Finish
    <3>5. UNCHANGED at
      BY <1>0, <1>9, <3>4, InCall
    <3>6. ~Before(t, Output(t)) /\ ~Before(t, Output(t))' /\ In(t, Output(t)) /\ In(t, Output(t))'
      BY <1>1, <1>5, <2>1, <2>2, <2>9, <3>2, <3>5 DEF Before, In
    <3>7. SendDue(t, k) <=> k \in targets[t]
      BY <3>2, <3>6 DEF SendDue
    <3>8. SendDue(t, k)' <=> k \in targets[t] /\ k # k0
      <4>1. targets'[t] = targets[t] \ {k0}
        BY <1>0, <1>2, <3>2
      <4>2. targets[t] = {k0} => pc'[t] = "done"
        BY <1>0, <1>2, <3>2
      <4>3. targets[t] # {k0} => pc'[t] = "send"
        BY <3>2
      <4>. QED  BY <3>6, <4>1, <4>2, <4>3 DEF SendDue
    <3>9. sent'[Output(t)][NodeOf[t]][k] =
            sent[Output(t)][NodeOf[t]][k] + (IF k = k0 THEN 1 ELSE 0)
      <4>1. PICK o, m : o = Output(t) /\ m = NodeOf[t]
        OBVIOUS
      <4>2. o \in Sync /\ m \in Node /\ k0 \in Node /\ sent' = [sent EXCEPT ![o][m][k0] = @ + 1]
        BY <1>1, <3>2, <3>3, <4>1
      <4>3. sent'[o][m][k] = sent[o][m][k] + (IF k = k0 THEN 1 ELSE 0)
        BY <1>1, <1>2, <4>2
      <4>. QED  BY <4>1, <4>3
    <3>. QED  BY <1>3, <2>1, <3>3, <3>7, <3>8, <3>9
  <2>4. CASE ~Send(t)
    <3>1. UNCHANGED sent
      BY <1>0, <1>9, <2>4, OwnHistory
    <3>2. SendDue(t, k)' = SendDue(t, k)
      <4>1. CASE Finish(t)
        <5>1. pc[t] = "done"
          BY <4>1 DEF Finish
        <5>2. /\ at[t] = "first" => at'[t] = "between"
              /\ at[t] = "second" => at'[t] = "ready"
          <6>1. pc' = [pc EXCEPT ![t] = "idle"]
            BY <4>1 DEF Finish, Goto
          <6>2. \/ at[t] = "first" /\ at' = [at EXCEPT ![t] = "between"]
                \/ at[t] = "second" /\ at' = [at EXCEPT ![t] = "ready"]
            <7>1. ~ \E l \in PCs \ {"idle"} : pc' = [pc EXCEPT ![t] = l]
              BY <1>0, <1>2, <6>1
            <7>. QED  BY <1>0, <1>9, <7>1, InCall
          <6>. QED  BY <1>0, <1>2, <6>2
        <5>. QED  BY <1>1, <1>5, <2>1, <5>1, <5>2 DEF SendDue, In, Before
      <4>2. CASE ~Finish(t)
        <5>1. UNCHANGED at
          BY <1>0, <1>9, <4>2, InCall
        <5>2. CASE SignalLock(t)
          <6>1. /\ pc[t] = "signal" /\ pc' = [pc EXCEPT ![t] = "send"]
                /\ targets' = [targets EXCEPT ![t] = Receivers(arg[t])]
            BY <5>2 DEF SignalLock, Goto
          <6>2. pc'[t] = "send" /\ targets'[t] = Receivers(Output(t)) /\ In(t, Output(t))
            BY <1>0, <1>2, <2>2, <2>9, <6>1
          <6>. QED  BY <1>5, <5>1, <6>1, <6>2 DEF SendDue, In, Before
        <5>3. CASE Waiting(t)
          <6>1. ~In(t, Output(t)) /\ ~In(t, Output(t))'
            BY <1>5, <2>2, <2>9, <5>1, <5>3 DEF In
          <6>. QED  BY <1>5, <5>1, <6>1 DEF SendDue, Before
        <5>. QED  BY <1>9, <2>4, <4>2, <5>2, <5>3 DEF Run, Step, TryConsume, LockAndConsume, Read, Waiting
      <4>. QED  BY <4>1, <4>2
    <3>. QED  BY <1>3, <2>1, <3>1, <3>2
  <2>. QED  BY <2>3, <2>4
<1>. QED  BY <1>6, <1>7, <1>8, <1>9, CleanSteps


\* What a thread has behind it is a number.
LEMMA GotNat ==
    ASSUME BarrierTypes, BarrierFits, NEW u \in Thread
    PROVE  /\ Got[u] \in Nat /\ Got[u] <= entered[u] /\ left[u] <= Got[u]
           /\ \A k : Gave(k)[u] \in Nat /\ Gave(k)[u] <= entered[u]
           /\ entered[u] \in Nat /\ left[u] \in Nat
<1>1. entered[u] \in 0..MaxRounds /\ left[u] \in 0..MaxRounds /\ MaxRounds \in Nat
  BY BarrierAssumption DEF BarrierTypes
<1>2. left[u] + (IF Inside(u) THEN 1 ELSE 0) <= entered[u]
  BY DEF BarrierFits
<1>3. WaitDue(u) => Inside(u)
  BY DuesInside
<1>4. \A k : SendDue(u, k) => Inside(u)
  BY DuesInside
<1>5. Got[u] = entered[u] - (IF WaitDue(u) THEN 1 ELSE 0)
  BY DEF Got
<1>6. \A k : Gave(k)[u] = entered[u] - (IF SendDue(u, k) THEN 1 ELSE 0)
  BY DEF Gave
<1>7. Got[u] \in Nat /\ Got[u] <= entered[u] /\ left[u] <= Got[u]
  BY <1>1, <1>2, <1>3, <1>5
<1>8. \A k : Gave(k)[u] \in Nat /\ Gave(k)[u] <= entered[u]
  BY <1>1, <1>2, <1>4, <1>6
<1>. QED  BY <1>1, <1>7, <1>8

\* Every step that meets no error keeps the ledger.
LEMMA LedgerKept ==
    ASSUME BarrierInv, NEW t \in scene.who, BarrierStep(t), NoErrorYet',
           SyncInv', BarrierTypes', BarrierFits'
    PROVE  Ledger'
<1>0. /\ TypeOK /\ BarrierTypes /\ BarrierFits /\ t \in Thread /\ NodeOf[t] \in Members[Arrival]
      /\ UNCHANGED scene /\ \A n : On(n)' = On(n)
      /\ \A n : IsFiniteSet(On(n)) /\ On(n) \subseteq Thread
  BY Who, SceneKept DEF BarrierInv, SyncInv, BarrierTypes, On
<1>1. Ledger
  BY CleanSteps DEF BarrierInv
<1>2. \A n : t \in On(n) <=> n = NodeOf[t]
  BY DEF On
<1>3. ASSUME NEW s \in {Arrival, Departure}, NEW n \in Receivers(s)
      PROVE  released'[n][s] = Total(Got', On(n))
  <2>1. n \in Node /\ s \in Sync
    BY Points, Ends
  <2>2. \A u \in On(n) : u # t => Got'[u] = Got[u]
    BY <1>0, OthersOwe
  <2>3. \A u \in On(n) : Got[u] \in Nat
    BY <1>0, GotNat
  <2>4. released[n][s] = Total(Got, On(n))
    BY <1>1 DEF Ledger
  <2>5. CASE n # NodeOf[t]
    <3>1. released'[n][s] = released[n][s]
      BY <1>0, <2>1, <2>5, OwnHistory
    <3>2. \A u \in On(n) : Got[u] \in Nat /\ Got'[u] = Got[u]
      BY <1>2, <2>2, <2>3, <2>5
    <3>3. Total(Got', On(n)) = Total(Got, On(n))
      BY <1>0, <3>2, TotalSame
    <3>. QED  BY <2>4, <3>1, <3>3
  <2>6. CASE n = NodeOf[t]
    <3>1. s = Input(t)
      BY <1>0, <2>6, EndsOf
    <3>2. PICK d \in {0, 1} :
             /\ entered'[t] - (IF WaitDue(t)' THEN 1 ELSE 0) =
                  entered[t] - (IF WaitDue(t) THEN 1 ELSE 0) + d
             /\ released'[NodeOf[t]][Input(t)] = released[NodeOf[t]][Input(t)] + d
      BY GotStep
    <3>3. Got'[t] = Got[t] + d
      BY <1>0, <3>2 DEF Got
    <3>4. \A u \in On(n) : Got[u] \in Nat /\ Got'[u] = Got[u] + (IF u = t THEN d ELSE 0)
      BY <2>2, <2>3, <3>3
    <3>5. Total(Got', On(n)) = Total(Got, On(n)) + d
      <4>1. t \in On(n) /\ d \in Nat
        BY <1>2, <2>6
      <4>. QED  BY <1>0, <3>4, <4>1, TotalStep
    <3>. QED  BY <2>4, <2>6, <3>1, <3>2, <3>5
  <2>. QED  BY <2>5, <2>6
<1>4. ASSUME NEW s \in {Arrival, Departure}, NEW m \in Senders(s), NEW n \in Receivers(s)
      PROVE  sent'[s][m][n] = Total(Gave(n)', On(m))
  <2>1. m \in Node /\ n \in Node /\ s \in Sync
    BY Points, Ends
  <2>2. \A u \in On(m) : u # t => Gave(n)'[u] = Gave(n)[u]
    BY <1>0, OthersOwe
  <2>3. \A u \in On(m) : Gave(n)[u] \in Nat
    BY <1>0, GotNat
  <2>4. sent[s][m][n] = Total(Gave(n), On(m))
    BY <1>1 DEF Ledger
  <2>5. CASE m # NodeOf[t]
    <3>1. sent'[s][m][n] = sent[s][m][n]
      BY <1>0, <2>1, <2>5, OwnHistory
    <3>2. \A u \in On(m) : Gave(n)[u] \in Nat /\ Gave(n)'[u] = Gave(n)[u]
      BY <1>2, <2>2, <2>3, <2>5
    <3>3. Total(Gave(n)', On(m)) = Total(Gave(n), On(m))
      BY <1>0, <3>2, TotalSame
    <3>. QED  BY <2>4, <3>1, <3>3
  <2>6. CASE m = NodeOf[t]
    <3>1. s = Output(t)
      BY <1>0, <2>6, EndsOf
    <3>2. PICK d \in {0, 1} :
             /\ entered'[t] - (IF SendDue(t, n)' THEN 1 ELSE 0) =
                  entered[t] - (IF SendDue(t, n) THEN 1 ELSE 0) + d
             /\ sent'[Output(t)][NodeOf[t]][n] = sent[Output(t)][NodeOf[t]][n] + d
      BY <3>1, GaveStep
    <3>3. Gave(n)'[t] = Gave(n)[t] + d
      BY <1>0, <3>2 DEF Gave
    <3>4. \A u \in On(m) : Gave(n)[u] \in Nat /\ Gave(n)'[u] = Gave(n)[u] + (IF u = t THEN d ELSE 0)
      BY <2>2, <2>3, <3>3
    <3>5. Total(Gave(n)', On(m)) = Total(Gave(n), On(m)) + d
      <4>1. t \in On(m) /\ d \in Nat
        BY <1>2, <2>6
      <4>. QED  BY <1>0, <3>4, <4>1, TotalStep
    <3>. QED  BY <2>4, <2>6, <3>1, <3>2, <3>5
  <2>. QED  BY <2>5, <2>6
<1>. QED  BY <1>0, <1>3, <1>4 DEF Ledger

-----------------------------------------------------------------------------
(* What the nodes have done of each other's rounds.                        *)

Entries(n) == Total(entered, On(n))
Gets(n) == Total(Got, On(n))
Gives(m, n) == Total(Gave(n), On(m))

\* Within a node.
LEMMA NodeSums ==
    ASSUME BarrierTypes, BarrierFits, NEW n
    PROVE  /\ Entries(n) \in Nat /\ Gets(n) \in Nat /\ \A k : Gives(n, k) \in Nat
           /\ Total(left, On(n)) <= Gets(n) /\ Gets(n) <= Entries(n)
           /\ \A k : Gives(n, k) <= Entries(n)
           /\ Sum(left, n) = Total(left, On(n)) /\ Sum(entered, n) = Entries(n)
           /\ Total(left, On(n)) \in Nat
<1>1. IsFiniteSet(On(n)) /\ On(n) \subseteq Thread
  BY Who DEF BarrierTypes
<1>2. \A u \in On(n) : /\ Got[u] \in Nat /\ Got[u] <= entered[u] /\ left[u] <= Got[u]
                       /\ \A k : Gave(k)[u] \in Nat /\ Gave(k)[u] <= entered[u]
                       /\ entered[u] \in Nat /\ left[u] \in Nat
  BY <1>1, GotNat
<1>3. Entries(n) \in Nat /\ Gets(n) \in Nat /\ Total(left, On(n)) \in Nat
  BY <1>1, <1>2, TotalNat DEF Entries, Gets
<1>4. \A k : Gives(n, k) \in Nat
  BY <1>1, <1>2, TotalNat DEF Gives
<1>5. Total(left, On(n)) <= Gets(n)
  BY <1>1, <1>2, TotalLess DEF Gets
<1>6. Gets(n) <= Entries(n)
  BY <1>1, <1>2, TotalLess DEF Gets, Entries
<1>7. \A k : Gives(n, k) <= Entries(n)
  BY <1>1, <1>2, TotalLess DEF Gives, Entries
<1>8. Sum(left, n) = Total(left, On(n)) /\ Sum(entered, n) = Entries(n)
  BY DEF Sum, Total, Entries
<1>. QED  BY <1>3, <1>4, <1>5, <1>6, <1>7, <1>8

\* No node has got more than every sender has given it.
LEMMA GetsLess ==
    ASSUME SyncInv, BarrierTypes, BarrierFits, Ledger,
           NEW s \in {Arrival, Departure}, NEW n \in Receivers(s), NEW m \in Senders(s)
    PROVE  /\ Gets(n) <= Gives(m, n)
           /\ Gets(n) = released[n][s] /\ Gives(m, n) = sent[s][m][n]
<1>1. s \in Sync /\ n \in Node /\ m \in Node
  BY Points, Ends
<1>2. Gets(n) = released[n][s] /\ Gives(m, n) = sent[s][m][n]
  BY DEF Ledger, Gets, Gives
<1>3. sent[s][m][n] = InMail(n, s, m) + Counted(n, s, m) + released[n][s] + lost[n][s][m]
  BY <1>1 DEF SyncInv, SignalsConserved
<1>4. released[n][s] \in Nat /\ lost[n][s][m] \in Nat /\ InMail(n, s, m) \in Nat
      /\ Counted(n, s, m) \in Nat
  <2>2. InMail(n, s, m) \in Nat
    BY <1>1, MailCount DEF SyncInv
  <2>3. /\ nreceived[n][s][m] \in Nat /\ nbarriers[n][s] \in Nat
        /\ released[n][s] \in Nat /\ lost[n][s][m] \in Nat
    BY <1>1 DEF SyncInv, TypeOK
  <2>. QED  BY <2>2, <2>3 DEF Counted
<1>. QED  BY <1>2, <1>3, <1>4

\* The leader gives only what it has got.
LEMMA LeaderGives ==
    ASSUME BarrierTypes, BarrierFits, NEW k
    PROVE  Gives(Master[Arrival], k) <= Gets(Master[Arrival])
<1>. DEFINE M == Master[Arrival]
<1>1. IsFiniteSet(On(M)) /\ On(M) \subseteq Thread
  BY Who DEF BarrierTypes
<1>2. ASSUME NEW u \in On(M) PROVE Gave(k)[u] <= Got[u] /\ Gave(k)[u] \in Nat /\ Got[u] \in Nat
  <2>1. Input(u) = Arrival /\ Output(u) = Departure
    BY <1>2 DEF On, Input, Output, Leader
  <2>2. WaitDue(u) => SendDue(u, k)
    BY <2>1, Points DEF WaitDue, SendDue, Before, In
  <2>3. u \in Thread /\ Gave(k)[u] \in Nat /\ Got[u] \in Nat /\ entered[u] \in Nat
    BY <1>1, GotNat
  <2>. QED  BY <2>2, <2>3 DEF Gave, Got
<1>. QED  BY <1>1, <1>2, TotalLess DEF Gives, Gets

\* A node has got no more than every other one has called for, through the leader.
LEMMA GetsReached ==
    ASSUME SyncInv, BarrierTypes, BarrierFits, Ledger,
           NEW m \in Members[Arrival], NEW n \in Members[Arrival]
    PROVE  Gets(m) <= Entries(n)
<1>. DEFINE M == Master[Arrival]
<1>1. /\ Receivers(Arrival) = {M} /\ Senders(Departure) = {M}
      /\ Senders(Arrival) = Members[Arrival] \ {M}
      /\ Receivers(Departure) = Members[Arrival] \ {M}
  BY Points
<1>2. \A k : /\ Gets(k) \in Nat /\ Entries(k) \in Nat /\ Gets(k) <= Entries(k)
             /\ \A p : Gives(k, p) \in Nat /\ Gives(k, p) <= Entries(k)
  BY NodeSums
<1>3. Gets(M) <= Entries(n)
  <2>1. CASE n = M
    BY <1>2, <2>1
  <2>2. CASE n # M
    <3>1. Gets(M) <= Gives(n, M)
      BY <1>1, <2>2, GetsLess
    <3>. QED  BY <1>2, <3>1
  <2>. QED  BY <2>1, <2>2
<1>4. CASE m = M
  BY <1>3, <1>4
<1>5. CASE m # M
  <2>1. Gets(m) <= Gives(M, m)
    BY <1>1, <1>5, GetsLess
  <2>2. Gives(M, m) <= Gets(M)
    BY LeaderGives
  <2>. QED  BY <1>2, <1>3, <2>1, <2>2
<1>. QED  BY <1>4, <1>5

\* What the ledger is for.
LEMMA LedgerReached ==
    ASSUME SyncInv, BarrierTypes, BarrierFits, Ledger
    PROVE  OthersReached
<1>1. ASSUME NEW m \in Members[Arrival], NEW n \in Members[Arrival]
      PROVE  Sum(left, m) <= Sum(entered, n)
  <2>1. Gets(m) <= Entries(n)
    BY GetsReached
  <2>2. /\ Sum(left, m) <= Gets(m) /\ Sum(entered, n) = Entries(n)
        /\ Sum(left, m) \in Nat /\ Gets(m) \in Nat /\ Entries(n) \in Nat
    BY NodeSums
  <2>. QED  BY <2>1, <2>2
<1>. QED  BY <1>1 DEF OthersReached

-----------------------------------------------------------------------------
(* One thread on each node, and no failure.                                *)

\* The only thread of a node.
LEMMA OnlyOne ==
    ASSUME BarrierTypes, OneEach, NEW t \in scene.who
    PROVE  /\ On(NodeOf[t]) = {t}
           /\ \A u \in scene.who : NodeOf[u] = NodeOf[t] => u = t
<1>1. /\ IsFiniteSet(On(NodeOf[t])) /\ NodeOf[t] \in Members[Arrival]
  BY Who DEF BarrierTypes
<1>2. Cardinality(On(NodeOf[t])) = 1
  BY <1>1 DEF OneEach
<1>3. PICK x : On(NodeOf[t]) = {x}
  BY <1>1, <1>2, FS_Singleton
<1>4. t \in On(NodeOf[t])
  BY DEF On
<1>. QED  BY <1>3, <1>4 DEF On

\* Nobody else keeps an entry busy.
LEMMA NotBusy ==
    ASSUME BarrierInv, OneEach, NEW t \in scene.who, pc[t] = "idle", NEW s \in Sync
    PROVE  s \notin busy[NodeOf[t]]
<1>. SUFFICES ASSUME s \in busy[NodeOf[t]] PROVE FALSE
  OBVIOUS
<1>1. t \in Thread /\ NodeOf[t] \in Node /\ OneUser /\ ArgsFit /\ BarrierFits /\ BarrierTypes
  BY Who, NodeAssumption DEF BarrierInv, SyncInv, BarrierTypes
<1>2. PICK u \in Thread : NodeOf[u] = NodeOf[t] /\ arg[u] = s
  BY <1>1 DEF OneUser
<1>3. pc[u] # "idle"
  BY <1>1, <1>2, SyncAssumption DEF ArgsFit
<1>4. at[u] \in {"first", "second"}
  BY <1>1, <1>3 DEF BarrierFits
<1>5. u \in scene.who
  BY <1>1, <1>4 DEF BarrierFits
<1>. QED  BY <1>1, <1>2, <1>3, <1>5, OnlyOne

\* What a barrier holds is there, and nobody else is using it.
LEMMA NotRejected ==
    ASSUME BarrierInv, OneEach, NEW t \in scene.who, pc[t] = "idle",
           NEW s \in {Arrival, Departure}, s \in held[t]
    PROVE  ~Rejected(t, s)
<1>1. /\ BarrierTypes /\ Alone /\ RefsHeld /\ s \in Sync /\ NodeOf[t] \in Node /\ t \in Thread
  BY Who, Points, NodeAssumption DEF BarrierInv, BarrierTypes
<1>2. s \notin busy[NodeOf[t]]
  BY <1>1, NotBusy
<1>3. taken[NodeOf[t]] = {}
  BY <1>1 DEF Alone
<1>4. refcount[NodeOf[t]][s] = Cardinality(Holders(NodeOf[t], s)) + leaked[NodeOf[t]][s]
  BY <1>1, <1>3 DEF RefsHeld, Holders
<1>5. Holders(NodeOf[t], s) = {t}
  BY <1>1, OnlyOne DEF Holders
<1>6. Cardinality(Holders(NodeOf[t], s)) = 1 /\ leaked[NodeOf[t]][s] \in Nat
  BY <1>1, <1>5, FS_Singleton DEF BarrierTypes
<1>. QED  BY <1>2, <1>4, <1>6 DEF Rejected

\* No call fails, and no barrier lacks a point.
LEMMA AloneSteps ==
    ASSUME BarrierInv, OneEach, NEW t \in scene.who, BarrierStep(t)
    PROVE  /\ UNCHANGED <<faults, taken>> /\ ~failed'[t]
           /\ held'[t] = Owned(t)' /\ Named(t)' /\ Clean(t)'
           /\ \/ Create(t) \/ Destroy(t) \/ Run(t)
              \/ Wait(t, Arrival) \/ Signal(t, Arrival)
              \/ Wait(t, Departure) \/ Signal(t, Departure)
<1>0. /\ TypeOK /\ BarrierTypes /\ BarrierFits /\ t \in Thread /\ Alone
      /\ Input(t) \in {Arrival, Departure} /\ Output(t) \in {Arrival, Departure}
      /\ Input(t) # Output(t) /\ Arrival # Departure
      /\ Arrival \in Sync /\ Departure \in Sync
  BY Who, EndsOf, Points DEF BarrierInv, SyncInv, BarrierTypes
<1>1. /\ faults = 0 /\ ~failed[t] /\ held[t] = Owned(t) /\ Named(t) /\ Clean(t)
  BY <1>0 DEF Alone, NoErrorYet, Clean
<1>2. /\ at \in [Thread -> {"none", "created", "ready", "first", "between", "second", "closing"}]
      /\ syncs \in [Thread -> SUBSET {Arrival, Departure}]
      /\ held \in [Thread -> SUBSET {Arrival, Departure}]
      /\ failed \in [Thread -> BOOLEAN] /\ entered[t] \in Nat /\ left[t] \in Nat
      /\ entered \in [Thread -> 0..MaxRounds] /\ left \in [Thread -> 0..MaxRounds]
  BY <1>0, GotNat DEF BarrierTypes
<1>3. /\ pc[t] = "idle" /\ at[t] \in {"ready", "between"} =>
             ~Rejected(t, Arrival) /\ ~Rejected(t, Departure)
      /\ pc[t] = "idle" /\ at[t] = "closing" => ~Rejected(t, Departure)
  BY <1>0, <1>1, NotRejected DEF Owned
<1>4. at[t] = "ready" => IsValid(t)
  BY <1>1 DEF IsValid, Named
<1>5. Input(t)' = Input(t)
  BY DEF Input, Leader
<1>6. CASE Create(t) \/ GiveUp(t) \/ Destroy(t)
  <2>1. pc[t] = "idle" /\ UNCHANGED <<entered, left>>
    BY <1>0, <1>6, Changes
  <2>2. \A s : Remove(t, s) => held' = [held EXCEPT ![t] = @ \ {s}] /\ (s \in held[t] => UNCHANGED taken)
    BY DEF Remove
  <2>6. /\ at[t] = "none" => held[t] = {}
        /\ at[t] = "created" => held[t] = {Input(t)} /\ syncs[t] = {Input(t)}
        /\ at[t] = "ready" => held[t] = {Arrival, Departure} /\ syncs[t] = {Arrival, Departure}
        /\ at[t] = "closing" => held[t] = {Departure} /\ syncs[t] = {Arrival, Departure}
    BY <1>1 DEF Owned, Named
  <2>3. \/ /\ at[t] = "none" /\ at' = [at EXCEPT ![t] = "created"]
           /\ syncs' = [syncs EXCEPT ![t] = {Input(t)}]
           /\ held' = [held EXCEPT ![t] = {Input(t)}] /\ UNCHANGED <<faults, taken, failed>>
        \/ /\ at[t] = "created" /\ at' = [at EXCEPT ![t] = "ready"]
           /\ syncs' = [syncs EXCEPT ![t] = @ \cup {Output(t)}]
           /\ held' = [held EXCEPT ![t] = @ \cup {Output(t)}] /\ UNCHANGED <<faults, taken, failed>>
        \/ /\ at[t] = "ready" /\ at' = [at EXCEPT ![t] = "closing"] /\ UNCHANGED syncs
           /\ held' = [held EXCEPT ![t] = @ \ {Arrival}] /\ UNCHANGED <<faults, taken, failed>>
        \/ /\ at[t] = "closing" /\ at' = [at EXCEPT ![t] = "none"] /\ UNCHANGED syncs
           /\ held' = [held EXCEPT ![t] = @ \ {Departure}] /\ UNCHANGED <<faults, taken>>
           /\ failed' = [failed EXCEPT ![t] = FALSE]
    BY <1>0, <1>1, <1>3, <1>4, <1>6, <2>1, <2>2, <2>6, Changes
  <2>7. \/ at'[t] = "created" /\ held'[t] = {Input(t)} /\ syncs'[t] = {Input(t)}
        \/ /\ at'[t] = "ready" /\ held'[t] = {Input(t)} \cup {Output(t)}
           /\ syncs'[t] = {Input(t)} \cup {Output(t)}
        \/ /\ at'[t] = "closing" /\ held'[t] = {Arrival, Departure} \ {Arrival}
           /\ syncs'[t] = {Arrival, Departure}
        \/ at'[t] = "none" /\ held'[t] = {Departure} \ {Departure}
    BY <1>0, <1>2, <2>3, <2>6
  <2>8. held'[t] = Owned(t)' /\ Named(t)'
    BY <1>0, <1>5, <2>7 DEF Owned, Named
  <2>9. ~Inside(t) /\ ~Inside(t)' /\ ~failed'[t]
    BY <1>1, <1>2, <2>3, <2>7 DEF Inside
  <2>5. ~GiveUp(t)
    BY <1>4 DEF GiveUp
  <2>. QED  BY <1>1, <1>6, <2>1, <2>3, <2>5, <2>8, <2>9 DEF Clean
<1>7. CASE Refuse(t)
  BY <1>4, <1>7 DEF Refuse
<1>8. CASE Enter(t) \/ Proceed(t)
  <2>1. pc[t] = "idle" /\ UNCHANGED <<faults, syncs, held, taken, left>>
    BY <1>0, <1>8, Starts
  <2>2. \/ /\ at[t] = "ready" /\ at' = [at EXCEPT ![t] = "first"] /\ UNCHANGED failed
           /\ entered' = [entered EXCEPT ![t] = @ + 1]
           /\ Wait(t, Arrival) \/ Signal(t, Arrival)
        \/ /\ at[t] = "between" /\ at' = [at EXCEPT ![t] = "second"] /\ UNCHANGED <<failed, entered>>
           /\ Wait(t, Departure) \/ Signal(t, Departure)
    <3>1. ~(Enter(t) /\ Proceed(t))
      BY DEF Enter, Proceed
    <3>. QED  BY <1>0, <1>3, <1>8, <2>1, <3>1, Starts
  <2>3. held'[t] = Owned(t)' /\ Named(t)' /\ ~failed'[t] /\ Clean(t)'
    BY <1>0, <1>1, <1>2, <2>1, <2>2 DEF Owned, Named, Clean, Inside
  <2>. QED  BY <2>1, <2>2, <2>3
<1>9. CASE Run(t) \/ Fail(t)
  <2>1. ~Fail(t)
    BY <1>1 DEF Fail, OneFails
  <2>2. Run(t) /\ at[t] \in {"first", "second"} /\ UNCHANGED <<syncs, held, taken, entered>>
    BY <1>0, <1>9, <2>1, InCall
  <2>3. UNCHANGED faults
    BY <2>2 DEF Run, Goes, Return, barrierVars
  <2>4. \/ UNCHANGED <<at, left, failed>>
        \/ at[t] = "first" /\ at' = [at EXCEPT ![t] = "between"] /\ UNCHANGED <<left, failed>>
        \/ /\ at[t] = "second" /\ at' = [at EXCEPT ![t] = "ready"]
           /\ failed' = [failed EXCEPT ![t] = FALSE] /\ left' = [left EXCEPT ![t] = @ + 1]
    <3>1. failed' = failed \/ (Fail(t) /\ failed' = [failed EXCEPT ![t] = TRUE]) => UNCHANGED failed
      BY <2>1
    <3>. QED  BY <1>0, <1>1, <1>9, <3>1, InCall
  <2>5. held'[t] = Owned(t)' /\ Named(t)' /\ ~failed'[t] /\ Clean(t)'
    BY <1>0, <1>1, <1>2, <2>2, <2>4 DEF Owned, Named, Clean, Inside
  <2>. QED  BY <2>2, <2>3, <2>5
<1>. QED  BY <1>6, <1>7, <1>8, <1>9 DEF BarrierStep

\* What the thread of a node that is on its own has done is what the node has.
LEMMA NodeIsOne ==
    ASSUME BarrierTypes, BarrierFits, OneEach, NEW t \in scene.who
    PROVE  /\ Entries(NodeOf[t]) = entered[t] /\ Gets(NodeOf[t]) = Got[t]
           /\ \A k : Gives(NodeOf[t], k) = Gave(k)[t]
           /\ Sum(entered, NodeOf[t]) = entered[t] /\ Sum(left, NodeOf[t]) = left[t]
<1>1. t \in Thread /\ On(NodeOf[t]) = {t}
  BY Who, OnlyOne DEF BarrierTypes
<1>2. /\ Got[t] \in Nat /\ \A k : Gave(k)[t] \in Nat
      /\ entered[t] \in Nat /\ left[t] \in Nat
  BY <1>1, GotNat
<1>3. Entries(NodeOf[t]) = entered[t] /\ Gets(NodeOf[t]) = Got[t]
  BY <1>1, <1>2, TotalOne DEF Entries, Gets
<1>4. \A k : Gives(NodeOf[t], k) = Gave(k)[t]
  BY <1>1, <1>2, TotalOne DEF Gives
<1>5. Sum(left, NodeOf[t]) = left[t]
  BY <1>1, <1>2, TotalOne, NodeSums
<1>. QED  BY <1>3, <1>4, <1>5, NodeSums

\* Every node has a thread.
LEMMA SomeOne ==
    ASSUME BarrierTypes, OneEach, NEW n \in Members[Arrival]
    PROVE  \E u \in scene.who : NodeOf[u] = n
<1>1. IsFiniteSet(On(n)) /\ Cardinality(On(n)) = 1
  BY Who DEF BarrierTypes, OneEach
<1>2. PICK x : On(n) = {x}
  BY <1>1, FS_Singleton
<1>. QED  BY <1>2 DEF On

\* No sender is ahead of a thread that waits.
LEMMA NoneAhead ==
    ASSUME SyncInv, BarrierTypes, BarrierFits, Ledger, OneEach,
           NEW t \in scene.who, Waiting(t), NEW m \in Senders(Input(t))
    PROVE  Gives(m, NodeOf[t]) <= entered[t]
<1>. DEFINE M == Master[Arrival]
            n == NodeOf[t]
<1>0. /\ t \in Thread /\ n \in Node /\ n \in Members[Arrival] /\ n \in Receivers(Input(t))
      /\ Receivers(Arrival) = {M} /\ Senders(Departure) = {M}
      /\ Senders(Arrival) = Members[Arrival] \ {M}
      /\ Receivers(Departure) = Members[Arrival] \ {M}
      /\ Input(t) \in {Arrival, Departure} /\ Arrival # Departure /\ M \in Members[Arrival]
  BY Who, EndsOf, Points, SyncAssumption DEF BarrierTypes
<1>1. \A k : /\ Gets(k) \in Nat /\ Entries(k) \in Nat /\ Gets(k) <= Entries(k)
             /\ \A p : Gives(k, p) \in Nat /\ Gives(k, p) <= Entries(k)
  BY NodeSums
<1>2. Entries(n) = entered[t] /\ entered[t] \in Nat
  BY <1>0, <1>1, NodeIsOne
<1>3. CASE Input(t) = Departure
  <2>1. m = M
    BY <1>0, <1>3
  <2>2. Gives(M, n) <= Gets(M) /\ Gets(M) <= Entries(n)
    BY <1>0, LeaderGives, GetsReached
  <2>. QED  BY <1>1, <1>2, <2>1, <2>2
<1>4. CASE Input(t) = Arrival
  <2>1. n = M /\ m \in Members[Arrival] /\ m # M /\ m \in Receivers(Departure) /\ Output(t) = Departure
    <3>1. Output(t) \in {Arrival, Departure} /\ Output(t) # Arrival
      BY <1>0, <1>4, EndsOf
    <3>. QED  BY <1>0, <1>4, <3>1
  <2>2. PICK u \in scene.who : NodeOf[u] = m
    BY <2>1, SomeOne
  <2>3. /\ Gives(m, n) <= Entries(m) /\ Entries(m) = entered[u] /\ Gets(m) = Got[u]
    BY <1>1, <2>2, NodeIsOne
  <2>4. u \in Thread
    BY <2>2, Who DEF BarrierTypes
  <2>5. entered[u] <= Got[u] + 1 /\ entered[u] \in Nat /\ Got[u] \in Nat
    BY <2>4, GotNat DEF Got
  <2>6. Gets(m) <= Gives(M, m)
    BY <1>0, <2>1, GetsLess
  <2>7. SendDue(t, m)
    <3>1. arg[t] = Arrival /\ pc[t] # "idle"
      <4>1. NodeOf[t] \in Receivers(arg[t]) /\ pc[t] # "idle"
        BY <1>0 DEF SyncInv, ArgsFit, Waiting
      <4>2. at[t] \in {"first", "second"}
        BY <1>0, <4>1 DEF BarrierFits
      <4>3. arg[t] \in {Arrival, Departure}
        BY <1>0, <4>2 DEF BarrierFits
      <4>. QED  BY <1>0, <2>1, <4>1, <4>3
    <3>2. at[t] = "first"
      BY <1>0, <3>1 DEF BarrierFits
    <3>. QED  BY <2>1, <3>2 DEF SendDue, Before
  <2>8. Gives(M, m) = entered[t] - 1
    <3>1. Gives(n, m) = Gave(m)[t]
      BY NodeIsOne
    <3>. QED  BY <1>0, <2>1, <2>7, <3>1 DEF Gave
  <2>. QED  BY <1>1, <1>2, <2>3, <2>5, <2>6, <2>8
<1>. QED  BY <1>0, <1>3, <1>4

\* A thread that waits owes its wait.
LEMMA WaitsNow ==
    ASSUME SyncInv, BarrierTypes, BarrierFits, NEW t \in scene.who, Waiting(t)
    PROVE  /\ arg[t] = Input(t) /\ Inside(t) /\ WaitDue(t)
           /\ refcount[NodeOf[t]][Input(t)] > 0
<1>0. /\ t \in Thread /\ NodeOf[t] \in Members[Arrival] /\ Arrival # Departure
      /\ Arrival \in Sync /\ Departure \in Sync
  BY Who, Points DEF BarrierTypes
<1>1. NodeOf[t] \in Receivers(arg[t]) /\ pc[t] \notin {"idle", "done"}
  BY <1>0 DEF SyncInv, ArgsFit, Waiting
<1>2. at[t] \in {"first", "second"}
  BY <1>0, <1>1 DEF BarrierFits
<1>3. /\ at[t] = "first" => arg[t] = Arrival
      /\ at[t] = "second" => arg[t] = Departure
  BY <1>0, <1>2 DEF BarrierFits
<1>4. arg[t] = Input(t)
  BY <1>0, <1>1, <1>2, <1>3, EndsOf
<1>5. In(t, Input(t))
  BY <1>0, <1>2, <1>3, <1>4 DEF In
<1>6. refcount[NodeOf[t]][arg[t]] > 0
  BY <1>0, <1>2, <1>3, SyncAssumption DEF SyncInv, OneUser
<1>. QED  BY <1>1, <1>2, <1>4, <1>5, <1>6 DEF WaitDue, Inside

\* So a wait that is released takes everything that is counted.
LEMMA LastSignal ==
    ASSUME SyncInv, BarrierTypes, BarrierFits, Ledger, OneEach,
           NEW t \in scene.who, Waiting(t), nbarriers[NodeOf[t]][Input(t)] > 0
    PROVE  /\ nbarriers[NodeOf[t]][Input(t)] = 1
           /\ \A m \in Node : nreceived[NodeOf[t]][Input(t)][m] = 0
<1>0. /\ t \in Thread /\ NodeOf[t] \in Node /\ NodeOf[t] \in Members[Arrival]
      /\ NodeOf[t] \in Receivers(Input(t)) /\ Input(t) \in Sync
      /\ Input(t) \in {Arrival, Departure}
  BY Who, EndsOf DEF BarrierTypes
<1>1. PICK n, s : n = NodeOf[t] /\ s = Input(t)
  OBVIOUS
<1>2. /\ n \in Node /\ s \in Sync /\ n \in Receivers(s) /\ s \in {Arrival, Departure}
      /\ nbarriers[n][s] \in Nat /\ nbarriers[n][s] > 0
      /\ \A m \in Node : nreceived[n][s][m] \in Nat /\ lost[n][s][m] \in Nat
      /\ refcount[n][s] > 0
  BY <1>0, <1>1, WaitsNow, SMTT(30) DEF SyncInv, TypeOK
<1>3. released[n][s] = entered[t] - 1 /\ entered[t] \in Nat
  <2>1. \E m : m \in Senders(s)
    BY <1>2, Ends
  <2>2. Gets(n) = released[n][s]
    BY <1>2, <2>1, GetsLess
  <2>3. Gets(n) = Got[t]
    BY <1>1, NodeIsOne
  <2>4. Got[t] = entered[t] - 1
    BY <1>0, WaitsNow DEF Got
  <2>. QED  BY <1>0, <2>2, <2>3, <2>4, GotNat
<1>4. ASSUME NEW m \in Senders(s) PROVE nreceived[n][s][m] + nbarriers[n][s] <= 1
  <2>1. m \in Node
    BY <1>2, Ends
  <2>2. Gives(m, n) <= entered[t]
    BY <1>1, NoneAhead
  <2>3. Gives(m, n) = sent[s][m][n]
    BY <1>2, GetsLess
  <2>4. sent[s][m][n] = InMail(n, s, m) + Counted(n, s, m) + released[n][s] + lost[n][s][m]
    BY <1>2 DEF SyncInv, SignalsConserved
  <2>5. InMail(n, s, m) \in Nat
    BY <1>2, MailCount DEF SyncInv
  <2>6. Counted(n, s, m) = nreceived[n][s][m] + nbarriers[n][s]
    BY <1>2 DEF Counted
  <2>7. nreceived[n][s][m] \in Nat /\ lost[n][s][m] \in Nat /\ nbarriers[n][s] \in Nat
    BY <1>2, <2>1
  <2>. QED  BY <1>3, <2>2, <2>3, <2>4, <2>5, <2>6, <2>7
<1>5. nbarriers[n][s] = 1
  <2>1. PICK m : m \in Senders(s)
    BY <1>2, Ends
  <2>2. m \in Node
    BY <1>2, <2>1, Ends
  <2>. QED  BY <1>2, <1>4, <2>1, <2>2
<1>6. ASSUME NEW m \in Node PROVE nreceived[n][s][m] = 0
  <2>1. CASE m \in Senders(s)
    BY <1>2, <1>4, <1>5, <2>1
  <2>2. CASE m \notin Senders(s)
    <3>1. m \notin {k \in Node : nreceived[n][s][k] > 0}
      BY <1>2, <2>2 DEF SyncInv, BarrierCounts
    <3>. QED  BY <1>2, <3>1
  <2>. QED  BY <2>1, <2>2
<1>. QED  BY <1>1, <1>5, <1>6

\* A step counts, or forgets, only on the node of its thread.
LEMMA Elsewhere ==
    ASSUME SyncInv, NEW t \in Thread, BarrierStep(t),
           NEW n \in Node, n # NodeOf[t], NEW s \in Sync
    PROVE  SameEntry(n, s) /\ lost'[n][s] = lost[n][s]
<1>. USE DEF SameEntry
<1>0. /\ EntryTypes /\ NodeOf[t] \in Node /\ lost \in [Node -> [Sync -> [Node -> Nat]]]
  BY NodeAssumption DEF SyncInv, TypeOK, EntryTypes
<1>1. ASSUME NEW s0 \in Sync, Moves(t, s0) PROVE SameEntry(n, s) /\ lost'[n][s] = lost[n][s]
  <2>1. CASE Alloc(t, s0)
    <3>1. UNCHANGED lost
      BY <2>1 DEF Alloc, historyVars
    <3>2. CASE UNCHANGED <<barrier, nreceived, nbarriers>>
      BY <3>1, <3>2
    <3>3. CASE /\ barrier' = [barrier EXCEPT ![NodeOf[t]][s0] = {}]
               /\ nreceived' = [nreceived EXCEPT ![NodeOf[t]][s0] = [m \in Node |-> 0]]
               /\ nbarriers' = [nbarriers EXCEPT ![NodeOf[t]][s0] = 0]
      BY <1>0, <3>1, <3>3 DEF EntryTypes
    <3>. QED  BY <2>1, <3>2, <3>3 DEF Alloc
  <2>2. CASE Release(t, s0)
    <3>1. UNCHANGED <<nreceived, nbarriers>>
      BY <2>2 DEF Release
    <3>2. UNCHANGED barrier \/ barrier' = [barrier EXCEPT ![NodeOf[t]][s0] = {}]
      BY <2>2 DEF Release
    <3>3. barrier'[n][s] = barrier[n][s]
      BY <1>0, <3>2 DEF EntryTypes
    <3>4. lost'[n][s] = lost[n][s]
      BY <1>0, <2>2 DEF Release
    <3>. QED  BY <3>1, <3>3, <3>4
  <2>3. CASE Consume(t) /\ ~Read(t)
    <3>1. UNCHANGED <<barrier, nreceived, lost>>
          /\ nbarriers' = [nbarriers EXCEPT ![NodeOf[t]][arg[t]] = @ - 1]
      BY <2>3 DEF Consume
    <3>2. nbarriers'[n] = nbarriers[n]
      BY <1>0, <3>1 DEF EntryTypes
    <3>. QED  BY <3>1, <3>2
  <2>4. CASE Read(t)
    <3>1. PICK p, q, r, k : p = NodeOf[t] /\ q = inbox[p] /\ r = Head(q).sync /\ k = Head(q).source
      OBVIOUS
    <3>2. p \in Node /\ r \in Sync /\ k \in Senders(r)
      BY <2>4, <3>1, ReadSteps
    <3>5. refcount[p][r] > 0 => Counts(p, r) /\ Arrive(p, r, k) /\ UNCHANGED lost
      BY <2>4, <3>1, ReadSteps
    <3>6. ~(refcount[p][r] > 0) => /\ lost' = [lost EXCEPT ![p][r][k] = @ + 1]
                                  /\ UNCHANGED <<barrier, nreceived, nbarriers>>
      BY <2>4, <3>1 DEF Read
    <3>3. CASE refcount[p][r] > 0
      <4>1. \A pp \in Node, rr \in Sync : pp # p \/ rr # r => SameEntry(pp, rr)
        BY <1>0, <3>2, <3>3, <3>5, ArriveCounts
      <4>. QED  BY <3>1, <3>3, <3>5, <4>1
    <3>4. CASE ~(refcount[p][r] > 0)
      <4>1. lost'[n] = lost[n]
        BY <1>0, <3>1, <3>4, <3>6
      <4>. QED  BY <3>4, <3>6, <4>1
    <3>. QED  BY <3>3, <3>4
  <2>5. CASE UNCHANGED <<barrier, nreceived, nbarriers, lost>>
    BY <2>5
  <2>. QED
    BY <1>1, <2>1, <2>2, <2>3, <2>4, <2>5 DEF Moves, Call, Step, Wait, Signal, TryConsume,
       LockAndConsume, ReadError, SignalLock, Send, SendError, Finish, tableVars, historyVars
<1>2. CASE UNCHANGED vars
  BY <1>2 DEF vars, tableVars, historyVars
<1>. QED  BY <1>1, <1>2, BarrierMoves

\* Nothing is counted for a thread that does not wait.
LEMMA UncountedKept ==
    ASSUME BarrierInv, OneEach, NEW t \in scene.who, BarrierStep(t),
           NEW u \in scene.who, ~Waiting(u)'
    PROVE  Uncounted(NodeOf[u], Input(u))'
<1>. DEFINE n == NodeOf[u]
            s == Input(u)
<1>0. /\ SyncInv /\ TypeOK /\ BarrierTypes /\ BarrierFits /\ Alone /\ Ledger
      /\ t \in Thread /\ u \in Thread /\ n \in Node /\ s \in Sync /\ Input(u)' = s
  <2>1. BarrierTypes /\ SyncInv /\ TypeOK /\ BarrierFits /\ Alone /\ Ledger
    BY DEF BarrierInv, SyncInv, Alone
  <2>2. t \in Thread /\ u \in Thread
    BY <2>1, Who DEF BarrierTypes
  <2>3. n \in Node /\ s \in Sync /\ Input(u)' = s
    BY <2>2, EndsOf DEF Input, Leader
  <2>. QED  BY <2>1, <2>2, <2>3
<1>1. /\ nbarriers \in [Node -> [Sync -> Nat]] /\ nreceived \in [Node -> [Sync -> [Node -> Nat]]]
      /\ pc \in [Thread -> PCs]
  BY <1>0 DEF TypeOK
<1>2. ~Waiting(u) => Uncounted(n, s)
  BY <1>0 DEF Alone
<1>3. CASE u # t
  <2>1. ~Waiting(u)
    BY <1>0, <1>3, OthersKeep DEF Waiting
  <2>2. n # NodeOf[t]
    BY <1>0, <1>3, OnlyOne
  <2>3. SameEntry(n, s)
    BY <1>0, <2>2, Elsewhere
  <2>. QED  BY <1>0, <1>2, <2>1, <2>3 DEF Uncounted, SameEntry
<1>4. CASE u = t
  <2>1. CASE ~Waiting(t)
    <3>1. UNCHANGED <<nreceived, nbarriers>>
          \/ \E r \in Sync : /\ nreceived' = [nreceived EXCEPT ![n][r] = [m \in Node |-> 0]]
                             /\ nbarriers' = [nbarriers EXCEPT ![n][r] = 0]
      <4>1. CASE UNCHANGED vars
        BY <4>1 DEF vars, tableVars
      <4>2. ASSUME NEW r \in Sync, Moves(t, r)
            PROVE  UNCHANGED <<nreceived, nbarriers>>
                   \/ /\ nreceived' = [nreceived EXCEPT ![n][r] = [m \in Node |-> 0]]
                      /\ nbarriers' = [nbarriers EXCEPT ![n][r] = 0]
        <5>1. pc[t] \notin {"consume", "lock", "read"}
          BY <2>1 DEF Waiting
        <5>2. Alloc(t, r) => \/ UNCHANGED <<nreceived, nbarriers>>
                             \/ /\ nreceived' = [nreceived EXCEPT ![n][r] = [m \in Node |-> 0]]
                                /\ nbarriers' = [nbarriers EXCEPT ![n][r] = 0]
          BY <1>4 DEF Alloc
        <5>. QED
          BY <4>2, <5>1, <5>2 DEF Moves, Call, Step, Release, Wait, Signal, TryConsume,
             LockAndConsume, Read, ReadError, SignalLock, Send, SendError, Finish, tableVars
      <4>. QED  BY <1>0, <4>1, <4>2, BarrierMoves
    <3>2. Uncounted(n, s)
      BY <1>2, <1>4, <2>1
    <3>3. nbarriers'[n][s] = 0 /\ \A m \in Node : nreceived'[n][s][m] = 0
      <4>1. nbarriers[n][s] = 0 /\ \A m \in Node : nreceived[n][s][m] = 0
        BY <3>2 DEF Uncounted
      <4>2. CASE UNCHANGED <<nreceived, nbarriers>>
        BY <4>1, <4>2
      <4>3. CASE \E r \in Sync : /\ nreceived' = [nreceived EXCEPT ![n][r] = [m \in Node |-> 0]]
                                 /\ nbarriers' = [nbarriers EXCEPT ![n][r] = 0]
        <5>1. PICK r \in Sync : /\ nreceived' = [nreceived EXCEPT ![n][r] = [m \in Node |-> 0]]
                                /\ nbarriers' = [nbarriers EXCEPT ![n][r] = 0]
          BY <4>3
        <5>. QED  BY <1>0, <1>1, <4>1, <5>1
      <4>. QED  BY <3>1, <4>2, <4>3
    <3>. QED  BY <1>0, <3>3 DEF Uncounted
  <2>2. CASE Waiting(t)
    <3>1. pc[t] # "idle" /\ arg[t] = s
      BY <1>0, <1>4, <2>2, WaitsNow DEF Waiting
    <3>2. Run(t)
      <4>1. ~Create(t) /\ ~Destroy(t)
        BY <1>0, <3>1, Changes
      <4>2. \A r : ~Wait(t, r) /\ ~Signal(t, r)
        BY <3>1 DEF Wait, Signal, Begin
      <4>. QED  BY <4>1, <4>2, AloneSteps
    <3>3. pc'[t] \notin {"consume", "lock", "read"}
      BY <1>4 DEF Waiting
    <3>4. Consume(t)
      <4>1. pc[t] \in {"consume", "lock", "read"}
        BY <2>2 DEF Waiting
      <4>2. TryConsume(t) \/ LockAndConsume(t) \/ Read(t)
        BY <3>2, <4>1 DEF Run, Step, SignalLock, Send, Finish
      <4>3. ~Consume(t) => \E l \in {"consume", "lock", "read"} : pc' = [pc EXCEPT ![t] = l]
        BY <4>2 DEF TryConsume, LockAndConsume, Read, Goto
      <4>. QED  BY <1>0, <1>1, <3>3, <4>3
    <3>5. /\ nbarriers[n][s] > 0 /\ UNCHANGED nreceived
          /\ nbarriers' = [nbarriers EXCEPT ![n][s] = @ - 1]
      BY <1>4, <3>1, <3>4 DEF Consume
    <3>6. nbarriers[n][s] = 1 /\ \A m \in Node : nreceived[n][s][m] = 0
      BY <1>0, <1>4, <2>2, <3>5, LastSignal
    <3>7. nbarriers'[n][s] = 0
      BY <1>0, <1>1, <3>5, <3>6
    <3>. QED  BY <1>0, <3>5, <3>6, <3>7 DEF Uncounted
  <2>. QED  BY <2>1, <2>2
<1>. QED  BY <1>3, <1>4

\* Nothing is forgotten: an entry that is removed counts nothing, and a signal is read
\* by the thread that has its entry.
LEMMA LostKept ==
    ASSUME BarrierInv, OneEach, NEW t \in scene.who, BarrierStep(t)
    PROVE  NothingLost'
<1>. SUFFICES ASSUME NEW n \in Node, NEW s \in Sync, NEW m \in Node
              PROVE  lost'[n][s][m] = 0
  BY DEF NothingLost
<1>0. /\ SyncInv /\ TypeOK /\ BarrierTypes /\ BarrierFits /\ Alone /\ OnlyItsOwn
      /\ t \in Thread /\ NodeOf[t] \in Node /\ lost[n][s][m] = 0
      /\ NodeOf[t] \in Members[Arrival]
  <2>1. BarrierTypes /\ SyncInv /\ TypeOK /\ BarrierFits /\ Alone /\ OnlyItsOwn /\ NothingLost
    BY DEF BarrierInv, SyncInv
  <2>2. t \in Thread /\ NodeOf[t] \in Members[Arrival]
    BY <2>1, Who DEF BarrierTypes
  <2>. QED  BY <2>1, <2>2, EndsOf DEF NothingLost
<1>1. lost \in [Node -> [Sync -> [Node -> Nat]]]
  BY <1>0 DEF TypeOK
<1>2. CASE n # NodeOf[t]
  BY <1>0, <1>2, Elsewhere
<1>3. CASE n = NodeOf[t]
  <2>1. ASSUME NEW r \in {Arrival, Departure}, Release(t, r) PROVE lost'[n][s][m] = 0
    <3>1. CASE UNCHANGED lost
      BY <1>0, <3>1
    <3>2. CASE r # s /\ ~UNCHANGED lost
      BY <1>0, <1>1, <1>3, <2>1, <3>2 DEF Release
    <3>3. CASE r = s /\ ~UNCHANGED lost
      <4>1. nreceived[n][s][m] = 0 /\ nbarriers[n][s] = 0
        <5>1. ~Waiting(t)
          BY <2>1 DEF Release, Waiting
        <5>2. CASE n \in Receivers(s)
          <6>1. s = Input(t)
            BY <1>0, <1>3, <2>1, <3>3, <5>2, EndsOf
          <6>. QED  BY <1>0, <1>3, <5>1, <6>1 DEF Alone, Uncounted
        <5>3. CASE n \notin Receivers(s)
          BY <1>0, <5>3 DEF OnlyItsOwn
        <5>. QED  BY <5>2, <5>3
      <4>2. PICK f : f = lost[n][s]
        OBVIOUS
      <4>3. PICK g : g = [k \in Node |-> f[k] + nreceived[n][s][k]
                                     + (IF k \in Senders(s) THEN nbarriers[n][s] ELSE 0)]
        OBVIOUS
      <4>4. lost' = [lost EXCEPT ![n][s] = g]
        BY <1>3, <2>1, <3>3, <4>2, <4>3 DEF Release
      <4>5. g[m] = 0
        BY <1>0, <4>1, <4>2, <4>3
      <4>. QED  BY <1>1, <4>4, <4>5
    <3>. QED  BY <3>1, <3>2, <3>3
  <2>2. ASSUME Read(t) PROVE UNCHANGED lost
    <3>1. PICK q, r, k : q = inbox[n] /\ r = Head(q).sync /\ k = Head(q).source
      OBVIOUS
    <3>2. /\ q \in Seq(Message) /\ q # <<>> /\ r \in Sync /\ n \in Receivers(r)
          /\ k \in Senders(r) /\ k \in Node
      BY <1>0, <1>3, <2>2, <3>1, ReadSteps
    <3>3. refcount[n][r] > 0 => UNCHANGED lost
      BY <1>0, <1>3, <2>2, <3>1, ReadSteps
    <3>4. r \in {Arrival, Departure}
      <4>1. SUFFICES ASSUME r \notin {Arrival, Departure} PROVE FALSE
        OBVIOUS
      <4>2. sent[r][k][n] = 0
        BY <1>0, <3>2, <4>1 DEF OnlyItsOwn
      <4>3. sent[r][k][n] = InMail(n, r, k) + Counted(n, r, k) + released[n][r] + lost[n][r][k]
        BY <1>0, <3>2 DEF SyncInv, SignalsConserved
      <4>4. InMail(n, r, k) \in Nat /\ InMail(n, r, k) # 0
        <5>1. PICK x : x = [sync |-> r, source |-> k]
          OBVIOUS
        <5>2. Head(q) = x
          <6>1. Head(q) \in Message
            BY <3>2, HeadAndTail, Zenon
          <6>. QED  BY <3>1, <5>1, <6>1 DEF Message
        <5>3. 1 \in Places(q, x)
          BY <3>2, <5>2 DEF Places
        <5>4. IsFiniteSet(Places(q, x)) /\ Cardinality(Places(q, x)) \in Nat
          BY <3>2, PlacesFinite
        <5>5. Cardinality(Places(q, x)) # 0
          BY <5>3, <5>4, FS_EmptySet
        <5>6. InMail(n, r, k) = Cardinality(Places(q, x))
          BY <1>0, <3>1, <5>1, MailCount
        <5>. QED  BY <5>4, <5>5, <5>6
      <4>5. released[n][r] \in Nat /\ lost[n][r][k] \in Nat /\ Counted(n, r, k) \in Nat
        <5>1. /\ nreceived[n][r][k] \in Nat /\ nbarriers[n][r] \in Nat
              /\ released[n][r] \in Nat /\ lost[n][r][k] \in Nat
          BY <1>0, <3>2 DEF TypeOK
        <5>. QED  BY <5>1 DEF Counted
      <4>6. PICK a, b, c, d : /\ a = InMail(n, r, k) /\ b = Counted(n, r, k)
                              /\ c = released[n][r] /\ d = lost[n][r][k]
        OBVIOUS
      <4>7. 0 = a + b + c + d
        BY <4>2, <4>3, <4>6, Zenon
      <4>8. a \in Nat /\ a # 0 /\ b \in Nat /\ c \in Nat /\ d \in Nat
        BY <4>4, <4>5, <4>6, Zenon
      <4>. QED  BY <4>7, <4>8
    <3>5. r = Input(t)
      BY <1>0, <1>3, <3>2, <3>4, EndsOf
    <3>6. Waiting(t)
      BY <2>2 DEF Read, Waiting
    <3>7. refcount[n][r] > 0
      BY <1>0, <1>3, <3>5, <3>6, WaitsNow
    <3>. QED  BY <3>3, <3>7
  <2>3. UNCHANGED lost \/ Read(t) \/ \E r \in {Arrival, Departure} : Release(t, r)
    <3>1. CASE Create(t)
      BY <3>1 DEF Create, CreateInput, CreateOutput, Alloc, vars, historyVars
    <3>2. CASE Destroy(t)
      BY <3>2 DEF Destroy, DestroyFirst, DestroySecond, Remove, vars, historyVars
    <3>3. CASE Run(t)
      BY <3>3 DEF Run, Step, TryConsume, LockAndConsume, Consume, SignalLock, Send, Finish, historyVars
    <3>4. \A r : Wait(t, r) \/ Signal(t, r) => UNCHANGED lost
      BY DEF Wait, Signal, historyVars
    <3>. QED  BY <3>1, <3>2, <3>3, <3>4, AloneSteps
  <2>. QED  BY <1>0, <2>1, <2>2, <2>3
<1>. QED  BY <1>2, <1>3

\* What holds where each node has one thread and nothing fails is kept.
LEMMA AloneKept ==
    ASSUME BarrierInv, OneEach, NEW t \in scene.who, BarrierStep(t)
    PROVE  Alone'
<1>0. /\ TypeOK /\ BarrierTypes /\ BarrierFits /\ t \in Thread /\ Alone
      /\ UNCHANGED scene /\ scene.who \subseteq Thread
  BY Who, SceneKept DEF BarrierInv, SyncInv, BarrierTypes
<1>1. /\ UNCHANGED <<faults, taken>> /\ ~failed'[t]
      /\ held'[t] = Owned(t)' /\ Named(t)' /\ Clean(t)'
  BY AloneSteps
<1>2. ASSUME NEW u \in scene.who
      PROVE  ~failed'[u] /\ held'[u] = Owned(u)' /\ Named(u)' /\ Clean(u)'
  <2>1. CASE u # t
    <3>1. /\ at'[u] = at[u] /\ failed'[u] = failed[u]
          /\ syncs'[u] = syncs[u] /\ held'[u] = held[u]
          /\ entered'[u] = entered[u] /\ left'[u] = left[u]
      BY <1>0, <2>1, OthersKeep
    <3>2. ~failed[u] /\ held[u] = Owned(u) /\ Named(u) /\ Clean(u)
      BY <1>0 DEF Alone, NoErrorYet, Clean
    <3>. QED  BY <3>1, <3>2 DEF Owned, Named, Clean, Inside, Input, Leader
  <2>. QED  BY <1>1, <2>1
<1>3. \A u \in scene.who : ~Waiting(u)' => Uncounted(NodeOf[u], Input(u))'
  BY UncountedKept
<1>4. faults' = 0 /\ taken' = [n \in Node |-> {}]
  BY <1>0, <1>1 DEF Alone
<1>5. NoErrorYet'
  BY <1>0, <1>2 DEF NoErrorYet, Clean
<1>. QED  BY <1>0, <1>2, <1>3, <1>4, <1>5 DEF Alone

-----------------------------------------------------------------------------
(* The invariant.                                                          *)

\* Every step keeps the invariant: the lemmas of its conjuncts, put together.
LEMMA BarrierInvKept ==
    ASSUME BarrierInv, NEW t \in scene.who, BarrierStep(t)
    PROVE  BarrierInv'
<1>0. t \in Thread
  BY Who DEF BarrierInv, BarrierTypes
<1>1. SyncInv' /\ BarrierTypes' /\ BarrierFits'
  BY <1>0, SyncInvKept, BarrierTypesKept, BarrierFitsKept DEF BarrierInv
<1>2. RefsHeld' /\ OnlyItsOwn'
  BY <1>1, RefsKept, OnlyItsOwnKept DEF SyncInv
<1>3. NoErrorYet' => Ledger'
  BY <1>1, LedgerKept
<1>4. OneEach' => Alone' /\ NothingLost'
  <2>1. OneEach' => OneEach
    BY SceneKept DEF OneEach, On
  <2>. QED  BY <2>1, AloneKept, LostKept
<1>. QED  BY <1>1, <1>2, <1>3, <1>4 DEF BarrierInv

\* The invariant says nothing of what a step that changes nothing could change.
LEMMA BarrierStutter == BarrierInv /\ UNCHANGED allVars => BarrierInv'
<1>. SUFFICES ASSUME BarrierInv, UNCHANGED allVars PROVE BarrierInv'
  OBVIOUS
<1>1. /\ UNCHANGED vars /\ UNCHANGED <<scene, faults, at, syncs, held, failed>>
      /\ UNCHANGED <<entered, left, leaked, taken>>
      /\ UNCHANGED <<refcount, barrier, nreceived, nbarriers, pc, arg, targets, sent, lost, released>>
  BY DEF allVars, barrierVars, historyOfWaits, historyOfRefs, vars, tableVars, callVars, historyVars
<1>2. SyncInv'
  BY <1>1, SyncStutter DEF BarrierInv
<1>3. BarrierTypes' /\ BarrierFits'
  BY <1>1 DEF BarrierInv, BarrierTypes, BarrierFits, Inside, Input, Leader
<1>4. RefsHeld' /\ OnlyItsOwn'
  BY <1>1 DEF BarrierInv, RefsHeld, On, OnlyItsOwn
<1>5. \A n : On(n)' = On(n)
  BY <1>1 DEF On
<1>6. NoErrorYet' => Ledger'
  <2>1. NoErrorYet' => NoErrorYet
    BY <1>1 DEF NoErrorYet, Inside
  <2>2. Got' = Got /\ \A k : Gave(k)' = Gave(k)
    BY <1>1 DEF Got, Gave, WaitDue, SendDue, Before, In, Input, Output, Leader
  <2>3. Ledger => Ledger'
    BY <1>1, <1>5, <2>2 DEF Ledger
  <2>. QED  BY <2>1, <2>3 DEF BarrierInv
<1>7. OneEach' => Alone' /\ NothingLost'
  <2>1. OneEach' => OneEach
    BY <1>1 DEF OneEach, On
  <2>2. Alone => Alone'
    BY <1>1 DEF Alone, NoErrorYet, Owned, Named, Uncounted, Waiting, Inside, Input, Leader
  <2>3. NothingLost /\ OneEach => NothingLost'
    BY <1>1 DEF NothingLost
  <2>. QED  BY <2>1, <2>2, <2>3 DEF BarrierInv
<1>. QED  BY <1>2, <1>3, <1>4, <1>6, <1>7 DEF BarrierInv

\* The threads have their barriers from the start, with a reference each, or none has.
LEMMA BarrierInitHolds == BarrierInit => BarrierInv
<1>. SUFFICES ASSUME BarrierInit PROVE BarrierInv
  OBVIOUS
<1>0. scene \in Scenes /\ scene.ready \in BOOLEAN /\ scene.rounds \in Nat /\ scene.faults \in Nat
      /\ scene.who \subseteq Thread /\ faults = scene.faults
      /\ \A n : IsFiniteSet(On(n)) /\ On(n) \subseteq scene.who /\ On(n) \subseteq Thread
  BY Who, SceneAssumption, BarrierAssumption DEF BarrierInit
<1>1. PICK refs : refs = [n \in Node |-> [s \in Sync |->
                    IF scene.ready /\ s \in {Arrival, Departure} THEN Cardinality(On(n)) ELSE 0]]
  OBVIOUS
<1>2. InitWith(refs) /\ refs \in [Node -> [Sync -> Nat]]
  <2>1. \A n \in Node : Cardinality(On(n)) \in Nat
    BY <1>0, FS_CardinalityType
  <2>. QED  BY <1>1, <2>1 DEF BarrierInit
<1>3. SyncInv
  BY <1>2, InitHolds
<1>4. /\ pc = [t \in Thread |-> "idle"] /\ refcount = refs /\ arg = [t \in Thread |-> NoSync]
      /\ barrier = [n \in Node |-> [s \in Sync |-> {}]]
      /\ nreceived = [n \in Node |-> [s \in Sync |-> [m \in Node |-> 0]]]
      /\ nbarriers = [n \in Node |-> [s \in Sync |-> 0]]
      /\ sent = [s \in Sync |-> [m \in Node |-> [n \in Node |-> 0]]]
      /\ lost = [n \in Node |-> [s \in Sync |-> [m \in Node |-> 0]]]
      /\ released = [n \in Node |-> [s \in Sync |-> 0]]
  BY <1>2 DEF InitWith
<1>5. /\ at = [t \in Thread |-> IF scene.ready THEN "ready" ELSE "none"]
      /\ syncs = [t \in Thread |-> IF scene.ready THEN {Arrival, Departure} ELSE {}]
      /\ held = [t \in Thread |-> IF scene.ready THEN {Arrival, Departure} ELSE {}]
      /\ failed = [t \in Thread |-> FALSE]
      /\ entered = [t \in Thread |-> 0]
      /\ left = [t \in Thread |-> 0]
      /\ leaked = [n \in Node |-> [s \in Sync |-> 0]]
      /\ taken = [n \in Node |-> {}]
  BY DEF BarrierInit
<1>6. \A t \in Thread : ~Inside(t)
  BY <1>5 DEF Inside
<1>7. BarrierTypes
  BY <1>0, <1>5, BarrierAssumption DEF BarrierTypes
<1>8. BarrierFits
  BY <1>0, <1>4, <1>5, <1>6 DEF BarrierFits
<1>9. RefsHeld
  <2>1. SUFFICES ASSUME NEW n \in Node, NEW s \in {Arrival, Departure}
                 PROVE  refcount[n][s] = Cardinality(Holders(n, s)) + leaked[n][s]
    BY DEF RefsHeld, Holders
  <2>2. s \in Sync /\ leaked[n][s] = 0
    BY <1>5, Points
  <2>3. CASE scene.ready
    <3>1. Holders(n, s) = On(n)
      BY <1>0, <1>5, <2>3 DEF Holders
    <3>2. Cardinality(On(n)) \in Nat
      BY <1>0, FS_CardinalityType
    <3>. QED  BY <1>1, <1>4, <2>2, <2>3, <3>1, <3>2
  <2>4. CASE ~scene.ready
    <3>1. Holders(n, s) = {}
      BY <1>0, <1>5, <2>4 DEF Holders
    <3>. QED  BY <1>1, <1>4, <2>2, <2>4, <3>1, FS_EmptySet
  <2>. QED  BY <2>3, <2>4
<1>10. OnlyItsOwn
  BY <1>4 DEF OnlyItsOwn
<1>11. Ledger
  <2>1. \A t \in Thread : ~WaitDue(t) /\ \A k : ~SendDue(t, k)
    BY <1>6, DuesInside
  <2>2. \A t \in Thread : Got[t] = 0 /\ \A k : Gave(k)[t] = 0
    BY <1>5, <2>1 DEF Got, Gave
  <2>3. \A n : Total(Got, On(n)) = 0
    BY <1>0, <2>2, TotalZero
  <2>4. \A m, k : Total(Gave(k), On(m)) = 0
    BY <1>0, <2>2, TotalZero
  <2>. QED  BY <1>4, <2>3, <2>4, Points, Ends DEF Ledger
<1>12. OneEach => Alone
  <2>1. ASSUME OneEach PROVE Alone
    <3>1. faults = 0
      BY <1>0, <2>1 DEF OneEach
    <3>2. NoErrorYet
      BY <1>0, <1>5, <1>6 DEF NoErrorYet
    <3>3. ASSUME NEW t \in scene.who
          PROVE  ~failed[t] /\ held[t] = Owned(t) /\ Named(t) /\ Uncounted(NodeOf[t], Input(t))
      <4>1. t \in Thread /\ NodeOf[t] \in Node /\ Input(t) \in Sync
        BY <1>0, EndsOf
      <4>2. ~failed[t] /\ held[t] = Owned(t) /\ Named(t)
        BY <1>5, <4>1 DEF Owned, Named
      <4>3. Uncounted(NodeOf[t], Input(t))
        BY <1>4, <4>1 DEF Uncounted
      <4>. QED  BY <4>2, <4>3
    <3>. QED  BY <1>5, <3>1, <3>2, <3>3 DEF Alone
  <2>. QED  BY <2>1
<1>13. NothingLost
  BY <1>4 DEF NothingLost
<1>. QED  BY <1>3, <1>7, <1>8, <1>9, <1>10, <1>11, <1>12, <1>13 DEF BarrierInv

\* The inductive invariant.
THEOREM BarrierInductive == BarrierSpec => []BarrierInv
<1>1. BarrierInv /\ [BarrierNext]_allVars => BarrierInv'
  <2>. SUFFICES ASSUME BarrierInv, [BarrierNext]_allVars PROVE BarrierInv'
    OBVIOUS
  <2>1. CASE BarrierNext
    BY <2>1, BarrierInvKept DEF BarrierNext, BarrierStep
  <2>2. CASE UNCHANGED allVars
    BY <2>2, BarrierStutter
  <2>. QED  BY <2>1, <2>2
<1>. QED  BY <1>1, BarrierInitHolds, PTL DEF BarrierSpec

-----------------------------------------------------------------------------
(* What follows from it.                                                   *)

\* The types: the references of a point never go below zero, and no thread calls more
\* often than its scene lets it.
THEOREM BarrierTyped == BarrierSpec => []BarrierTypeOK
<1>1. BarrierInv => BarrierTypeOK
  BY DEF BarrierInv, SyncInv, BarrierTypes, BarrierTypeOK
<1>. QED  BY <1>1, BarrierInductive, PTL

\* The three properties of Sync hold under the barrier too, with points that are
\* created and removed while others of the node use them.
THEOREM BarrierOverSync ==
    BarrierSpec => [](BarrierCounts /\ SignalsConserved /\ EntriesInUse)
<1>1. BarrierInv => BarrierCounts /\ SignalsConserved /\ EntriesInUse
  BY OneUserImplies DEF BarrierInv, SyncInv
<1>. QED  BY <1>1, BarrierInductive, PTL

\* A point has one reference for each barrier of its node that holds it, and those that
\* a failed barrier_create or barrier_destroy has left behind, however many threads
\* share it and whatever fails, unless a barrier was destroyed again of which a
\* barrier_destroy had failed at the other point.
THEOREM BarrierRefsHeld == BarrierSpec => []RefsHeld
<1>1. BarrierInv => RefsHeld
  BY DEF BarrierInv
<1>. QED  BY <1>1, BarrierInductive, PTL

\* As long as no thread has met an error, the threads of no node have returned from
\* barrier_wait more often than those of any other have called it, however many
\* threads share the points of a node and whatever they create and destroy.
THEOREM BarrierEarly == BarrierSpec => []EarlyOnlyAfterError
<1>1. BarrierInv => EarlyOnlyAfterError
  BY LedgerReached DEF BarrierInv, EarlyOnlyAfterError
<1>. QED  BY <1>1, BarrierInductive, PTL

\* With one thread on each node and no failure, no signal is forgotten, though a
\* barrier is destroyed while others are about to signal.
THEOREM BarrierLosesNothing == BarrierSpec => []NothingLost
<1>1. BarrierInv => NothingLost
  BY DEF BarrierInv, NothingLost
<1>. QED  BY <1>1, BarrierInductive, PTL

\* When nobody is inside, what was sent has been received.
LEMMA Settled ==
    ASSUME BarrierInv, OneEach, \A t \in Thread : ~Inside(t),
           NEW s \in Sync, NEW n \in Receivers(s), NEW m \in Senders(s)
    PROVE  InMail(n, s, m) = 0 /\ Counted(n, s, m) = 0
<1>0. /\ SyncInv /\ TypeOK /\ BarrierTypes /\ BarrierFits /\ Alone /\ Ledger /\ OnlyItsOwn
      /\ n \in Node /\ m \in Node /\ scene.who \subseteq Thread
  BY Ends, Who DEF BarrierInv, SyncInv, Alone, BarrierTypes
<1>1. /\ InMail(n, s, m) \in Nat /\ Counted(n, s, m) \in Nat
      /\ released[n][s] \in Nat /\ lost[n][s][m] \in Nat
  <2>1. /\ nreceived[n][s][m] \in Nat /\ nbarriers[n][s] \in Nat
        /\ released[n][s] \in Nat /\ lost[n][s][m] \in Nat
    BY <1>0 DEF TypeOK
  <2>2. InMail(n, s, m) \in Nat
    BY <1>0, MailCount
  <2>. QED  BY <2>1, <2>2 DEF Counted
<1>2. sent[s][m][n] = InMail(n, s, m) + Counted(n, s, m) + released[n][s] + lost[n][s][m]
  BY <1>0 DEF SyncInv, SignalsConserved
<1>3. CASE s \notin {Arrival, Departure}
  <2>1. sent[s][m][n] = 0
    BY <1>0, <1>3 DEF OnlyItsOwn
  <2>. QED  BY <1>1, <1>2, <2>1
<1>4. CASE s \in {Arrival, Departure}
  <2>1. m \in Members[Arrival] /\ n \in Members[Arrival]
    BY <1>4, Points, SyncAssumption
  <2>2. PICK t \in scene.who : NodeOf[t] = n
    BY <1>0, <2>1, SomeOne
  <2>3. PICK u \in scene.who : NodeOf[u] = m
    BY <1>0, <2>1, SomeOne
  <2>4. t \in Thread /\ u \in Thread
    BY <1>0
  <2>5. Gets(n) = entered[t] /\ Entries(n) = entered[t] /\ entered[t] \in Nat
    <3>1. ~WaitDue(t)
      BY <2>4, DuesInside
    <3>2. entered[t] \in Nat
      BY <1>0, <2>4, GotNat
    <3>3. Got[t] = entered[t]
      BY <2>4, <3>1, <3>2 DEF Got
    <3>4. Gets(NodeOf[t]) = Got[t] /\ Entries(NodeOf[t]) = entered[t]
      BY <1>0, NodeIsOne
    <3>. QED  BY <2>2, <3>2, <3>3, <3>4
  <2>6. Gives(m, n) = entered[u] /\ Entries(m) = entered[u] /\ Gets(m) = entered[u]
        /\ entered[u] \in Nat
    <3>1. ~SendDue(u, n) /\ ~WaitDue(u)
      BY <2>4, DuesInside
    <3>2. entered[u] \in Nat
      BY <1>0, <2>4, GotNat
    <3>3. Got[u] = entered[u] /\ Gave(n)[u] = entered[u]
      BY <2>4, <3>1, <3>2 DEF Got, Gave
    <3>4. /\ Gets(NodeOf[u]) = Got[u] /\ Entries(NodeOf[u]) = entered[u]
          /\ Gives(NodeOf[u], n) = Gave(n)[u]
      BY <1>0, NodeIsOne
    <3>. QED  BY <2>3, <3>2, <3>3, <3>4
  <2>7. Gets(m) <= Entries(n)
    BY <1>0, <2>1, GetsReached
  <2>8. Gets(n) <= Gives(m, n) /\ Gets(n) = released[n][s] /\ Gives(m, n) = sent[s][m][n]
    BY <1>0, <1>4, GetsLess
  <2>. QED  BY <1>1, <1>2, <2>5, <2>6, <2>7, <2>8
<1>. QED  BY <1>3, <1>4

\* A message in a mailbox is one that InMail counts.
LEMMA HeadInMail ==
    ASSUME SyncInv, NEW n \in Node, inbox[n] # <<>>
    PROVE  \E s \in Sync : n \in Receivers(s) /\ \E m \in Senders(s) : InMail(n, s, m) # 0
<1>1. PICK q : q = inbox[n]
  OBVIOUS
<1>2. q \in Seq(Mail(n)) /\ q \in Seq(Message) /\ q # <<>>
  BY <1>1 DEF SyncInv, MailFits, TypeOK
<1>3. PICK x : x = Head(q)
  OBVIOUS
<1>4. x \in Mail(n)
  BY <1>2, <1>3, HeadAndTail, Zenon
<1>5. /\ x.sync \in Sync /\ n \in Receivers(x.sync) /\ x.source \in Senders(x.sync)
      /\ x = [sync |-> x.sync, source |-> x.source]
  BY <1>4 DEF Mail, Message
<1>6. IsFiniteSet(Places(q, x)) /\ Cardinality(Places(q, x)) \in Nat
  BY <1>2, PlacesFinite
<1>7. 1 \in Places(q, x)
  BY <1>2, <1>3 DEF Places
<1>8. Cardinality(Places(q, x)) # 0
  BY <1>6, <1>7, FS_EmptySet
<1>9. InMail(n, x.sync, x.source) = Cardinality(Places(q, [sync |-> x.sync, source |-> x.source]))
  BY <1>1, MailCount DEF SyncInv
<1>. QED  BY <1>5, <1>8, <1>9

\* With one thread to a node and nobody inside, the ledger leaves no signal over: not
\* in a mailbox, and not in the entry of a point.
LEMMA QuietIsEmpty == BarrierInv => Quiescent
<1>. SUFFICES ASSUME BarrierInv, OneEach, \A t \in Thread : ~Inside(t), NEW n \in Node
              PROVE  /\ inbox[n] = <<>>
                     /\ \A s \in Sync : refcount[n][s] > 0 =>
                           barrier[n][s] = {} /\ nbarriers[n][s] = 0
  BY DEF Quiescent
<1>0. SyncInv /\ TypeOK /\ OnlyItsOwn
  BY DEF BarrierInv, SyncInv
<1>1. inbox[n] = <<>>
  BY <1>0, HeadInMail, Settled
<1>2. ASSUME NEW s \in Sync, refcount[n][s] > 0
      PROVE  barrier[n][s] = {} /\ nbarriers[n][s] = 0
  <2>1. CASE n \notin Receivers(s)
    BY <1>0, <2>1 DEF OnlyItsOwn
  <2>2. CASE n \in Receivers(s)
    <3>1. ASSUME NEW m \in Senders(s) PROVE nreceived[n][s][m] = 0 /\ nbarriers[n][s] = 0
      <4>1. Counted(n, s, m) = 0
        BY <2>2, Settled
      <4>2. m \in Node
        BY Ends
      <4>3. nreceived[n][s][m] \in Nat /\ nbarriers[n][s] \in Nat
        BY <1>0, <4>2 DEF TypeOK
      <4>4. Counted(n, s, m) = nreceived[n][s][m] + nbarriers[n][s]
        BY <1>2 DEF Counted
      <4>. QED  BY <4>1, <4>3, <4>4
    <3>2. nbarriers[n][s] = 0
      BY <3>1, Ends
    <3>3. /\ barrier[n][s] = {m \in Node : nreceived[n][s][m] > 0}
          /\ barrier[n][s] \subseteq Senders(s)
      BY <1>0, <1>2, <2>2 DEF SyncInv, BarrierCounts
    <3>4. barrier[n][s] = {}
      BY <3>1, <3>3
    <3>. QED  BY <3>2, <3>4
  <2>. QED  BY <2>1, <2>2
<1>. QED  BY <1>1, <1>2

\* With one thread on each node and no failure, nothing is left for the next round when
\* nobody is inside: neither in a mailbox nor counted in an entry.
THEOREM BarrierQuiescent == BarrierSpec => []Quiescent
<1>. QED  BY QuietIsEmpty, BarrierInductive, PTL

-----------------------------------------------------------------------------
(* The rendezvous.                                                         *)

\* What a step does to the round of its thread.
LEMMA Rounds ==
    ASSUME BarrierInv, OneEach, NEW t \in scene.who, BarrierStep(t)
    PROVE  \/ entered'[t] = entered[t] /\ Inside(t)' = Inside(t)
           \/ /\ ~Inside(t) /\ Inside(t)' /\ entered[t] < MaxRounds
              /\ entered'[t] = entered[t] + 1
           \/ /\ Inside(t) /\ ~Inside(t)' /\ ~WaitDue(t)
              /\ entered'[t] = entered[t]
<1>0. /\ SyncInv /\ TypeOK /\ BarrierTypes /\ BarrierFits /\ Alone /\ t \in Thread
      /\ Arrival \in Sync /\ Departure \in Sync /\ Arrival # Departure
  BY Who, Points DEF BarrierInv, SyncInv, BarrierTypes
<1>1. /\ at \in [Thread -> {"none", "created", "ready", "first", "between", "second", "closing"}]
      /\ entered \in [Thread -> 0..MaxRounds] /\ pc \in [Thread -> PCs]
      /\ MaxRounds \in Nat /\ scene.rounds \in 0..MaxRounds
  BY <1>0, Who, BarrierAssumption DEF BarrierTypes, TypeOK
<1>2. CASE Create(t) \/ GiveUp(t) \/ Destroy(t)
  <2>1. UNCHANGED entered
    BY <1>0, <1>2, Changes
  <2>2. /\ at[t] \in {"none", "created", "ready", "closing"}
        /\ \E l \in {"none", "created", "ready", "closing"} : at' = [at EXCEPT ![t] = l]
    BY <1>0, <1>2, Changes
  <2>3. Inside(t)' = FALSE /\ Inside(t) = FALSE
    BY <1>0, <1>1, <2>2 DEF Inside
  <2>. QED  BY <2>1, <2>3
<1>3. CASE Refuse(t)
  <2>1. syncs[t] = {Arrival, Departure}
    BY <1>0, <1>3 DEF Refuse, Alone, Named
  <2>. QED  BY <1>3, <2>1 DEF Refuse, IsValid
<1>4. CASE Enter(t)
  <2>1. /\ at[t] = "ready" /\ entered[t] < scene.rounds
        /\ entered' = [entered EXCEPT ![t] = @ + 1]
        /\ \E l \in {"first", "between"} : at' = [at EXCEPT ![t] = l]
    BY <1>4 DEF Enter, At
  <2>2. ~Inside(t) /\ Inside(t)'
    BY <1>0, <1>1, <2>1 DEF Inside
  <2>3. entered'[t] = entered[t] + 1 /\ entered[t] < MaxRounds
    BY <1>0, <1>1, <2>1
  <2>. QED  BY <2>2, <2>3
<1>5. CASE Proceed(t)
  <2>1. at[t] = "between" /\ pc[t] = "idle" /\ ~Rejected(t, Departure)
    <3>1. at[t] = "between"
      BY <1>5 DEF Proceed
    <3>2. pc[t] = "idle"
      BY <1>0, <3>1 DEF BarrierFits
    <3>3. Departure \in held[t]
      BY <1>0, <3>1 DEF Alone, Owned
    <3>. QED  BY <3>1, <3>2, <3>3, NotRejected
  <2>2. UNCHANGED entered /\ at' = [at EXCEPT ![t] = "second"]
    BY <1>5, <2>1 DEF Proceed, Calls, At, historyOfWaits
  <2>3. Inside(t)' = TRUE /\ Inside(t) = TRUE
    BY <1>0, <1>1, <2>1, <2>2 DEF Inside
  <2>. QED  BY <2>2, <2>3
<1>6. CASE Run(t) \/ Fail(t)
  <2>1. at[t] \in {"first", "second"} /\ UNCHANGED entered
    BY <1>0, <1>6, InCall
  <2>2. \/ UNCHANGED at
        \/ at[t] = "first" /\ at' = [at EXCEPT ![t] = "between"]
        \/ at[t] = "second" /\ at' = [at EXCEPT ![t] = "ready"] /\ Finish(t)
    BY <1>0, <1>6, InCall
  <2>3. CASE UNCHANGED at
    BY <2>1, <2>3 DEF Inside
  <2>4. CASE at[t] = "first" /\ at' = [at EXCEPT ![t] = "between"]
    <3>1. Inside(t)' = TRUE /\ Inside(t) = TRUE
      BY <1>0, <1>1, <2>4 DEF Inside
    <3>. QED  BY <2>1, <3>1
  <2>5. CASE at[t] = "second" /\ at' = [at EXCEPT ![t] = "ready"] /\ Finish(t)
    <3>1. Inside(t) /\ ~Inside(t)'
      BY <1>0, <1>1, <2>5 DEF Inside
    <3>2. ~WaitDue(t)
      BY <2>5 DEF WaitDue, Before, Finish
    <3>. QED  BY <2>1, <3>1, <3>2
  <2>. QED  BY <2>2, <2>3, <2>4, <2>5
<1>. QED  BY <1>2, <1>3, <1>4, <1>5, <1>6 DEF BarrierStep

\* The sum over a node's threads that the refinement uses is the total of the ledger.
LEMMA SumIsTotal == \A n : Sum(entered, n) = Total(entered, On(n))
BY DEF Sum, Total

\* A step of the barrier is a step of the rendezvous, or none.
LEMMA Meet ==
    ASSUME BarrierInv, BarrierTypes', NEW t \in scene.who, BarrierStep(t)
    PROVE  [R!Next]_(R!vars)
<1>. DEFINE E == [n \in Members[Arrival] |-> IF OneEach THEN Sum(entered, n) ELSE 0]
            I == {n \in Members[Arrival] : OneEach /\ \E u \in On(n) : Inside(u)}
            k == NodeOf[t]
<1>0. /\ SyncInv /\ BarrierTypes /\ BarrierFits /\ UNCHANGED scene /\ TypeOK
      /\ t \in Thread /\ k \in Members[Arrival] /\ scene.who \subseteq Thread
      /\ \A n : On(n)' = On(n)
  BY Who, SceneKept DEF BarrierInv, SyncInv, BarrierTypes, On
<1>1. OneEach' = OneEach
  BY <1>0 DEF OneEach
<1>2. CASE ~OneEach
  <2>1. E' = E /\ I' = I
    BY <1>1, <1>2
  <2>. QED  BY <2>1 DEF R!vars
<1>3. CASE OneEach
  <2>0. Alone /\ Ledger
    BY <1>3 DEF BarrierInv, Alone
  <2>1. \A n \in Members[Arrival] : \E u \in scene.who : NodeOf[u] = n /\ On(n) = {u}
    BY <1>0, <1>3, SomeOne, OnlyOne
  <2>2. ASSUME NEW u \in scene.who
        PROVE  Sum(entered, NodeOf[u]) = entered[u] /\ Sum(entered, NodeOf[u])' = entered'[u]
    <3>1. On(NodeOf[u]) = {u} /\ u \in Thread
      BY <1>0, <1>3, OnlyOne
    <3>2. entered[u] \in Nat /\ entered'[u] \in Nat
      BY <3>1, <1>0, BarrierAssumption DEF BarrierTypes
    <3>3. Total(entered, {u}) = entered[u] /\ Total(entered', {u}) = entered'[u]
      BY <3>2, TotalOne
    <3>4. Sum(entered, NodeOf[u])' = Total(entered', {u})
      <4>1. Sum(entered, NodeOf[u])' = Total(entered', On(NodeOf[u])')
        <5>1. (\A n : Sum(entered, n) = Total(entered, On(n)))'
          BY SumIsTotal, PTL
        <5>. QED  BY <5>1
      <4>2. On(NodeOf[u])' = {u}
        BY <1>0, <3>1
      <4>. QED  BY <4>1, <4>2
    <3>5. Sum(entered, NodeOf[u]) = Total(entered, {u})
      <4>1. Sum(entered, NodeOf[u]) = Total(entered, On(NodeOf[u]))
        BY DEF Sum, Total
      <4>. QED  BY <3>1, <4>1
    <3>. QED  BY <3>3, <3>4, <3>5
  <2>3. /\ DOMAIN E = Members[Arrival] /\ DOMAIN E' = Members[Arrival]
        /\ E = [n \in Members[Arrival] |-> E[n]] /\ E' = [n \in Members[Arrival] |-> E'[n]]
        /\ \A u \in scene.who : NodeOf[u] \in Members[Arrival] =>
              /\ E[NodeOf[u]] = entered[u] /\ E'[NodeOf[u]] = entered'[u]
              /\ NodeOf[u] \in I <=> Inside(u)
              /\ NodeOf[u] \in I' <=> Inside(u)'
    <3>1. /\ DOMAIN E = Members[Arrival] /\ DOMAIN E' = Members[Arrival]
          /\ E = [n \in Members[Arrival] |-> E[n]] /\ E' = [n \in Members[Arrival] |-> E'[n]]
      OBVIOUS
    <3>2. ASSUME NEW u \in scene.who, NodeOf[u] \in Members[Arrival]
          PROVE  /\ E[NodeOf[u]] = entered[u] /\ E'[NodeOf[u]] = entered'[u]
                 /\ NodeOf[u] \in I <=> Inside(u)
                 /\ NodeOf[u] \in I' <=> Inside(u)'
      <4>1. E[NodeOf[u]] = entered[u] /\ E'[NodeOf[u]] = entered'[u]
        BY <1>1, <1>3, <2>2, <3>2
      <4>2. On(NodeOf[u]) = {u}
        BY <1>0, <1>3, OnlyOne
      <4>3. NodeOf[u] \in I <=> Inside(u)
        BY <1>3, <3>2, <4>2
      <4>4. NodeOf[u] \in I' <=> Inside(u)'
        BY <1>0, <1>1, <1>3, <3>2, <4>2
      <4>. QED  BY <4>1, <4>3, <4>4
    <3>. QED  BY <3>1, <3>2
  <2>4. ASSUME NEW u \in scene.who, u # t
        PROVE  /\ NodeOf[u] # k /\ entered'[u] = entered[u] /\ Inside(u)' = Inside(u)
    <3>1. NodeOf[u] # k
      BY <1>0, <1>3, <2>4, OnlyOne
    <3>2. entered'[u] = entered[u] /\ at'[u] = at[u]
      BY <1>0, <2>4, OthersKeep
    <3>. QED  BY <3>1, <3>2 DEF Inside
  <2>5. ASSUME NEW n \in Members[Arrival], n # k
        PROVE  E'[n] = E[n] /\ (n \in I' <=> n \in I)
    <3>1. PICK u \in scene.who : NodeOf[u] = n
      BY <2>1
    <3>2. u # t
      BY <2>5, <3>1
    <3>. QED  BY <2>3, <2>4, <3>1, <3>2
  <2>6. /\ E[k] = entered[t] /\ E'[k] = entered'[t]
        /\ k \in I <=> Inside(t)
        /\ k \in I' <=> Inside(t)'
    BY <1>0, <2>3
  <2>7. I \subseteq Members[Arrival] /\ I' \subseteq Members[Arrival]
    OBVIOUS
  <2>8. /\ R!Enter(k) <=> /\ k \notin I
                         /\ E[k] < MaxRounds
                         /\ E' = [E EXCEPT ![k] = @ + 1]
                         /\ I' = I \cup {k}
        /\ R!Leave(k) <=> /\ k \in I
                         /\ \A q \in Members[Arrival] : E[q] >= E[k]
                         /\ I' = I \ {k}
                         /\ E' = E
        /\ R!vars' = R!vars <=> E' = E /\ I' = I
    BY DEF R!Enter, R!Leave, R!vars
  <2>. HIDE DEF E, I
  <2>9. CASE entered'[t] = entered[t] /\ Inside(t)' = Inside(t)
    <3>1. E' = E
      BY <2>3, <2>5, <2>6, <2>9
    <3>2. I' = I
      BY <2>5, <2>6, <2>7, <2>9
    <3>. QED  BY <2>8, <3>1, <3>2
  <2>10. CASE /\ ~Inside(t) /\ Inside(t)' /\ entered[t] < MaxRounds
              /\ entered'[t] = entered[t] + 1
    <3>1. E' = [E EXCEPT ![k] = @ + 1]
      BY <1>0, <2>3, <2>5, <2>6, <2>10
    <3>2. I' = I \cup {k}
      BY <1>0, <2>5, <2>6, <2>7, <2>10
    <3>3. R!Enter(k)
      BY <2>6, <2>8, <2>10, <3>1, <3>2
    <3>. QED  BY <1>0, <3>3 DEF R!Next
  <2>11. CASE /\ Inside(t) /\ ~Inside(t)' /\ ~WaitDue(t)
              /\ entered'[t] = entered[t]
    <3>1. E' = E
      BY <2>3, <2>5, <2>6, <2>11
    <3>2. I' = I \ {k}
      BY <1>0, <2>5, <2>6, <2>7, <2>11
    <3>3. ASSUME NEW q \in Members[Arrival] PROVE E[q] >= E[k]
      <4>1. PICK u \in scene.who : NodeOf[u] = q
        BY <2>1
      <4>2. E[q] = entered[u] /\ Entries(q) = entered[u] /\ u \in Thread
        BY <1>0, <1>3, <2>3, <4>1, NodeIsOne
      <4>3. Gets(k) = Got[t] /\ Got[t] = entered[t] /\ entered[t] \in Nat /\ entered[u] \in Nat
        <5>1. entered[t] \in Nat /\ entered[u] \in Nat
          BY <1>0, <4>2, GotNat
        <5>2. Got[t] = entered[t]
          BY <1>0, <2>11, <5>1 DEF Got
        <5>3. Gets(k) = Got[t]
          BY <1>0, <1>3, NodeIsOne
        <5>. QED  BY <5>1, <5>2, <5>3
      <4>4. Gets(k) <= Entries(q)
        BY <1>0, <2>0, GetsReached
      <4>. QED  BY <2>6, <4>2, <4>3, <4>4
    <3>4. R!Leave(k)
      BY <2>6, <2>8, <2>11, <3>1, <3>2, <3>3
    <3>. QED  BY <1>0, <3>4 DEF R!Next
  <2>. QED  BY <1>3, <2>9, <2>10, <2>11, Rounds
<1>. QED  BY <1>2, <1>3

\* With one thread on each node and no failure, the barrier is a rendezvous of the nodes:
\* none leaves a round that another has not entered, though each creates and destroys
\* its barrier when it likes.
THEOREM BarrierImplementsRendezvous == BarrierSpec => IsRendezvous
<1>1. BarrierInit => R!Init
  <2>. SUFFICES ASSUME BarrierInit PROVE R!Init
    OBVIOUS
  <2>1. BarrierInv
    BY BarrierInitHolds
  <2>2. /\ \A n : IsFiniteSet(On(n)) /\ On(n) \subseteq Thread
        /\ \A t \in Thread : entered[t] = 0 /\ ~Inside(t)
    BY <2>1, Who DEF BarrierInit, BarrierInv, BarrierTypes, Inside
  <2>3. \A n : Sum(entered, n) = 0
    <3>1. \A n : Total(entered, On(n)) = 0
      BY <2>2, TotalZero
    <3>2. \A n : Sum(entered, n) = Total(entered, On(n))
      BY DEF Sum, Total
    <3>. QED  BY <3>1, <3>2
  <2>. QED  BY <2>2, <2>3 DEF R!Init
<1>2. BarrierInv /\ BarrierInv' /\ [BarrierNext]_allVars => [R!Next]_(R!vars)
  <2>. SUFFICES ASSUME BarrierInv, BarrierInv', [BarrierNext]_allVars PROVE [R!Next]_(R!vars)
    OBVIOUS
  <2>1. BarrierTypes'
    BY DEF BarrierInv
  <2>2. CASE BarrierNext
    BY <2>1, <2>2, Meet DEF BarrierNext, BarrierStep
  <2>3. CASE UNCHANGED allVars
    <3>1. UNCHANGED <<scene, at, entered>>
      BY <2>3 DEF allVars, barrierVars, historyOfWaits
    <3>2. (\A n : Sum(entered, n) = Total(entered, On(n)))'
      BY SumIsTotal, PTL
    <3>3. \A n : Sum(entered, n)' = Sum(entered, n)
      <4>1. \A n : On(n)' = On(n)
        BY <3>1 DEF On
      <4>. QED  BY <3>1, <3>2, <4>1, SumIsTotal
    <3>4. OneEach' = OneEach /\ \A u : Inside(u)' = Inside(u)
      BY <3>1 DEF OneEach, On, Inside
    <3>. QED  BY <3>1, <3>3, <3>4 DEF R!vars, On
  <2>. QED  BY <2>2, <2>3
<1>. QED  BY <1>1, <1>2, BarrierInductive, PTL DEF BarrierSpec, IsRendezvous, R!Spec

=============================================================================
