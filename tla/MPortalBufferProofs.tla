------------------------- MODULE MPortalBufferProofs -------------------------
(***************************************************************************)
(* Proofs about the message buffers of MPortal, as general as those of     *)
(* MPortalProofs, on whose invariant Base they rest.                       *)
(*                                                                         *)
(* Buffers: where the message buffers of a node are chained, who is at     *)
(* which of them, and that nobody else is.  Walks and ReadIs say what      *)
(* kportal_buffer_read does to the chains, by induction along the path     *)
(* that it follows (NatSetInduction).                                      *)
(*                                                                         *)
(* Data: of which message the data in a buffer are, how a chain of them    *)
(* goes on, and what the readers have got of a message between threads of  *)
(* their node.  PathData and ReadIsTold say what kportal_buffer_read       *)
(* copies.                                                                 *)
(***************************************************************************)
EXTENDS MPortalProofs

(* The message buffers, and who is at which.                               *)

\* Where a thread fills a buffer, and where it takes buffers out.
Filling(l, c) ==
    /\ c.buf # NoBuffer
    /\ \/ l \in {"write local", "publish"}
       \/ l \in {"piece", "more", "relock", "finish"} /\ c.buffering
Taking(l, c) == l \in {"read local", "again", "exit"} /\ c.buf # NoBuffer /\ ~c.buffering
Fills(t) == Filling(pc[t], call[t])
Takes(t) == Taking(pc[t], call[t])

\* Where a reader may be that keeps a message for another port.
Keeping == {"alloc", "piece", "more", "relock", "finish", "release", "exit", "again", "read end", "panic"}

\* What the call c of a thread at place l has to do with buffers.
BufferFits(l, c) ==
    /\ c.buf \in Buffer \cup {NoBuffer} /\ c.buffering \in BOOLEAN
    /\ l \in Reading => c.left \in Nat /\ c.size \in Nat
    /\ c.buffering => l \in Keeping
    /\ l \in {"alloc", "more", "relock"} => c.buffering
    /\ l = "alloc" => c.buf = NoBuffer
    /\ l \in {"validate", "alloc"} => c.header \in Header
    /\ l \in Reading /\ ~c.buffering /\ c.buf # NoBuffer =>
         l \in {"read local", "again", "exit"} /\ c.left > 0 /\ (l = "exit" => c.ret = "partial")
    /\ (l \in {"piece", "more", "relock", "finish"} /\ c.buffering) \/ l = "publish" => c.buf # NoBuffer

\* A call has a portal of its node that is busy, and no other call has it.
PortsApart ==
    \A t \in Thread : /\ pc[t] \in Reading => call[t].port \in busyIn[NodeOf[t]]
                      /\ pc[t] \in Writing => call[t].port \in busyOut[NodeOf[t]]
PortsDiffer ==
    \A t, u \in Thread : NodeOf[t] = NodeOf[u] /\ t # u =>
        /\ pc[t] \in Reading /\ pc[u] \in Reading => call[t].port # call[u].port
        /\ pc[t] \in Writing /\ pc[u] \in Writing => call[t].port # call[u].port

\* The buffers of a node: in a chain, only the last buffer may be busy; what follows a
\* buffer is the next part between the same two portals, and follows no other.
BufferKind == [from : Peer, to : Port, busy : BOOLEAN, age : Nat, seq : Nat,
               next : Buffer \cup {NoBuffer}, data : Seq(Unit)]
Chained(p) ==
    /\ \A b \in Buffer : p[b].next # NoBuffer =>
         /\ ~p[b].busy
         /\ IsUsed(p, p[b].next) /\ p[p[b].next].seq = p[b].seq + 1
         /\ p[p[b].next].from = p[b].from /\ p[p[b].next].to = p[b].to
    /\ \A b, c \in Buffer : p[b].next = p[c].next /\ p[b].next # NoBuffer => b = c
    /\ \A b \in Buffer : IsUsed(p, b) /\ (~p[b].busy \/ p[b].seq > 0) => p[b].data # <<>>

Pool == [Buffer -> {Unused} \cup BufferKind]
Sane(p) == p \in Pool /\ Chained(p) /\ \A b \in Buffer : Len(p[b].data) <= MPORTAL_BUFFER_SIZE
PoolFits ==
    /\ pool = [n \in Node |-> pool[n]] /\ \A n \in Node : Sane(pool[n])
    /\ age \in [Node -> Nat]

\* The buffer that a thread fills is busy, and there is something in it but at first.
FillFits(t) ==
    LET b == pool[NodeOf[t]][call[t].buf] IN
    Fills(t) =>
        /\ b.from # None /\ b.busy
        /\ pc[t] # "piece" => b.data # <<>>
        /\ pc[t] \in Writing => b.from = Config(t).from /\ b.to = Config(t).to[2]

\* The buffer from which a reader goes on is complete, of its message, and follows none
\* that is left.
First(p, b) == \A c \in Buffer : p[c].next # b
TakeFits(t) ==
    LET p == pool[NodeOf[t]]
        b == p[call[t].buf] IN
    Takes(t) => b.from = call[t].from /\ b.to = call[t].port /\ ~b.busy /\ First(p, call[t].buf)

\* No two threads fill one buffer.
FillersApart == \A t, u \in Thread :
    NodeOf[t] = NodeOf[u] /\ Fills(t) /\ Fills(u) /\ call[t].buf = call[u].buf => t = u

Buffers ==
    /\ \A t \in Thread : BufferFits(pc[t], call[t])
    /\ PortsApart /\ PortsDiffer /\ PoolFits
    /\ \A t \in Thread : FillFits(t) /\ TakeFits(t)
    /\ FillersApart
-----------------------------------------------------------------------------
(* Recursive functions. *)

\* A set of numbers that has 0 and the successor of each has all.
LEMMA NatSetInduction ==
    ASSUME NEW S \in SUBSET Nat, 0 \in S, \A n \in S : n + 1 \in S
    PROVE  S = Nat
<1>. DEFINE Bad == Nat \ S
<1>. SUFFICES ASSUME Bad # {} PROVE FALSE
  OBVIOUS
<1>1. PICK x \in Bad : \A y \in Bad : x =< y
  BY LeastIsIn
<1>2. x \in Nat /\ x # 0 /\ x - 1 \in Nat
  OBVIOUS
<1>3. x - 1 \in S
  BY <1>1, <1>2
<1>. QED  BY <1>2, <1>3

\* h takes each value to the next.
Iterates(f, S, a, h, n) ==
    f \in [0 .. n -> S] /\ f[0] = a /\ \A k \in 1 .. n : f[k] = h[<<k, f[k - 1]>>]

LEMMA Recursion ==
    ASSUME NEW S, NEW a \in S, NEW h \in [Nat \X S -> S]
    PROVE  \A n \in Nat : \E f : Iterates(f, S, a, h, n)
<1>. DEFINE Good == {n \in Nat : \E f : Iterates(f, S, a, h, n)}
<1>1. 0 \in Good
  <2>1. PICK f : f = [k \in 0 .. 0 |-> a]
    OBVIOUS
  <2>2. Iterates(f, S, a, h, 0)
    BY <2>1 DEF Iterates
  <2>. QED  BY <2>2
<1>2. ASSUME NEW n \in Good PROVE n + 1 \in Good
  <2>1. PICK f : Iterates(f, S, a, h, n)
    OBVIOUS
  <2>2. f[n] \in S /\ n \in Nat
    BY <2>1 DEF Iterates
  <2>3. PICK v : v = h[<<n + 1, f[n]>>]
    OBVIOUS
  <2>4. v \in S
    BY <2>2, <2>3
  <2>5. PICK g : g = [k \in 0 .. n + 1 |-> IF k = n + 1 THEN v ELSE f[k]]
    OBVIOUS
  <2>6. g \in [0 .. n + 1 -> S] /\ g[0] = a
    BY <2>1, <2>2, <2>4, <2>5 DEF Iterates
  <2>7. ASSUME NEW k \in 1 .. n + 1 PROVE g[k] = h[<<k, g[k - 1]>>]
    <3>1. g[k - 1] = f[k - 1]
      BY <2>2, <2>5
    <3>2. CASE k = n + 1
      <4>1. n + 1 \in 0 .. n + 1 /\ k - 1 = n /\ k \in 0 .. n + 1
        BY <2>2, <3>2
      <4>2. g[k] = v
        BY <2>5, <3>2, <4>1
      <4>. QED  BY <2>2, <2>3, <3>1, <3>2, <4>1, <4>2
    <3>3. CASE k # n + 1
      <4>1. k \in 1 .. n /\ g[k] = f[k]
        BY <2>2, <2>5, <3>3
      <4>2. f[k] = h[<<k, f[k - 1]>>]
        BY <2>1, <4>1 DEF Iterates
      <4>. QED  BY <3>1, <4>1, <4>2
    <3>. QED  BY <3>2, <3>3
  <2>. QED  BY <2>2, <2>6, <2>7 DEF Iterates
<1>3. Good = Nat
  <2>. HIDE DEF Good
  <2>1. Good \in SUBSET Nat
    BY DEF Good
  <2>. QED  BY <1>1, <1>2, <2>1, NatSetInduction
<1>. QED  BY <1>3

\* D[i] are the first i sequences of g, one after the other.
Joins(D, g, n, S) ==
    /\ n \in Nat /\ g \in [1 .. n -> Seq(S)]
    /\ D \in [0 .. n -> Seq(S)] /\ D[0] = <<>> /\ \A k \in 1 .. n : D[k] = D[k - 1] \o g[k]

LEMMA JoinsExist ==
    ASSUME NEW S, NEW n \in Nat, NEW g \in [1 .. n -> Seq(S)]
    PROVE  \E D : Joins(D, g, n, S)
<1>1. PICK h : h = [x \in Nat \X Seq(S) |-> IF x[1] \in 1 .. n THEN x[2] \o g[x[1]] ELSE x[2]]
  OBVIOUS
<1>2. h \in [Nat \X Seq(S) -> Seq(S)]
  <2>1. ASSUME NEW x \in Nat \X Seq(S) PROVE h[x] \in Seq(S)
    <3>1. x[1] \in 1 .. n => g[x[1]] \in Seq(S)
      OBVIOUS
    <3>2. x[2] \in Seq(S)
      OBVIOUS
    <3>3. ASSUME NEW p \in Seq(S), NEW q \in Seq(S) PROVE p \o q \in Seq(S)
      OBVIOUS
    <3>. QED  BY <1>1, <3>1, <3>2, <3>3
  <2>. QED  BY <1>1, <2>1
<1>3. <<>> \in Seq(S)
  OBVIOUS
<1>4. PICK D : Iterates(D, Seq(S), <<>>, h, n)
  BY <1>2, <1>3, Recursion
<1>5. ASSUME NEW k \in 1 .. n PROVE D[k] = D[k - 1] \o g[k]
  <2>1. D[k] = h[<<k, D[k - 1]>>] /\ D[k - 1] \in Seq(S) /\ k \in Nat
    BY <1>4 DEF Iterates
  <2>2. PICK s : s = D[k - 1]
    OBVIOUS
  <2>3. h[<<k, s>>] = s \o g[k]
    BY <1>1, <2>1, <2>2
  <2>. QED  BY <2>1, <2>2, <2>3
<1>. QED  BY <1>4, <1>5 DEF Joins, Iterates

Flattens(f, q, n) == f = [i \in 1 .. n |-> IF i = 1 THEN q[i] ELSE f[i - 1] \o q[i]]

LEMMA FlattenIs ==
    ASSUME NEW q, Len(q) # 0
    PROVE  FlattenSeq(q) = (CHOOSE f : Flattens(f, q, Len(q)))[Len(q)]
BY DEF FlattenSeq, Flattens

FirstOnes(g, i) == [j \in 1 .. i |-> g[j]]

LEMMA FlattenJoins ==
    ASSUME NEW S, NEW n, NEW g, NEW D, Joins(D, g, n, S), NEW i \in 0 .. n
    PROVE  FlattenSeq(FirstOnes(g, i)) = D[i]
<1>0. n \in Nat /\ g \in [1 .. n -> Seq(S)]
  BY DEF Joins
<1>1. PICK q : q = FirstOnes(g, i) /\ q = [j \in 1 .. i |-> g[j]]
  BY DEF FirstOnes
<1>2. q \in Seq(Seq(S)) /\ Len(q) = i /\ \A j \in 1 .. i : q[j] = g[j]
  BY <1>0, <1>1
<1>3. CASE i = 0
  <2>1. q = <<>>
    BY <1>2, <1>3
  <2>2. FlattenSeq(q) = q
    BY <1>2, <1>3 DEF FlattenSeq
  <2>. QED  BY <1>1, <1>3, <2>1, <2>2 DEF Joins
<1>4. CASE i # 0
  <2>1. D[0] = <<>> /\ \A k \in 1 .. n : D[k] = D[k - 1] \o g[k]
    BY DEF Joins
  <2>2. D[1] = g[1]
    <3>1. 1 \in 1 .. n /\ g[1] \in Seq(S)
      BY <1>0, <1>4
    <3>2. D[1] = <<>> \o g[1]
      <4>1. D[1] = D[1 - 1] \o g[1]
        BY <2>1, <3>1
      <4>2. 1 - 1 = 0
        OBVIOUS
      <4>. QED  BY <2>1, <4>1, <4>2
    <3>3. ASSUME NEW s \in Seq(S) PROVE <<>> \o s = s
      OBVIOUS
    <3>. QED  BY <3>1, <3>2, <3>3
  <2>3. PICK f : f = [k \in 1 .. i |-> D[k]]
    OBVIOUS
  <2>4. Flattens(f, q, i)
    <3>1. ASSUME NEW k \in 1 .. i PROVE f[k] = IF k = 1 THEN q[k] ELSE f[k - 1] \o q[k]
      <4>1. k # 1 => k - 1 \in 1 .. i
        OBVIOUS
      <4>2. f[k] = D[k] /\ (k # 1 => f[k - 1] = D[k - 1]) /\ q[k] = g[k] /\ k \in 1 .. n
        BY <1>0, <1>2, <2>3, <4>1
      <4>. QED  BY <2>1, <2>2, <4>2
    <3>2. PICK e : e = [k \in 1 .. i |-> IF k = 1 THEN q[k] ELSE f[k - 1] \o q[k]]
      OBVIOUS
    <3>3. DOMAIN f = 1 .. i /\ f = [k \in 1 .. i |-> f[k]]
      BY <2>3
    <3>4. DOMAIN e = 1 .. i /\ e = [k \in 1 .. i |-> e[k]] /\ \A k \in 1 .. i : e[k] = f[k]
      BY <3>1, <3>2
    <3>5. f = e
      BY <3>3, <3>4
    <3>. QED  BY <3>2, <3>5 DEF Flattens
  <2>5. PICK e : Flattens(e, q, i) /\ FlattenSeq(q) = e[i]
    <3>1. FlattenSeq(q) = (CHOOSE x : Flattens(x, q, i))[i]
      BY <1>2, <1>4, FlattenIs
    <3>. QED  BY <2>4, <3>1, Zenon
  <2>6. DEFINE Good == {k \in Nat : k + 1 <= i => e[k + 1] = D[k + 1]}
  <2>7. \A k \in 1 .. i : e[k] = IF k = 1 THEN q[k] ELSE e[k - 1] \o q[k]
    <3>1. PICK a : a = [k \in 1 .. i |-> IF k = 1 THEN q[k] ELSE e[k - 1] \o q[k]]
      OBVIOUS
    <3>2. e = a
      BY <2>5, <3>1 DEF Flattens
    <3>. QED  BY <3>1, <3>2
  <2>8. 0 \in Good
    BY <1>2, <1>4, <2>2, <2>7
  <2>9. ASSUME NEW k \in Good PROVE k + 1 \in Good
    <3>1. SUFFICES ASSUME (k + 1) + 1 <= i PROVE e[(k + 1) + 1] = D[(k + 1) + 1]
      OBVIOUS
    <3>2. PICK l : l = (k + 1) + 1
      OBVIOUS
    <3>3. l \in 1 .. i /\ l # 1 /\ l - 1 = k + 1 /\ k + 1 <= i
      BY <3>1, <3>2
    <3>4. e[l - 1] = D[l - 1]
      BY <3>3
    <3>5. e[l] = e[l - 1] \o q[l]
      BY <2>7, <3>3
    <3>6. D[l] = D[l - 1] \o g[l] /\ q[l] = g[l]
      <4>1. l \in 1 .. n
        BY <1>0, <3>3
      <4>. QED  BY <1>2, <2>1, <3>3, <4>1, Zenon
    <3>. QED  BY <3>2, <3>4, <3>5, <3>6
  <2>10. Good = Nat
    <3>. HIDE DEF Good
    <3>1. Good \in SUBSET Nat
      BY DEF Good
    <3>. QED  BY <2>8, <2>9, <3>1, NatSetInduction
  <2>11. i - 1 \in Nat
    BY <1>4
  <2>12. e[(i - 1) + 1] = D[(i - 1) + 1]
    <3>1. i - 1 \in Good
      BY <2>10, <2>11
    <3>. QED  BY <3>1
  <2>. QED  BY <1>1, <2>5, <2>11, <2>12
<1>. QED  BY <1>3, <1>4
-----------------------------------------------------------------------------
(* kportal_buffer_read: f are the buffers that it meets, D what the first ones of  *)
(* them hold; `ready' of them are complete, and n of these are copied.             *)

Of(p, b, to, from) == p[b].from = from /\ p[b].to = to /\ ~p[b].busy

IsPath(f, p, previous, to, from) ==
    /\ f \in [0 .. MPORTAL_BUFFER_MAX -> Buffer \cup {NoBuffer}]
    /\ IF previous = NoBuffer THEN f[0] = FirstBuffer(p, to, from) ELSE f[0] = p[previous].next
    /\ \A k \in 1 .. MPORTAL_BUFFER_MAX : f[k] = IF f[k - 1] = NoBuffer THEN NoBuffer ELSE p[f[k - 1]].next

IsReady(f, p, ready) ==
    /\ ready \in 0 .. MPORTAL_BUFFER_MAX /\ (f[ready] = NoBuffer \/ p[f[ready]].busy)
    /\ \A k \in 0 .. MPORTAL_BUFFER_MAX : k < ready => f[k] # NoBuffer /\ ~p[f[k]].busy

\* What fits into the remainder.
IsFit(D, ready, n, remainder) ==
    /\ n \in 0 .. ready /\ Len(D[n]) <= remainder
    /\ \A i \in 0 .. ready : Len(D[i]) <= remainder => i <= n

IsWalk(f, D, ready, n, p, previous, to, from, remainder) ==
    /\ IsPath(f, p, previous, to, from) /\ IsReady(f, p, ready)
    /\ Joins(D, [k \in 1 .. ready |-> p[f[k - 1]].data], ready, Unit)
    /\ IsFit(D, ready, n, remainder)

LastOf(f, n, previous) == IF n = 0 THEN previous ELSE f[n - 1]
Discards(f, p, ready, n) == n < ready /\ p[f[n]].seq > 0
Over(f, p, ready, n, left) == Discards(f, p, ready, n) \/ (~(n < ready) /\ left = 0)
Released(f, p, ready, n, previous, left) ==
    (IF n > 0 THEN {previous} \cup {f[i] : i \in 0 .. n - 2} ELSE {})
      \cup (IF Over(f, p, ready, n, left) THEN {LastOf(f, n, previous)} ELSE {})
      \cup (IF Discards(f, p, ready, n) THEN {f[n]} ELSE {})

IsOutcome(r, f, D, ready, n, p, previous, remainder) ==
    LET left == remainder - Len(D[n]) IN
    /\ r.pool = [b \in Buffer |-> IF b \in Released(f, p, ready, n, previous, left) THEN Unused ELSE p[b]]
    /\ r.copied = D[n] /\ r.left = left /\ r.error = (n < ready)
    /\ r.previous = IF Over(f, p, ready, n, left) THEN NoBuffer ELSE LastOf(f, n, previous)

-----------------------------------------------------------------------------
LEMMA BuffersFinite == IsFiniteSet(Buffer) /\ Cardinality(Buffer) = MPORTAL_BUFFER_MAX /\ NoBuffer \notin Buffer
BY BufferAssumption, FS_Interval DEF Buffer, NoBuffer

LEMMA MinIs ==
    ASSUME NEW S \in SUBSET Nat, S # {}
    PROVE  Min(S) \in S /\ \A y \in S : Min(S) <= y
BY LeastIsIn DEF Min

LEMMA MaxIs ==
    ASSUME NEW k \in Nat, NEW S \in SUBSET (0 .. k), S # {}
    PROVE  Max(S) \in S /\ \A y \in S : y <= Max(S)
<1>1. PICK T : T = {k - x : x \in S}
  OBVIOUS
<1>2. T \in SUBSET Nat /\ T # {}
  <2>1. \A x \in S : x \in 0 .. k
    OBVIOUS
  <2>2. \A x \in S : k - x \in Nat
    BY <2>1
  <2>. QED  BY <1>1, <2>2
<1>3. PICK x \in T : \A y \in T : x =< y
  BY <1>2, LeastIsIn
<1>4. PICK z \in S : x = k - z
  BY <1>1, <1>3
<1>5. \A y \in S : z >= y
  <2>1. TAKE y \in S
  <2>2. k - y \in T
    BY <1>1
  <2>3. x <= k - y /\ y \in Nat /\ z \in Nat
    BY <1>3, <2>2
  <2>. QED  BY <1>4, <2>3
<1>6. Max(S) \in S /\ \A y \in S : Max(S) >= y
  BY <1>5, Zenon DEF Max
<1>7. \A y \in S : y \in Nat /\ Max(S) \in Nat
  <2>1. \A y \in S : y \in 0 .. k
    OBVIOUS
  <2>2. \A y \in S : y \in Nat
    BY <2>1
  <2>. QED  BY <1>6, <2>2
<1>. QED  BY <1>6, <1>7

LEMMA SlotFits ==
    ASSUME NEW p \in Pool, NEW b \in Buffer
    PROVE  /\ p[b] \in {Unused} \cup BufferKind
           /\ p[b].next \in Buffer \cup {NoBuffer} /\ p[b].data \in Seq(Unit) /\ p[b].seq \in Nat
           /\ p[b].busy \in BOOLEAN /\ p[b].age \in Nat
           /\ p[b].from # None <=> p[b] \in BufferKind
           /\ p[b].from = None <=> p[b] = Unused
<1>1. p[b] \in {Unused} \cup BufferKind
  BY DEF Pool
<1>2. CASE p[b] = Unused
  <2>1. Unused \notin BufferKind
    BY Consts DEF Unused, BufferKind
  <2>. QED  BY <1>2, <2>1 DEF Unused
<1>3. CASE p[b] \in BufferKind
  <2>1. p[b].from # None /\ p[b] # Unused
    BY <1>3, Consts DEF Unused, BufferKind
  <2>. QED  BY <1>3, <2>1 DEF BufferKind
<1>. QED  BY <1>1, <1>2, <1>3

\* The oldest message is one of those for the reader.
LEMMA FirstIs ==
    ASSUME NEW p \in Pool, NEW to, NEW from \in Peer
    PROVE  LET b == FirstBuffer(p, to, from) IN
           /\ b \in Buffer \cup {NoBuffer}
           /\ b \in Buffer => Of(p, b, to, from) /\ p[b].seq = 0
           /\ b = NoBuffer => \A c \in Buffer : ~(Of(p, c, to, from) /\ p[c].seq = 0)
<1>. DEFINE heads == {b \in Buffer : /\ p[b].from = from /\ p[b].to = to
                                     /\ p[b].seq = 0 /\ ~p[b].busy}
<1>2. FirstBuffer(p, to, from) =
        IF heads = {} THEN NoBuffer ELSE CHOOSE b \in heads : \A c \in heads : p[b].age <= p[c].age
  BY DEF FirstBuffer
<1>3. CASE heads = {}
  BY <1>2, <1>3, BuffersFinite DEF Of
<1>4. CASE heads # {}
  <2>1. PICK S : S = {p[b].age : b \in heads}
    OBVIOUS
  <2>2. S \in SUBSET Nat /\ S # {}
    <3>1. ASSUME NEW b \in heads PROVE p[b].age \in Nat
      BY SlotFits
    <3>. HIDE DEF heads
    <3>. QED  BY <1>4, <2>1, <3>1
  <2>3. PICK x \in S : \A y \in S : x =< y
    BY <2>2, LeastIsIn
  <2>4. \E b \in heads : \A c \in heads : p[b].age <= p[c].age
    <3>. HIDE DEF heads
    <3>. QED  BY <2>1, <2>3
  <2>5. FirstBuffer(p, to, from) \in heads
    <3>. HIDE DEF heads
    <3>. QED  BY <1>2, <1>4, <2>4, Zenon
  <2>. QED  BY <2>5, BuffersFinite DEF Of
<1>. QED  BY <1>3, <1>4

\* A function that goes on as the loop does.
PathOf(f, p, first) ==
    f = [i \in 0 .. MPORTAL_BUFFER_MAX |->
          IF i = 0 THEN first ELSE IF f[i - 1] = NoBuffer THEN NoBuffer ELSE p[f[i - 1]].next]

FirstOf(p, to, from, previous) ==
    IF previous = NoBuffer THEN FirstBuffer(p, to, from) ELSE p[previous].next

LEMMA PathExists ==
    ASSUME NEW p \in Pool, NEW first \in Buffer \cup {NoBuffer}
    PROVE  \E f : PathOf(f, p, first)
<1>1. PICK S : S = Buffer \cup {NoBuffer}
  OBVIOUS
<1>2. PICK h : h = [x \in Nat \X S |-> IF x[2] = NoBuffer THEN NoBuffer ELSE p[x[2]].next]
  OBVIOUS
<1>3. h \in [Nat \X S -> S]
  <2>1. ASSUME NEW x \in Nat \X S PROVE h[x] \in S
    BY <1>1, <1>2, SlotFits
  <2>. QED  BY <1>2, <2>1
<1>4. MPORTAL_BUFFER_MAX \in Nat
  BY BufferAssumption
<1>5. PICK f : Iterates(f, S, first, h, MPORTAL_BUFFER_MAX)
  BY <1>1, <1>3, <1>4, Recursion
<1>6. ASSUME NEW k \in 1 .. MPORTAL_BUFFER_MAX
      PROVE  f[k] = IF f[k - 1] = NoBuffer THEN NoBuffer ELSE p[f[k - 1]].next
  <2>1. k - 1 \in 0 .. MPORTAL_BUFFER_MAX /\ k \in Nat
    BY <1>4
  <2>2. f[k - 1] \in S /\ f[k] = h[<<k, f[k - 1]>>]
    BY <1>5, <2>1 DEF Iterates
  <2>3. <<k, f[k - 1]>> \in Nat \X S
    BY <2>1, <2>2
  <2>. QED  BY <1>2, <2>2, <2>3
<1>7. PICK e : e = [i \in 0 .. MPORTAL_BUFFER_MAX |->
          IF i = 0 THEN first ELSE IF f[i - 1] = NoBuffer THEN NoBuffer ELSE p[f[i - 1]].next]
  OBVIOUS
<1>8. \A i \in 0 .. MPORTAL_BUFFER_MAX : e[i] = f[i]
  BY <1>4, <1>5, <1>6, <1>7 DEF Iterates
<1>9. f = [i \in 0 .. MPORTAL_BUFFER_MAX |-> f[i]] /\ e = [i \in 0 .. MPORTAL_BUFFER_MAX |-> e[i]]
  BY <1>5, <1>7 DEF Iterates
<1>10. f = e
  BY <1>8, <1>9
<1>. QED  BY <1>7, <1>10 DEF PathOf

LEMMA PathIs ==
    ASSUME NEW p \in Pool, NEW to, NEW from, NEW previous,
           NEW f, PathOf(f, p, FirstOf(p, to, from, previous)),
           FirstOf(p, to, from, previous) \in Buffer \cup {NoBuffer}
    PROVE  IsPath(f, p, previous, to, from)
<1>0. MPORTAL_BUFFER_MAX \in Nat
  BY BufferAssumption
<1>1. PICK a, e : /\ a = FirstOf(p, to, from, previous)
                  /\ e = [i \in 0 .. MPORTAL_BUFFER_MAX |->
                       IF i = 0 THEN a ELSE IF f[i - 1] = NoBuffer THEN NoBuffer ELSE p[f[i - 1]].next]
  OBVIOUS
<1>2. f = e
  BY <1>1 DEF PathOf
<1>3. f[0] = a /\ \A k \in 1 .. MPORTAL_BUFFER_MAX : f[k] = IF f[k - 1] = NoBuffer THEN NoBuffer ELSE p[f[k - 1]].next
  <2>1. 0 \in 0 .. MPORTAL_BUFFER_MAX
    BY <1>0
  <2>2. f[0] = a
    BY <1>1, <1>2, <2>1
  <2>3. ASSUME NEW k \in 1 .. MPORTAL_BUFFER_MAX
        PROVE  f[k] = IF f[k - 1] = NoBuffer THEN NoBuffer ELSE p[f[k - 1]].next
    <3>1. k \in 0 .. MPORTAL_BUFFER_MAX /\ k # 0
      BY <1>0
    <3>2. e[k] = IF f[k - 1] = NoBuffer THEN NoBuffer ELSE p[f[k - 1]].next
      BY <1>1, <3>1
    <3>. QED  BY <1>2, <3>2
  <2>. QED  BY <2>2, <2>3
<1>4. f = [i \in 0 .. MPORTAL_BUFFER_MAX |-> f[i]]
  BY <1>1, <1>2
<1>5. DEFINE Good == {k \in Nat : k <= MPORTAL_BUFFER_MAX => f[k] \in Buffer \cup {NoBuffer}}
<1>6. 0 \in Good
  BY <1>1, <1>3
<1>7. ASSUME NEW k \in Good PROVE k + 1 \in Good
  <2>1. SUFFICES ASSUME k + 1 <= MPORTAL_BUFFER_MAX PROVE f[k + 1] \in Buffer \cup {NoBuffer}
    OBVIOUS
  <2>2. f[k] \in Buffer \cup {NoBuffer} /\ k + 1 \in 1 .. MPORTAL_BUFFER_MAX /\ (k + 1) - 1 = k
    BY <1>0, <2>1
  <2>3. f[k + 1] = IF f[k] = NoBuffer THEN NoBuffer ELSE p[f[k]].next
    BY <1>3, <2>2
  <2>. QED  BY <2>2, <2>3, SlotFits
<1>8. Good = Nat
  <2>. HIDE DEF Good
  <2>1. Good \in SUBSET Nat
    BY DEF Good
  <2>. QED  BY <1>6, <1>7, <2>1, NatSetInduction
<1>9. \A k \in 0 .. MPORTAL_BUFFER_MAX : f[k] \in Buffer \cup {NoBuffer}
  BY <1>0, <1>8
<1>10. f \in [0 .. MPORTAL_BUFFER_MAX -> Buffer \cup {NoBuffer}]
  BY <1>4, <1>9
<1>. QED  BY <1>1, <1>3, <1>10 DEF IsPath, FirstOf

\* Where the path begins, and what all its buffers have in common.
Start(p, previous) == IF previous = NoBuffer THEN 0 ELSE p[previous].seq + 1
FollowsOn(p, previous, to, from) ==
    /\ previous \in Buffer \cup {NoBuffer}
    /\ previous # NoBuffer => p[previous].from = from /\ p[previous].to = to
Along(f, p, previous, to, from, k) ==
    f[k] # NoBuffer =>
        /\ p[f[k]].from = from /\ p[f[k]].to = to /\ p[f[k]].seq = Start(p, previous) + k
        /\ \A j \in 0 .. k : f[j] # NoBuffer

LEMMA Pathway ==
    ASSUME NEW p \in Pool, Chained(p), NEW from \in Peer, NEW to, NEW previous,
           FollowsOn(p, previous, to, from), NEW f, IsPath(f, p, previous, to, from)
    PROVE  \A k \in 0 .. MPORTAL_BUFFER_MAX : Along(f, p, previous, to, from, k)
<1>. DEFINE Good == {k \in Nat : k <= MPORTAL_BUFFER_MAX => Along(f, p, previous, to, from, k)}
<1>0. MPORTAL_BUFFER_MAX \in Nat /\ f \in [0 .. MPORTAL_BUFFER_MAX -> Buffer \cup {NoBuffer}] /\ 0 \in 0 .. MPORTAL_BUFFER_MAX
  BY BufferAssumption DEF IsPath
<1>1. 0 \in Good
  <2>1. SUFFICES ASSUME f[0] # NoBuffer
                 PROVE  p[f[0]].from = from /\ p[f[0]].to = to /\ p[f[0]].seq = Start(p, previous) + 0
    BY DEF Along
  <2>2. f[0] \in Buffer
    BY <1>0, <2>1
  <2>3. CASE previous = NoBuffer
    <3>1. f[0] = FirstBuffer(p, to, from)
      BY <2>3 DEF IsPath
    <3>2. Of(p, f[0], to, from) /\ p[f[0]].seq = 0
      BY <2>2, <3>1, FirstIs
    <3>. QED  BY <2>3, <3>2 DEF Of, Start
  <2>4. CASE previous # NoBuffer
    <3>1. f[0] = p[previous].next /\ previous \in Buffer
      BY <2>4 DEF IsPath, FollowsOn
    <3>2. p[previous].seq \in Nat
      BY <3>1, SlotFits
    <3>3. p[f[0]].seq = p[previous].seq + 1 /\ p[f[0]].from = p[previous].from /\ p[f[0]].to = p[previous].to
      BY <2>1, <3>1 DEF Chained
    <3>. QED  BY <2>4, <3>2, <3>3 DEF FollowsOn, Start
  <2>. QED  BY <2>3, <2>4
<1>2. ASSUME NEW k \in Good PROVE k + 1 \in Good
  <2>1. SUFFICES ASSUME k + 1 <= MPORTAL_BUFFER_MAX, f[k + 1] # NoBuffer
                 PROVE  /\ p[f[k + 1]].from = from /\ p[f[k + 1]].to = to /\ p[f[k + 1]].seq = Start(p, previous) + (k + 1)
                        /\ \A j \in 0 .. k + 1 : f[j] # NoBuffer
    BY DEF Along
  <2>2. k \in 0 .. MPORTAL_BUFFER_MAX /\ k + 1 \in 1 .. MPORTAL_BUFFER_MAX /\ (k + 1) - 1 = k /\ k <= MPORTAL_BUFFER_MAX
    BY <1>0, <2>1
  <2>3. f[k + 1] = IF f[k] = NoBuffer THEN NoBuffer ELSE p[f[k]].next
    BY <2>2 DEF IsPath
  <2>4. f[k] # NoBuffer /\ f[k] \in Buffer /\ f[k + 1] = p[f[k]].next
    BY <1>0, <2>1, <2>2, <2>3
  <2>5. Along(f, p, previous, to, from, k)
    BY <2>2
  <2>6. p[f[k + 1]].seq = p[f[k]].seq + 1 /\ p[f[k + 1]].from = p[f[k]].from /\ p[f[k + 1]].to = p[f[k]].to
    BY <2>1, <2>4 DEF Chained
  <2>7. Start(p, previous) \in Nat
    <3>1. previous # NoBuffer => previous \in Buffer
      BY DEF FollowsOn
    <3>2. previous # NoBuffer => p[previous].seq \in Nat
      BY <3>1, SlotFits
    <3>. QED  BY <3>2 DEF Start
  <2>8. \A j \in 0 .. k + 1 : j \in 0 .. k \/ j = k + 1
    BY <2>2
  <2>9. p[f[k + 1]].seq = Start(p, previous) + (k + 1)
    <3>1. p[f[k]].seq = Start(p, previous) + k
      BY <2>4, <2>5 DEF Along
    <3>. QED  BY <2>2, <2>6, <2>7, <3>1
  <2>. QED  BY <2>1, <2>4, <2>5, <2>6, <2>8, <2>9 DEF Along
<1>3. Good = Nat
  <2>. HIDE DEF Good
  <2>1. Good \in SUBSET Nat
    BY DEF Good
  <2>. QED  BY <1>1, <1>2, <2>1, NatSetInduction
<1>. QED  BY <1>0, <1>3

LEMMA StartFits ==
    ASSUME NEW p \in Pool, NEW from, NEW to, NEW previous, FollowsOn(p, previous, to, from)
    PROVE  Start(p, previous) \in Nat
<1>1. previous # NoBuffer => previous \in Buffer
  BY DEF FollowsOn
<1>2. previous # NoBuffer => p[previous].seq \in Nat
  BY <1>1, SlotFits
<1>. QED  BY <1>2 DEF Start

\* A path does not come back, so it ends, or comes to a buffer that is being filled.
LEMMA ReadyExists ==
    ASSUME NEW p \in Pool, Chained(p), NEW from \in Peer, NEW to, NEW previous,
           FollowsOn(p, previous, to, from), NEW f, IsPath(f, p, previous, to, from)
    PROVE  \E ready : IsReady(f, p, ready)
<1>. DEFINE S == {k \in 0 .. MPORTAL_BUFFER_MAX : f[k] = NoBuffer \/ p[f[k]].busy}
<1>0. MPORTAL_BUFFER_MAX \in Nat /\ f \in [0 .. MPORTAL_BUFFER_MAX -> Buffer \cup {NoBuffer}]
  BY BufferAssumption DEF IsPath
<1>1. S # {}
  <2>1. SUFFICES ASSUME \A k \in 0 .. MPORTAL_BUFFER_MAX : f[k] # NoBuffer PROVE FALSE
    OBVIOUS
  <2>2. f \in [0 .. MPORTAL_BUFFER_MAX -> Buffer]
    BY <1>0, <2>1
  <2>3. IsFiniteSet(0 .. MPORTAL_BUFFER_MAX) /\ Cardinality(0 .. MPORTAL_BUFFER_MAX) = MPORTAL_BUFFER_MAX + 1
    BY <1>0, FS_Interval
  <2>4. \E x, y \in 0 .. MPORTAL_BUFFER_MAX : x # y /\ f[x] = f[y]
    <3>1. Cardinality(Buffer) < Cardinality(0 .. MPORTAL_BUFFER_MAX)
      BY <1>0, <2>3, BuffersFinite
    <3>2. PICK D : D = 0 .. MPORTAL_BUFFER_MAX
      OBVIOUS
    <3>3. \E x, y \in D : x # y /\ f[x] = f[y]
      <4>1. f \in [D -> Buffer] /\ IsFiniteSet(Buffer) /\ Cardinality(Buffer) < Cardinality(D)
        BY <2>2, <3>1, <3>2, BuffersFinite
      <4>2. IsFiniteSet(D)
        BY <2>3, <3>2
      <4>. HIDE DEF S
      <4>. QED  BY <4>1, <4>2, FS_PigeonHole, ZenonT(60)
    <3>. QED  BY <3>2, <3>3
  <2>5. PICK x \in 0 .. MPORTAL_BUFFER_MAX, y \in 0 .. MPORTAL_BUFFER_MAX : x # y /\ f[x] = f[y]
    BY <2>4
  <2>6. p[f[x]].seq = Start(p, previous) + x /\ p[f[y]].seq = Start(p, previous) + y
    BY <2>1, Pathway DEF Along
  <2>7. Start(p, previous) \in Nat /\ x \in Nat /\ y \in Nat
    BY <1>0, StartFits
  <2>8. Start(p, previous) + x = Start(p, previous) + y
    BY <2>5, <2>6
  <2>. QED  BY <2>5, <2>7, <2>8
<1>2. S \in SUBSET Nat
  BY <1>0
<1>3. PICK x \in S : \A y \in S : x =< y
  <2>. HIDE DEF S
  <2>. QED  BY <1>1, <1>2, LeastIsIn
<1>4. ASSUME NEW k \in 0 .. MPORTAL_BUFFER_MAX, k < x PROVE f[k] # NoBuffer /\ ~p[f[k]].busy
  <2>1. k \notin S
    BY <1>0, <1>3, <1>4
  <2>. QED  BY <2>1
<1>. QED  BY <1>3, <1>4 DEF IsReady

LEMMA ReadyIs ==
    ASSUME NEW f, NEW p, NEW ready, IsReady(f, p, ready)
    PROVE  Min({i \in 0 .. MPORTAL_BUFFER_MAX : f[i] = NoBuffer \/ p[f[i]].busy}) = ready
<1>. DEFINE S == {i \in 0 .. MPORTAL_BUFFER_MAX : f[i] = NoBuffer \/ p[f[i]].busy}
<1>0. MPORTAL_BUFFER_MAX \in Nat
  BY BufferAssumption
<1>1. ready \in S /\ S \in SUBSET Nat /\ S # {}
  BY <1>0 DEF IsReady
<1>2. Min(S) \in S /\ Min(S) <= ready
  <2>. HIDE DEF S
  <2>. QED  BY <1>1, MinIs
<1>3. Min(S) \in 0 .. MPORTAL_BUFFER_MAX /\ ~(Min(S) < ready)
  <2>1. PICK k : k = Min(S)
    OBVIOUS
  <2>2. k \in 0 .. MPORTAL_BUFFER_MAX /\ (f[k] = NoBuffer \/ p[f[k]].busy)
    BY <1>2, <2>1
  <2>. QED  BY <2>1, <2>2 DEF IsReady
<1>. QED  BY <1>0, <1>1, <1>2, <1>3 DEF IsReady

\* What BufferRead computes, in these terms.
Pieces(f, p, i) == FlattenSeq([j \in 1 .. i |-> p[f[j - 1]].data])
ReadyOf(f, p) == Min({i \in 0 .. MPORTAL_BUFFER_MAX : f[i] = NoBuffer \/ p[f[i]].busy})
CountOf(f, p, ready, remainder) == Max({i \in 0 .. ready : Len(Pieces(f, p, i)) <= remainder})
ReadOf(f, p, ready, n, previous, remainder) ==
    LET left == remainder - Len(Pieces(f, p, n)) IN
    [pool |-> [b \in Buffer |-> IF b \in Released(f, p, ready, n, previous, left) THEN Unused ELSE p[b]],
     copied |-> Pieces(f, p, n), left |-> left, error |-> n < ready,
     previous |-> IF Over(f, p, ready, n, left) THEN NoBuffer ELSE LastOf(f, n, previous)]
ReadAlong(f, p, previous, remainder) ==
    ReadOf(f, p, ReadyOf(f, p), CountOf(f, p, ReadyOf(f, p), remainder), previous, remainder)

LEMMA BufferReadIs ==
    ASSUME NEW p, NEW to, NEW from, NEW previous, NEW remainder
    PROVE  BufferRead(p, to, from, previous, remainder) =
             ReadAlong(CHOOSE f : PathOf(f, p, FirstOf(p, to, from, previous)), p, previous, remainder)
BY DEF BufferRead, LeftBehind, ReadAlong, ReadOf, ReadyOf, CountOf, Pieces, PathOf, FirstOf, Released, Over, Discards, LastOf

\* There is a path, and what the reader takes is a part of what is on it.
LEMMA Walks ==
    ASSUME NEW p \in Pool, Chained(p), NEW from \in Peer, NEW to, NEW previous,
           FollowsOn(p, previous, to, from), NEW remainder \in Nat
    PROVE  \E f, D, ready, n :
             /\ IsWalk(f, D, ready, n, p, previous, to, from, remainder)
             /\ IsOutcome(BufferRead(p, to, from, previous, remainder), f, D, ready, n, p, previous, remainder)
<1>1. PICK first : first = FirstOf(p, to, from, previous) /\ first \in Buffer \cup {NoBuffer}
  <2>1. previous = NoBuffer => FirstOf(p, to, from, previous) \in Buffer \cup {NoBuffer}
    BY FirstIs DEF FirstOf
  <2>2. previous # NoBuffer => FirstOf(p, to, from, previous) \in Buffer \cup {NoBuffer}
    BY SlotFits DEF FirstOf, FollowsOn
  <2>. QED  BY <2>1, <2>2
<1>2. PICK f : PathOf(f, p, first) /\ BufferRead(p, to, from, previous, remainder) = ReadAlong(f, p, previous, remainder)
  <2>1. \E f : PathOf(f, p, first)
    BY <1>1, PathExists
  <2>. QED  BY <1>1, <2>1, BufferReadIs, Zenon
<1>3. IsPath(f, p, previous, to, from)
  BY <1>1, <1>2, PathIs
<1>4. PICK ready : IsReady(f, p, ready) /\ ReadyOf(f, p) = ready
  BY <1>3, ReadyExists, ReadyIs DEF ReadyOf
<1>5. ready \in Nat /\ ready \in 0 .. MPORTAL_BUFFER_MAX /\ MPORTAL_BUFFER_MAX \in Nat
  BY <1>4, BufferAssumption DEF IsReady
<1>6. PICK g : g = [k \in 1 .. ready |-> p[f[k - 1]].data]
  OBVIOUS
<1>7. g \in [1 .. ready -> Seq(Unit)]
  <2>1. ASSUME NEW k \in 1 .. ready PROVE g[k] \in Seq(Unit)
    <3>1. k - 1 \in 0 .. MPORTAL_BUFFER_MAX /\ k - 1 < ready
      BY <1>5
    <3>2. f[k - 1] \in Buffer
      BY <1>3, <1>4, <3>1 DEF IsPath, IsReady
    <3>. QED  BY <1>6, <3>2, SlotFits
  <2>. QED  BY <1>6, <2>1
<1>8. PICK D : Joins(D, g, ready, Unit)
  BY <1>5, <1>7, JoinsExist
<1>9. ASSUME NEW i \in 0 .. ready PROVE Pieces(f, p, i) = D[i] /\ D[i] \in Seq(Unit) /\ Len(D[i]) \in Nat
  <2>1. FlattenSeq(FirstOnes(g, i)) = D[i]
    BY <1>5, <1>7, <1>8, FlattenJoins
  <2>2. FirstOnes(g, i) = [j \in 1 .. i |-> p[f[j - 1]].data]
    <3>1. \A j \in 1 .. i : j \in 1 .. ready
      BY <1>5
    <3>. QED  BY <1>6, <3>1 DEF FirstOnes
  <2>3. D[i] \in Seq(Unit)
    BY <1>8 DEF Joins
  <2>4. Pieces(f, p, i) = D[i]
    BY <2>1, <2>2, Zenon DEF Pieces
  <2>5. Len(D[i]) \in Nat
    BY <2>3
  <2>. QED  BY <2>3, <2>4, <2>5
<1>10. PICK S : S = {i \in 0 .. ready : Len(Pieces(f, p, i)) <= remainder}
  OBVIOUS
<1>11. 0 \in S /\ S \in SUBSET (0 .. ready)
  <2>1. 0 \in 0 .. ready
    BY <1>5
  <2>2. D[0] = <<>>
    BY <1>8 DEF Joins
  <2>3. Len(Pieces(f, p, 0)) = 0
    BY <1>9, <2>1, <2>2
  <2>. QED  BY <1>10, <2>1, <2>3
<1>12. PICK n : n = CountOf(f, p, ready, remainder) /\ n = Max(S)
  BY <1>10 DEF CountOf
<1>13. n \in S /\ \A y \in S : y <= n
  BY <1>5, <1>11, <1>12, MaxIs
<1>14. n \in 0 .. ready /\ Pieces(f, p, n) = D[n] /\ Len(D[n]) <= remainder
  BY <1>9, <1>10, <1>13
<1>15. IsFit(D, ready, n, remainder)
  <2>1. ASSUME NEW i \in 0 .. ready, Len(D[i]) <= remainder PROVE i <= n
    BY <1>9, <1>10, <1>13, <2>1
  <2>. QED  BY <1>14, <2>1 DEF IsFit
<1>16. IsWalk(f, D, ready, n, p, previous, to, from, remainder)
  BY <1>3, <1>4, <1>6, <1>8, <1>15 DEF IsWalk
<1>17. IsOutcome(ReadOf(f, p, ready, n, previous, remainder), f, D, ready, n, p, previous, remainder)
  BY <1>14 DEF IsOutcome, ReadOf
<1>. QED  BY <1>2, <1>4, <1>12, <1>16, <1>17 DEF ReadAlong

-----------------------------------------------------------------------------
(* What a read does to the chains.                                         *)

\* A reader that has come to `previous' goes on there.
Continues(p, previous, to, from) ==
    /\ FollowsOn(p, previous, to, from)
    /\ previous # NoBuffer => ~p[previous].busy /\ First(p, previous)

LEMMA OnPath ==
    ASSUME NEW p \in Pool, Chained(p), NEW from \in Peer, NEW to, NEW previous, Continues(p, previous, to, from),
           NEW f, IsPath(f, p, previous, to, from), NEW ready, IsReady(f, p, ready),
           NEW i \in Nat, i < ready
    PROVE  /\ f[i] \in Buffer /\ Of(p, f[i], to, from) /\ p[f[i]].data # <<>>
           /\ p[f[i]].seq = Start(p, previous) + i
<1>1. i \in 0 .. MPORTAL_BUFFER_MAX
  BY BufferAssumption DEF IsReady
<1>2. f[i] # NoBuffer /\ ~p[f[i]].busy
  BY <1>1 DEF IsReady
<1>3. f[i] \in Buffer
  BY <1>1, <1>2 DEF IsPath
<1>4. p[f[i]].from = from /\ p[f[i]].to = to /\ p[f[i]].seq = Start(p, previous) + i
  BY <1>1, <1>2, Pathway DEF Along, Continues
<1>5. p[f[i]].data # <<>>
  <2>1. IsUsed(p, f[i])
    BY <1>4, Consts DEF IsUsed
  <2>. QED  BY <1>2, <1>3, <2>1 DEF Chained
<1>. QED  BY <1>2, <1>3, <1>4, <1>5 DEF Of

\* All that is released was for the reader.
LEMMA ReleasedWhat ==
    ASSUME NEW p \in Pool, Chained(p), NEW from \in Peer, NEW to, NEW previous, Continues(p, previous, to, from),
           NEW f, IsPath(f, p, previous, to, from), NEW ready \in Nat, IsReady(f, p, ready),
           NEW n \in 0 .. ready, NEW left, NEW b \in Buffer, b \in Released(f, p, ready, n, previous, left)
    PROVE  \/ b = previous /\ (n > 0 \/ (n = 0 /\ Over(f, p, ready, n, left)))
           \/ \E i \in Nat : /\ b = f[i] /\ i < ready
                             /\ i + 2 <= n \/ (i + 1 = n /\ Over(f, p, ready, n, left))
                                  \/ (i = n /\ Discards(f, p, ready, n))
<1>1. CASE n > 0 /\ b \in {previous} \cup {f[i] : i \in 0 .. n - 2}
  <2>1. CASE b = previous
    BY <1>1, <2>1
  <2>2. CASE b # previous
    <3>1. PICK i \in 0 .. n - 2 : b = f[i]
      BY <1>1, <2>2
    <3>2. i \in Nat /\ i + 2 <= n /\ i < ready
      OBVIOUS
    <3>. QED  BY <3>1, <3>2
  <2>. QED  BY <2>1, <2>2
<1>2. CASE Over(f, p, ready, n, left) /\ b = LastOf(f, n, previous)
  <2>1. CASE n = 0
    BY <1>2, <2>1 DEF LastOf
  <2>2. CASE n # 0
    <3>1. n - 1 \in Nat /\ (n - 1) + 1 = n /\ n - 1 < ready
      BY <2>2
    <3>2. b = f[n - 1]
      BY <1>2, <2>2 DEF LastOf
    <3>. QED  BY <1>2, <3>1, <3>2
  <2>. QED  BY <2>1, <2>2
<1>3. CASE Discards(f, p, ready, n) /\ b = f[n]
  BY <1>3 DEF Discards
<1>. QED  BY <1>1, <1>2, <1>3 DEF Released

LEMMA ReleasedOnes ==
    ASSUME NEW f, NEW p, NEW ready \in Nat, NEW n \in 0 .. ready, NEW previous, NEW left
    PROVE  /\ n > 0 => previous \in Released(f, p, ready, n, previous, left)
           /\ \A i \in Nat : i + 2 <= n => f[i] \in Released(f, p, ready, n, previous, left)
           /\ Over(f, p, ready, n, left) => LastOf(f, n, previous) \in Released(f, p, ready, n, previous, left)
           /\ Discards(f, p, ready, n) => Over(f, p, ready, n, left)
<1>1. \A i \in Nat : i + 2 <= n => n > 0 /\ i \in 0 .. n - 2
  OBVIOUS
<1>. QED  BY <1>1 DEF Released, Over

\* With a buffer go those before it.
LEMMA ReleasedBefore ==
    ASSUME NEW p \in Pool, Chained(p), NEW from \in Peer, NEW to, NEW previous, Continues(p, previous, to, from),
           NEW f, IsPath(f, p, previous, to, from), NEW ready \in Nat, IsReady(f, p, ready),
           NEW n \in 0 .. ready, NEW left, NEW b \in Buffer, b \in Released(f, p, ready, n, previous, left),
           NEW c \in Buffer, p[c].next = b
    PROVE  c \in Released(f, p, ready, n, previous, left)
<1>0. b # NoBuffer
  BY BuffersFinite
<1>1. b # previous
  BY <1>0 DEF Continues, First
<1>2. PICK i \in Nat : /\ b = f[i] /\ i < ready
                       /\ i + 2 <= n \/ (i + 1 = n /\ Over(f, p, ready, n, left))
                            \/ (i = n /\ Discards(f, p, ready, n))
  BY <1>1, ReleasedWhat
<1>3. CASE i = 0
  <2>1. previous # NoBuffer
    <3>1. SUFFICES ASSUME previous = NoBuffer PROVE FALSE
      OBVIOUS
    <3>2. p[b].seq = 0
      <4>1. b = FirstBuffer(p, to, from)
        BY <1>2, <1>3, <3>1 DEF IsPath
      <4>. QED  BY <4>1, FirstIs
    <3>3. p[b].seq = p[c].seq + 1 /\ p[c].seq \in Nat
      BY <1>0, SlotFits DEF Chained
    <3>. QED  BY <3>2, <3>3
  <2>2. p[previous].next = b /\ previous \in Buffer
    BY <1>2, <1>3, <2>1 DEF IsPath, Continues, FollowsOn
  <2>3. c = previous
    BY <1>0, <2>2 DEF Chained
  <2>4. n > 0 \/ Over(f, p, ready, n, left)
    BY <1>2, <1>3, ReleasedOnes
  <2>5. n = 0 => LastOf(f, n, previous) = previous
    BY DEF LastOf
  <2>6. n > 0 \/ n = 0
    OBVIOUS
  <2>. QED  BY <2>3, <2>4, <2>5, <2>6, ReleasedOnes
<1>4. CASE i # 0
  <2>1. i - 1 \in Nat /\ i - 1 < ready /\ i \in 1 .. MPORTAL_BUFFER_MAX /\ (i - 1) + 1 = i
    BY <1>2, <1>4, BufferAssumption DEF IsReady
  <2>2. f[i - 1] \in Buffer
    BY <2>1, OnPath
  <2>3. p[f[i - 1]].next = b
    <3>1. f[i] = IF f[i - 1] = NoBuffer THEN NoBuffer ELSE p[f[i - 1]].next
      BY <2>1 DEF IsPath
    <3>. QED  BY <1>2, <2>2, <3>1, BuffersFinite
  <2>4. c = f[i - 1]
    BY <1>0, <2>2, <2>3 DEF Chained
  <2>5. CASE i + 1 <= n
    <3>1. (i - 1) + 2 <= n
      BY <2>5
    <3>. QED  BY <2>1, <2>4, <3>1, ReleasedOnes
  <2>6. CASE i = n
    <3>1. Over(f, p, ready, n, left)
      BY <1>2, <2>6, ReleasedOnes
    <3>2. LastOf(f, n, previous) = f[i - 1]
      BY <1>4, <2>6 DEF LastOf
    <3>. QED  BY <2>4, <3>1, <3>2, ReleasedOnes
  <2>7. i + 1 <= n \/ i = n
    BY <1>2
  <2>. QED  BY <2>5, <2>6, <2>7
<1>. QED  BY <1>3, <1>4

\* What r, the result of a read, says, when the buffers in R are released.
ReadDoes(R, r, p, previous, to, from, remainder) ==
    /\ r.pool = [b \in Buffer |-> IF b \in R THEN Unused ELSE p[b]]
    /\ \A b \in Buffer \cap R : Of(p, b, to, from) /\ \A c \in Buffer : p[c].next = b => c \in R
    /\ r.copied \in Seq(Unit) /\ r.left \in Nat /\ r.left = remainder - Len(r.copied) /\ r.error \in BOOLEAN
    /\ r.previous \in Buffer \cup {NoBuffer}
    /\ r.previous # NoBuffer =>
         /\ r.previous \notin R /\ Of(p, r.previous, to, from) /\ r.left > 0 /\ ~r.error
         /\ \A c \in Buffer : p[c].next = r.previous => c \in R
    /\ ~r.error /\ r.copied = <<>> /\ remainder > 0 => r.pool = p /\ r.previous = previous

LEMMA Reads1 ==
    ASSUME NEW p \in Pool, Chained(p), NEW from \in Peer, NEW to, NEW previous, Continues(p, previous, to, from),
           NEW f, IsPath(f, p, previous, to, from), NEW ready \in Nat, IsReady(f, p, ready),
           NEW n \in 0 .. ready, NEW left \in Nat, ~Over(f, p, ready, n, left), LastOf(f, n, previous) # NoBuffer
    PROVE  LET last == LastOf(f, n, previous) IN
           /\ last \in Buffer /\ last \notin Released(f, p, ready, n, previous, left)
           /\ Of(p, last, to, from) /\ left > 0 /\ n = ready
           /\ \A c \in Buffer : p[c].next = last => c \in Released(f, p, ready, n, previous, left)
<1>0. Start(p, previous) \in Nat /\ (previous # NoBuffer => previous \in Buffer /\ Start(p, previous) = p[previous].seq + 1)
  BY StartFits DEF Continues, FollowsOn, Start
<1>1. PICK last : last = LastOf(f, n, previous)
  OBVIOUS
<1>2. ~Discards(f, p, ready, n)
  BY DEF Over
<1>3. n = ready
  <2>1. SUFFICES ASSUME n < ready PROVE FALSE
    OBVIOUS
  <2>2. f[n] \in Buffer /\ p[f[n]].seq = Start(p, previous) + n
    BY <2>1, OnPath
  <2>3. ~(p[f[n]].seq > 0) /\ p[f[n]].seq \in Nat
    BY <1>2, <2>1, <2>2, SlotFits DEF Discards
  <2>4. n = 0 /\ Start(p, previous) = 0
    BY <1>0, <2>2, <2>3
  <2>5. previous = NoBuffer
    <3>1. previous # NoBuffer => p[previous].seq \in Nat
      BY <1>0, SlotFits
    <3>. QED  BY <1>0, <2>4, <3>1
  <2>. QED  BY <2>4, <2>5 DEF LastOf
<1>4. left > 0
  BY <1>3 DEF Over
<1>5. CASE n = 0
  <2>1. last = previous /\ previous \in Buffer
    BY <1>0, <1>1, <1>5 DEF LastOf
  <2>2. previous \notin Released(f, p, ready, n, previous, left)
    BY <1>2, <1>5 DEF Released
  <2>3. Of(p, previous, to, from) /\ \A c \in Buffer : p[c].next # previous
    BY <2>1, BuffersFinite DEF Continues, FollowsOn, Of, First
  <2>. QED  BY <1>1, <1>3, <1>4, <2>1, <2>2, <2>3
<1>6. CASE n > 0
  <2>1. PICK k \in Nat : n = k + 1 /\ k < ready
    BY <1>6
  <2>2. last = f[k]
    <3>1. n # 0 /\ n - 1 = k
      BY <2>1
    <3>. QED  BY <1>1, <3>1 DEF LastOf
  <2>3. last \in Buffer /\ Of(p, last, to, from) /\ p[last].seq = Start(p, previous) + k
    BY <2>1, <2>2, OnPath
  <2>4. last \notin Released(f, p, ready, n, previous, left)
    <3>1. SUFFICES ASSUME last \in Released(f, p, ready, n, previous, left) PROVE FALSE
      OBVIOUS
    <3>2. last # previous
      <4>1. SUFFICES ASSUME last = previous PROVE FALSE
        OBVIOUS
      <4>2. p[previous].seq \in Nat /\ Start(p, previous) = p[previous].seq + 1
        BY <1>0, <2>3, <4>1, SlotFits, BuffersFinite
      <4>. QED  BY <2>3, <4>1, <4>2
    <3>3. PICK i \in Nat : last = f[i] /\ i < ready /\ i + 2 <= n
      BY <1>2, <2>3, <3>1, <3>2, ReleasedWhat
    <3>4. p[last].seq = Start(p, previous) + i
      BY <3>3, OnPath
    <3>. QED  BY <1>0, <2>1, <2>3, <3>3, <3>4
  <2>5. ASSUME NEW c \in Buffer, p[c].next = last PROVE c \in Released(f, p, ready, n, previous, left)
    <3>1. CASE k = 0
      <4>1. previous # NoBuffer
        <5>1. SUFFICES ASSUME previous = NoBuffer PROVE FALSE
          OBVIOUS
        <5>2. p[last].seq = 0
          <6>1. last = FirstBuffer(p, to, from)
            BY <2>2, <3>1, <5>1 DEF IsPath
          <6>. QED  BY <2>3, <6>1, FirstIs
        <5>3. p[last].seq = p[c].seq + 1 /\ p[c].seq \in Nat
          BY <2>3, <2>5, SlotFits, BuffersFinite DEF Chained
        <5>. QED  BY <5>2, <5>3
      <4>2. p[previous].next = last /\ previous \in Buffer
        BY <1>0, <2>2, <3>1, <4>1 DEF IsPath
      <4>3. c = previous
        BY <2>3, <2>5, <4>2, BuffersFinite DEF Chained
      <4>. QED  BY <1>6, <4>3, ReleasedOnes
    <3>2. CASE k # 0
      <4>1. k - 1 \in Nat /\ k - 1 < ready /\ k \in 1 .. MPORTAL_BUFFER_MAX /\ (k - 1) + 2 <= n
        BY <2>1, <3>2, BufferAssumption DEF IsReady
      <4>2. f[k - 1] \in Buffer
        BY <4>1, OnPath
      <4>3. p[f[k - 1]].next = last
        <5>1. f[k] = IF f[k - 1] = NoBuffer THEN NoBuffer ELSE p[f[k - 1]].next
          BY <4>1 DEF IsPath
        <5>. QED  BY <2>2, <4>2, <5>1, BuffersFinite
      <4>4. c = f[k - 1]
        BY <2>3, <2>5, <4>2, <4>3, BuffersFinite DEF Chained
      <4>. QED  BY <4>1, <4>4, ReleasedOnes
    <3>. QED  BY <3>1, <3>2
  <2>. QED  BY <1>1, <1>3, <1>4, <2>3, <2>4, <2>5
<1>. QED  BY <1>5, <1>6

\* A reader that gets nothing changes nothing.
LEMMA Reads2 ==
    ASSUME NEW p \in Pool, Chained(p), NEW from \in Peer, NEW to, NEW previous, Continues(p, previous, to, from),
           NEW remainder \in Nat, remainder > 0, NEW f, NEW D, NEW ready, NEW n,
           IsWalk(f, D, ready, n, p, previous, to, from, remainder),
           ~(n < ready), D[n] = <<>>
    PROVE  n = 0 /\ Released(f, p, ready, n, previous, remainder) = {} /\ ~Over(f, p, ready, n, remainder)
<1>1. IsPath(f, p, previous, to, from) /\ IsReady(f, p, ready) /\ ready \in Nat /\ n \in 0 .. ready /\ n \in Nat
  BY BufferAssumption DEF IsWalk, IsReady, IsFit
<1>2. n = 0
  <2>1. SUFFICES ASSUME n # 0 PROVE FALSE
    OBVIOUS
  <2>2. n - 1 \in Nat /\ n - 1 < ready /\ n \in 1 .. ready /\ n - 1 \in 0 .. ready
    BY <1>1, <2>1
  <2>3. PICK g : g = [k \in 1 .. ready |-> p[f[k - 1]].data]
    OBVIOUS
  <2>4. Joins(D, g, ready, Unit)
    BY <2>3 DEF IsWalk
  <2>5. D[n] = D[n - 1] \o g[n] /\ D[n - 1] \in Seq(Unit) /\ g[n] \in Seq(Unit)
    BY <2>2, <2>4 DEF Joins
  <2>6. g[n] = p[f[n - 1]].data /\ g[n] # <<>>
    BY <1>1, <2>2, <2>3, OnPath
  <2>7. ASSUME NEW x \in Seq(Unit), NEW y \in Seq(Unit), x \o y = <<>> PROVE y = <<>>
    BY <2>7
  <2>8. D[n - 1] \o g[n] = <<>>
    BY <2>5
  <2>. QED  BY <2>5, <2>6, <2>7, <2>8
<1>. QED  BY <1>2 DEF Released, Over, Discards

LEMMA ReadIs ==
    ASSUME NEW p \in Pool, Chained(p), NEW from \in Peer, NEW to, NEW previous, Continues(p, previous, to, from),
           NEW remainder \in Nat, NEW r, r = BufferRead(p, to, from, previous, remainder)
    PROVE  \E R : ReadDoes(R, r, p, previous, to, from, remainder)
<1>1. PICK f, D, ready, n :
         /\ IsWalk(f, D, ready, n, p, previous, to, from, remainder)
         /\ IsOutcome(r, f, D, ready, n, p, previous, remainder)
  BY Walks DEF Continues
<1>2. IsPath(f, p, previous, to, from) /\ IsReady(f, p, ready) /\ ready \in Nat /\ n \in 0 .. ready /\ n \in Nat
  BY <1>1, BufferAssumption DEF IsWalk, IsReady, IsFit
<1>3. PICK left : left = remainder - Len(D[n])
  OBVIOUS
<1>4. D[n] \in Seq(Unit) /\ Len(D[n]) <= remainder /\ left \in Nat
  <2>1. D[n] \in Seq(Unit)
    BY <1>1, <1>2 DEF IsWalk, Joins
  <2>2. Len(D[n]) <= remainder
    BY <1>1 DEF IsWalk, IsFit
  <2>. QED  BY <1>3, <2>1, <2>2
<1>5. PICK R : R = Released(f, p, ready, n, previous, left)
  OBVIOUS
<1>6. /\ r.pool = [b \in Buffer |-> IF b \in R THEN Unused ELSE p[b]]
      /\ r.copied = D[n] /\ r.left = left /\ r.error = (n < ready)
      /\ r.previous = IF Over(f, p, ready, n, left) THEN NoBuffer ELSE LastOf(f, n, previous)
  BY <1>1, <1>3, <1>5 DEF IsOutcome
<1>7. ASSUME NEW b \in Buffer \cap R
      PROVE  Of(p, b, to, from) /\ \A c \in Buffer : p[c].next = b => c \in R
  <2>1. CASE b = previous
    BY <1>2, <1>5, <2>1, ReleasedBefore, BuffersFinite DEF Continues, FollowsOn, Of
  <2>2. CASE b # previous
    <3>1. PICK i \in Nat : b = f[i] /\ i < ready
      BY <1>2, <1>5, <2>2, ReleasedWhat
    <3>. QED  BY <1>2, <1>5, <3>1, OnPath, ReleasedBefore
  <2>. QED  BY <2>1, <2>2
<1>8. ASSUME r.previous # NoBuffer
      PROVE  /\ r.previous \in Buffer /\ r.previous \notin R /\ Of(p, r.previous, to, from) /\ r.left > 0 /\ ~r.error
             /\ \A c \in Buffer : p[c].next = r.previous => c \in R
  <2>1. ~Over(f, p, ready, n, left) /\ r.previous = LastOf(f, n, previous)
    BY <1>6, <1>8
  <2>2. /\ r.previous \in Buffer /\ r.previous \notin R /\ Of(p, r.previous, to, from) /\ left > 0 /\ n = ready
        /\ \A c \in Buffer : p[c].next = r.previous => c \in R
    BY <1>2, <1>4, <1>5, <1>8, <2>1, Reads1
  <2>3. ~(n < ready) /\ r.left > 0 /\ r.error = (n < ready)
    BY <1>2, <1>6, <2>2
  <2>4. ~r.error
    BY <2>3, Zenon
  <2>. QED  BY <2>2, <2>3, <2>4
<1>9. ASSUME ~r.error, r.copied = <<>>, remainder > 0 PROVE r.pool = p /\ r.previous = previous
  <2>0. D[n] = <<>> /\ ~(n < ready)
    BY <1>6, <1>9
  <2>1. left = remainder /\ D[n] = <<>> /\ ~(n < ready)
    <3>1. Len(D[n]) = 0
      BY <2>0
    <3>. QED  BY <1>3, <2>0, <3>1
  <2>2. n = 0 /\ R = {} /\ ~Over(f, p, ready, n, left)
    BY <1>1, <1>5, <1>9, <2>1, Reads2
  <2>3. r.previous = previous
    BY <1>6, <2>2 DEF LastOf
  <2>4. r.pool = [b \in Buffer |-> p[b]]
    BY <1>6, <2>2
  <2>5. p = [b \in Buffer |-> p[b]]
    BY DEF Pool
  <2>. QED  BY <2>3, <2>4, <2>5
<1>10. r.error \in BOOLEAN /\ r.left = remainder - Len(r.copied)
  BY <1>3, <1>6
<1>. QED  BY <1>4, <1>6, <1>7, <1>8, <1>9, <1>10 DEF ReadDoes

-----------------------------------------------------------------------------
(* What the steps do to the buffers of a node.                             *)

LEMMA FreeIs ==
    ASSUME NEW p, FreeBuffers(p) # {}
    PROVE  Min(FreeBuffers(p)) \in Buffer /\ ~IsUsed(p, Min(FreeBuffers(p)))
<1>1. FreeBuffers(p) \in SUBSET Nat
  BY BufferAssumption DEF FreeBuffers, Buffer
<1>2. Min(FreeBuffers(p)) \in FreeBuffers(p)
  BY <1>1, MinIsIn
<1>. QED  BY <1>2 DEF FreeBuffers

\* The writer of a message may go on with the next buffer.
GoesOn(p, previous, from, to) ==
    /\ previous \in Buffer \cup {NoBuffer}
    /\ previous # NoBuffer =>
         p[previous].from = from /\ p[previous].to = to /\ p[previous].busy /\ p[previous].data # <<>>

Slot(p, previous, from, to, a, d) ==
    [from |-> from, to |-> to, busy |-> TRUE, age |-> a,
     seq |-> IF previous = NoBuffer THEN 0 ELSE p[previous].seq + 1, next |-> NoBuffer, data |-> d]

AllocDoes(q, p, previous, from, to, a, d, new) ==
    /\ q = [b \in Buffer |-> q[b]]
    /\ q[new] = Slot(p, previous, from, to, a, d)
    /\ previous # NoBuffer => q[previous] = [p[previous] EXCEPT !.next = new, !.busy = FALSE]
    /\ \A b \in Buffer : b # new /\ b # previous => q[b] = p[b]

LEMMA AllocIs ==
    ASSUME NEW p \in Pool, NEW previous \in Buffer \cup {NoBuffer}, NEW from, NEW to, NEW a, NEW d,
           NEW new \in Buffer, new = Min(FreeBuffers(p)), new # previous,
           NEW q, q = BufferAlloc(p, previous, from, to, a, d)
    PROVE  AllocDoes(q, p, previous, from, to, a, d, new)
<1>0. NoBuffer \notin Buffer /\ p = [b \in Buffer |-> p[b]]
  BY BuffersFinite DEF Pool
<1>1. PICK w : w = Slot(p, previous, from, to, a, d)
  OBVIOUS
<1>2. CASE previous = NoBuffer
  <2>1. q = [p EXCEPT ![new] = w]
    BY <1>1, <1>2, Zenon DEF BufferAlloc, Slot
  <2>. QED  BY <1>0, <1>1, <1>2, <2>1 DEF AllocDoes
<1>3. CASE previous # NoBuffer
  <2>1. q = [[p EXCEPT ![previous].next = new, ![previous].busy = FALSE] EXCEPT ![new] = w]
    BY <1>1, <1>3, Zenon DEF BufferAlloc, Slot
  <2>2. PICK v : v = [p[previous] EXCEPT !.next = new, !.busy = FALSE]
    OBVIOUS
  <2>3. [p EXCEPT ![previous].next = new, ![previous].busy = FALSE] = [p EXCEPT ![previous] = v]
    BY <1>0, <1>3, <2>2
  <2>4. q = [[p EXCEPT ![previous] = v] EXCEPT ![new] = w]
    BY <2>1, <2>3
  <2>5. previous \in Buffer
    BY <1>3
  <2>. QED  BY <1>0, <1>1, <2>2, <2>4, <2>5 DEF AllocDoes
<1>. QED  BY <1>2, <1>3

Allocates(q, p, previous, from, to, d, new) ==
    /\ Sane(q) /\ new \in Buffer /\ ~IsUsed(p, new) /\ new # previous
    /\ q[new].from = from /\ q[new].to = to /\ q[new].busy = TRUE /\ q[new].data = d
    /\ \A b \in Buffer : b # new /\ b # previous => q[b] = p[b]
    /\ \A b \in Buffer : b # new /\ First(p, b) => First(q, b)

LEMMA AllocKeeps ==
    ASSUME NEW p, Sane(p), NEW from \in Peer, NEW to \in Port, NEW previous, GoesOn(p, previous, from, to),
           NEW a \in Nat, NEW d \in Seq(Unit), Len(d) <= MPORTAL_BUFFER_SIZE,
           previous # NoBuffer => d # <<>>, FreeBuffers(p) # {},
           NEW new, new = Min(FreeBuffers(p)),
           NEW q, q = BufferAlloc(p, previous, from, to, a, d)
    PROVE  Allocates(q, p, previous, from, to, d, new)
<1>0. p \in Pool /\ Chained(p) /\ NoBuffer \notin Buffer /\ \A b \in Buffer : Len(p[b].data) <= MPORTAL_BUFFER_SIZE
  BY BuffersFinite DEF Sane
<1>1. new \in Buffer /\ ~IsUsed(p, new)
  BY FreeIs
<1>2. previous \in Buffer \cup {NoBuffer} /\ new # previous
  BY <1>0, <1>1, Consts DEF GoesOn, IsUsed
<1>3. /\ q = [b \in Buffer |-> q[b]]
      /\ q[new] = Slot(p, previous, from, to, a, d)
      /\ previous # NoBuffer => q[previous] = [p[previous] EXCEPT !.next = new, !.busy = FALSE]
      /\ \A b \in Buffer : b # new /\ b # previous => q[b] = p[b]
  <2>1. /\ p \in Pool /\ previous \in Buffer \cup {NoBuffer} /\ new \in Buffer /\ new = Min(FreeBuffers(p))
        /\ new # previous /\ q = BufferAlloc(p, previous, from, to, a, d)
    BY <1>0, <1>1, <1>2
  <2>2. AllocDoes(q, p, previous, from, to, a, d, new)
    BY <2>1, AllocIs
  <2>. QED  BY <2>2 DEF AllocDoes
<1>4. previous # NoBuffer =>
        /\ previous \in Buffer /\ p[previous] \in BufferKind
        /\ q[previous] \in BufferKind /\ q[previous].next = new /\ q[previous].busy = FALSE
        /\ q[previous].from = from /\ q[previous].to = to /\ q[previous].seq = p[previous].seq
        /\ q[previous].data = p[previous].data /\ p[previous].seq \in Nat /\ p[previous].next = NoBuffer
        /\ q[previous].data # <<>>
  <2>1. SUFFICES ASSUME previous # NoBuffer PROVE /\ previous \in Buffer /\ p[previous] \in BufferKind
        /\ q[previous] \in BufferKind /\ q[previous].next = new /\ q[previous].busy = FALSE
        /\ q[previous].from = from /\ q[previous].to = to /\ q[previous].seq = p[previous].seq
        /\ q[previous].data = p[previous].data /\ p[previous].seq \in Nat /\ p[previous].next = NoBuffer
        /\ q[previous].data # <<>>
    OBVIOUS
  <2>2. previous \in Buffer /\ p[previous].from = from /\ p[previous].to = to /\ p[previous].busy /\ p[previous].data # <<>>
    BY <1>2, <2>1 DEF GoesOn
  <2>3. p[previous] \in BufferKind /\ p[previous].seq \in Nat
    BY <1>0, <2>2, SlotFits, PeerIs
  <2>4. p[previous].next = NoBuffer
    BY <1>0, <2>2 DEF Chained
  <2>5. PICK z : z = [p[previous] EXCEPT !.next = new, !.busy = FALSE]
    OBVIOUS
  <2>6. z \in BufferKind /\ z.next = new /\ z.busy = FALSE /\ z.from = p[previous].from /\ z.to = p[previous].to
        /\ z.seq = p[previous].seq /\ z.data = p[previous].data
    <3>1. new \in Buffer \cup {NoBuffer} /\ p[previous].data \in Seq(Unit)
      BY <1>1, <2>3 DEF BufferKind
    <3>. QED  BY <2>3, <2>5, <3>1 DEF BufferKind
  <2>. QED  BY <1>3, <2>1, <2>2, <2>3, <2>4, <2>5, <2>6
<1>5. /\ q[new] \in BufferKind /\ q[new].from = from /\ q[new].to = to /\ q[new].busy = TRUE /\ q[new].data = d
      /\ q[new].next = NoBuffer /\ q[new].seq = IF previous = NoBuffer THEN 0 ELSE p[previous].seq + 1
  <2>1. PICK k : k = IF previous = NoBuffer THEN 0 ELSE p[previous].seq + 1
    OBVIOUS
  <2>2. k \in Nat
    BY <1>4, <2>1
  <2>3. q[new] = [from |-> from, to |-> to, busy |-> TRUE, age |-> a, seq |-> k, next |-> NoBuffer, data |-> d]
    BY <1>3, <2>1, Zenon DEF Slot
  <2>. QED  BY <2>1, <2>2, <2>3 DEF BufferKind
<1>6. q \in Pool /\ \A b \in Buffer : Len(q[b].data) <= MPORTAL_BUFFER_SIZE
  <2>1. ASSUME NEW b \in Buffer
        PROVE  q[b] \in {Unused} \cup BufferKind /\ Len(q[b].data) <= MPORTAL_BUFFER_SIZE
    <3>1. CASE b = new
      BY <1>5, <3>1
    <3>2. CASE b # new /\ b = previous
      BY <1>0, <1>4, <3>2
    <3>3. CASE b # new /\ b # previous
      BY <1>0, <1>3, <3>3 DEF Pool
    <3>. QED  BY <3>1, <3>2, <3>3
  <2>. QED  BY <1>3, <2>1 DEF Pool
<1>7. from # None
  BY PeerIs
<1>8. \A b \in Buffer : p[b].next # new
  BY <1>0, <1>1 DEF Chained
<1>9. ASSUME NEW b \in Buffer, q[b].next # NoBuffer
      PROVE  \/ b = previous /\ q[b].next = new
             \/ b # previous /\ b # new /\ q[b] = p[b] /\ q[b].next # new
  <2>1. CASE b = new
    BY <1>5, <1>9, <2>1
  <2>2. CASE b # new /\ b = previous
    BY <1>0, <1>4, <2>2
  <2>3. CASE b # new /\ b # previous
    BY <1>3, <1>8, <2>3
  <2>. QED  BY <2>1, <2>2, <2>3
<1>10. Chained(q)
  <2>1. ASSUME NEW b \in Buffer, q[b].next # NoBuffer
        PROVE  /\ ~q[b].busy
               /\ IsUsed(q, q[b].next) /\ q[q[b].next].seq = q[b].seq + 1
               /\ q[q[b].next].from = q[b].from /\ q[q[b].next].to = q[b].to
    <3>1. CASE b = previous /\ q[b].next = new
      BY <1>0, <1>4, <1>5, <1>7, <3>1 DEF IsUsed
    <3>2. CASE b # previous /\ b # new /\ q[b] = p[b] /\ q[b].next # new
      <4>1. PICK c : c = q[b].next /\ c = p[b].next
        BY <3>2
      <4>2. c \in Buffer
        BY <1>0, <2>1, <4>1, SlotFits
      <4>3. ~p[b].busy /\ IsUsed(p, c) /\ p[c].seq = p[b].seq + 1 /\ p[c].from = p[b].from /\ p[c].to = p[b].to
        BY <1>0, <2>1, <4>1 DEF Chained
      <4>4. q[c].seq = p[c].seq /\ q[c].from = p[c].from /\ q[c].to = p[c].to
        <5>1. CASE c = previous
          BY <1>0, <1>4, <4>2, <5>1 DEF GoesOn
        <5>2. CASE c # previous
          BY <1>3, <3>2, <4>1, <4>2, <5>2
        <5>. QED  BY <5>1, <5>2
      <4>. QED  BY <3>2, <4>1, <4>3, <4>4 DEF IsUsed
    <3>. QED  BY <1>9, <2>1, <3>1, <3>2
  <2>2. ASSUME NEW b \in Buffer, NEW c \in Buffer, q[b].next = q[c].next, q[b].next # NoBuffer PROVE b = c
    <3>1. (b = previous /\ q[b].next = new) \/ (b # previous /\ q[b] = p[b] /\ q[b].next # new)
      BY <1>9, <2>2
    <3>2. (c = previous /\ q[c].next = new) \/ (c # previous /\ q[c] = p[c] /\ q[c].next # new)
      BY <1>9, <2>2
    <3>. QED  BY <1>0, <2>2, <3>1, <3>2 DEF Chained
  <2>3. ASSUME NEW b \in Buffer, IsUsed(q, b), ~q[b].busy \/ q[b].seq > 0 PROVE q[b].data # <<>>
    <3>1. CASE b = new
      BY <1>5, <2>3, <3>1
    <3>2. CASE b # new /\ b = previous
      BY <1>0, <1>4, <3>2
    <3>3. CASE b # new /\ b # previous
      <4>1. q[b] = p[b]
        BY <1>3, <3>3
      <4>. QED  BY <1>0, <2>3, <4>1 DEF Chained, IsUsed
    <3>. QED  BY <3>1, <3>2, <3>3
  <2>. QED  BY <2>1, <2>2, <2>3 DEF Chained
<1>11. ASSUME NEW b \in Buffer, b # new, First(p, b) PROVE First(q, b)
  <2>1. ASSUME NEW c \in Buffer PROVE q[c].next # b
    BY <1>0, <1>9, <1>11 DEF First
  <2>. QED  BY <2>1 DEF First
<1>. QED  BY <1>1, <1>2, <1>3, <1>5, <1>6, <1>10, <1>11 DEF Sane, Allocates

\* A buffer is changed, but not where it belongs.
Edit(p, b, x) ==
    /\ x \in BufferKind /\ x.from = p[b].from /\ x.to = p[b].to /\ x.seq = p[b].seq /\ x.next = p[b].next
    /\ x.data # <<>> /\ p[b].busy /\ Len(x.data) <= MPORTAL_BUFFER_SIZE
Edited(q, p, b, x) ==
    /\ Sane(q) /\ q[b] = x
    /\ \A c \in Buffer : c # b => q[c] = p[c]
    /\ \A c \in Buffer : First(p, c) => First(q, c)

LEMMA EditKeeps ==
    ASSUME NEW p, Sane(p), NEW b \in Buffer, IsUsed(p, b), NEW x, Edit(p, b, x),
           NEW q, q = [p EXCEPT ![b] = x]
    PROVE  Edited(q, p, b, x)
<1>. /\ x \in BufferKind /\ x.from = p[b].from /\ x.to = p[b].to /\ x.seq = p[b].seq /\ x.next = p[b].next
     /\ x.data # <<>> /\ p[b].busy /\ Len(x.data) <= MPORTAL_BUFFER_SIZE
  BY DEF Edit
<1>0. p \in Pool /\ Chained(p) /\ NoBuffer \notin Buffer /\ (\A c \in Buffer : Len(p[c].data) <= MPORTAL_BUFFER_SIZE)
      /\ p = [c \in Buffer |-> p[c]]
  BY BuffersFinite DEF Sane, Pool
<1>1. q[b] = x /\ (\A c \in Buffer : c # b => q[c] = p[c]) /\ q = [c \in Buffer |-> q[c]]
  BY <1>0
<1>2. \A c \in Buffer : /\ q[c].next = p[c].next /\ q[c].from = p[c].from /\ q[c].to = p[c].to /\ q[c].seq = p[c].seq
  <2>1. TAKE c \in Buffer
  <2>. QED  BY <1>1
<1>3. p[b].next = NoBuffer
  BY <1>0 DEF Chained
<1>4. q \in Pool /\ \A c \in Buffer : Len(q[c].data) <= MPORTAL_BUFFER_SIZE
  <2>1. ASSUME NEW c \in Buffer
        PROVE  q[c] \in {Unused} \cup BufferKind /\ Len(q[c].data) <= MPORTAL_BUFFER_SIZE
    <3>1. p[c] \in {Unused} \cup BufferKind
      BY <1>0 DEF Pool
    <3>. QED  BY <1>0, <1>1, <3>1
  <2>. QED  BY <1>1, <2>1 DEF Pool
<1>5. Chained(q)
  <2>1. ASSUME NEW c \in Buffer, q[c].next # NoBuffer
        PROVE  /\ ~q[c].busy
               /\ IsUsed(q, q[c].next) /\ q[q[c].next].seq = q[c].seq + 1
               /\ q[q[c].next].from = q[c].from /\ q[q[c].next].to = q[c].to
    <3>1. c # b /\ q[c] = p[c]
      BY <1>1, <1>2, <1>3, <2>1
    <3>2. PICK e : e = p[c].next
      OBVIOUS
    <3>3. e \in Buffer
      BY <1>0, <2>1, <3>1, <3>2, SlotFits
    <3>4. ~p[c].busy /\ IsUsed(p, e) /\ p[e].seq = p[c].seq + 1 /\ p[e].from = p[c].from /\ p[e].to = p[c].to
      BY <1>0, <2>1, <3>1, <3>2 DEF Chained
    <3>. QED  BY <1>2, <3>1, <3>2, <3>3, <3>4 DEF IsUsed
  <2>2. ASSUME NEW c \in Buffer, NEW e \in Buffer, q[c].next = q[e].next, q[c].next # NoBuffer PROVE c = e
    BY <1>0, <1>2, <2>2 DEF Chained
  <2>3. ASSUME NEW c \in Buffer, IsUsed(q, c), ~q[c].busy \/ q[c].seq > 0 PROVE q[c].data # <<>>
    <3>1. c # b => q[c] = p[c]
      BY <1>1
    <3>. QED  BY <1>0, <1>1, <2>3, <3>1 DEF Chained, IsUsed
  <2>. QED  BY <2>1, <2>2, <2>3 DEF Chained
<1>. QED  BY <1>0, <1>1, <1>2, <1>4, <1>5 DEF Sane, First, Edited

\* The other buffers stay as they are, and a first one stays first.
OthersStay(q, p, b) ==
    /\ Sane(q)
    /\ \A c \in Buffer : c # b => q[c] = p[c]
    /\ \A c \in Buffer : First(p, c) => First(q, c)

LEMMA AvailableKeeps ==
    ASSUME NEW p, Sane(p), NEW b \in Buffer, IsUsed(p, b), p[b].busy, p[b].data # <<>>,
           NEW q, q = SetAvailable(p, b)
    PROVE  OthersStay(q, p, b)
<1>1. p[b] \in BufferKind /\ Len(p[b].data) <= MPORTAL_BUFFER_SIZE /\ p = [c \in Buffer |-> p[c]]
  BY SlotFits DEF Sane, IsUsed, Pool
<1>2. PICK x : x = [p[b] EXCEPT !.busy = FALSE]
  OBVIOUS
<1>3. q = [p EXCEPT ![b] = x]
  BY <1>1, <1>2 DEF SetAvailable
<1>4. x \in BufferKind /\ x.from = p[b].from /\ x.to = p[b].to /\ x.seq = p[b].seq /\ x.next = p[b].next
      /\ x.data = p[b].data /\ x.busy = FALSE
  BY <1>1, <1>2 DEF BufferKind
<1>5. x.data # <<>> /\ Len(x.data) <= MPORTAL_BUFFER_SIZE
  BY <1>1, <1>4
<1>6. /\ Sane(q) /\ q[b] = x
      /\ \A c \in Buffer : c # b => q[c] = p[c]
      /\ \A c \in Buffer : First(p, c) => First(q, c)
  <2>1. Edit(p, b, x)
    BY <1>4, <1>5 DEF Edit
  <2>. QED  BY <1>3, <2>1, EditKeeps DEF Edited
<1>. QED  BY <1>6 DEF OthersStay

Grown(q, p, b) ==
    /\ OthersStay(q, p, b)
    /\ q[b].from = p[b].from /\ q[b].to = p[b].to /\ q[b].busy = p[b].busy /\ q[b].data # <<>>

LEMMA DataKeeps ==
    ASSUME NEW p, Sane(p), NEW b \in Buffer, IsUsed(p, b), p[b].busy, NEW e \in Unit,
           Len(p[b].data) < MPORTAL_BUFFER_SIZE,
           NEW q, q = [p EXCEPT ![b].data = Append(p[b].data, e)]
    PROVE  Grown(q, p, b)
<1>1. p[b] \in BufferKind /\ p[b].data \in Seq(Unit) /\ p = [c \in Buffer |-> p[c]]
  BY SlotFits DEF Sane, IsUsed, Pool
<1>2. PICK d : d = Append(p[b].data, e)
  OBVIOUS
<1>3. d \in Seq(Unit) /\ Len(d) = Len(p[b].data) + 1 /\ Len(p[b].data) \in Nat
  BY <1>1, <1>2, AppendFits
<1>4. d # <<>> /\ Len(d) <= MPORTAL_BUFFER_SIZE
  <2>1. Len(d) # 0 /\ MPORTAL_BUFFER_SIZE \in Nat
    BY <1>3, BufferAssumption
  <2>. QED  BY <1>3, <2>1
<1>5. PICK x : x = [p[b] EXCEPT !.data = d]
  OBVIOUS
<1>6. x \in BufferKind /\ x.from = p[b].from /\ x.to = p[b].to /\ x.seq = p[b].seq /\ x.next = p[b].next
      /\ x.data = d /\ x.busy = p[b].busy
  BY <1>1, <1>3, <1>5 DEF BufferKind
<1>7. q = [p EXCEPT ![b] = x]
  BY <1>1, <1>2, <1>5
<1>8. /\ Sane(q) /\ q[b] = x
      /\ \A c \in Buffer : c # b => q[c] = p[c]
      /\ \A c \in Buffer : First(p, c) => First(q, c)
  <2>1. Edit(p, b, x)
    BY <1>4, <1>6 DEF Edit
  <2>. QED  BY <1>7, <2>1, EditKeeps DEF Edited
<1>. QED  BY <1>4, <1>6, <1>8 DEF Grown, OthersStay

Emptied(q, p, R) ==
    /\ Sane(q)
    /\ \A b \in Buffer : b \notin R => q[b] = p[b]
    /\ \A b \in Buffer : First(p, b) => First(q, b)
    /\ \A b \in Buffer : (\A c \in Buffer : p[c].next = b => c \in R) => First(q, b)

LEMMA ReadKeeps ==
    ASSUME NEW p, Sane(p), NEW R, NEW q, q = [b \in Buffer |-> IF b \in R THEN Unused ELSE p[b]],
           \A b \in Buffer \cap R, c \in Buffer : p[c].next = b => c \in R
    PROVE  Emptied(q, p, R)
<1>0. p \in Pool /\ Chained(p) /\ NoBuffer \notin Buffer /\ (\A c \in Buffer : Len(p[c].data) <= MPORTAL_BUFFER_SIZE)
  BY BuffersFinite DEF Sane
<1>1. \A b \in Buffer : b \in R => q[b] = Unused
  OBVIOUS
<1>2. \A b \in Buffer : b \notin R => q[b] = p[b]
  OBVIOUS
<1>3. Unused.next = NoBuffer /\ Unused.from = None /\ Unused.data = <<>> /\ ~Unused.busy
  BY DEF Unused
<1>4. \A b \in Buffer : q[b].next # NoBuffer => b \notin R /\ q[b] = p[b]
  BY <1>1, <1>2, <1>3
<1>5. q \in Pool /\ \A b \in Buffer : Len(q[b].data) <= MPORTAL_BUFFER_SIZE
  <2>1. ASSUME NEW b \in Buffer
        PROVE  q[b] \in {Unused} \cup BufferKind /\ Len(q[b].data) <= MPORTAL_BUFFER_SIZE
    <3>1. CASE b \in R
      BY <1>1, <1>3, <3>1, BufferAssumption
    <3>2. CASE b \notin R
      BY <1>0, <1>2, <3>2 DEF Pool
    <3>. QED  BY <3>1, <3>2
  <2>. QED  BY <2>1 DEF Pool
<1>6. Chained(q)
  <2>1. ASSUME NEW c \in Buffer, q[c].next # NoBuffer
        PROVE  /\ ~q[c].busy
               /\ IsUsed(q, q[c].next) /\ q[q[c].next].seq = q[c].seq + 1
               /\ q[q[c].next].from = q[c].from /\ q[q[c].next].to = q[c].to
    <3>1. c \notin R /\ q[c] = p[c]
      BY <1>4, <2>1
    <3>2. PICK e : e = p[c].next
      OBVIOUS
    <3>3. e \in Buffer
      BY <1>0, <2>1, <3>1, <3>2, SlotFits
    <3>4. ~p[c].busy /\ IsUsed(p, e) /\ p[e].seq = p[c].seq + 1 /\ p[e].from = p[c].from /\ p[e].to = p[c].to
      BY <1>0, <2>1, <3>1, <3>2 DEF Chained
    <3>5. q[e] = p[e]
      BY <1>2, <3>1, <3>2, <3>3
    <3>. QED  BY <3>1, <3>2, <3>4, <3>5 DEF IsUsed
  <2>2. ASSUME NEW c \in Buffer, NEW e \in Buffer, q[c].next = q[e].next, q[c].next # NoBuffer PROVE c = e
    <3>1. q[c] = p[c] /\ q[e] = p[e]
      BY <1>4, <2>2
    <3>. QED  BY <1>0, <2>2, <3>1 DEF Chained
  <2>3. ASSUME NEW c \in Buffer, IsUsed(q, c), ~q[c].busy \/ q[c].seq > 0 PROVE q[c].data # <<>>
    <3>1. c \notin R
      BY <1>1, <1>3, <2>3 DEF IsUsed
    <3>2. q[c] = p[c]
      BY <1>2, <3>1
    <3>. QED  BY <1>0, <2>3, <3>2 DEF Chained, IsUsed
  <2>. QED  BY <2>1, <2>2, <2>3 DEF Chained
<1>7. ASSUME NEW b \in Buffer, \A c \in Buffer : p[c].next = b => c \in R PROVE First(q, b)
  <2>1. ASSUME NEW c \in Buffer, q[c].next = b PROVE FALSE
    <3>1. c \notin R /\ q[c] = p[c]
      BY <1>0, <1>4, <2>1
    <3>. QED  BY <1>7, <2>1, <3>1
  <2>. QED  BY <2>1 DEF First
<1>8. \A c \in Buffer : First(p, c) => First(q, c)
  BY <1>7 DEF First
<1>. QED  BY <1>2, <1>5, <1>6, <1>7, <1>8 DEF Sane, Emptied

-----------------------------------------------------------------------------
(* That the calls on a node have portals of their own.                     *)

LEMMA PortsKept ==
    ASSUME PortalsFit, PortsApart, PortsDiffer, NEW t \in Thread, Moves(t),
           TableStep(t) \/ LocalStep(t) \/ ReadStep(t) \/ WriteStep(t)
    PROVE  PortsApart' /\ PortsDiffer'
<1>0. PICK o : o = NodeOf[t] /\ o \in Node
  BY Consts
<1>1. busyIn \in [Node -> SUBSET Port] /\ busyOut \in [Node -> SUBSET Peer]
  BY DEF PortalsFit, TablesFit
<1>2. "read end" \in Reading /\ "write end" \in Writing
  BY DEF Reading, Writing
<1>3. \/ /\ busyIn' = busyIn /\ (pc'[t] \in Reading <=> pc[t] \in Reading)
         /\ pc[t] \in Reading => call'[t].port = call[t].port
      \/ /\ pc'[t] \in Reading /\ busyIn' = [busyIn EXCEPT ![o] = @ \cup {call'[t].port}] /\ pc[t] \notin Reading
         /\ call'[t].port \notin busyIn[o]
      \/ pc[t] = "read end" /\ busyIn' = [busyIn EXCEPT ![o] = @ \ {call[t].port}] /\ pc'[t] \notin Reading
  BY <1>0, BusyStep
<1>4. \/ /\ busyOut' = busyOut /\ (pc'[t] \in Writing <=> pc[t] \in Writing)
         /\ pc[t] \in Writing => call'[t].port = call[t].port
      \/ /\ pc'[t] \in Writing /\ busyOut' = [busyOut EXCEPT ![o] = @ \cup {call'[t].port}] /\ pc[t] \notin Writing
         /\ call'[t].port \notin busyOut[o]
      \/ pc[t] = "write end" /\ busyOut' = [busyOut EXCEPT ![o] = @ \ {call[t].port}] /\ pc'[t] \notin Writing
  BY <1>0, BusyStep
<1>5. ASSUME NEW u \in Thread \ {t} PROVE pc'[u] = pc[u] /\ call'[u] = call[u]
  BY <1>5, MovesOther
<1>6. ASSUME NEW u \in Thread \ {t}, NodeOf[u] = o
      PROVE  /\ pc[u] \in Reading /\ pc'[t] \in Reading => call'[t].port # call[u].port
             /\ pc[u] \in Writing /\ pc'[t] \in Writing => call'[t].port # call[u].port
  <2>1. /\ pc[u] \in Reading => call[u].port \in busyIn[o]
        /\ pc[u] \in Writing => call[u].port \in busyOut[o]
    BY <1>6 DEF PortsApart
  <2>2. /\ pc[u] \in Reading /\ pc[t] \in Reading => call[t].port # call[u].port
        /\ pc[u] \in Writing /\ pc[t] \in Writing => call[t].port # call[u].port
    BY <1>0, <1>6 DEF PortsDiffer
  <2>3. pc[u] \in Reading /\ pc'[t] \in Reading => call'[t].port # call[u].port
    BY <1>3, <2>1, <2>2, Zenon
  <2>4. pc[u] \in Writing /\ pc'[t] \in Writing => call'[t].port # call[u].port
    BY <1>4, <2>1, <2>2, Zenon
  <2>. QED  BY <2>3, <2>4
<1>7. PortsDiffer'
  <2>1. ASSUME NEW u \in Thread, NEW v \in Thread, NodeOf[u] = NodeOf[v], u # v
        PROVE  /\ pc'[u] \in Reading /\ pc'[v] \in Reading => call'[u].port # call'[v].port
               /\ pc'[u] \in Writing /\ pc'[v] \in Writing => call'[u].port # call'[v].port
    <3>1. CASE u = t
      BY <1>0, <1>5, <1>6, <2>1, <3>1
    <3>2. CASE v = t
      BY <1>0, <1>5, <1>6, <2>1, <3>2
    <3>3. CASE u # t /\ v # t
      BY <1>5, <2>1, <3>3 DEF PortsDiffer
    <3>. QED  BY <3>1, <3>2, <3>3
  <2>. QED  BY <2>1 DEF PortsDiffer
<1>8. ASSUME NEW u \in Thread
      PROVE  /\ pc'[u] \in Reading => call'[u].port \in busyIn'[NodeOf[u]]
             /\ pc'[u] \in Writing => call'[u].port \in busyOut'[NodeOf[u]]
  <2>0. NodeOf[u] \in Node
    BY Consts
  <2>1. /\ pc[u] \in Reading => call[u].port \in busyIn[NodeOf[u]]
        /\ pc[u] \in Writing => call[u].port \in busyOut[NodeOf[u]]
    BY DEF PortsApart
  <2>2. CASE u = t
    <3>1. pc'[t] \in Reading => call'[t].port \in busyIn'[o]
      BY <1>0, <1>1, <1>3, <2>1, <2>2
    <3>2. pc'[t] \in Writing => call'[t].port \in busyOut'[o]
      BY <1>0, <1>1, <1>4, <2>1, <2>2
    <3>. QED  BY <1>0, <2>2, <3>1, <3>2
  <2>3. CASE u # t
    <3>0. pc'[u] = pc[u] /\ call'[u] = call[u]
      BY <1>5, <2>3
    <3>1. pc[u] \in Reading => call[u].port \in busyIn'[NodeOf[u]]
      <4>1. SUFFICES ASSUME pc[u] \in Reading PROVE call[u].port \in busyIn'[NodeOf[u]]
        OBVIOUS
      <4>2. CASE pc[t] = "read end" /\ busyIn' = [busyIn EXCEPT ![o] = @ \ {call[t].port}]
        <5>1. NodeOf[u] = o => call[u].port # call[t].port
          BY <1>0, <1>2, <2>3, <4>1, <4>2 DEF PortsDiffer
        <5>. QED  BY <1>1, <2>0, <2>1, <4>1, <4>2, <5>1
      <4>3. CASE busyIn' = busyIn \/ busyIn' = [busyIn EXCEPT ![o] = @ \cup {call'[t].port}]
        BY <1>1, <2>0, <2>1, <4>1, <4>3
      <4>. QED  BY <1>3, <4>2, <4>3
    <3>2. pc[u] \in Writing => call[u].port \in busyOut'[NodeOf[u]]
      <4>1. SUFFICES ASSUME pc[u] \in Writing PROVE call[u].port \in busyOut'[NodeOf[u]]
        OBVIOUS
      <4>2. CASE pc[t] = "write end" /\ busyOut' = [busyOut EXCEPT ![o] = @ \ {call[t].port}]
        <5>1. NodeOf[u] = o => call[u].port # call[t].port
          BY <1>0, <1>2, <2>3, <4>1, <4>2 DEF PortsDiffer
        <5>. QED  BY <1>1, <2>0, <2>1, <4>1, <4>2, <5>1
      <4>3. CASE busyOut' = busyOut \/ busyOut' = [busyOut EXCEPT ![o] = @ \cup {call'[t].port}]
        BY <1>1, <2>0, <2>1, <4>1, <4>3
      <4>. QED  BY <1>4, <4>2, <4>3
    <3>. QED  BY <3>0, <3>1, <3>2
  <2>. QED  BY <2>2, <2>3
<1>9. PortsApart'
  BY <1>8 DEF PortsApart
<1>. QED  BY <1>7, <1>9

-----------------------------------------------------------------------------
(* A step of t that makes q of the buffers of its node.                    *)

\* The buffers at which other threads are stay as they are.
Spares(t, q) ==
    \A u \in Thread \ {t} : NodeOf[u] = NodeOf[t] =>
        /\ Fills(u) \/ Takes(u) => q[call[u].buf] = pool[NodeOf[t]][call[u].buf]
        /\ Takes(u) => First(q, call[u].buf)
OwnBuffer(t) ==
    Fills(t)' => \A u \in Thread \ {t} :
        NodeOf[u] = NodeOf[t] /\ Fills(u) => call[u].buf # call'[t].buf

LEMMA NodeStep ==
    ASSUME PortalsFit, Buffers, NEW t \in Thread, Moves(t),
           TableStep(t) \/ LocalStep(t) \/ ReadStep(t) \/ WriteStep(t),
           \A k \in 1 .. Len(log) : log'[k] = log[k],
           NEW q, pool' = [pool EXCEPT ![NodeOf[t]] = q], Sane(q), age' \in [Node -> Nat],
           Spares(t, q), OwnBuffer(t), BufferFits(pc'[t], call'[t]), FillFits(t)', TakeFits(t)'
    PROVE  Buffers'
<1>0. PICK o : o = NodeOf[t] /\ o \in Node
  BY Consts
<1>1. PoolFits' /\ pool'[o] = q /\ \A n \in Node : n # o => pool'[n] = pool[n]
  <2>1. pool = [n \in Node |-> pool[n]] /\ \A n \in Node : Sane(pool[n])
    BY DEF Buffers, PoolFits
  <2>2. pool'[o] = q /\ (\A n \in Node : n # o => pool'[n] = pool[n]) /\ pool' = [n \in Node |-> pool'[n]]
    BY <1>0, <2>1
  <2>3. \A n \in Node : Sane(pool'[n])
    BY <2>1, <2>2
  <2>. QED  BY <2>2, <2>3 DEF PoolFits
<1>2. ASSUME NEW u \in Thread \ {t} PROVE pc'[u] = pc[u] /\ call'[u] = call[u] /\ Fills(u)' = Fills(u) /\ Takes(u)' = Takes(u)
  <2>1. pc'[u] = pc[u] /\ call'[u] = call[u]
    BY <1>2, MovesOther
  <2>. QED  BY <2>1 DEF Fills, Takes
<1>3. PortsApart' /\ PortsDiffer'
  BY PortsKept DEF Buffers
<1>4. \A u \in Thread : BufferFits(pc'[u], call'[u])
  BY <1>2 DEF Buffers
<1>5. ASSUME NEW u \in Thread \ {t} PROVE FillFits(u)' /\ TakeFits(u)'
  <2>0. NodeOf[u] \in Node /\ FillFits(u) /\ TakeFits(u) /\ pc'[u] = pc[u] /\ call'[u] = call[u]
    BY <1>2, Consts DEF Buffers
  <2>1. PICK b, x, y : b = call[u].buf /\ x = pool[NodeOf[u]] /\ y = pool'[NodeOf[u]]
    OBVIOUS
  <2>2. /\ Fills(u) \/ Takes(u) => y[b] = x[b]
        /\ Takes(u) /\ First(x, b) => First(y, b)
    <3>1. CASE NodeOf[u] = o
      BY <1>0, <1>1, <2>1, <3>1 DEF Spares
    <3>2. CASE NodeOf[u] # o
      BY <1>1, <2>0, <2>1, <3>2
    <3>. QED  BY <3>1, <3>2
  <2>3. pc[u] \in Writing => log'[call[u].msg] = log[call[u].msg]
    <3>1. pc[u] \in Writing => call[u].msg \in 1 .. Len(log)
      BY DEF PortalsFit, CallsFit, CallFits
    <3>. QED  BY <3>1
  <2>4. FillFits(u)'
    <3>1. SUFFICES ASSUME Fills(u)
                   PROVE  /\ y[b].from # None /\ y[b].busy
                          /\ pc[u] # "piece" => y[b].data # <<>>
                          /\ pc[u] \in Writing => y[b].from = log'[call[u].msg].from /\ y[b].to = log'[call[u].msg].to[2]
      BY <1>2, <2>0, <2>1 DEF FillFits, Config
    <3>2. /\ x[b].from # None /\ x[b].busy
          /\ pc[u] # "piece" => x[b].data # <<>>
          /\ pc[u] \in Writing => x[b].from = log[call[u].msg].from /\ x[b].to = log[call[u].msg].to[2]
      BY <2>0, <2>1, <3>1 DEF FillFits, Config
    <3>. QED  BY <2>2, <2>3, <3>1, <3>2
  <2>5. TakeFits(u)'
    <3>1. SUFFICES ASSUME Takes(u)
                   PROVE  y[b].from = call[u].from /\ y[b].to = call[u].port /\ ~y[b].busy /\ First(y, b)
      BY <1>2, <2>0, <2>1 DEF TakeFits
    <3>2. x[b].from = call[u].from /\ x[b].to = call[u].port /\ ~x[b].busy /\ First(x, b)
      BY <2>0, <2>1, <3>1 DEF TakeFits
    <3>. QED  BY <2>2, <3>1, <3>2
  <2>. QED  BY <2>4, <2>5
<1>6. FillersApart'
  <2>1. ASSUME NEW u \in Thread, NEW v \in Thread, NodeOf[u] = NodeOf[v], Fills(u)', Fills(v)',
               call'[u].buf = call'[v].buf, u # v
        PROVE  FALSE
    <3>1. CASE u = t
      BY <1>2, <2>1, <3>1 DEF OwnBuffer
    <3>2. CASE v = t
      BY <1>2, <2>1, <3>2 DEF OwnBuffer
    <3>3. CASE u # t /\ v # t
      BY <1>2, <2>1, <3>3 DEF Buffers, FillersApart
    <3>. QED  BY <3>1, <3>2, <3>3
  <2>. QED  BY <2>1 DEF FillersApart
<1>7. \A u \in Thread : FillFits(u)' /\ TakeFits(u)'
  BY <1>5
<1>. QED  BY <1>1, <1>3, <1>4, <1>6, <1>7 DEF Buffers

\* The step does not touch the buffers.
LEMMA SamePool ==
    ASSUME PortalsFit, Buffers, NEW t \in Thread, Moves(t),
           TableStep(t) \/ LocalStep(t) \/ ReadStep(t) \/ WriteStep(t),
           \A k \in 1 .. Len(log) : log'[k] = log[k], pool' = pool, age' = age,
           OwnBuffer(t), BufferFits(pc'[t], call'[t]), FillFits(t)', TakeFits(t)'
    PROVE  Buffers'
<1>0. PICK o : o = NodeOf[t] /\ o \in Node
  BY Consts
<1>1. pool = [n \in Node |-> pool[n]] /\ Sane(pool[o]) /\ age' \in [Node -> Nat]
  BY <1>0 DEF Buffers, PoolFits
<1>2. PICK q : q = pool[o]
  OBVIOUS
<1>3. pool' = [pool EXCEPT ![NodeOf[t]] = q]
  BY <1>0, <1>1, <1>2
<1>4. Spares(t, q)
  <2>1. \A u \in Thread : TakeFits(u)
    BY DEF Buffers
  <2>. QED  BY <1>0, <1>2, <2>1 DEF Spares, TakeFits
<1>5. Sane(q)
  BY <1>1, <1>2
<1>. QED  BY <1>1, <1>3, <1>4, <1>5, NodeStep

\* Afterwards t is at no buffer.
LEMMA NoneKeeps ==
    ASSUME PortalsFit, Buffers, NEW t \in Thread, Moves(t),
           TableStep(t) \/ LocalStep(t) \/ ReadStep(t) \/ WriteStep(t),
           \A k \in 1 .. Len(log) : log'[k] = log[k], pool' = pool, age' = age,
           NEW x, NEW d, pc'[t] = x, call'[t] = d, BufferFits(x, d), ~Filling(x, d), ~Taking(x, d)
    PROVE  Buffers'
<1>1. ~Fills(t)' /\ ~Takes(t)'
  BY DEF Fills, Takes
<1>2. OwnBuffer(t) /\ FillFits(t)' /\ TakeFits(t)'
  BY <1>1 DEF OwnBuffer, FillFits, TakeFits
<1>3. BufferFits(pc'[t], call'[t])
  OBVIOUS
<1>. QED  BY <1>2, <1>3, SamePool

\* t goes to x with what it has.
LEMMA PassKeeps ==
    ASSUME PortalsFit, Buffers, NEW t \in Thread, Moves(t),
           TableStep(t) \/ LocalStep(t) \/ ReadStep(t) \/ WriteStep(t),
           log' = log, pool' = pool, age' = age, NEW l, l = pc[t], NEW x, pc'[t] = x,
           NEW c, c = call[t], NEW d, call'[t] = d, d.buf = c.buf, Alike(c, d), BufferFits(x, d),
           Filling(x, d) => Filling(l, c) /\ (x # "piece" => pool[NodeOf[t]][c.buf].data # <<>>) /\ (x \in Writing => l \in Writing),
           Taking(x, d) => Taking(l, c)
    PROVE  Buffers'
<1>1. /\ Fills(t)' => Fills(t) /\ (x # "piece" => pool[NodeOf[t]][c.buf].data # <<>>) /\ (x \in Writing => l \in Writing)
      /\ Takes(t)' => Takes(t)
  BY DEF Fills, Takes
<1>2. FillFits(t) /\ TakeFits(t) /\ FillersApart
  BY DEF Buffers
<1>3. OwnBuffer(t)
  BY <1>1, <1>2 DEF OwnBuffer, FillersApart
<1>4. FillFits(t)'
  BY <1>1, <1>2 DEF FillFits, Config, Alike
<1>5. TakeFits(t)'
  BY <1>1, <1>2 DEF TakeFits, Alike
<1>6. BufferFits(pc'[t], call'[t])
  OBVIOUS
<1>. QED  BY <1>3, <1>4, <1>5, <1>6, SamePool

\* The places, as BufferFits and the others tell them apart.
LEMMA BufferPlaces ==
    ASSUME NEW c, NEW d, NEW l, NEW x, BufferFits(l, c), d.buf = c.buf, d.buffering = c.buffering,
           d.left = c.left, d.size = c.size, l \in PCs, x \in PCs
    PROVE  /\ x \in Writing \ {"write local", "publish"} /\ l \in Writing =>
                BufferFits(x, d) /\ ~Filling(x, d) /\ ~Taking(x, d)
           /\ l \in {"lock", "check", "set", "allow", "locked", "header", "drop"} /\ x \in {"lock", "locked", "set", "allow", "header", "drop", "release"} =>
                BufferFits(x, d) /\ ~Filling(x, d) /\ ~Taking(x, d)
           /\ l \in {"allow", "header", "piece", "drop", "release", "finish"} /\ x \in {"release", "exit"} =>
                BufferFits(x, d) /\ ~Filling(x, d) /\ ~Taking(x, d)
           /\ l = "relock" /\ x \in {"finish", "piece"} => BufferFits(x, d) /\ Filling(l, c) /\ ~Taking(x, d)
           /\ l = "exit" /\ (x = "read end" => c.ret # "partial") /\ x \in {"again", "read end"} =>
                BufferFits(x, d) /\ ~Filling(x, d) /\ (Taking(x, d) => Taking(l, c))
           /\ l \in {"header", "piece"} /\ x = "panic" => BufferFits(x, d) /\ ~Filling(x, d) /\ ~Taking(x, d)
BY DEF BufferFits, Filling, Taking, Reading, RemoteReads, Channels, Keeping, Writing, RemoteWrites

-----------------------------------------------------------------------------
(* One action after the other.                                             *)

LEMMA BufferPassing ==
    ASSUME PortalsFit, Buffers, NEW t \in Thread, Passing(t), ~Publish(t)
    PROVE  Buffers'
<1>0. pc \in [Thread -> PCs] /\ BufferFits(pc[t], call[t]) /\ Moves(t) /\ log' = log
  BY PassingMoves DEF PortalsFit, CallsFit, Buffers, Passing, LockRead, CheckChannel, SetChannel, SendAllow, Relock, Drop,
    ReleaseChannel, Exit, TakeAllow, LockAllow, ReceiveAllow, AllowError,
    LockWrite, SendHeader, WriteError, WriteLocalYield, historyVars
<1>1. TableStep(t) \/ LocalStep(t) \/ ReadStep(t) \/ WriteStep(t)
  BY DEF Passing, LocalStep, ReadStep, WriteStep
<1>2. UNCHANGED <<call, pool, age>>
  BY DEF Passing, LockRead, CheckChannel, SetChannel, SendAllow, Relock, Drop,
    ReleaseChannel, Exit, TakeAllow, LockAllow, ReceiveAllow, AllowError,
    LockWrite, SendHeader, WriteError, WriteLocalYield, WriteFrame, TableFrame, ReadFrame, bufferVars
<1>3. PICK l, x, c : l = pc[t] /\ x = pc'[t] /\ c = call[t]
  OBVIOUS
<1>4. l \in PCs /\ x \in PCs /\ call'[t] = c /\ BufferFits(l, c) /\ Alike(c, c)
  <2>1. x \in PCs
    BY <1>0, <1>3 DEF Moves, CallFits
  <2>. QED  BY <1>0, <1>2, <1>3, <2>1 DEF Alike
<1>5. CASE TakeAllow(t) \/ LockAllow(t) \/ ReceiveAllow(t) \/ AllowError(t) \/ LockWrite(t) \/ SendHeader(t) \/ WriteError(t)
  <2>1. l \in Writing /\ x \in Writing \ {"write local", "publish"}
    BY <1>0, <1>3, <1>5 DEF TakeAllow, LockAllow, ReceiveAllow, AllowError, LockWrite, SendHeader, WriteError, Goto,
      Writing, RemoteWrites
  <2>2. BufferFits(x, c) /\ ~Filling(x, c) /\ ~Taking(x, c)
    BY <1>4, <2>1, BufferPlaces
  <2>. QED  BY <1>0, <1>1, <1>2, <1>3, <1>4, <2>2, NoneKeeps
<1>6. CASE LockRead(t) \/ CheckChannel(t) \/ SetChannel(t) \/ SendAllow(t) \/ Drop(t) \/ ReleaseChannel(t)
  <2>1. \/ /\ l \in {"lock", "check", "set", "allow", "locked", "header", "drop"}
           /\ x \in {"lock", "locked", "set", "allow", "header", "drop", "release"}
        \/ l = "release" /\ x = "exit"
    BY <1>0, <1>3, <1>6 DEF LockRead, CheckChannel, SetChannel, SendAllow, Drop, ReleaseChannel, Goto
  <2>2. BufferFits(x, c) /\ ~Filling(x, c) /\ ~Taking(x, c)
    BY <1>4, <2>1, BufferPlaces
  <2>. QED  BY <1>0, <1>1, <1>2, <1>3, <1>4, <2>2, NoneKeeps
<1>7. CASE Relock(t)
  <2>1. l = "relock" /\ x \in {"finish", "piece"}
    BY <1>0, <1>3, <1>7 DEF Relock, Goto, AfterPiece
  <2>2. BufferFits(x, c) /\ Filling(l, c) /\ ~Taking(x, c) /\ x \notin Writing
    BY <1>4, <2>1, BufferPlaces DEF Writing, RemoteWrites
  <2>3. pool[NodeOf[t]][c.buf].data # <<>>
    BY <1>3, <2>1, <2>2 DEF Buffers, FillFits, Fills
  <2>. QED  BY <1>0, <1>1, <1>2, <1>3, <1>4, <2>2, <2>3, PassKeeps
<1>8. CASE Exit(t)
  <2>1. l = "exit" /\ x \in {"again", "read end"} /\ (x = "read end" => c.ret # "partial")
    BY <1>0, <1>3, <1>8 DEF Exit, Goto
  <2>2. BufferFits(x, c) /\ ~Filling(x, c) /\ (Taking(x, c) => Taking(l, c))
    BY <1>4, <2>1, BufferPlaces
  <2>. QED  BY <1>0, <1>1, <1>2, <1>3, <1>4, <2>2, PassKeeps
<1>9. CASE WriteLocalYield(t)
  <2>1. x = l /\ l = "write local"
    BY <1>3, <1>9 DEF WriteLocalYield
  <2>2. Filling(l, c) => pool[NodeOf[t]][c.buf].data # <<>>
    BY <1>3, <2>1 DEF Buffers, FillFits, Fills
  <2>. QED  BY <1>0, <1>1, <1>2, <1>3, <1>4, <2>1, <2>2, PassKeeps
<1>. QED  BY <1>5, <1>6, <1>7, <1>8, <1>9 DEF Passing

\* A new call, or none, is at no buffer.
AtNone(x, d) == ~Filling(x, d) /\ ~Taking(x, d) /\ BufferFits(x, d)

LEMMA NoCallAtNone == AtNone("idle", NoCall)
BY DEF AtNone, NoCall, Filling, Taking, BufferFits, Keeping, Reading, RemoteReads, Channels

NewRead(d, p, f, s) == d = [NoCall EXCEPT !.port = p, !.size = s, !.left = s, !.from = f]
NewWrite(d, q, k, s) == d = [NoCall EXCEPT !.port = q, !.size = s, !.left = s, !.msg = k]

LEMMA ReadAtNone ==
    ASSUME NEW p, NEW f, NEW s \in Nat, NEW d, NewRead(d, p, f, s), NEW x \in {"read local", "again"}
    PROVE  AtNone(x, d)
<1>1. d.buf = NoBuffer /\ d.buffering = FALSE /\ d.left = s /\ d.size = s
  BY DEF NoCall, NewRead
<1>. QED  BY <1>1 DEF AtNone, Filling, Taking, BufferFits, Keeping, Reading, RemoteReads, Channels

LEMMA WriteAtNone ==
    ASSUME NEW q, NEW k, NEW s, NEW d, NewWrite(d, q, k, s), NEW x \in {"write local", "wait allow"}
    PROVE  AtNone(x, d)
<1>1. d.buf = NoBuffer /\ d.buffering = FALSE
  BY DEF NoCall, NewWrite
<1>. QED  BY <1>1 DEF AtNone, Filling, Taking, BufferFits, Keeping, Reading, RemoteReads, Channels

LEMMA BufferTable ==
    ASSUME PortalsFit, Buffers, NEW t \in Thread, TableStep(t), Moves(t)
    PROVE  Buffers'
<1>0. pc \in [Thread -> PCs] /\ call = [u \in Thread |-> call[u]] /\ BufferFits(pc[t], call[t]) /\ log \in Seq(Entry)
  BY DEF PortalsFit, CallsFit, TablesFit, Buffers
<1>1. pool' = pool /\ age' = age
  BY Frames DEF TableFrame, bufferVars
<1>2. CASE ReadEnd(t) \/ WriteEnd(t)
  <2>1. pc'[t] = "idle" /\ call'[t] = NoCall /\ log' = log
    BY <1>0, <1>2 DEF ReadEnd, WriteEnd, Goto, historyVars
  <2>2. ~Filling("idle", NoCall) /\ ~Taking("idle", NoCall) /\ BufferFits("idle", NoCall)
    BY NoCallAtNone DEF AtNone
  <2>. QED  BY <1>1, <2>1, <2>2, NoneKeeps
<1>3. CASE \E p \in Port, s \in Nat : ReadBegin(t, p, s)
  <2>1. PICK p \in Port, s \in Nat : ReadBegin(t, p, s)
    BY <1>3
  <2>2. PICK f : f = allowed[NodeOf[t]][p]
    OBVIOUS
  <2>3. PICK d : d = [NoCall EXCEPT !.port = p, !.size = s, !.left = s, !.from = f]
    OBVIOUS
  <2>4. call' = [call EXCEPT ![t] = d] /\ log' = log /\ \E x \in {"read local", "again"} : pc' = [pc EXCEPT ![t] = x]
    BY <2>1, <2>2, <2>3 DEF ReadBegin, Goto, historyVars
  <2>5. call'[t] = d /\ pc'[t] \in {"read local", "again"}
    BY <1>0, <2>4
  <2>6. \A x \in {"read local", "again"} : ~Filling(x, d) /\ ~Taking(x, d) /\ BufferFits(x, d)
    <3>1. NewRead(d, p, f, s)
      BY <2>3 DEF NewRead
    <3>2. \A x \in {"read local", "again"} : AtNone(x, d)
      BY <3>1, ReadAtNone
    <3>. QED  BY <3>2 DEF AtNone
  <2>. QED  BY <1>1, <2>4, <2>5, <2>6, NoneKeeps
<1>4. CASE \E q \in Peer, s \in Nat \ {0} : WriteBegin(t, q, s)
  <2>1. PICK q \in Peer, s \in Nat \ {0} : WriteBegin(t, q, s)
    BY <1>4
  <2>2. PICK k : k = Len(log) + 1
    OBVIOUS
  <2>3. PICK d, e : /\ d = [NoCall EXCEPT !.port = q, !.size = s, !.left = s, !.msg = k]
                    /\ e = [from |-> <<NodeOf[t], q[2]>>, to |-> <<q[1], output[NodeOf[t]][q]>>, size |-> s]
    OBVIOUS
  <2>4. call' = [call EXCEPT ![t] = d] /\ log' = Append(log, e) /\ \E x \in {"write local", "wait allow"} : pc' = [pc EXCEPT ![t] = x]
    BY <2>1, <2>2, <2>3 DEF WriteBegin, Goto
  <2>5. call'[t] = d /\ pc'[t] \in {"write local", "wait allow"}
    BY <1>0, <2>4
  <2>6. \A x \in {"write local", "wait allow"} : ~Filling(x, d) /\ ~Taking(x, d) /\ BufferFits(x, d)
    <3>1. NewWrite(d, q, k, s)
      BY <2>3 DEF NewWrite
    <3>2. \A x \in {"write local", "wait allow"} : AtNone(x, d)
      BY <3>1, WriteAtNone
    <3>. QED  BY <3>2 DEF AtNone
  <2>7. \A i \in 1 .. Len(log) : log'[i] = log[i]
    <3>0. NodeOf[t] \in Node /\ q[1] \in Node /\ q[2] \in Port
      BY Consts, PeerIs
    <3>1. PICK p : p = output[NodeOf[t]][q]
      OBVIOUS
    <3>2. p \in Port
      <4>1. p \in Port \cup {None}
        BY <3>0, <3>1 DEF PortalsFit, TablesFit
      <4>2. p # None
        BY <2>1, <3>1 DEF WriteBegin
      <4>. QED  BY <4>1, <4>2
    <3>3. e \in Entry
      BY <2>3, <3>0, <3>1, <3>2 DEF Entry, Peer
    <3>4. log' = Append(log, e)
      BY <2>4
    <3>. QED  BY <1>0, <3>3, <3>4, AppendFits
  <2>. QED  BY <1>1, <2>5, <2>6, <2>7, NoneKeeps
<1>5. CASE \E p, q, m : Create(t, p) \/ Unlink(t, p) \/ Allow(t, p, q) \/ Open(t, m, p) \/ Close(t, q)
  <2>1. pc' = pc /\ call' = call /\ log' = log /\ pc[t] = "idle"
    BY <1>5 DEF Create, Unlink, Allow, Open, Close, historyVars
  <2>2. call[t] = NoCall
    BY <2>1 DEF PortalsFit, CallsFit, CallFits
  <2>3. ~Filling("idle", NoCall) /\ ~Taking("idle", NoCall) /\ BufferFits("idle", NoCall)
    BY NoCallAtNone DEF AtNone
  <2>. QED  BY <1>1, <2>1, <2>2, <2>3, NoneKeeps
<1>. QED  BY <1>2, <1>3, <1>4, <1>5 DEF TableStep

-----------------------------------------------------------------------------
(* The fields of a call that a step changes.                               *)

Same(c, d) == d.port = c.port /\ d.from = c.from /\ d.msg = c.msg /\ d.size = c.size /\ d.header = c.header

LEMMA OneParts ==
    ASSUME NEW c, IsCall(c), NEW a, NEW d
    PROVE  /\ d = [c EXCEPT !.buf = a] => Same(c, d) /\ d.buffering = c.buffering /\ d.left = c.left /\ d.buf = a
           /\ d = [c EXCEPT !.ret = a] =>
                Same(c, d) /\ d.buffering = c.buffering /\ d.left = c.left /\ d.buf = c.buf /\ d.ret = a
           /\ d = [c EXCEPT !.left = a] => Same(c, d) /\ d.buffering = c.buffering /\ d.left = a /\ d.buf = c.buf
           /\ d = [c EXCEPT !.header = a] =>
                Alike(c, d) /\ d.header = a /\ d.buffering = c.buffering /\ d.left = c.left /\ d.buf = c.buf
BY DEF IsCall, Same, Alike

-----------------------------------------------------------------------------
(* Steps after which a thread is at no buffer.                             *)

LEMMA AtNoneKeeps ==
    ASSUME PortalsFit, Buffers, NEW t \in Thread, Moves(t), LocalStep(t) \/ ReadStep(t) \/ WriteStep(t),
           UNCHANGED <<log, pool, age>>, NEW x, NEW d, pc' = [pc EXCEPT ![t] = x], call' = [call EXCEPT ![t] = d],
           AtNone(x, d)
    PROVE  Buffers'
<1>1. pc'[t] = x /\ call'[t] = d
  BY DEF PortalsFit, CallsFit
<1>. QED  BY <1>1, NoneKeeps DEF AtNone

\* A place at which no buffer is held.
Bare == {"lock", "locked", "check", "set", "allow", "header", "drop", "read end"}

ReadsWith(c) == c.buffering \in BOOLEAN /\ c.buf \in Buffer \cup {NoBuffer} /\ c.left \in Nat /\ c.size \in Nat

LEMMA BareIs ==
    ASSUME NEW c, NEW x, ReadsWith(c)
    PROVE  /\ x \in {"release", "panic", "piece", "finish"} /\ ~c.buffering /\ c.buf = NoBuffer => AtNone(x, c)
           /\ x \in {"release", "panic", "exit"} /\ c.buffering => AtNone(x, c)
           /\ x \in {"again", "exit", "read end"} \cup Bare /\ ~c.buffering /\ c.buf = NoBuffer => AtNone(x, c)
           /\ x = "validate" /\ ~c.buffering /\ c.buf = NoBuffer /\ c.header \in Header => AtNone(x, c)
           /\ x = "alloc" /\ c.buffering /\ c.buf = NoBuffer /\ c.header \in Header => AtNone(x, c)
BY DEF ReadsWith, AtNone, BufferFits, Filling, Taking, Keeping, Bare, Reading, RemoteReads, Channels

LEMMA BufferBare ==
    ASSUME PortalsFit, Buffers, NEW t \in Thread, Moves(t),
           Again(t) \/ ReadHeader(t) \/ Validate(t) \/ ReadPiece(t) \/ ReadError(t)
    PROVE  Buffers'
<1>0. /\ pc \in [Thread -> PCs] /\ call = [u \in Thread |-> call[u]] /\ BufferFits(pc[t], call[t]) /\ IsCall(call[t])
  BY DEF PortalsFit, CallsFit, CallFits, Buffers
<1>1. ReadStep(t) /\ pc[t] \in Reading /\ pc[t] \in RemoteReads
  BY Frames DEF ReadStep, Reading
<1>2. UNCHANGED <<log, pool, age>>
  BY DEF Again, ReadHeader, Validate, ReadPiece, ReadError, TableFrame, WriteFrame, bufferVars, historyVars
<1>3. PICK c : c = call[t]
  OBVIOUS
<1>4. IsCall(c) /\ ReadsWith(c)
  BY <1>0, <1>1, <1>3 DEF BufferFits, ReadsWith
<1>5. /\ pc[t] \in {"allow", "header", "validate", "drop"} => ~c.buffering /\ c.buf = NoBuffer
      /\ pc[t] = "piece" /\ ~c.buffering => c.buf = NoBuffer
      /\ pc[t] = "validate" => c.header \in Header
  BY <1>0, <1>3 DEF BufferFits, Keeping, Reading, RemoteReads, Channels
<1>6. CASE Again(t)
  <2>1. PICK d : d = [c EXCEPT !.buf = NoBuffer, !.valid = TRUE, !.buffering = FALSE, !.left = c.size]
    OBVIOUS
  <2>2. pc[t] = "again" /\ UNCHANGED pc /\ call' = [call EXCEPT ![t] = d]
    BY <1>3, <1>6, <2>1 DEF Again
  <2>3. Same(c, d) /\ d.buffering = FALSE /\ d.left = c.size /\ d.buf = NoBuffer
    BY <1>4, <2>1 DEF IsCall, Same
  <2>4. AtNone("again", d)
    <3>1. ReadsWith(d)
      BY <1>4, <2>3 DEF Same, ReadsWith
    <3>. QED  BY <2>3, <3>1, BareIs
  <2>5. pc' = [pc EXCEPT ![t] = "again"]
    BY <1>0, <2>2
  <2>. QED  BY <1>1, <1>2, <2>2, <2>4, <2>5, AtNoneKeeps
<1>7. CASE ReadHeader(t)
  <2>1. PICK m : m = Head(Incoming(t))
    OBVIOUS
  <2>2. pc[t] = "header" /\ Incoming(t) # <<>>
    BY <1>7 DEF ReadHeader
  <2>3. m \in Header \cup Piece
    BY <1>1, <2>1, <2>2, RemoteFits, HeadFits
  <2>4. \/ pc' = [pc EXCEPT ![t] = "panic"] /\ UNCHANGED call
        \/ pc' = [pc EXCEPT ![t] = "validate"] /\ \E h \in Header : call' = [call EXCEPT ![t].header = h]
    <3>1. \/ pc' = [pc EXCEPT ![t] = "panic"] /\ UNCHANGED call
          \/ /\ pc' = [pc EXCEPT ![t] = "validate"]
             /\ \E h \in IF IsHeader(m) THEN {m} ELSE Header : call' = [call EXCEPT ![t].header = h]
      BY <1>7, <2>1, Zenon DEF ReadHeader, Goto, Header
    <3>. QED  BY <2>3, <3>1, Kinds
  <2>5. CASE pc' = [pc EXCEPT ![t] = "panic"] /\ UNCHANGED call
    <3>1. call' = [call EXCEPT ![t] = c]
      BY <1>0, <1>3, <2>5
    <3>2. AtNone("panic", c)
      BY <1>4, <1>5, <2>2, BareIs
    <3>. QED  BY <1>1, <1>2, <2>5, <3>1, <3>2, AtNoneKeeps
  <2>6. CASE pc' = [pc EXCEPT ![t] = "validate"] /\ \E h \in Header : call' = [call EXCEPT ![t].header = h]
    <3>1. PICK h \in Header : call' = [call EXCEPT ![t].header = h]
      BY <2>6
    <3>2. PICK d : d = [c EXCEPT !.header = h]
      OBVIOUS
    <3>3. call' = [call EXCEPT ![t] = d]
      BY <1>3, <3>1, <3>2
    <3>4. Alike(c, d) /\ d.header = h /\ d.buffering = c.buffering /\ d.left = c.left /\ d.buf = c.buf
      BY <1>4, <3>2, OneParts
    <3>5. AtNone("validate", d)
      <4>1. ReadsWith(d)
        BY <1>4, <3>4 DEF Alike, ReadsWith
      <4>2. ~d.buffering /\ d.buf = NoBuffer /\ d.header \in Header
        BY <1>5, <2>2, <3>1, <3>4
      <4>. QED  BY <4>1, <4>2, BareIs
    <3>. QED  BY <1>1, <1>2, <2>6, <3>3, <3>5, AtNoneKeeps
  <2>. QED  BY <2>4, <2>5, <2>6
<1>8. CASE Validate(t)
  <2>1. PICK v, b, e :
          /\ v = (c.header.to \in created[NodeOf[t]])
          /\ b = (IF v THEN c.header.from[2] # c.from[2] ELSE c.buffering)
          /\ e = (IF v THEN c.ret ELSE "partial")
    OBVIOUS
  <2>2. PICK d : d = [c EXCEPT !.valid = v, !.received = 0, !.buffering = b, !.ret = e]
    OBVIOUS
  <2>3. pc[t] = "validate" /\ call' = [call EXCEPT ![t] = d]
    BY <1>3, <1>8, <2>1, <2>2 DEF Validate
  <2>4. PICK x : pc' = [pc EXCEPT ![t] = x] /\ x = IF ~v THEN "drop" ELSE IF c.header.from[2] # c.from[2] THEN "alloc" ELSE "piece"
    BY <1>3, <1>8, <2>1 DEF Validate, Goto
  <2>5. Same(c, d) /\ d.buffering = b /\ d.left = c.left /\ d.buf = c.buf
    BY <1>4, <2>2 DEF IsCall, Same
  <2>6. AtNone(x, d)
    <3>0. b \in BOOLEAN
      BY <1>4, <2>1 DEF ReadsWith
    <3>1. ReadsWith(d) /\ d.buf = NoBuffer /\ d.header \in Header
      BY <1>4, <1>5, <2>3, <2>5, <3>0 DEF Same, ReadsWith
    <3>2. (x \in {"drop", "piece"} /\ ~b) \/ (x = "alloc" /\ b)
      <4>1. CASE v
        BY <2>1, <2>4, <4>1
      <4>2. CASE ~v
        BY <1>5, <2>1, <2>3, <2>4, <4>2
      <4>. QED  BY <4>1, <4>2
    <3>3. /\ x = "drop" /\ ~d.buffering => AtNone(x, d)
          /\ x = "piece" /\ ~d.buffering => AtNone(x, d)
          /\ x = "alloc" /\ d.buffering => AtNone(x, d)
      BY <3>1, BareIs DEF Bare
    <3>. QED  BY <2>5, <3>2, <3>3
  <2>. QED  BY <1>1, <1>2, <2>3, <2>4, <2>6, AtNoneKeeps
<1>9. CASE ReadPiece(t)
  <2>1. PICK m, g, k : m = Head(Incoming(t)) /\ g = Append(c.got, m.unit) /\ k = c.received + 1
    OBVIOUS
  <2>2. pc[t] = "piece" /\ ~c.buffering
    BY <1>3, <1>9 DEF ReadPiece
  <2>3. PICK a, b : a = [c EXCEPT !.got = g, !.received = k] /\ b = [c EXCEPT !.ret = "invalid"]
    OBVIOUS
  <2>4. \/ call' = [call EXCEPT ![t] = c] /\ pc' = [pc EXCEPT ![t] = "panic"]
        \/ call' = [call EXCEPT ![t] = a] /\ pc' = [pc EXCEPT ![t] = IF m.eof THEN "finish" ELSE "piece"]
        \/ call' = [call EXCEPT ![t] = b] /\ pc' = [pc EXCEPT ![t] = "drop"]
    BY <1>0, <1>3, <1>9, <2>1, <2>3 DEF ReadPiece, Goto, AfterPiece
  <2>5. /\ Same(c, a) /\ a.buffering = c.buffering /\ a.left = c.left /\ a.buf = c.buf
        /\ Same(c, b) /\ b.buffering = c.buffering /\ b.left = c.left /\ b.buf = c.buf
    BY <1>4, <2>3 DEF IsCall, Same
  <2>6. AtNone("panic", c) /\ AtNone("finish", a) /\ AtNone("piece", a) /\ AtNone("drop", b)
    <3>1. ReadsWith(a) /\ ReadsWith(b)
      BY <1>4, <2>5 DEF Same, ReadsWith
    <3>2. c.buf = NoBuffer
      BY <1>5, <2>2
    <3>. QED  BY <1>4, <2>2, <2>5, <3>1, <3>2, BareIs DEF Bare
  <2>7. PICK x, d : call' = [call EXCEPT ![t] = d] /\ pc' = [pc EXCEPT ![t] = x] /\ AtNone(x, d)
    BY <2>4, <2>6
  <2>. QED  BY <1>1, <1>2, <2>7, AtNoneKeeps
<1>10. CASE ReadError(t)
  <2>1. PICK e : call' = [call EXCEPT ![t].ret = e] /\ pc' = [pc EXCEPT ![t] = "release"]
    BY <1>10, Zenon DEF ReadError, Goto
  <2>2. pc[t] \in {"allow", "header", "piece", "drop"}
    BY <1>10 DEF ReadError
  <2>3. PICK d : d = [c EXCEPT !.ret = e]
    OBVIOUS
  <2>4. call' = [call EXCEPT ![t] = d]
    BY <1>3, <2>1, <2>3
  <2>5. Same(c, d) /\ d.buffering = c.buffering /\ d.left = c.left /\ d.buf = c.buf
    BY <1>4, <2>3, OneParts
  <2>6. AtNone("release", d)
    <3>1. d.buffering \/ (~d.buffering /\ d.buf = NoBuffer)
      BY <1>5, <2>2, <2>5
    <3>2. ReadsWith(d)
      BY <1>4, <2>5 DEF Same, ReadsWith
    <3>. QED  BY <3>1, <3>2, BareIs
  <2>. QED  BY <1>1, <1>2, <2>1, <2>4, <2>6, AtNoneKeeps
<1>. QED  BY <1>6, <1>7, <1>8, <1>9, <1>10

LEMMA BufferSend ==
    ASSUME PortalsFit, Buffers, NEW t \in Thread, Moves(t), SendPiece(t)
    PROVE  Buffers'
<1>0. /\ pc \in [Thread -> PCs] /\ call = [u \in Thread |-> call[u]] /\ BufferFits(pc[t], call[t]) /\ IsCall(call[t])
  BY DEF PortalsFit, CallsFit, CallFits, Buffers
<1>1. WriteStep(t) /\ pc[t] = "send" /\ UNCHANGED <<log, pool, age>>
  BY DEF WriteStep, SendPiece, WriteFrame, bufferVars, historyVars
<1>2. PICK c : c = call[t]
  OBVIOUS
<1>3. PICK d : d = [c EXCEPT !.left = c.left - 1]
  OBVIOUS
<1>4. call' = [call EXCEPT ![t] = d]
  BY <1>2, <1>3 DEF SendPiece
<1>5. Same(c, d) /\ d.buffering = c.buffering /\ d.buf = c.buf
  BY <1>0, <1>2, <1>3, OneParts
<1>6. PICK x \in {"send", "write end"} : pc' = [pc EXCEPT ![t] = x]
  <2>1. pc' = [pc EXCEPT ![t] = "send"] \/ pc' = [pc EXCEPT ![t] = "write end"]
    BY <1>0, <1>1 DEF SendPiece, Goto
  <2>. QED  BY <2>1
<1>7. AtNone(x, d)
  BY <1>0, <1>1, <1>2, <1>5 DEF AtNone, BufferFits, Filling, Taking, Keeping, Reading, RemoteReads, Channels
<1>. QED  BY <1>1, <1>4, <1>6, <1>7, AtNoneKeeps

-----------------------------------------------------------------------------
(* Steps that change the buffers.                                          *)

\* The buffer at which a thread is.
LEMMA BufferOf ==
    ASSUME PortalsFit, Buffers, NEW u \in Thread, NEW p, p = pool[NodeOf[u]], NEW b, b = call[u].buf
    PROVE  /\ Sane(p) /\ p \in Pool
           /\ Fills(u) => b \in Buffer /\ IsUsed(p, b) /\ p[b].busy
           /\ Takes(u) => b \in Buffer /\ IsUsed(p, b) /\ ~p[b].busy /\ First(p, b) /\ pc[u] \in Reading
                          /\ p[b].from = call[u].from /\ p[b].to = call[u].port
<1>1. NodeOf[u] \in Node /\ BufferFits(pc[u], call[u]) /\ FillFits(u) /\ TakeFits(u)
  BY Consts DEF Buffers
<1>2. Sane(p) /\ p \in Pool
  BY <1>1 DEF Buffers, PoolFits, Sane
<1>3. Fills(u) \/ Takes(u) => b \in Buffer
  BY <1>1 DEF BufferFits, Fills, Filling, Takes, Taking
<1>4. Fills(u) => IsUsed(p, b) /\ p[b].busy
  BY <1>1 DEF FillFits, IsUsed
<1>5. Takes(u) => p[b].from = call[u].from /\ p[b].to = call[u].port /\ ~p[b].busy /\ First(p, b)
  BY <1>1 DEF TakeFits
<1>6. Takes(u) => pc[u] \in Reading
  BY DEF Takes, Taking, Reading, RemoteReads
<1>7. Takes(u) => IsUsed(p, b)
  <2>1. Takes(u) => call[u].from \in Peer
    BY <1>6 DEF PortalsFit, CallsFit, CallFits
  <2>. QED  BY <1>5, <2>1, Consts DEF IsUsed
<1>. QED  BY <1>2, <1>3, <1>4, <1>5, <1>6, <1>7

\* t changes the buffer that it fills.
LEMMA OwnSpares ==
    ASSUME PortalsFit, Buffers, NEW t \in Thread, Fills(t), NEW p, p = pool[NodeOf[t]], NEW q,
           \A c \in Buffer : c # call[t].buf => q[c] = p[c],
           \A c \in Buffer : First(p, c) => First(q, c)
    PROVE  Spares(t, q)
<1>1. p[call[t].buf].busy
  BY BufferOf
<1>2. ASSUME NEW u \in Thread \ {t}, NodeOf[u] = NodeOf[t]
      PROVE  /\ Fills(u) \/ Takes(u) => q[call[u].buf] = p[call[u].buf]
             /\ Takes(u) => First(q, call[u].buf)
  <2>1. /\ Fills(u) => call[u].buf \in Buffer
        /\ Takes(u) => call[u].buf \in Buffer /\ ~p[call[u].buf].busy /\ First(p, call[u].buf)
    BY <1>2, BufferOf
  <2>2. Fills(u) => call[u].buf # call[t].buf
    BY <1>2 DEF Buffers, FillersApart
  <2>. QED  BY <1>1, <2>1, <2>2
<1>. QED  BY <1>2 DEF Spares

\* t is done with the buffer that it fills.
LEMMA LeaveStep ==
    ASSUME PortalsFit, Buffers, NEW t \in Thread, Moves(t), LocalStep(t) \/ ReadStep(t) \/ WriteStep(t),
           Fills(t), pool[NodeOf[t]][call[t].buf].data # <<>>,
           pool' = [pool EXCEPT ![NodeOf[t]] = SetAvailable(@, call[t].buf)], age' = age, log' = log,
           AtNone(pc'[t], call'[t])
    PROVE  Buffers'
<1>1. PICK p, b, q : p = pool[NodeOf[t]] /\ b = call[t].buf /\ q = SetAvailable(p, b)
  OBVIOUS
<1>2. Sane(p) /\ b \in Buffer /\ IsUsed(p, b) /\ p[b].busy /\ p[b].data # <<>>
  BY <1>1, BufferOf
<1>3. /\ Sane(q)
      /\ \A c \in Buffer : c # b => q[c] = p[c]
      /\ \A c \in Buffer : First(p, c) => First(q, c)
  <2>1. OthersStay(q, p, b)
    BY <1>1, <1>2, AvailableKeeps
  <2>. QED  BY <2>1 DEF OthersStay
<1>4. Spares(t, q)
  BY <1>1, <1>3, OwnSpares
<1>5. pool' = [pool EXCEPT ![NodeOf[t]] = q] /\ age' \in [Node -> Nat] /\ \A k \in 1 .. Len(log) : log'[k] = log[k]
  BY <1>1 DEF Buffers, PoolFits
<1>6. ~Fills(t)' /\ ~Takes(t)' /\ BufferFits(pc'[t], call'[t])
  BY DEF AtNone, Fills, Takes
<1>7. OwnBuffer(t) /\ FillFits(t)' /\ TakeFits(t)'
  BY <1>6 DEF OwnBuffer, FillFits, TakeFits
<1>. QED  BY <1>3, <1>4, <1>5, <1>6, <1>7, NodeStep

\* t takes a free buffer, after the one that it has filled.
Takings(t, previous, from, to, d) ==
    /\ from \in Peer /\ to \in Port /\ d \in Seq(Unit) /\ Len(d) <= MPORTAL_BUFFER_SIZE
    /\ previous # NoBuffer => Fills(t) /\ call[t].buf = previous /\ d # <<>>
    /\ GoesOn(pool[NodeOf[t]], previous, from, to) /\ FreeBuffers(pool[NodeOf[t]]) # {}
    /\ pool' = [pool EXCEPT ![NodeOf[t]] = BufferAlloc(@, previous, from, to, age[NodeOf[t]], d)]
    /\ age' = [age EXCEPT ![NodeOf[t]] = @ + 1] /\ log' = log

TakingPlace(t, x, e, from, to, d) ==
    /\ e.buf = Min(FreeBuffers(pool[NodeOf[t]])) /\ ~Taking(x, e) /\ BufferFits(x, e)
    /\ x # "piece" => d # <<>>
    /\ x \in Writing => from = log[e.msg].from /\ to = log[e.msg].to[2]

LEMMA TakingStep ==
    ASSUME PortalsFit, Buffers, NEW t \in Thread, Moves(t), LocalStep(t) \/ ReadStep(t) \/ WriteStep(t),
           NEW previous, NEW from, NEW to, NEW d, Takings(t, previous, from, to, d),
           NEW x, NEW e, pc'[t] = x, call'[t] = e, TakingPlace(t, x, e, from, to, d)
    PROVE  Buffers'
<1>. /\ e.buf = Min(FreeBuffers(pool[NodeOf[t]])) /\ ~Taking(x, e) /\ BufferFits(x, e)
     /\ x # "piece" => d # <<>>
     /\ x \in Writing => from = log[e.msg].from /\ to = log[e.msg].to[2]
  BY DEF TakingPlace
<1>0. PICK o : o = NodeOf[t] /\ o \in Node
  BY Consts
<1>1. PICK p, q, new, a : p = pool[o] /\ new = Min(FreeBuffers(p)) /\ a = age[o] /\ q = BufferAlloc(p, previous, from, to, a, d)
  OBVIOUS
<1>2. Sane(p) /\ a \in Nat /\ age \in [Node -> Nat] /\ pool = [n \in Node |-> pool[n]]
  BY <1>0, <1>1 DEF Buffers, PoolFits
<1>3. /\ from \in Peer /\ to \in Port /\ d \in Seq(Unit) /\ Len(d) <= MPORTAL_BUFFER_SIZE
      /\ previous # NoBuffer => d # <<>>
      /\ GoesOn(p, previous, from, to) /\ FreeBuffers(p) # {}
  BY <1>0, <1>1 DEF Takings
<1>4. /\ Sane(q) /\ new \in Buffer /\ ~IsUsed(p, new) /\ new # previous
      /\ q[new].from = from /\ q[new].to = to /\ q[new].busy = TRUE /\ q[new].data = d
      /\ \A b \in Buffer : b # new /\ b # previous => q[b] = p[b]
      /\ \A b \in Buffer : b # new /\ First(p, b) => First(q, b)
  <2>1. Allocates(q, p, previous, from, to, d, new)
    BY <1>1, <1>2, <1>3, AllocKeeps
  <2>. QED  BY <2>1 DEF Allocates
<1>5. pool' = [pool EXCEPT ![o] = q] /\ age' \in [Node -> Nat] /\ log' = log
  <2>1. pool' = [pool EXCEPT ![o] = BufferAlloc(@, previous, from, to, age[o], d)]
    BY <1>0 DEF Takings
  <2>2. pool' = [pool EXCEPT ![o] = q]
    BY <1>1, <2>1
  <2>3. age' = [age EXCEPT ![o] = @ + 1] /\ log' = log
    BY <1>0 DEF Takings
  <2>. QED  BY <1>0, <1>2, <2>2, <2>3
<1>6. ASSUME NEW u \in Thread \ {t}, NodeOf[u] = o
      PROVE  /\ Fills(u) \/ Takes(u) => call[u].buf \in Buffer /\ call[u].buf # new /\ call[u].buf # previous
             /\ Takes(u) => First(p, call[u].buf)
  <2>1. /\ Fills(u) => call[u].buf \in Buffer /\ IsUsed(p, call[u].buf)
        /\ Takes(u) => call[u].buf \in Buffer /\ IsUsed(p, call[u].buf) /\ ~p[call[u].buf].busy /\ First(p, call[u].buf)
    BY <1>1, <1>6, BufferOf
  <2>2. Fills(u) => call[u].buf # previous
    <3>1. previous # NoBuffer => Fills(t) /\ call[t].buf = previous
      BY DEF Takings
    <3>. QED  BY <1>0, <1>6, <2>1, <3>1, BuffersFinite DEF Buffers, FillersApart
  <2>3. Takes(u) => call[u].buf # previous
    BY <1>3, <2>1, BuffersFinite DEF GoesOn
  <2>. QED  BY <1>4, <2>1, <2>2, <2>3
<1>7. Spares(t, q)
  BY <1>0, <1>1, <1>4, <1>6 DEF Spares
<1>8. OwnBuffer(t)
  BY <1>0, <1>1, <1>6 DEF OwnBuffer
<1>9. FillFits(t)'
  <2>1. pool'[o] = q
    BY <1>0, <1>2, <1>5
  <2>2. q[new].from # None
    BY <1>3, <1>4, Consts
  <2>. QED  BY <1>0, <1>1, <1>4, <1>5, <2>1, <2>2 DEF FillFits, Config
<1>10. TakeFits(t)'
  BY DEF TakeFits, Takes
<1>. QED  BY <1>0, <1>4, <1>5, <1>7, <1>8, <1>9, <1>10, NodeStep

-----------------------------------------------------------------------------
(* One action after the other.                                             *)

LEMMA PartFits ==
    ASSUME NEW a \in Nat, NEW b \in 1 .. a
    PROVE  a - b \in Nat /\ b \in Nat \ {0}
OBVIOUS

LEMMA IndexFits == ASSUME NEW a \in Nat, NEW b \in 1 .. a PROVE b \in Nat
OBVIOUS

\* What WriteLocal puts into a buffer.
PartIs(d, t, w, k) == call[t].msg \in Nat /\ w \in Nat /\ k \in Nat \ {0} /\ d = Units(t, w + 1, w + k)

LEMMA UnitsFit ==
    ASSUME NEW t, NEW w, NEW k, NEW d, PartIs(d, t, w, k)
    PROVE  d \in Seq(Unit) /\ Len(d) = k /\ d # <<>>
<1>. call[t].msg \in Nat /\ w \in Nat /\ k \in Nat \ {0} /\ d = Units(t, w + 1, w + k)
  BY DEF PartIs
<1>0. PICK m : m = call[t].msg /\ m \in Nat
  OBVIOUS
<1>1. (w + k) - (w + 1) + 1 = k
  OBVIOUS
<1>2. d = [i \in 1 .. k |-> <<m, (w + 1) + i - 1>>]
  BY <1>0, <1>1, Zenon DEF Units
<1>3. ASSUME NEW i \in 1 .. k PROVE <<m, (w + 1) + i - 1>> \in Unit
  <2>1. (w + 1) + i - 1 \in Nat
    OBVIOUS
  <2>. QED  BY <1>0, <2>1 DEF Unit
<1>4. PICK g : g = [i \in 1 .. k |-> <<m, (w + 1) + i - 1>>]
  OBVIOUS
<1>5. g \in [1 .. k -> Unit]
  BY <1>3, <1>4
<1>6. [i \in 1 .. k |-> g[i]] \in Seq(Unit) /\ Len([i \in 1 .. k |-> g[i]]) = k
  BY <1>5
<1>7. d = [i \in 1 .. k |-> g[i]]
  BY <1>2, <1>4, <1>5
<1>. QED  BY <1>6, <1>7

LEMMA CallIs ==
    ASSUME PortalsFit, NEW t \in Thread
    PROVE  CallFits(pc[t], call[t], NodeOf[t], Len(log)) /\ Len(log) \in Nat
BY DEF PortalsFit, CallsFit, TablesFit

NextPart(d, t, k) == d = Units(t, Written(t) + 1, Written(t) + k)

LEMMA PartOfUnits ==
    ASSUME PortalsFit, NEW t \in Thread, pc[t] = "write local", NEW k \in Nat \ {0}, NEW d, NextPart(d, t, k)
    PROVE  d \in Seq(Unit) /\ Len(d) = k /\ d # <<>>
<1>0. "write local" \in Writing
  BY DEF Writing
<1>1. CallFits(pc[t], call[t], NodeOf[t], Len(log)) /\ Len(log) \in Nat
  BY CallIs, Zenon
<1>2. PICK m, w, a, b : m = call[t].msg /\ a = call[t].size /\ b = call[t].left /\ w = Written(t)
  OBVIOUS
<1>3. m \in 1 .. Len(log) /\ a \in Nat /\ b \in 1 .. a
  BY <1>0, <1>1, <1>2 DEF CallFits
<1>4. w = a - b
  BY <1>2 DEF Written
<1>5. m \in Nat /\ w \in Nat
  BY <1>1, <1>3, <1>4, PartFits, IndexFits, Zenon
<1>6. PartIs(d, t, w, k)
  BY <1>2, <1>5 DEF PartIs, NextPart
<1>. QED  BY <1>6, UnitsFit

LEMMA LocalSize ==
    ASSUME PortalsFit, NEW t \in Thread, pc[t] = "write local", NEW k, k = Min({call[t].left, MPORTAL_BUFFER_SIZE})
    PROVE  k \in Nat \ {0} /\ k <= MPORTAL_BUFFER_SIZE /\ k <= call[t].left
<1>0. PICK a, b : a = call[t].left /\ b = call[t].size
  OBVIOUS
<1>1. a \in 1 .. b /\ b \in Nat
  BY <1>0 DEF PortalsFit, CallsFit, CallFits
<1>2. MPORTAL_BUFFER_SIZE \in Nat \ {0} /\ a \in Nat \ {0}
  <2>1. MPORTAL_BUFFER_SIZE \in Nat \ {0}
    BY BufferAssumption
  <2>. QED  BY <1>1, <2>1, PartFits, Zenon
<1>3. PICK S : S = {a, MPORTAL_BUFFER_SIZE}
  OBVIOUS
<1>4. S \in SUBSET Nat /\ S # {}
  BY <1>2, <1>3
<1>5. Min(S) \in S /\ \A y \in S : Min(S) <= y
  BY <1>4, MinIs
<1>6. Min(S) \in Nat \ {0} /\ Min(S) <= MPORTAL_BUFFER_SIZE /\ Min(S) <= a
  BY <1>2, <1>3, <1>5
<1>7. k = Min(S)
  BY <1>0, <1>3
<1>. QED  BY <1>0, <1>6, <1>7

LEMMA LogFits ==
    ASSUME PortalsFit, NEW t \in Thread, pc[t] \in Writing
    PROVE  Config(t).from \in Peer /\ Config(t).to[2] \in Port /\ call[t].from = None
<1>1. call[t].msg \in 1 .. Len(log) /\ log \in Seq(Entry) /\ call[t].from = None
  BY DEF PortalsFit, CallsFit, CallFits, TablesFit
<1>2. log[call[t].msg] \in Entry
  BY <1>1
<1>. QED  BY <1>1, <1>2, PeerIs DEF Config, Entry

LEMMA BufferWrite ==
    ASSUME PortalsFit, Buffers, NEW t \in Thread, Moves(t), WriteLocal(t)
    PROVE  Buffers'
<1>0. /\ pc \in [Thread -> PCs] /\ call = [u \in Thread |-> call[u]] /\ BufferFits(pc[t], call[t]) /\ IsCall(call[t])
      /\ NodeOf[t] \in Node
  BY Consts DEF PortalsFit, CallsFit, CallFits, Buffers
<1>1. LocalStep(t) /\ pc[t] = "write local" /\ log' = log
  BY DEF LocalStep, WriteLocal, historyVars
<1>2. PICK c, n, k, new : c = call[t] /\ n = NodeOf[t] /\ k = Min({c.left, MPORTAL_BUFFER_SIZE}) /\ new = Min(FreeBuffers(pool[n]))
  OBVIOUS
<1>3. PICK from, to, d : from = Config(t).from /\ to = Config(t).to[2] /\ d = Units(t, Written(t) + 1, Written(t) + k)
  OBVIOUS
<1>4. /\ from \in Peer /\ to \in Port /\ d \in Seq(Unit) /\ Len(d) = k /\ d # <<>> /\ k <= MPORTAL_BUFFER_SIZE
  <2>1. k \in Nat \ {0} /\ k <= MPORTAL_BUFFER_SIZE
    BY <1>1, <1>2, LocalSize
  <2>2. pc[t] \in Writing
    BY <1>1 DEF Writing
  <2>3. NextPart(d, t, k)
    BY <1>3 DEF NextPart
  <2>4. d \in Seq(Unit) /\ Len(d) = k /\ d # <<>>
    BY <1>1, <2>1, <2>3, PartOfUnits
  <2>. QED  BY <1>3, <2>1, <2>2, <2>4, LogFits
<1>5. FreeBuffers(pool[n]) # {} /\ new \in Buffer
  <2>1. FreeBuffers(pool[n]) # {}
    BY <1>2 DEF WriteLocal
  <2>. QED  BY <1>2, <2>1, FreeIs
<1>6. PICK e : e = [c EXCEPT !.buf = new, !.left = c.left - k]
  OBVIOUS
<1>7. PICK x \in {"publish", "write local"} : pc' = [pc EXCEPT ![t] = x]
  <2>1. pc' = [pc EXCEPT ![t] = "publish"] \/ pc' = [pc EXCEPT ![t] = "write local"]
    BY DEF WriteLocal, Goto
  <2>. QED  BY <2>1
<1>8. call' = [call EXCEPT ![t] = e]
  BY <1>2, <1>6 DEF WriteLocal
<1>9. pc'[t] = x /\ call'[t] = e
  BY <1>0, <1>7, <1>8
<1>10. Same(c, e) /\ e.buffering = c.buffering /\ e.buf = new
  BY <1>0, <1>2, <1>6 DEF IsCall, Same
<1>11. c.buf # NoBuffer => Fills(t)
  BY <1>1, <1>2 DEF Fills, Filling
<1>12. Takings(t, c.buf, from, to, d)
  <2>1. pool' = [pool EXCEPT ![n] = BufferAlloc(@, c.buf, from, to, age[n], d)] /\ age' = [age EXCEPT ![n] = @ + 1]
    BY <1>2, <1>3 DEF WriteLocal
  <2>2. GoesOn(pool[n], c.buf, from, to)
    <3>1. c.buf # NoBuffer =>
            LET b == pool[n][c.buf] IN b.from = from /\ b.to = to /\ b.busy /\ b.data # <<>>
      BY <1>1, <1>2, <1>3, <1>11 DEF Buffers, FillFits, Writing
    <3>2. c.buf \in Buffer \cup {NoBuffer}
      BY <1>0, <1>2 DEF BufferFits
    <3>. QED  BY <3>1, <3>2 DEF GoesOn
  <2>. QED  BY <1>1, <1>2, <1>4, <1>5, <1>11, <2>1, <2>2 DEF Takings
<1>13. ~Taking(x, e) /\ BufferFits(x, e) /\ x # "piece"
  BY <1>0, <1>1, <1>2, <1>5, <1>10, BuffersFinite DEF BufferFits, Taking, Keeping, Reading, RemoteReads, Channels
<1>14. from = log[e.msg].from /\ to = log[e.msg].to[2]
  BY <1>2, <1>3, <1>10 DEF Config, Same
<1>15. (x # "piece" => d # <<>>) /\ (x \in Writing => from = log[e.msg].from /\ to = log[e.msg].to[2])
  BY <1>4, <1>14
<1>16. pc'[t] = x /\ call'[t] = e /\ e.buf = Min(FreeBuffers(pool[NodeOf[t]])) /\ ~Taking(x, e) /\ BufferFits(x, e)
  BY <1>2, <1>9, <1>10, <1>13
<1>17. TakingPlace(t, x, e, from, to, d)
  BY <1>15, <1>16 DEF TakingPlace
<1>18. PICK previous : previous = c.buf
  OBVIOUS
<1>19. Takings(t, previous, from, to, d) /\ (LocalStep(t) \/ ReadStep(t) \/ WriteStep(t))
  BY <1>1, <1>12, <1>18
<1>. QED  BY <1>9, <1>17, <1>19, TakingStep

LEMMA BufferPublish ==
    ASSUME PortalsFit, Buffers, NEW t \in Thread, Moves(t), Publish(t)
    PROVE  Buffers'
<1>0. /\ pc \in [Thread -> PCs] /\ call = [u \in Thread |-> call[u]] /\ BufferFits(pc[t], call[t])
  BY DEF PortalsFit, CallsFit, Buffers
<1>1. /\ LocalStep(t) /\ pc[t] = "publish" /\ log' = log /\ age' = age /\ call' = call
      /\ pc' = [pc EXCEPT ![t] = "write end"]
      /\ pool' = [pool EXCEPT ![NodeOf[t]] = SetAvailable(@, call[t].buf)]
  BY DEF LocalStep, Publish, historyVars, Goto
<1>2. Fills(t) /\ pool[NodeOf[t]][call[t].buf].data # <<>>
  <2>1. Fills(t)
    BY <1>0, <1>1 DEF Fills, Filling, BufferFits
  <2>. QED  BY <1>1, <2>1 DEF Buffers, FillFits
<1>3. AtNone(pc'[t], call'[t])
  BY <1>0, <1>1 DEF AtNone, BufferFits, Filling, Taking, Keeping, Reading, RemoteReads, Channels
<1>. QED  BY <1>1, <1>2, <1>3, LeaveStep

LEMMA BufferAllocs ==
    ASSUME PortalsFit, Buffers, NEW t \in Thread, Moves(t), AllocFirst(t) \/ AllocNext(t)
    PROVE  Buffers'
<1>0. /\ pc \in [Thread -> PCs] /\ call = [u \in Thread |-> call[u]] /\ BufferFits(pc[t], call[t]) /\ IsCall(call[t])
      /\ NodeOf[t] \in Node
  BY Consts DEF PortalsFit, CallsFit, CallFits, Buffers
<1>1. ReadStep(t) /\ pc[t] \in {"alloc", "more"} /\ log' = log
  BY DEF ReadStep, AllocFirst, AllocNext, historyVars
<1>2. PICK c, n, new : c = call[t] /\ n = NodeOf[t] /\ new = Min(FreeBuffers(pool[n]))
  OBVIOUS
<1>3. FreeBuffers(pool[n]) # {} /\ new \in Buffer
  <2>1. FreeBuffers(pool[n]) # {}
    BY <1>2 DEF AllocFirst, AllocNext
  <2>. QED  BY <1>2, <2>1, FreeIs
<1>4. PICK e, x : e = [c EXCEPT !.buf = new] /\ x = IF pc[t] = "alloc" THEN "piece" ELSE "relock"
  OBVIOUS
<1>5. pc' = [pc EXCEPT ![t] = x] /\ call' = [call EXCEPT ![t] = e]
  BY <1>2, <1>4 DEF AllocFirst, AllocNext, Goto
<1>6. pc'[t] = x /\ call'[t] = e /\ x \in {"piece", "relock"}
  BY <1>0, <1>4, <1>5
<1>7. Same(c, e) /\ e.buffering = c.buffering /\ e.left = c.left /\ e.buf = new
  BY <1>0, <1>2, <1>4, OneParts
<1>8. ~Taking(x, e) /\ BufferFits(x, e) /\ x \notin Writing
  BY <1>0, <1>1, <1>2, <1>3, <1>6, <1>7, BuffersFinite
    DEF BufferFits, Taking, Keeping, Reading, RemoteReads, Channels, Same, Writing, RemoteWrites
<1>9. CASE AllocFirst(t)
  <2>1. pc[t] = "alloc" /\ x = "piece"
    BY <1>4, <1>9 DEF AllocFirst
  <2>2. c.header.from \in Peer /\ c.header.to \in Port
    BY <1>0, <1>2, <2>1 DEF BufferFits, Header
  <2>3. Takings(t, NoBuffer, c.header.from, c.header.to, <<>>)
    <3>1. /\ pool' = [pool EXCEPT ![n] = BufferAlloc(@, NoBuffer, c.header.from, c.header.to, age[n], <<>>)]
          /\ age' = [age EXCEPT ![n] = @ + 1]
      BY <1>2, <1>9 DEF AllocFirst
    <3>2. GoesOn(pool[n], NoBuffer, c.header.from, c.header.to)
      BY DEF GoesOn
    <3>3. <<>> \in Seq(Unit) /\ Len(<<>>) <= MPORTAL_BUFFER_SIZE
      BY BufferAssumption
    <3>. QED  BY <1>1, <1>2, <1>3, <2>2, <3>1, <3>2, <3>3 DEF Takings
  <2>. QED  BY <1>1, <1>2, <1>6, <1>7, <1>8, <2>1, <2>3, TakingStep DEF TakingPlace
<1>10. CASE AllocNext(t)
  <2>1. pc[t] = "more"
    BY <1>10 DEF AllocNext
  <2>2. PICK b, from, to, d : b = c.buf /\ from = pool[n][b].from /\ to = pool[n][b].to /\ d = <<c.header.unit>>
    OBVIOUS
  <2>3. Fills(t) /\ b # NoBuffer
    BY <1>0, <1>2, <2>1, <2>2 DEF BufferFits, Fills, Filling
  <2>4. b \in Buffer /\ IsUsed(pool[n], b) /\ pool[n][b].busy /\ pool[n] \in Pool
    BY <1>2, <2>2, <2>3, BufferOf
  <2>5. from \in Peer /\ to \in Port
    <3>1. pool[n][b] \in BufferKind
      BY <2>4, SlotFits DEF IsUsed
    <3>. QED  BY <2>2, <3>1 DEF BufferKind
  <2>6. pool[n][b].data # <<>>
    BY <1>2, <2>1, <2>2, <2>3 DEF Buffers, FillFits
  <2>7. d \in Seq(Unit) /\ Len(d) <= MPORTAL_BUFFER_SIZE /\ d # <<>>
    <3>1. c.header \in Piece
      BY <1>2, <2>1 DEF PortalsFit, CallsFit, CallFits
    <3>2. c.header.unit \in Unit
      BY <3>1 DEF Piece
    <3>. QED  BY <2>2, <3>2, BufferAssumption
  <2>8. Takings(t, b, from, to, d)
    <3>1. pool' = [pool EXCEPT ![n] = BufferAlloc(@, b, @[b].from, @[b].to, age[n], d)] /\ age' = [age EXCEPT ![n] = @ + 1]
      BY <1>2, <1>10, <2>2 DEF AllocNext
    <3>2. pool' = [pool EXCEPT ![n] = BufferAlloc(@, b, from, to, age[n], d)]
      BY <2>2, <3>1
    <3>3. GoesOn(pool[n], b, from, to)
      BY <2>2, <2>4, <2>6 DEF GoesOn
    <3>. QED  BY <1>1, <1>2, <1>3, <2>2, <2>3, <2>5, <2>7, <3>1, <3>2, <3>3 DEF Takings
  <2>. QED  BY <1>1, <1>2, <1>6, <1>7, <1>8, <2>7, <2>8, TakingStep DEF TakingPlace
<1>. QED  BY <1>9, <1>10

LEMMA BufferKeep ==
    ASSUME PortalsFit, Buffers, NEW t \in Thread, Moves(t), KeepPiece(t)
    PROVE  Buffers'
<1>0. /\ pc \in [Thread -> PCs] /\ call = [u \in Thread |-> call[u]] /\ BufferFits(pc[t], call[t]) /\ IsCall(call[t])
      /\ NodeOf[t] \in Node
  BY Consts DEF PortalsFit, CallsFit, CallFits, Buffers
<1>1. /\ ReadStep(t) /\ pc[t] = "piece" /\ call[t].buffering /\ Incoming(t) # <<>> /\ log' = log /\ age' = age
  BY DEF ReadStep, KeepPiece, historyVars
<1>2. PICK c, n, b, p, m : c = call[t] /\ n = NodeOf[t] /\ b = c.buf /\ p = pool[n] /\ m = Head(Incoming(t))
  OBVIOUS
<1>3. Fills(t) /\ pc[t] \in Reading /\ pc[t] \in RemoteReads
  BY <1>0, <1>1 DEF Fills, Filling, BufferFits, Reading, RemoteReads, Channels
<1>4. Sane(p) /\ b \in Buffer /\ IsUsed(p, b) /\ p[b].busy
  BY <1>2, <1>3, BufferOf
<1>5. m \in Header \cup Piece
  BY <1>1, <1>2, <1>3, RemoteFits, HeadFits
<1>6. ReadsWith(c) /\ c.buffering /\ c.buf # NoBuffer
  BY <1>0, <1>1, <1>2, <1>3, <1>4, BuffersFinite DEF BufferFits, ReadsWith
<1>7. CASE IsHeader(m)
  <2>1. pc' = [pc EXCEPT ![t] = "panic"] /\ UNCHANGED <<pool, call>>
    BY <1>2, <1>7 DEF KeepPiece, Goto
  <2>2. AtNone("panic", c) /\ call' = [call EXCEPT ![t] = c]
    BY <1>0, <1>2, <1>6, <2>1, BareIs
  <2>. QED  BY <1>1, <2>1, <2>2, AtNoneKeeps
<1>8. CASE ~IsHeader(m) /\ HasSpace(n, b)
  <2>1. PICK e : e = m.unit
    OBVIOUS
  <2>2. e \in Unit /\ Len(p[b].data) < MPORTAL_BUFFER_SIZE
    <3>1. m \in Piece
      BY <1>5, <1>8, Kinds
    <3>. QED  BY <1>2, <1>8, <2>1, <3>1 DEF Piece, HasSpace
  <2>3. PICK q : q = [p EXCEPT ![b].data = Append(p[b].data, e)]
    OBVIOUS
  <2>4. pool' = [pool EXCEPT ![n][b].data = Append(@, e)] /\ UNCHANGED call
        /\ \E x \in {"finish", "piece"} : pc' = [pc EXCEPT ![t] = x]
    BY <1>2, <1>8, <2>1 DEF KeepPiece, Goto, AfterPiece
  <2>5. PICK x \in {"finish", "piece"} : pc' = [pc EXCEPT ![t] = x]
    BY <2>4
  <2>6. pool' = [pool EXCEPT ![n] = q]
    BY <1>2, <2>3, <2>4
  <2>7. Grown(q, p, b)
    BY <1>4, <2>2, <2>3, DataKeeps
  <2>8. /\ Sane(q) /\ q[b].from = p[b].from /\ q[b].to = p[b].to /\ q[b].busy = p[b].busy /\ q[b].data # <<>>
        /\ \A c1 \in Buffer : c1 # b => q[c1] = p[c1]
        /\ \A c1 \in Buffer : First(p, c1) => First(q, c1)
    BY <2>7 DEF Grown, OthersStay
  <2>9. Spares(t, q)
    BY <1>2, <1>3, <2>8, OwnSpares
  <2>10. pc'[t] = x /\ call'[t] = c /\ x \notin Writing
    BY <1>0, <1>2, <2>4, <2>5 DEF Writing, RemoteWrites
  <2>11. BufferFits(x, c) /\ ~Taking(x, c)
    BY <1>0, <1>1, <1>2, <1>6, <2>5 DEF BufferFits, Taking, Keeping, Reading, RemoteReads, Channels
  <2>12. OwnBuffer(t)
    BY <1>2, <1>3, <2>10 DEF OwnBuffer, Buffers, FillersApart
  <2>13. pool'[n] = q
    <3>1. pool = [k \in Node |-> pool[k]]
      BY DEF Buffers, PoolFits
    <3>. QED  BY <1>0, <1>2, <2>6, <3>1
  <2>14. FillFits(t)' /\ TakeFits(t)'
    <3>1. FillFits(t)'
      BY <1>2, <1>4, <2>8, <2>10, <2>13 DEF FillFits, IsUsed
    <3>. QED  BY <2>10, <2>11, <3>1 DEF TakeFits, Takes
  <2>15. BufferFits(pc'[t], call'[t]) /\ age' \in [Node -> Nat] /\ \A k \in 1 .. Len(log) : log'[k] = log[k]
    BY <1>1, <2>10, <2>11 DEF Buffers, PoolFits
  <2>16. pool' = [pool EXCEPT ![NodeOf[t]] = q] /\ Sane(q)
    BY <1>2, <2>6, <2>8
  <2>. QED  BY <1>1, <2>9, <2>12, <2>14, <2>15, <2>16, NodeStep
<1>9. CASE ~IsHeader(m) /\ ~HasSpace(n, b)
  <2>1. /\ call' = [call EXCEPT ![t].header = m] /\ pc' = [pc EXCEPT ![t] = "more"] /\ UNCHANGED pool
    BY <1>2, <1>9 DEF KeepPiece, Goto
  <2>2. PICK d : d = [c EXCEPT !.header = m]
    OBVIOUS
  <2>3. pc'[t] = "more" /\ call'[t] = d
    BY <1>0, <1>2, <2>1, <2>2
  <2>4. Alike(c, d) /\ d.buffering = c.buffering /\ d.left = c.left /\ d.buf = c.buf
    BY <1>0, <1>2, <2>2, OneParts
  <2>5. p[b].data # <<>>
    <3>1. Len(p[b].data) >= MPORTAL_BUFFER_SIZE
      <4>1. p[b].data \in Seq(Unit)
        BY <1>4, SlotFits DEF Sane
      <4>. QED  BY <1>2, <1>9, <4>1, BufferAssumption DEF HasSpace
    <3>2. MPORTAL_BUFFER_SIZE > 0 /\ MPORTAL_BUFFER_SIZE \in Nat
      BY BufferAssumption
    <3>3. Len(<<>>) = 0
      OBVIOUS
    <3>. QED  BY <3>1, <3>2, <3>3
  <2>6. BufferFits("more", d) /\ ~Taking("more", d)
    BY <1>0, <1>1, <1>2, <1>6, <2>4 DEF BufferFits, Taking, Keeping, Reading, RemoteReads, Channels, Alike
  <2>7. Filling("piece", c) /\ "more" \notin Writing /\ pool[NodeOf[t]][c.buf].data # <<>>
    BY <1>2, <1>6, <2>5 DEF Filling, Writing, RemoteWrites
  <2>. QED  BY <1>1, <1>2, <2>1, <2>3, <2>4, <2>6, <2>7, PassKeeps
<1>. QED  BY <1>7, <1>8, <1>9

LEMMA BufferFinish ==
    ASSUME PortalsFit, Buffers, NEW t \in Thread, Moves(t), FinishRead(t)
    PROVE  Buffers'
<1>0. /\ pc \in [Thread -> PCs] /\ call = [u \in Thread |-> call[u]] /\ BufferFits(pc[t], call[t]) /\ IsCall(call[t])
  BY DEF PortalsFit, CallsFit, CallFits, Buffers
<1>1. /\ ReadStep(t) /\ pc[t] = "finish" /\ log' = log /\ age' = age /\ pc' = [pc EXCEPT ![t] = "release"]
  BY DEF ReadStep, FinishRead, Goto
<1>2. PICK c : c = call[t]
  OBVIOUS
<1>3. PICK e : call' = [call EXCEPT ![t].ret = e]
  BY Zenon DEF FinishRead
<1>4. PICK d : d = [c EXCEPT !.ret = e]
  OBVIOUS
<1>5. call' = [call EXCEPT ![t] = d]
  BY <1>2, <1>3, <1>4
<1>6. Same(c, d) /\ d.buffering = c.buffering /\ d.left = c.left /\ d.buf = c.buf
  BY <1>0, <1>2, <1>4, OneParts
<1>7. ReadsWith(c) /\ ReadsWith(d) /\ (~c.buffering => c.buf = NoBuffer)
  BY <1>0, <1>1, <1>2, <1>6 DEF BufferFits, ReadsWith, Same, Reading, RemoteReads, Channels
<1>8. AtNone("release", d)
  <2>1. d.buffering \/ (~d.buffering /\ d.buf = NoBuffer)
    BY <1>6, <1>7
  <2>. QED  BY <1>7, <2>1, BareIs
<1>9. CASE c.buffering
  <2>1. pool' = [pool EXCEPT ![NodeOf[t]] = SetAvailable(@, call[t].buf)]
    BY <1>2, <1>9 DEF FinishRead
  <2>2. Fills(t)
    BY <1>0, <1>1, <1>2, <1>9 DEF Fills, Filling, BufferFits
  <2>3. pool[NodeOf[t]][call[t].buf].data # <<>>
    BY <1>1, <2>2 DEF Buffers, FillFits
  <2>4. AtNone(pc'[t], call'[t])
    BY <1>0, <1>1, <1>5, <1>8
  <2>. QED  BY <1>1, <2>1, <2>2, <2>3, <2>4, LeaveStep
<1>10. CASE ~c.buffering
  <2>1. pool' = pool
    BY <1>2, <1>10 DEF FinishRead
  <2>. QED  BY <1>1, <1>5, <1>8, <2>1, AtNoneKeeps
<1>. QED  BY <1>9, <1>10

\* A reader takes what is available, r.
Gets(r, t) == r = Available(t)

\* What the read of a thread that takes buffers out does.
Got(t, R, r) == ReadDoes(R, r, pool[NodeOf[t]], call[t].buf, call[t].port, call[t].from, call[t].left)
LEMMA BufferGot ==
    ASSUME PortalsFit, Buffers, NEW t \in Thread, pc[t] \in {"read local", "again", "locked"}, ~call[t].buffering,
           NEW r, Gets(r, t)
    PROVE  /\ \E R : Got(t, R, r)
           /\ call[t].from \in Peer /\ call[t].port \in Port /\ call[t].left \in Nat /\ call[t].size \in Nat
           /\ call[t].buf \in Buffer \cup {NoBuffer} /\ pc[t] \in Reading
<1>0. BufferFits(pc[t], call[t]) /\ IsCall(call[t]) /\ NodeOf[t] \in Node
  BY Consts DEF PortalsFit, CallsFit, CallFits, Buffers
<1>2. PICK c, n, p, previous : c = call[t] /\ n = NodeOf[t] /\ p = pool[n] /\ previous = c.buf
  OBVIOUS
<1>3. /\ pc[t] \in Reading /\ c.from \in Peer /\ c.port \in Port /\ c.left \in Nat /\ c.size \in Nat
      /\ previous \in Buffer \cup {NoBuffer} /\ Sane(p) /\ p \in Pool /\ Chained(p)
  <2>1. pc[t] \in Reading
    BY DEF Reading, RemoteReads
  <2>2. c.from \in Peer /\ c.port \in Port
    BY <1>2, <2>1 DEF PortalsFit, CallsFit, CallFits
  <2>3. Sane(p) /\ p \in Pool
    BY <1>2, BufferOf
  <2>. QED  BY <1>0, <1>2, <2>1, <2>2, <2>3 DEF BufferFits, Sane
<1>4. previous # NoBuffer => Takes(t)
  BY <1>0, <1>2 DEF Takes, Taking, BufferFits, Reading, RemoteReads
<1>5. Continues(p, previous, c.port, c.from)
  <2>1. previous # NoBuffer => ~p[previous].busy /\ First(p, previous) /\ p[previous].from = c.from /\ p[previous].to = c.port
    <3>1. Takes(t) => LET y == pool[NodeOf[t]]
                          u == call[t].buf IN
                      ~y[u].busy /\ First(y, u) /\ y[u].from = call[t].from /\ y[u].to = call[t].port
      BY DEF Buffers, TakeFits
    <3>. QED  BY <1>2, <1>4, <3>1
  <2>. QED  BY <1>3, <2>1 DEF Continues, FollowsOn
<1>6. r = BufferRead(p, c.port, c.from, previous, c.left)
  BY <1>2 DEF Available, Gets
<1>7. PICK R : ReadDoes(R, r, p, previous, c.port, c.from, c.left)
  <2>1. PICK to, from, remainder : to = c.port /\ from = c.from /\ remainder = c.left
    OBVIOUS
  <2>2. /\ p \in Pool /\ Chained(p) /\ from \in Peer /\ Continues(p, previous, to, from) /\ remainder \in Nat
        /\ r = BufferRead(p, to, from, previous, remainder)
    BY <1>3, <1>5, <1>6, <2>1
  <2>3. \E R : ReadDoes(R, r, p, previous, to, from, remainder)
    BY <2>2, ReadIs
  <2>. QED  BY <2>1, <2>3
<1>. QED  BY <1>2, <1>3, <1>7 DEF Got

LEMMA PositiveIs == ASSUME NEW z \in Nat, z > 0 PROVE z # 0
OBVIOUS

LEMMA BufferTake ==
    ASSUME PortalsFit, Buffers, NEW t \in Thread, Moves(t), LocalStep(t) \/ ReadStep(t) \/ WriteStep(t),
           pc[t] \in {"read local", "again", "locked"}, ~call[t].buffering,
           NEW r, Gets(r, t), NEW x \in {"read local", "read end", "again", "exit"}, TakeAvailable(t, r, x),
           x = "read end" \/ (x = "exit" /\ pc[t] # "locked") => r.error \/ r.left = 0
    PROVE  Buffers'
<1>0. /\ pc \in [Thread -> PCs] /\ call = [u \in Thread |-> call[u]] /\ BufferFits(pc[t], call[t]) /\ IsCall(call[t])
      /\ NodeOf[t] \in Node /\ pool = [n \in Node |-> pool[n]]
  BY Consts DEF PortalsFit, CallsFit, CallFits, Buffers, PoolFits
<1>1. log' = log /\ age' = age /\ pc' = [pc EXCEPT ![t] = x]
  BY Zenon DEF TakeAvailable, Goto
<1>2. PICK c, n, p, previous : c = call[t] /\ n = NodeOf[t] /\ p = pool[n] /\ previous = c.buf
  OBVIOUS
<1>3. /\ pc[t] \in Reading /\ c.from \in Peer /\ c.port \in Port /\ c.left \in Nat /\ c.size \in Nat
      /\ previous \in Buffer \cup {NoBuffer} /\ Sane(p) /\ p \in Pool /\ Chained(p)
  <2>1. Sane(p) /\ p \in Pool
    BY <1>2, BufferOf
  <2>. QED  BY <1>2, <2>1, BufferGot DEF Sane
<1>7. PICK R : ReadDoes(R, r, p, previous, c.port, c.from, c.left)
  BY <1>2, BufferGot DEF Got
<1>8. PICK q : q = r.pool
  OBVIOUS
<1>9. /\ q = [b \in Buffer |-> IF b \in R THEN Unused ELSE p[b]]
      /\ \A b \in Buffer \cap R : p[b].to = c.port /\ ~p[b].busy /\ \A e \in Buffer : p[e].next = b => e \in R
      /\ r.left \in Nat /\ r.previous \in Buffer \cup {NoBuffer}
      /\ r.previous # NoBuffer =>
           /\ r.previous \notin R /\ p[r.previous].from = c.from /\ p[r.previous].to = c.port /\ ~p[r.previous].busy
           /\ r.left > 0 /\ ~r.error
           /\ \A e \in Buffer : p[e].next = r.previous => e \in R
  BY <1>7, <1>8 DEF ReadDoes, Of
<1>10. Emptied(q, p, R)
  BY <1>3, <1>9, ReadKeeps
<1>11. /\ Sane(q)
       /\ \A b \in Buffer : b \notin R => q[b] = p[b]
       /\ \A b \in Buffer : First(p, b) => First(q, b)
       /\ \A b \in Buffer : (\A e \in Buffer : p[e].next = b => e \in R) => First(q, b)
  BY <1>10 DEF Emptied
<1>12. PICK g, f : call' = [call EXCEPT ![t].got = g, ![t].left = r.left, ![t].buf = r.previous, ![t].ret = f]
                   /\ f = (IF r.error THEN "invalid" ELSE IF r.left = 0 THEN "ok" ELSE "partial")
  BY Zenon DEF TakeAvailable
<1>13. PICK d : d = [c EXCEPT !.got = g, !.left = r.left, !.buf = r.previous, !.ret = f]
  OBVIOUS
<1>14. call' = [call EXCEPT ![t] = d]
  BY <1>2, <1>12, <1>13
<1>15. pc'[t] = x /\ call'[t] = d
  BY <1>0, <1>1, <1>14
<1>16. Same(c, d) /\ d.buffering = c.buffering /\ d.left = r.left /\ d.buf = r.previous /\ d.ret = f
  BY <1>0, <1>2, <1>13 DEF IsCall, Same
<1>17. pool' = [pool EXCEPT ![NodeOf[t]] = q] /\ pool'[n] = q
  <2>1. pool' = [pool EXCEPT ![NodeOf[t]] = r.pool]
    BY Zenon DEF TakeAvailable
  <2>. QED  BY <1>0, <1>2, <1>8, <2>1
<1>18. BufferFits(x, d) /\ ~Filling(x, d)
  <2>1. d.buffering = FALSE /\ d.left \in Nat /\ d.size \in Nat /\ d.buf \in Buffer \cup {NoBuffer}
    BY <1>0, <1>2, <1>3, <1>9, <1>16 DEF Same, BufferFits
  <2>2. d.buf # NoBuffer => d.left > 0 /\ x # "read end" /\ (x = "exit" => d.ret = "partial")
    <3>1. SUFFICES ASSUME d.buf # NoBuffer PROVE d.left > 0 /\ x # "read end" /\ (x = "exit" => d.ret = "partial")
      OBVIOUS
    <3>0. r.left > 0 /\ ~r.error /\ r.left \in Nat
      BY <1>9, <1>16, <3>1
    <3>2. r.left > 0 /\ ~r.error /\ r.left # 0
      BY <3>0, PositiveIs, Zenon
    <3>3. f = "partial"
      BY <1>12, <3>2
    <3>4. x # "read end"
      BY <3>2
    <3>. QED  BY <1>16, <3>2, <3>3, <3>4
  <2>. QED  BY <2>1, <2>2 DEF BufferFits, Filling, Keeping, Reading, RemoteReads, Channels
<1>19. Spares(t, q)
  <2>1. ASSUME NEW u \in Thread \ {t}, NodeOf[u] = n
        PROVE  /\ Fills(u) \/ Takes(u) => q[call[u].buf] = p[call[u].buf]
               /\ Takes(u) => First(q, call[u].buf)
    <3>1. PICK b : b = call[u].buf
      OBVIOUS
    <3>2. /\ Fills(u) => b \in Buffer /\ p[b].busy
          /\ Takes(u) => b \in Buffer /\ First(p, b) /\ pc[u] \in Reading /\ p[b].to = call[u].port
      BY <1>2, <2>1, <3>1, BufferOf, ZenonT(60)
    <3>3. Takes(u) => call[u].port # c.port
      BY <1>2, <1>3, <2>1, <3>2 DEF Buffers, PortsDiffer
    <3>4. Fills(u) \/ Takes(u) => b \notin R
      BY <1>9, <3>2, <3>3
    <3>. QED  BY <1>11, <3>1, <3>2, <3>4
  <2>. QED  BY <1>2, <2>1 DEF Spares
<1>20. OwnBuffer(t) /\ FillFits(t)'
  BY <1>15, <1>18 DEF OwnBuffer, FillFits, Fills
<1>21. TakeFits(t)'
  <2>1. SUFFICES ASSUME d.buf # NoBuffer
                 PROVE  q[d.buf].from = d.from /\ q[d.buf].to = d.port /\ ~q[d.buf].busy /\ First(q, d.buf)
    BY <1>2, <1>15, <1>17 DEF TakeFits, Takes, Taking
  <2>2. d.buf = r.previous /\ r.previous \in Buffer /\ r.previous # NoBuffer
    BY <1>9, <1>16, <2>1
  <2>3. q[r.previous] = p[r.previous] /\ First(q, r.previous)
    BY <1>9, <1>11, <2>2
  <2>. QED  BY <1>9, <1>16, <2>2, <2>3 DEF Same
<1>22. age' \in [Node -> Nat] /\ \A k \in 1 .. Len(log) : log'[k] = log[k]
  BY <1>1 DEF Buffers, PoolFits
<1>23. BufferFits(pc'[t], call'[t])
  BY <1>15, <1>18
<1>. QED  BY <1>11, <1>17, <1>19, <1>20, <1>21, <1>22, <1>23, NodeStep

LEMMA BufferReads ==
    ASSUME PortalsFit, Buffers, NEW t \in Thread, Moves(t), ReadLocal(t) \/ ReadBuffered(t) \/ LockedRead(t)
    PROVE  Buffers'
<1>0. BufferFits(pc[t], call[t]) /\ call = [u \in Thread |-> call[u]] /\ pc[t] \in {"read local", "again", "locked"}
  BY DEF PortalsFit, CallsFit, Buffers, ReadLocal, ReadBuffered, LockedRead
<1>1. ~call[t].buffering
  BY <1>0 DEF BufferFits, Keeping, ReadLocal, ReadBuffered, LockedRead
<1>2. LocalStep(t) \/ ReadStep(t) \/ WriteStep(t)
  BY DEF LocalStep, ReadStep
<1>3. PICK r : Gets(r, t)
  BY DEF Gets
<1>4. r = Available(t) /\ \A s : Gets(s, t) <=> s = r
  BY <1>3 DEF Gets
<1>5. CASE ReadLocal(t)
  <2>1. PICK x : x = IF r.error \/ r.left = 0 THEN "read end" ELSE "read local"
    OBVIOUS
  <2>2. TakeAvailable(t, r, x)
    BY <1>4, <1>5, <2>1, Zenon DEF ReadLocal
  <2>. QED  BY <1>0, <1>1, <1>2, <1>3, <2>1, <2>2, BufferTake
<1>6. ASSUME NEW x, pc' = [pc EXCEPT ![t] = x], UNCHANGED <<bufferVars, call, historyVars>>,
             call[t].buf = NoBuffer, x \in {"lock", "check"}
      PROVE  Buffers'
  <2>1. AtNone(x, call[t])
    <3>1. ReadsWith(call[t])
      BY <1>0, <1>1, <1>3, BufferGot DEF ReadsWith, BufferFits
    <3>. QED  BY <1>1, <1>6, <3>1, BareIs DEF Bare
  <2>2. UNCHANGED <<log, pool, age>> /\ call' = [call EXCEPT ![t] = call[t]]
    BY <1>0, <1>6 DEF bufferVars, historyVars
  <2>. QED  BY <1>2, <1>6, <2>1, <2>2, AtNoneKeeps
<1>7. CASE ReadBuffered(t)
  <2>1. CASE TakeAvailable(t, r, IF r.error \/ r.left = 0 THEN "exit" ELSE "again")
    <3>1. PICK x : x = IF r.error \/ r.left = 0 THEN "exit" ELSE "again"
      OBVIOUS
    <3>2. TakeAvailable(t, r, x)
      BY <2>1, <3>1, Zenon
    <3>. QED  BY <1>0, <1>1, <1>2, <1>3, <3>1, <3>2, BufferTake
  <2>2. CASE /\ ~r.error /\ r.copied = <<>> /\ r.previous = NoBuffer
             /\ Goto(t, "lock")
             /\ UNCHANGED <<bufferVars, call, historyVars>>
    <3>1. call[t].buf = NoBuffer
      <4>1. SUFFICES ASSUME call[t].buf # NoBuffer PROVE FALSE
        OBVIOUS
      <4>2. call[t].left > 0
        BY <1>0, <1>1, <1>3, <4>1, BufferGot DEF BufferFits
      <4>3. PICK R : Got(t, R, r)
        BY <1>0, <1>1, <1>3, BufferGot
      <4>4. r.previous = call[t].buf
        BY <2>2, <4>2, <4>3 DEF Got, ReadDoes
      <4>. QED  BY <2>2, <4>1, <4>4
    <3>. QED  BY <1>6, <2>2, <3>1 DEF Goto
  <2>. QED  BY <1>4, <1>7, <2>1, <2>2, Zenon DEF ReadBuffered
<1>8. CASE LockedRead(t)
  <2>1. CASE TakeAvailable(t, r, "exit")
    <3>1. pc[t] = "locked"
      BY <1>8 DEF LockedRead
    <3>. QED  BY <1>0, <1>1, <1>2, <1>3, <2>1, <3>1, BufferTake
  <2>2. CASE /\ ~r.error /\ r.copied = <<>>
             /\ Goto(t, "check")
             /\ UNCHANGED <<bufferVars, call, historyVars>>
    <3>1. call[t].buf = NoBuffer
      BY <1>0, <1>1, <1>8 DEF BufferFits, LockedRead, Reading, RemoteReads
    <3>. QED  BY <1>6, <2>2, <3>1 DEF Goto
  <2>. QED  BY <1>4, <1>8, <2>1, <2>2, Zenon DEF LockedRead
<1>. QED  BY <1>5, <1>7, <1>8

LEMMA BuffersStutter == ASSUME PortalsFit, Buffers, UNCHANGED vars PROVE Buffers'
<1>1. UNCHANGED <<pc, call, busyIn, busyOut, pool, age, log>>
  BY DEF vars, tableVars, historyVars, bufferVars
<1>2. PortsApart' /\ PortsDiffer'
  BY <1>1 DEF Buffers, PortsApart, PortsDiffer
<1>3. PoolFits' /\ \A t \in Thread : BufferFits(pc[t], call[t])'
  BY <1>1 DEF Buffers, PoolFits, BufferFits
<1>4. \A t \in Thread : (Fills(t)' <=> Fills(t)) /\ (Takes(t)' <=> Takes(t))
  BY <1>1 DEF Fills, Takes
<1>5. \A t \in Thread : FillFits(t)' /\ TakeFits(t)'
  BY <1>1, <1>4 DEF Buffers, FillFits, TakeFits, Config
<1>6. FillersApart'
  BY <1>1, <1>4 DEF Buffers, FillersApart
<1>. QED  BY <1>1, <1>2, <1>3, <1>5, <1>6 DEF Buffers

LEMMA BuffersNext == Base /\ Buffers /\ [Next]_vars => Buffers'
<1>. SUFFICES ASSUME Base, Buffers, [Next]_vars PROVE Buffers'
  OBVIOUS
<1>0. PortalsFit /\ Held
  BY DEF Base
<1>1. CASE \E t \in scene.who : (Client(t) \/ Step(t)) /\ UNCHANGED scene
  <2>1. PICK t \in scene.who : (Client(t) \/ Step(t)) /\ UNCHANGED scene
    BY <1>1
  <2>2. t \in Thread
    BY <1>0, SceneAssumption DEF PortalsFit, TablesFit
  <2>3. Moves(t)
    BY <1>0, <2>1, <2>2, StepFits
  <2>4. TableStep(t) \/ LocalStep(t) \/ ReadStep(t) \/ WriteStep(t)
    BY <1>0, <2>1, <2>2, Groups
  <2>5. CASE Again(t) \/ ReadHeader(t) \/ Validate(t) \/ ReadPiece(t) \/ ReadError(t)
    BY <1>0, <2>2, <2>3, <2>5, BufferBare
  <2>6. CASE SendPiece(t)
    BY <1>0, <2>2, <2>3, <2>6, BufferSend
  <2>7. CASE Publish(t)
    BY <1>0, <2>2, <2>3, <2>7, BufferPublish
  <2>8. CASE Passing(t) /\ ~Publish(t)
    BY <1>0, <2>2, <2>8, BufferPassing
  <2>9. CASE WriteLocal(t)
    BY <1>0, <2>2, <2>3, <2>9, BufferWrite
  <2>10. CASE AllocFirst(t) \/ AllocNext(t)
    BY <1>0, <2>2, <2>3, <2>10, BufferAllocs
  <2>11. CASE KeepPiece(t)
    BY <1>0, <2>2, <2>3, <2>11, BufferKeep
  <2>12. CASE FinishRead(t)
    BY <1>0, <2>2, <2>3, <2>12, BufferFinish
  <2>13. CASE ReadLocal(t) \/ ReadBuffered(t) \/ LockedRead(t)
    BY <1>0, <2>2, <2>3, <2>13, BufferReads
  <2>14. CASE TableStep(t)
    BY <1>0, <2>2, <2>3, <2>14, BufferTable
  <2>. QED  BY <2>4, <2>5, <2>6, <2>7, <2>8, <2>9, <2>10, <2>11, <2>12, <2>13, <2>14
            DEF LocalStep, ReadStep, WriteStep, Passing
<1>2. CASE UNCHANGED vars
  BY <1>0, <1>2, BuffersStutter
<1>. QED  BY <1>1, <1>2 DEF Next

LEMMA BuffersInit == Init => Buffers
<1>. SUFFICES ASSUME Init PROVE Buffers
  OBVIOUS
<1>1. /\ pc = [t \in Thread |-> "idle"] /\ call = [t \in Thread |-> NoCall]
      /\ pool = [n \in Node |-> [b \in Buffer |-> Unused]] /\ age = [n \in Node |-> 0]
  BY DEF Init
<1>2. ~Filling("idle", NoCall) /\ ~Taking("idle", NoCall) /\ BufferFits("idle", NoCall)
  BY NoCallAtNone DEF AtNone
<1>3. \A t \in Thread : BufferFits(pc[t], call[t]) /\ ~Fills(t) /\ ~Takes(t) /\ pc[t] \notin Reading /\ pc[t] \notin Writing
  BY <1>1, <1>2 DEF Fills, Takes, Reading, Writing, RemoteReads, RemoteWrites, Channels
<1>4. PoolFits
  <2>1. Sane([b \in Buffer |-> Unused])
    <3>1. [b \in Buffer |-> Unused] \in Pool
      BY DEF Pool
    <3>2. PICK p : p = [b \in Buffer |-> Unused]
      OBVIOUS
    <3>3. \A b \in Buffer : p[b].next = NoBuffer /\ p[b].from = None /\ Len(p[b].data) = 0
      BY <3>2 DEF Unused
    <3>4. Chained(p)
      BY <3>3 DEF Chained, IsUsed
    <3>5. 0 <= MPORTAL_BUFFER_SIZE
      BY BufferAssumption
    <3>. QED  BY <3>1, <3>2, <3>3, <3>4, <3>5 DEF Sane
  <2>. QED  BY <1>1, <2>1 DEF PoolFits
<1>. QED  BY <1>3, <1>4 DEF Buffers, PortsApart, PortsDiffer, FillFits, TakeFits, FillersApart

LEMMA BuffersHold == Spec => [](Base /\ Buffers)
<1>1. Init => Base /\ Buffers
  BY BaseInit, BuffersInit
<1>2. Base /\ Buffers /\ [Next]_vars => Base' /\ Buffers'
  BY BaseNext, BuffersNext
<1>. QED  BY <1>1, <1>2, PTL DEF Spec

\* Every variable of the portals has its type: a buffer in use has a sender, a port
\* and data of a piece at most, and its successor is a buffer.
THEOREM PortalsTyped == Spec => []MPortalTypeOK
<1>1. Base /\ Buffers => MPortalTypeOK
  <2>. SUFFICES ASSUME Base, Buffers PROVE MPortalTypeOK
    OBVIOUS
  <2>1. PortalsFit /\ TablesFit /\ LocksFit /\ MailFits /\ CallsFit
    BY DEF Base, PortalsFit
  <2>2. pool \in [Node -> Pool] /\ age \in [Node -> Nat]
        /\ \A n \in Node, b \in Buffer : Len(pool[n][b].data) <= MPORTAL_BUFFER_SIZE
    BY DEF Buffers, PoolFits, Sane
  <2>3. pool \in [Node -> [Buffer -> {Unused} \cup
         [from : Peer, to : Port, busy : BOOLEAN, age : Nat, seq : Nat,
          next : Buffer \cup {NoBuffer}, data : Seq(Unit)]]]
    BY <2>2 DEF Pool, BufferKind
  <2>4. pc \in [Thread -> PCs]
    BY <2>1 DEF CallsFit, CallFits
  <2>5. /\ created \in [Node -> SUBSET Port] /\ busyIn \in [Node -> SUBSET Port]
        /\ allowed \in [Node -> [Port -> Peer \cup {None}]]
        /\ output \in [Node -> [Peer -> Port \cup {None}]]
        /\ mports \in [Node -> SUBSET Peer] /\ busyOut \in [Node -> SUBSET Peer]
    BY <2>1 DEF TablesFit
  <2>6. /\ localLock \in [Node -> Thread \cup {NoThread}]
        /\ allowLock \in [Node -> Thread \cup {NoThread}]
        /\ readLock \in [Node -> [Node -> Thread \cup {NoThread}]]
        /\ writeLock \in [Node -> [Node -> Thread \cup {NoThread}]]
        /\ reading \in [Node -> SUBSET Node] /\ isAllowed \in [Node -> SUBSET Node]
    BY <2>1 DEF LocksFit
  <2>7. allows \in [Node -> Seq(Node)] /\ channel \in [Node -> [Node -> Seq(Header \cup Piece)]]
    BY <2>1 DEF MailFits
  <2>. QED  BY <2>2, <2>3, <2>4, <2>5, <2>6, <2>7, Zenon DEF MPortalTypeOK
<1>. QED  BY <1>1, BuffersHold, PTL

\* Whoever takes and frees buffers, what follows a buffer in its chain is the next
\* part of a message between the same two portals, and follows no other: a reader
\* may come back to the rest of a message at any time.
THEOREM PortalChains == Spec => []ChainsIntact
<1>1. Base /\ Buffers => ChainsIntact
  <2>1. SUFFICES ASSUME Buffers, NEW n \in Node, NEW b \in Buffer, NEW p, p = pool[n], NEW next, next = p[b].next,
                        next # NoBuffer
                 PROVE  /\ ~p[b].busy /\ IsUsed(p, next)
                        /\ p[next].from = p[b].from /\ p[next].to = p[b].to /\ p[next].seq = p[b].seq + 1
                        /\ \A c \in Buffer : p[c].next = next => c = b
    BY DEF ChainsIntact
  <2>2. Chained(p)
    BY <2>1 DEF Buffers, PoolFits, Sane
  <2>. QED  BY <2>1, <2>2 DEF Chained
<1>. QED  BY <1>1, BuffersHold, PTL


-----------------------------------------------------------------------------
(* What the buffers contain: Data.                                         *)

\* The messages of L between threads of one node, and those between nodes.
IsLocal(L, m) == m \in DOMAIN L /\ L[m].from[1] = L[m].to[1]
IsForeign(L, m) == m \in DOMAIN L /\ L[m].from[1] # L[m].to[1]

\* Data are of the message of their first unit, and end where that message has
\* got with them.
Message(d) == d[1][1]
Offset(d) == d[1][2] - 1
End(d) == Offset(d) + Len(d)
IsPart(d, m, o) == \A i \in 1 .. Len(d) : d[i] = <<m, o + i>>
HasLocal(L, d) == d # <<>> /\ IsLocal(L, Message(d))

\* A buffer x of node n with a part of a local message, and what follows one.
Part(L, n, x) ==
    LET m == Message(x.data) IN
    HasLocal(L, x.data) =>
        /\ L[m].from = x.from /\ L[m].to = <<n, x.to>>
        /\ Offset(x.data) \in Nat /\ IsPart(x.data, m, Offset(x.data)) /\ End(x.data) <= L[m].size
        /\ x.seq = 0 => Offset(x.data) = 0
        /\ ~x.busy /\ x.next = NoBuffer => End(x.data) = L[m].size
Joined(L, d, e) == HasLocal(L, d) \/ HasLocal(L, e) => e[1] = <<Message(d), End(d) + 1>>
Contents(L, n, p) ==
    \A b \in Buffer :
        /\ p[b].data # <<>> => Message(p[b].data) \in DOMAIN L
        /\ Part(L, n, p[b])
        /\ p[b].next # NoBuffer => Joined(L, p[b].data, p[p[b].next].data)

\* What a local writer has filled.
WritesOut(l, c, n, p) ==
    l \in {"write local", "publish"} =>
        /\ c.port[1] = n /\ c.size \in Nat /\ c.left \in Nat
        /\ l = "publish" => c.left = 0
        /\ c.buf = NoBuffer => c.left = c.size
        /\ c.buf # NoBuffer =>
             LET d == p[c.buf].data IN d # <<>> /\ Message(d) = c.msg /\ End(d) = c.size - c.left
        /\ \A b \in Buffer : p[b].data # <<>> /\ Message(p[b].data) = c.msg => End(p[b].data) <= c.size - c.left

\* What a reader keeps for others comes from another node.
Keeps(L, l, c, p) ==
    /\ l \in {"more", "relock"} => IsForeign(L, c.header.unit[1])
    /\ Filling(l, c) /\ l \in Reading =>
         LET d == p[c.buf].data IN d # <<>> => IsForeign(L, Message(d))

\* What a reader has got of a local message is the beginning of it.
Reads1st(L, l, c, n) ==
    c.got # <<>> =>
        LET m == Message(c.got) IN
        /\ m \in DOMAIN L
        /\ IsLocal(L, m) =>
             /\ IsPart(c.got, m, 0) /\ Len(c.got) <= c.size
             /\ L[m].from = c.from /\ L[m].to = <<n, c.port>>
ReadsOn(L, l, c, p) ==
    LET d == p[c.buf].data IN
    l = "read local" =>
        /\ c.left = c.size - Len(c.got)
        /\ c.buf = NoBuffer => c.got = <<>>
        /\ c.buf # NoBuffer =>
             /\ c.got # <<>>
             /\ IsLocal(L, Message(c.got)) \/ HasLocal(L, d) =>
                  Message(c.got) = Message(d) /\ End(d) = Len(c.got)
ReadsIn(L, l, c, n, p) ==
    l \in Reading => c.got \in Seq(Unit) /\ Reads1st(L, l, c, n) /\ ReadsOn(L, l, c, p)

DataFits(L, l, c, n, p) == WritesOut(l, c, n, p) /\ Keeps(L, l, c, p) /\ ReadsIn(L, l, c, n, p)

Logged(L, l, c, n) ==
    l \in Writing => LET e == L[c.msg] IN
        e.from = <<n, c.port[2]>> /\ e.to[1] = c.port[1] /\ e.size = c.size
Written1st == \A t, u \in Thread : t # u /\ pc[t] \in Writing /\ pc[u] \in Writing => call[t].msg # call[u].msg

\* What comes from another node is foreign.
Arrives(L, q) == \A i \in DOMAIN q : ~IsHeader(q[i]) => IsForeign(L, q[i].unit[1])

AllArrive == \A n, m \in Node : Arrives(log, channel[n][m])

AllLogged == (\A t \in Thread : Logged(log, pc[t], call[t], NodeOf[t])) /\ Written1st
Data ==
    /\ AllLogged /\ AllArrive
    /\ \A n \in Node : Contents(log, n, pool[n])
    /\ \A t \in Thread : DataFits(log, pc[t], call[t], NodeOf[t], pool[NodeOf[t]])

-----------------------------------------------------------------------------
(* The log grows.                                                          *)

Grows(L, M) ==
    /\ L \in Seq(Entry) /\ M \in Seq(Entry) /\ DOMAIN L \subseteq DOMAIN M
    /\ \A k \in DOMAIN L : M[k] = L[k]

LEMMA Growing ==
    ASSUME NEW L, NEW M, Grows(L, M)
    PROVE  /\ \A m \in DOMAIN L : IsLocal(M, m) <=> IsLocal(L, m)
           /\ \A m : IsForeign(L, m) => IsForeign(M, m)
           /\ \A d : d # <<>> /\ Message(d) \in DOMAIN L => (HasLocal(M, d) <=> HasLocal(L, d))
<1>1. \A m \in DOMAIN L : IsLocal(M, m) <=> IsLocal(L, m)
  BY DEF Grows, IsLocal
<1>2. \A m : IsForeign(L, m) => IsForeign(M, m)
  BY DEF Grows, IsForeign
<1>. QED  BY <1>1, <1>2 DEF HasLocal

LEMMA GrowsSelf == ASSUME PortalsFit PROVE Grows(log, log)
BY DEF PortalsFit, TablesFit, Grows

LEMMA ContentsGrow ==
    ASSUME NEW L, NEW M, Grows(L, M), NEW n, NEW p, Sane(p), Contents(L, n, p)
    PROVE  Contents(M, n, p)
<1>. SUFFICES ASSUME NEW b \in Buffer
              PROVE  /\ p[b].data # <<>> => Message(p[b].data) \in DOMAIN M
                     /\ Part(M, n, p[b])
                     /\ p[b].next # NoBuffer => Joined(M, p[b].data, p[p[b].next].data)
  BY DEF Contents
<1>1. p[b].data # <<>> => Message(p[b].data) \in DOMAIN L /\ M[Message(p[b].data)] = L[Message(p[b].data)]
  BY DEF Contents, Grows
<1>2. Message(p[b].data) \in DOMAIN M \/ p[b].data = <<>>
  BY <1>1 DEF Grows
<1>3. Part(M, n, p[b])
  <2>1. SUFFICES ASSUME HasLocal(M, p[b].data) PROVE Part(M, n, p[b])
    BY DEF Part
  <2>2. HasLocal(L, p[b].data)
    BY <1>1, <2>1, Growing DEF HasLocal
  <2>3. Part(L, n, p[b]) /\ p[b].data # <<>>
    BY <2>1 DEF Contents, HasLocal
  <2>. QED  BY <1>1, <2>2, <2>3 DEF Part
<1>4. ASSUME p[b].next # NoBuffer PROVE Joined(M, p[b].data, p[p[b].next].data)
  <2>1. PICK c : c = p[b].next
    OBVIOUS
  <2>2. c \in Buffer
    BY <1>4, <2>1, SlotFits DEF Sane
  <2>3. HasLocal(M, p[b].data) => HasLocal(L, p[b].data)
    BY <1>1, Growing DEF HasLocal
  <2>4. HasLocal(M, p[c].data) => HasLocal(L, p[c].data)
    BY <2>2, Growing DEF HasLocal, Contents
  <2>5. Joined(L, p[b].data, p[c].data)
    BY <1>4, <2>1 DEF Contents
  <2>. QED  BY <2>1, <2>3, <2>4, <2>5 DEF Joined
<1>. QED  BY <1>2, <1>3, <1>4

LEMMA FitsGrow ==
    ASSUME NEW L, NEW M, Grows(L, M), NEW n, NEW p, Contents(L, n, p), NEW l, NEW c,
           c.buf \in Buffer \cup {NoBuffer}, DataFits(L, l, c, n, p)
    PROVE  DataFits(M, l, c, n, p)
<1>1. WritesOut(l, c, n, p)
  BY DEF DataFits
<1>2. Keeps(M, l, c, p)
  BY Growing DEF DataFits, Keeps
<1>3. ReadsIn(M, l, c, n, p)
  <2>1. SUFFICES ASSUME l \in Reading PROVE Reads1st(M, l, c, n) /\ ReadsOn(M, l, c, p)
    BY DEF DataFits, ReadsIn
  <2>2. Reads1st(L, l, c, n) /\ ReadsOn(L, l, c, p)
    BY <2>1 DEF DataFits, ReadsIn
  <2>3. c.got # <<>> => /\ Message(c.got) \in DOMAIN L /\ Message(c.got) \in DOMAIN M /\ M[Message(c.got)] = L[Message(c.got)]
                        /\ IsLocal(M, Message(c.got)) <=> IsLocal(L, Message(c.got))
    BY <2>2, Growing DEF Reads1st, Grows
  <2>4. Reads1st(M, l, c, n)
    BY <2>2, <2>3 DEF Reads1st
  <2>5. c.buf \in Buffer => (HasLocal(M, p[c.buf].data) => HasLocal(L, p[c.buf].data))
    BY Growing DEF Contents, HasLocal
  <2>6. ReadsOn(M, l, c, p)
    BY <2>2, <2>3, <2>5 DEF ReadsOn
  <2>. QED  BY <2>4, <2>6
<1>. QED  BY <1>1, <1>2, <1>3 DEF DataFits

LEMMA LoggedKept ==
    ASSUME PortalsFit, AllLogged, NEW t \in Thread, Moves(t), Grows(log, log'),
           TableStep(t) \/ LocalStep(t) \/ ReadStep(t) \/ WriteStep(t)
    PROVE  AllLogged'
<1>0. /\ \A u \in Thread : CallFits(pc[u], call[u], NodeOf[u], Len(log))
      /\ CallFits(pc'[t], call'[t], NodeOf[t], Len(log')) /\ Len(log) \in Nat /\ DOMAIN log = 1 .. Len(log)
      /\ \A u \in Thread \ {t} : pc'[u] = pc[u] /\ call'[u] = call[u]
      /\ log \in Seq(Entry)
  <2>1. log \in Seq(Entry)
    BY DEF Grows
  <2>2. Len(log) \in Nat /\ DOMAIN log = 1 .. Len(log)
    BY <2>1
  <2>3. \A u \in Thread : CallFits(pc[u], call[u], NodeOf[u], Len(log))
    BY DEF PortalsFit, CallsFit
  <2>4. CallFits(pc'[t], call'[t], NodeOf[t], Len(log'))
    BY DEF Moves
  <2>5. \A u \in Thread \ {t} : pc'[u] = pc[u] /\ call'[u] = call[u]
    BY MovesOther
  <2>. QED  BY <2>1, <2>2, <2>3, <2>4, <2>5
<1>1. \A u \in Thread : pc[u] \in Writing => call[u].msg \in DOMAIN log /\ log'[call[u].msg] = log[call[u].msg]
  BY <1>0 DEF CallFits, Grows
<1>2. ASSUME pc'[t] \in Writing, pc[t] # "idle"
      PROVE  pc[t] \in Writing /\ Alike(call[t], call'[t])
  <2>1. Alike(call[t], call'[t])
    BY <1>0, <1>2 DEF Moves, CallFits, Writing, RemoteWrites
  <2>2. call[t].from = None
    BY <1>0, <1>2, <2>1 DEF CallFits, Alike
  <2>3. pc[t] \notin Reading
    BY <1>0, <2>2, PeerIs DEF CallFits
  <2>4. pc[t] \in PCs
    BY <1>0 DEF CallFits
  <2>. QED  BY <1>2, <2>1, <2>3, <2>4 DEF PCs, Reading, RemoteReads, Writing, RemoteWrites
<1>3. ASSUME pc'[t] \in Writing, pc[t] = "idle"
      PROVE  call'[t].msg = Len(log) + 1 /\ Logged(log', pc'[t], call'[t], NodeOf[t])
  <2>1. \E q \in Peer, s \in Nat \ {0} : WriteBegin(t, q, s)
    <3>1. TableStep(t)
      BY <1>3, Frames DEF RemoteReads, RemoteWrites, Channels
    <3>2. ~(\E p \in Port, s \in Nat : ReadBegin(t, p, s))
      BY <1>0, <1>3 DEF ReadBegin, Goto, Writing, RemoteWrites, PortalsFit, CallsFit
    <3>. QED  BY <1>0, <1>3, <3>1, <3>2 DEF TableStep, Create, Unlink, Allow, Open, Close, ReadEnd, WriteEnd, Writing, RemoteWrites
  <2>2. PICK q \in Peer, s \in Nat \ {0} : WriteBegin(t, q, s)
    BY <2>1
  <2>3. PICK d, e, k : /\ k = Len(log) + 1
                    /\ d = [NoCall EXCEPT !.port = q, !.size = s, !.left = s, !.msg = k]
                    /\ e = [from |-> <<NodeOf[t], q[2]>>, to |-> <<q[1], output[NodeOf[t]][q]>>, size |-> s]
    OBVIOUS
  <2>4. call' = [call EXCEPT ![t] = d] /\ log' = Append(log, e)
    BY <2>2, <2>3 DEF WriteBegin
  <2>5. call'[t] = d
    BY <2>4 DEF PortalsFit, CallsFit
  <2>6. d.port = q /\ d.size = s /\ d.msg = k
    BY <2>3 DEF NoCall
  <2>7. log'[k] = e
    BY <1>0, <2>3, <2>4
  <2>8. e.from = <<NodeOf[t], q[2]>> /\ e.to[1] = q[1] /\ e.size = s
    BY <2>3
  <2>. QED  BY <2>3, <2>5, <2>6, <2>7, <2>8 DEF Logged
<1>4. ASSUME NEW u \in Thread PROVE Logged(log', pc'[u], call'[u], NodeOf[u])
  <2>0. Logged(log, pc[u], call[u], NodeOf[u])
    BY DEF AllLogged
  <2>1. CASE u # t
    BY <1>0, <1>1, <2>0, <2>1 DEF Logged
  <2>2. CASE u = t
    <3>1. CASE pc'[t] \notin Writing
      BY <2>2, <3>1 DEF Logged
    <3>2. CASE pc'[t] \in Writing /\ pc[t] # "idle"
      BY <1>1, <1>2, <2>0, <2>2, <3>2 DEF Logged, Alike
    <3>3. CASE pc'[t] \in Writing /\ pc[t] = "idle"
      BY <1>3, <2>2, <3>3
    <3>. QED  BY <3>1, <3>2, <3>3
  <2>. QED  BY <2>1, <2>2
<1>5. ASSUME NEW u \in Thread \ {t}, pc'[t] \in Writing, pc[u] \in Writing PROVE call'[t].msg # call[u].msg
  <2>1. call[u].msg \in 1 .. Len(log)
    BY <1>0, <1>5 DEF CallFits
  <2>2. CASE pc[t] # "idle"
    BY <1>2, <1>5, <2>2 DEF AllLogged, Written1st, Alike
  <2>3. CASE pc[t] = "idle"
    BY <1>0, <1>3, <1>5, <2>1, <2>3
  <2>. QED  BY <2>2, <2>3
<1>6. Written1st'
  <2>1. ASSUME NEW u \in Thread, NEW v \in Thread, u # v, pc'[u] \in Writing, pc'[v] \in Writing
        PROVE  call'[u].msg # call'[v].msg
    <3>1. CASE u # t /\ v # t
      BY <1>0, <2>1, <3>1 DEF AllLogged, Written1st
    <3>2. CASE u = t
      BY <1>0, <1>5, <2>1, <3>2
    <3>3. CASE v = t
      BY <1>0, <1>5, <2>1, <3>3
    <3>. QED  BY <3>1, <3>2, <3>3
  <2>. QED  BY <2>1 DEF Written1st
<1>. QED  BY <1>4, <1>6 DEF AllLogged

-----------------------------------------------------------------------------
(* What a step of t leaves of the others.                                  *)

\* t puts only its own message, or one from another node, into buffers.
NewData(t, q, L) ==
    \A b \in Buffer : \/ q[b].data = pool[NodeOf[t]][b].data \/ q[b].data = <<>>
                      \/ IsForeign(L, Message(q[b].data))
                      \/ pc[t] \in Writing /\ Message(q[b].data) = call[t].msg

LEMMA FitsApart ==
    ASSUME NEW L, NEW l, NEW c, NEW n, NEW p, DataFits(L, l, c, n, p), BufferFits(l, c), NEW q,
           Filling(l, c) \/ Taking(l, c) => q[c.buf] = p[c.buf],
           \A b \in Buffer : \/ q[b].data = p[b].data \/ q[b].data = <<>>
                             \/ l \in {"write local", "publish"} => Message(q[b].data) # c.msg
    PROVE  DataFits(L, l, c, n, q)
<1>1. WritesOut(l, c, n, q)
  <2>1. SUFFICES ASSUME l \in {"write local", "publish"} PROVE WritesOut(l, c, n, q)
    BY DEF WritesOut
  <2>2. WritesOut(l, c, n, p)
    BY DEF DataFits
  <2>3. c.buf # NoBuffer => q[c.buf] = p[c.buf]
    BY <2>1 DEF Filling
  <2>4. ASSUME NEW b \in Buffer, q[b].data # <<>>, Message(q[b].data) = c.msg PROVE q[b].data = p[b].data
    BY <2>1, <2>4
  <2>. QED  BY <2>1, <2>2, <2>3, <2>4 DEF WritesOut
<1>2. Keeps(L, l, c, q)
  BY DEF DataFits, Keeps
<1>3. ReadsIn(L, l, c, n, q)
  <2>1. l = "read local" /\ c.buf # NoBuffer => q[c.buf] = p[c.buf]
    BY DEF BufferFits, Keeping, Taking
  <2>2. ReadsOn(L, l, c, p) => ReadsOn(L, l, c, q)
    BY <2>1 DEF ReadsOn
  <2>. QED  BY <2>2 DEF DataFits, ReadsIn
<1>. QED  BY <1>1, <1>2, <1>3 DEF DataFits

\* The messages of local writers are local.
LEMMA LocalMessage ==
    ASSUME PortalsFit, AllLogged, NEW u \in Thread, pc[u] \in Writing
    PROVE  /\ call[u].msg \in DOMAIN log /\ call[u].msg \in 1 .. Len(log)
           /\ log[call[u].msg].from = <<NodeOf[u], call[u].port[2]>> /\ log[call[u].msg].to[1] = call[u].port[1]
           /\ log[call[u].msg].size = call[u].size
           /\ IsLocal(log, call[u].msg) <=> call[u].port[1] = NodeOf[u]
           /\ IsForeign(log, call[u].msg) <=> call[u].port[1] # NodeOf[u]
<1>1. call[u].msg \in 1 .. Len(log) /\ log \in Seq(Entry)
  BY DEF PortalsFit, CallsFit, CallFits, TablesFit
<1>2. call[u].msg \in DOMAIN log
  BY <1>1
<1>3. Logged(log, pc[u], call[u], NodeOf[u])
  BY DEF AllLogged
<1>. QED  BY <1>1, <1>2, <1>3 DEF Logged, IsLocal, IsForeign

LEMMA OthersData ==
    ASSUME PortalsFit, Buffers, Data, NEW t \in Thread, Grows(log, log'), NEW q, Spares(t, q), NewData(t, q, log'),
           NEW u \in Thread \ {t}, NodeOf[u] = NodeOf[t]
    PROVE  DataFits(log', pc[u], call[u], NodeOf[u], q)
<1>0. PICK n, l, c, p : n = NodeOf[u] /\ l = pc[u] /\ c = call[u] /\ p = pool[n]
  OBVIOUS
<1>1. n \in Node /\ BufferFits(l, c) /\ Contents(log, n, p)
  BY <1>0, Consts DEF Buffers, Data
<1>2. DataFits(log', l, c, n, p)
  <2>1. c.buf \in Buffer \cup {NoBuffer}
    BY <1>1 DEF BufferFits
  <2>2. DataFits(log, l, c, n, p)
    BY <1>0 DEF Data
  <2>. QED  BY <1>1, <2>1, <2>2, FitsGrow
<1>3. Filling(l, c) \/ Taking(l, c) => q[c.buf] = p[c.buf]
  BY <1>0 DEF Spares, Fills, Takes
<1>4. ASSUME l \in {"write local", "publish"}, NEW b \in Buffer, q[b].data # p[b].data, q[b].data # <<>>
      PROVE  Message(q[b].data) # c.msg
  <2>1. pc[u] \in Writing
    BY <1>0, <1>4 DEF Writing
  <2>2. call[u].port[1] = NodeOf[u]
    BY <1>0, <1>2, <1>4 DEF DataFits, WritesOut
  <2>3. c.msg \in DOMAIN log /\ IsLocal(log, c.msg)
    BY <1>0, <2>1, <2>2, LocalMessage DEF Data
  <2>4. ~IsForeign(log', c.msg)
    BY <2>3 DEF IsLocal, IsForeign, Grows
  <2>5. pc[t] \in Writing => call[t].msg # c.msg
    BY <1>0, <2>1 DEF Data, AllLogged, Written1st
  <2>. QED  BY <1>0, <1>4, <2>4, <2>5 DEF NewData
<1>5. DataFits(log', l, c, n, q)
  BY <1>1, <1>2, <1>3, <1>4, FitsApart
<1>. QED  BY <1>0, <1>5

\* A step of t that makes q of the buffers of its node.
LEMMA DataStep ==
    ASSUME PortalsFit, Buffers, Data, NEW t \in Thread, Moves(t), Grows(log, log'),
           TableStep(t) \/ LocalStep(t) \/ ReadStep(t) \/ WriteStep(t), AllArrive',
           NEW q, pool' = [pool EXCEPT ![NodeOf[t]] = q], Spares(t, q), NewData(t, q, log'),
           Contents(log', NodeOf[t], q), DataFits(log', pc'[t], call'[t], NodeOf[t], q)
    PROVE  Data'
<1>0. PICK o : o = NodeOf[t] /\ o \in Node
  BY Consts
<1>1. pool'[o] = q /\ \A n \in Node \ {o} : pool'[n] = pool[n]
  BY <1>0 DEF Buffers, PoolFits
<1>2. AllLogged'
  BY LoggedKept DEF Data
<1>3. ASSUME NEW n \in Node PROVE Contents(log', n, pool'[n])
  <2>1. CASE n = o
    BY <1>0, <1>1, <2>1
  <2>2. CASE n # o
    <3>1. Contents(log, n, pool[n]) /\ Sane(pool[n])
      BY DEF Data, Buffers, PoolFits
    <3>2. Contents(log', n, pool[n])
      BY <3>1, ContentsGrow
    <3>. QED  BY <1>1, <2>2, <3>2
  <2>. QED  BY <2>1, <2>2
<1>4. ASSUME NEW u \in Thread PROVE DataFits(log', pc'[u], call'[u], NodeOf[u], pool'[NodeOf[u]])
  <2>1. CASE u = t
    BY <1>0, <1>1, <2>1
  <2>2. CASE u # t /\ NodeOf[u] = NodeOf[t]
    <3>1. pc'[u] = pc[u] /\ call'[u] = call[u]
      BY <2>2, MovesOther
    <3>2. DataFits(log', pc[u], call[u], NodeOf[u], q)
      BY <2>2, OthersData
    <3>. QED  BY <1>0, <1>1, <2>2, <3>1, <3>2
  <2>3. CASE NodeOf[u] # NodeOf[t]
    <3>1. pc'[u] = pc[u] /\ call'[u] = call[u]
      BY <2>3, MovesOther
    <3>2. NodeOf[u] \in Node \ {o}
      BY <1>0, <2>3, Consts
    <3>3. call[u].buf \in Buffer \cup {NoBuffer} /\ Contents(log, NodeOf[u], pool[NodeOf[u]])
          /\ DataFits(log, pc[u], call[u], NodeOf[u], pool[NodeOf[u]])
      BY <3>2 DEF Data, Buffers, BufferFits
    <3>4. DataFits(log', pc[u], call[u], NodeOf[u], pool[NodeOf[u]])
      BY <3>3, FitsGrow
    <3>. QED  BY <1>1, <3>1, <3>2, <3>4
  <2>. QED  BY <2>1, <2>2, <2>3
<1>. QED  BY <1>2, <1>3, <1>4 DEF Data

\* The step does not touch the buffers.
LEMMA DataSame ==
    ASSUME PortalsFit, Buffers, Data, NEW t \in Thread, Moves(t), Grows(log, log'),
           TableStep(t) \/ LocalStep(t) \/ ReadStep(t) \/ WriteStep(t), AllArrive', pool' = pool,
           NEW x, NEW d, pc'[t] = x, call'[t] = d,
           DataFits(log', x, d, NodeOf[t], pool[NodeOf[t]])
    PROVE  Data'
<1>0. PICK o, q : o = NodeOf[t] /\ o \in Node /\ q = pool[o]
  BY Consts
<1>1. pool' = [pool EXCEPT ![NodeOf[t]] = q]
  BY <1>0 DEF Buffers, PoolFits
<1>2. Spares(t, q)
  BY <1>0 DEF Buffers, Spares, TakeFits
<1>3. NewData(t, q, log')
  BY <1>0 DEF NewData
<1>4. Contents(log', NodeOf[t], q)
  <2>1. Contents(log, NodeOf[t], q) /\ Sane(q)
    BY <1>0 DEF Data, Buffers, PoolFits
  <2>. QED  BY <2>1, ContentsGrow
<1>5. DataFits(log', pc'[t], call'[t], NodeOf[t], q)
  BY <1>0
<1>. QED  BY <1>1, <1>2, <1>3, <1>4, <1>5, DataStep

-----------------------------------------------------------------------------
(* The log and the channels.                                               *)

LEMMA LongerIs ==
    ASSUME NEW L \in Seq(Entry), NEW e, NEW M, M = Append(L, e), M \in Seq(Entry)
    PROVE  Grows(L, M) /\ Len(M) = Len(L) + 1 /\ Len(L) \in Nat
<1>1. Len(M) = Len(L) + 1 /\ Len(L) \in Nat /\ DOMAIN L = 1 .. Len(L) /\ DOMAIN M = 1 .. Len(M)
  OBVIOUS
<1>2. \A k \in 1 .. Len(L) : M[k] = L[k]
  OBVIOUS
<1>. QED  BY <1>1, <1>2 DEF Grows

LEMMA LogGrows ==
    ASSUME PortalsFit, log' \in Seq(Entry), NEW t \in Thread, TableStep(t) \/ LocalStep(t) \/ ReadStep(t) \/ WriteStep(t)
    PROVE  Grows(log, log') /\ (LocalStep(t) \/ ReadStep(t) \/ WriteStep(t) => log' = log)
<1>0. log \in Seq(Entry) /\ Grows(log, log)
  BY GrowsSelf DEF PortalsFit, TablesFit
<1>1. LocalStep(t) => log' = log
  BY DEF LocalStep, WriteLocal, WriteLocalYield, Publish, ReadLocal, TakeAvailable, historyVars
<1>2. ReadStep(t) => log' = log
  BY DEF ReadStep, Again, ReadBuffered, LockRead, LockedRead, CheckChannel, SetChannel, SendAllow, ReadHeader,
    Validate, AllocFirst, ReadPiece, KeepPiece, AllocNext, Relock, Drop, FinishRead, ReleaseChannel, Exit,
    ReadError, TakeAvailable, historyVars
<1>3. WriteStep(t) => log' = log
  BY DEF WriteStep, TakeAllow, LockAllow, ReceiveAllow, AllowError, LockWrite, SendHeader, SendPiece, WriteError, historyVars
<1>4. CASE TableStep(t)
  <2>1. CASE log' = log
    BY <1>0, <2>1
  <2>2. CASE log' # log
    <3>1. PICK q \in Peer, s \in Nat \ {0} : WriteBegin(t, q, s)
      BY <1>4, <2>2 DEF TableStep, Create, Allow, Unlink, Open, Close, ReadBegin, ReadEnd, WriteEnd, historyVars
    <3>2. PICK e : log' = Append(log, e)
      BY <3>1, Zenon DEF WriteBegin
    <3>. QED  BY <1>0, <3>2, LongerIs, <1>1, <1>2, <1>3
  <2>. QED  BY <1>1, <1>2, <1>3, <2>1, <2>2
<1>. QED  BY <1>0, <1>1, <1>2, <1>3, <1>4

LEMMA ArrivesGrow ==
    ASSUME NEW L, NEW M, Grows(L, M), NEW q, Arrives(L, q)
    PROVE  Arrives(M, q)
BY Growing DEF Arrives

LEMMA ArrivesTail ==
    ASSUME NEW L, NEW S, NEW q \in Seq(S), q # <<>>, Arrives(L, q)
    PROVE  Arrives(L, Tail(q)) /\ (~IsHeader(Head(q)) => IsForeign(L, Head(q).unit[1]))
<1>1. Head(q) = q[1] /\ 1 \in DOMAIN q /\ \A i \in DOMAIN Tail(q) : i + 1 \in DOMAIN q /\ Tail(q)[i] = q[i + 1]
  OBVIOUS
<1>. QED  BY <1>1 DEF Arrives

LEMMA ArrivesAppend ==
    ASSUME NEW L, NEW S, NEW q \in Seq(S), NEW m, Arrives(L, q), ~IsHeader(m) => IsForeign(L, m.unit[1])
    PROVE  Arrives(L, Append(q, m))
<1>1. \A i \in DOMAIN Append(q, m) : (i \in DOMAIN q /\ Append(q, m)[i] = q[i]) \/ Append(q, m)[i] = m
  OBVIOUS
<1>. QED  BY <1>1 DEF Arrives

\* What a reader finds in the channel.
LEMMA Incomes ==
    ASSUME PortalsFit, AllArrive, NEW t \in Thread, pc[t] \in RemoteReads, Incoming(t) # <<>>
    PROVE  LET m == Head(Incoming(t)) IN
           /\ m \in Header \cup Piece
           /\ ~IsHeader(m) => m \in Piece /\ m.unit \in Unit /\ IsForeign(log, m.unit[1])
           /\ Arrives(log, Tail(Incoming(t)))
<1>1. NodeOf[t] \in Node /\ Remote(t) \in Node /\ Incoming(t) \in Seq(Header \cup Piece)
  BY RemoteFits
<1>2. Arrives(log, Incoming(t))
  BY <1>1 DEF AllArrive, Incoming
<1>3. Head(Incoming(t)) \in Header \cup Piece
  BY <1>1, HeadFits
<1>4. ~IsHeader(Head(Incoming(t))) => Head(Incoming(t)) \in Piece /\ Head(Incoming(t)).unit \in Unit
  BY <1>3, Kinds DEF Piece
<1>. QED  BY <1>1, <1>2, <1>3, <1>4, ArrivesTail

LEMMA SetArrives ==
    ASSUME PortalsFit, AllArrive, log' = log, NEW n \in Node, NEW m \in Node, NEW q, Arrives(log, q),
           channel' = [channel EXCEPT ![n][m] = q]
    PROVE  AllArrive'
<1>1. channel \in [Node -> [Node -> Seq(Header \cup Piece)]]
  BY DEF PortalsFit, MailFits
<1>2. ASSUME NEW k \in Node, NEW l \in Node PROVE Arrives(log', channel'[k][l])
  <2>1. channel'[k][l] = channel[k][l] \/ channel'[k][l] = q
    BY <1>1
  <2>2. Arrives(log, channel[k][l])
    BY DEF AllArrive
  <2>. QED  BY <2>1, <2>2
<1>. QED  BY <1>2 DEF AllArrive

LEMMA SendArrives ==
    ASSUME PortalsFit, AllArrive, log' = log, NEW t \in Thread, pc[t] \in RemoteWrites, NEW m, Send(t, m),
           ~IsHeader(m) => IsForeign(log, m.unit[1])
    PROVE  AllArrive'
<1>1. NodeOf[t] \in Node /\ Target(t) \in Node /\ channel \in [Node -> [Node -> Seq(Header \cup Piece)]]
  <2>1. call[t].port \in Peer
    BY DEF PortalsFit, CallsFit, CallFits, Writing
  <2>. QED  BY <2>1, PeerIs, Consts DEF PortalsFit, MailFits, Target
<1>2. PICK n, o, p, q : n = NodeOf[t] /\ o = Target(t) /\ p = channel[o][n] /\ q = Append(p, m)
  OBVIOUS
<1>3. channel' = [channel EXCEPT ![o][n] = q]
  BY <1>2 DEF Send
<1>4. Arrives(log, q)
  <2>1. p \in Seq(Header \cup Piece)
    BY <1>1, <1>2
  <2>2. Arrives(log, p)
    BY <1>1, <1>2 DEF AllArrive
  <2>. QED  BY <1>2, <2>1, <2>2, ArrivesAppend
<1>. QED  BY <1>1, <1>2, <1>3, <1>4, SetArrives

LEMMA AllArrives ==
    ASSUME PortalsFit, AllLogged, AllArrive, Grows(log, log'), NEW t \in Thread,
           TableStep(t) \/ LocalStep(t) \/ ReadStep(t) \/ WriteStep(t),
           LocalStep(t) \/ ReadStep(t) \/ WriteStep(t) => log' = log
    PROVE  AllArrive'
<1>1. CASE channel' = channel
  <2>1. ASSUME NEW n \in Node, NEW m \in Node PROVE Arrives(log', channel'[n][m])
    <3>1. Arrives(log, channel[n][m])
      BY DEF AllArrive
    <3>. QED  BY <1>1, <3>1, ArrivesGrow
  <2>. QED  BY <2>1 DEF AllArrive
<1>2. CASE TableStep(t) \/ LocalStep(t)
  BY <1>1, <1>2, Frames DEF TableFrame, mailboxVars
<1>3. CASE ReadStep(t)
  <2>1. CASE ReadHeader(t) \/ ReadPiece(t) \/ KeepPiece(t) \/ Drop(t)
    <3>1. Receive(t) /\ Incoming(t) # <<>> /\ pc[t] \in RemoteReads /\ log' = log
      BY <1>3, <2>1, Frames DEF ReadHeader, ReadPiece, KeepPiece, Drop
    <3>2. PICK n, o, q : n = NodeOf[t] /\ o = Remote(t) /\ q = Tail(Incoming(t))
      OBVIOUS
    <3>3. n \in Node /\ o \in Node
      BY <3>1, <3>2, RemoteFits
    <3>4. Arrives(log, q)
      BY <3>1, <3>2, Incomes
    <3>5. channel' = [channel EXCEPT ![n][o] = q]
      BY <3>1, <3>2 DEF Receive, Incoming
    <3>. QED  BY <3>1, <3>3, <3>4, <3>5, SetArrives
  <2>2. CASE ~(ReadHeader(t) \/ ReadPiece(t) \/ KeepPiece(t) \/ Drop(t))
    <3>1. channel' = channel
      BY <1>3, <2>2 DEF ReadStep, Again, ReadBuffered, LockRead, LockedRead, CheckChannel, SetChannel, SendAllow,
        Validate, AllocFirst, AllocNext, Relock, FinishRead, ReleaseChannel, Exit, ReadError, TableFrame, WriteFrame, mailboxVars
    <3>. QED  BY <1>1, <3>1
  <2>. QED  BY <2>1, <2>2
<1>4. CASE WriteStep(t)
  <2>0. pc[t] \in RemoteWrites /\ pc[t] \in Writing /\ log' = log
    BY <1>4, Frames DEF Writing
  <2>1. CASE SendHeader(t)
    <3>1. PICK m \in Header : Send(t, m)
      BY <2>1, SentFits DEF SendHeader
    <3>2. IsHeader(m)
      BY Kinds
    <3>. QED  BY <2>0, <3>1, <3>2, SendArrives
  <2>2. CASE SendPiece(t)
    <3>1. PICK m, k, e, w : Send(t, m) /\ m = [unit |-> <<k, w>>, eof |-> e] /\ k = call[t].msg
      BY <2>2, Zenon DEF SendPiece
    <3>3. m.unit[1] = call[t].msg
      BY <3>1
    <3>2. IsForeign(log, call[t].msg)
      <4>1. call[t].port[1] # NodeOf[t]
        BY <2>0 DEF PortalsFit, CallsFit, CallFits
      <4>. QED  BY <2>0, <4>1, LocalMessage
    <3>. QED  BY <2>0, <3>1, <3>2, <3>3, SendArrives
  <2>3. CASE ~SendHeader(t) /\ ~SendPiece(t)
    <3>1. channel' = channel
      BY <1>4, <2>3 DEF WriteStep, TakeAllow, LockAllow, ReceiveAllow, AllowError, LockWrite, WriteError, mailboxVars
    <3>. QED  BY <1>1, <3>1
  <2>. QED  BY <2>1, <2>2, <2>3
<1>. QED  BY <1>2, <1>3, <1>4

-----------------------------------------------------------------------------
(* Steps that do not touch the buffers.                                    *)

\* A reader between nodes has got nothing that is local.
LEMMA NotLocal ==
    ASSUME NEW L, NEW l, NEW c, NEW n, Reads1st(L, l, c, n), c.from[1] # n, c.got # <<>>
    PROVE  Message(c.got) \in DOMAIN L /\ ~IsLocal(L, Message(c.got)) /\ IsForeign(L, Message(c.got))
<1>1. PICK m : m = Message(c.got)
  OBVIOUS
<1>2. m \in DOMAIN L /\ (IsLocal(L, m) => L[m].from = c.from /\ L[m].to = <<n, c.port>>)
  BY <1>1 DEF Reads1st
<1>3. ~IsLocal(L, m)
  BY <1>2 DEF IsLocal
<1>. QED  BY <1>1, <1>2, <1>3 DEF IsLocal, IsForeign

\* No data belong to a thread at these places.
LEMMA NoData ==
    ASSUME NEW L, NEW n, NEW p, NEW c, NEW x, x = "idle" \/ x \in Writing \ {"write local", "publish"}
    PROVE  DataFits(L, x, c, n, p)
<1>1. x \notin {"write local", "publish"} /\ x \notin Reading /\ x \notin {"more", "relock"}
  BY DEF Reading, RemoteReads, Channels, Writing, RemoteWrites
<1>. QED  BY <1>1 DEF DataFits, WritesOut, Keeps, ReadsIn

LEMMA NothingIs == <<>> \in Seq(Unit) /\ Len(<<>>) = 0
OBVIOUS

LEMMA MinusNothing == ASSUME NEW s \in Nat PROVE s = s - 0
OBVIOUS

\* A new reader has got nothing yet, a new writer has filled nothing.
LEMMA NewReadData ==
    ASSUME NEW L, NEW n, NEW p, NEW f, NEW q, NEW s \in Nat, NEW d, NewRead(d, q, f, s), NEW x \in {"read local", "again"}
    PROVE  DataFits(L, x, d, n, p)
<1>1. d.got = <<>> /\ d.buf = NoBuffer /\ d.left = s /\ d.size = s
  BY DEF NewRead, NoCall
<1>2. WritesOut(x, d, n, p) /\ Keeps(L, x, d, p)
  BY <1>1 DEF WritesOut, Keeps, Filling
<1>3. <<>> \in Seq(Unit) /\ Len(<<>>) = 0 /\ s = s - 0
  BY NothingIs, MinusNothing
<1>4. d.got \in Seq(Unit) /\ Reads1st(L, x, d, n)
  BY <1>1, <1>3, Zenon DEF Reads1st
<1>5. d.left = d.size - Len(d.got)
  BY <1>1, <1>3, Zenon
<1>6. ReadsOn(L, x, d, p)
  BY <1>1, <1>5 DEF ReadsOn
<1>. QED  BY <1>2, <1>4, <1>6 DEF DataFits, ReadsIn

LEMMA NewWriteData ==
    ASSUME NEW L, NEW n, NEW p, NEW q, NEW k, NEW s \in Nat, NEW d, NewWrite(d, q, k, s),
           \A b \in Buffer : p[b].data # <<>> => Message(p[b].data) # k,
           NEW x, x = IF q[1] = n THEN "write local" ELSE "wait allow"
    PROVE  DataFits(L, x, d, n, p)
<1>1. d.buf = NoBuffer /\ d.left = s /\ d.size = s /\ d.port = q /\ d.msg = k
  BY DEF NewWrite, NoCall
<1>2. x \notin Reading /\ x \notin {"more", "relock"}
  BY DEF Reading, RemoteReads, Channels
<1>3. WritesOut(x, d, n, p)
  BY <1>1 DEF WritesOut
<1>. QED  BY <1>2, <1>3 DEF DataFits, Keeps, ReadsIn

\* A reader between nodes goes on.
ReaderData(l, c, x, d, n) ==
    /\ l \in RemoteReads /\ x \in RemoteReads \cup {"read end"} /\ Alike(c, d)
    /\ Filling(x, d) => Filling(l, c) /\ d.buf = c.buf
    /\ x \in {"more", "relock"} => IsForeign(log, d.header.unit[1])
    /\ d.got = c.got \/ (d.got \in Seq(Unit) /\ Reads1st(log, x, d, n))

LEMMA ReaderKeepsData ==
    ASSUME PortalsFit, Buffers, Data, NEW t \in Thread, Moves(t), ReadStep(t), AllArrive', log' = log, pool' = pool,
           NEW x, NEW d, pc' = [pc EXCEPT ![t] = x], call' = [call EXCEPT ![t] = d],
           ReaderData(pc[t], call[t], x, d, NodeOf[t])
    PROVE  Data'
<1>0. PICK l, c, n, p : l = pc[t] /\ c = call[t] /\ n = NodeOf[t] /\ p = pool[n]
  OBVIOUS
<1>1. /\ l \in RemoteReads /\ x \in RemoteReads \cup {"read end"} /\ Alike(c, d)
      /\ Filling(x, d) => Filling(l, c) /\ d.buf = c.buf
      /\ x \in {"more", "relock"} => IsForeign(log, d.header.unit[1])
      /\ d.got = c.got \/ (d.got \in Seq(Unit) /\ Reads1st(log, x, d, n))
  BY <1>0 DEF ReaderData
<1>2. pc'[t] = x /\ call'[t] = d
  BY DEF PortalsFit, CallsFit
<1>3. DataFits(log, l, c, n, p)
  BY <1>0 DEF Data
<1>4. x \in Reading /\ l \in Reading /\ x \notin {"write local", "publish", "read local"}
  BY <1>1 DEF Reading, RemoteReads, Channels
<1>5. Keeps(log, x, d, p)
  BY <1>1, <1>3, <1>4 DEF DataFits, Keeps
<1>6. d.got \in Seq(Unit) /\ Reads1st(log, x, d, n)
  BY <1>1, <1>3, <1>4 DEF DataFits, ReadsIn, Reads1st, Alike
<1>7. DataFits(log, x, d, n, p)
  BY <1>4, <1>5, <1>6 DEF DataFits, WritesOut, ReadsIn, ReadsOn
<1>8. DataFits(log', x, d, NodeOf[t], pool[NodeOf[t]])
  BY <1>0, <1>7
<1>. QED  BY <1>2, <1>8, GrowsSelf, DataSame

\* What the places of t before and after a step say of filling.
LEMMA PlaceData ==
    ASSUME NEW l \in RemoteReads, NEW c, NEW x, NEW n
    PROVE  /\ x \in {"lock", "locked", "check", "set", "allow", "header", "release", "drop", "exit", "again", "read end", "panic"}
                => ReaderData(l, c, x, c, n)
           /\ l = "relock" /\ x \in {"finish", "piece"} => ReaderData(l, c, x, c, n)
<1>1. Alike(c, c)
  BY DEF Alike
<1>. QED  BY <1>1 DEF ReaderData, Filling, RemoteReads, Channels, Keeping

LEMMA PassingData ==
    ASSUME PortalsFit, Buffers, Data, NEW t \in Thread, Moves(t), AllArrive', log' = log,
           LockRead(t) \/ CheckChannel(t) \/ SetChannel(t) \/ SendAllow(t) \/ Relock(t) \/ Drop(t)
             \/ ReleaseChannel(t) \/ Exit(t)
    PROVE  Data'
<1>0. ReadStep(t) /\ pc[t] \in RemoteReads
  BY Frames DEF ReadStep
<1>1. pool' = pool /\ call' = call
  BY DEF LockRead, CheckChannel, SetChannel, SendAllow, Relock, Drop, ReleaseChannel, Exit, ReadFrame, WriteFrame,
    TableFrame, bufferVars
<1>2. PICK x : /\ pc' = [pc EXCEPT ![t] = x]
               /\ \/ x \in {"lock", "locked", "check", "set", "allow", "header", "release", "drop", "exit", "again", "read end", "panic"}
                  \/ pc[t] = "relock" /\ x \in {"finish", "piece"}
  BY DEF LockRead, CheckChannel, SetChannel, SendAllow, Relock, Drop, ReleaseChannel, Exit, Goto, AfterPiece
<1>3. PICK c : c = call[t]
  OBVIOUS
<1>4. call' = [call EXCEPT ![t] = c]
  BY <1>1, <1>3 DEF PortalsFit, CallsFit
<1>5. ReaderData(pc[t], call[t], x, c, NodeOf[t])
  <2>1. PICK l, n : l = pc[t] /\ n = NodeOf[t]
    OBVIOUS
  <2>2. ReaderData(l, c, x, c, n)
    BY <1>0, <1>2, <2>1, PlaceData
  <2>. QED  BY <1>3, <2>1, <2>2
<1>. QED  BY <1>0, <1>1, <1>2, <1>4, <1>5, ReaderKeepsData

LEMMA BareData ==
    ASSUME PortalsFit, Buffers, Data, NEW t \in Thread, Moves(t), AllArrive', log' = log,
           Again(t) \/ ReadHeader(t) \/ Validate(t) \/ ReadError(t) \/ (FinishRead(t) /\ ~call[t].buffering)
    PROVE  Data'
<1>0. ReadStep(t) /\ pc[t] \in RemoteReads
  BY Frames DEF ReadStep
<1>1. pool' = pool
  BY DEF Again, ReadHeader, Validate, ReadError, FinishRead, WriteFrame, TableFrame, bufferVars
<1>2. PICK c, l, n : c = call[t] /\ l = pc[t] /\ n = NodeOf[t]
  OBVIOUS
<1>3. IsCall(c) /\ call = [u \in Thread |-> call[u]] /\ pc \in [Thread -> PCs]
  BY <1>2 DEF PortalsFit, CallsFit, CallFits
<1>4. CASE Again(t)
  <2>1. PICK d : d = [c EXCEPT !.buf = NoBuffer, !.valid = TRUE, !.buffering = FALSE, !.left = c.size]
    OBVIOUS
  <2>2. pc[t] = "again" /\ pc' = [pc EXCEPT ![t] = "again"] /\ call' = [call EXCEPT ![t] = d]
    BY <1>2, <1>3, <1>4, <2>1 DEF Again
  <2>3. Alike(c, d) /\ d.got = c.got
    BY <1>3, <2>1 DEF IsCall, Alike
  <2>4. ReaderData(pc[t], call[t], "again", d, NodeOf[t])
    BY <1>0, <1>2, <2>3 DEF ReaderData, Filling, RemoteReads
  <2>. QED  BY <1>0, <1>1, <2>2, <2>4, ReaderKeepsData
<1>5. CASE ReadHeader(t)
  <2>1. CASE pc' = [pc EXCEPT ![t] = "panic"] /\ UNCHANGED call
    <3>1. call' = [call EXCEPT ![t] = c]
      BY <1>2, <1>3, <2>1
    <3>2. ReaderData(l, c, "panic", c, n)
      BY <1>0, <1>2, PlaceData
    <3>3. ReaderData(pc[t], call[t], "panic", c, NodeOf[t])
      BY <1>2, <3>2
    <3>. QED  BY <1>0, <1>1, <2>1, <3>1, <3>3, ReaderKeepsData
  <2>2. CASE pc' = [pc EXCEPT ![t] = "validate"] /\ \E h : call' = [call EXCEPT ![t].header = h]
    <3>1. PICK h : call' = [call EXCEPT ![t].header = h]
      BY <2>2
    <3>2. PICK d : d = [c EXCEPT !.header = h]
      OBVIOUS
    <3>3. call' = [call EXCEPT ![t] = d]
      BY <1>2, <3>1, <3>2
    <3>4. Alike(c, d) /\ d.got = c.got
      BY <1>3, <3>2 DEF IsCall, Alike
    <3>5. ReaderData(pc[t], call[t], "validate", d, NodeOf[t])
      BY <1>0, <1>2, <3>4 DEF ReaderData, Filling, RemoteReads, Channels
    <3>. QED  BY <1>0, <1>1, <2>2, <3>3, <3>5, ReaderKeepsData
  <2>. QED  BY <1>5, <2>1, <2>2, Zenon DEF ReadHeader, Goto
<1>6. CASE Validate(t)
  <2>1. PICK v, b, r, x : /\ call' = [call EXCEPT ![t].valid = v, ![t].received = 0, ![t].buffering = b, ![t].ret = r]
                          /\ pc' = [pc EXCEPT ![t] = x]
                          /\ x \in {"drop", "alloc"} \/ (x = "piece" /\ b = FALSE)
    <3>1. PICK v, g : v = (c.header.to \in created[n]) /\ g = (c.header.from[2] # c.from[2])
      OBVIOUS
    <3>2. /\ call' = [call EXCEPT ![t].valid = v, ![t].received = 0, ![t].buffering = IF v THEN g ELSE @,
                                  ![t].ret = IF v THEN @ ELSE "partial"]
          /\ pc' = [pc EXCEPT ![t] = IF ~v THEN "drop" ELSE IF g THEN "alloc" ELSE "piece"]
      BY <1>2, <1>6, <3>1 DEF Validate, Goto
    <3>3. PICK b, r, x : /\ b = (IF v THEN g ELSE c.buffering) /\ r = (IF v THEN c.ret ELSE "partial")
                         /\ x = IF ~v THEN "drop" ELSE IF g THEN "alloc" ELSE "piece"
      OBVIOUS
    <3>4. call' = [call EXCEPT ![t].valid = v, ![t].received = 0, ![t].buffering = b, ![t].ret = r]
      BY <1>2, <1>3, <3>2, <3>3 DEF IsCall
    <3>5. g \in BOOLEAN
      BY <3>1
    <3>6. x \in {"drop", "alloc"} \/ (x = "piece" /\ b = FALSE)
      BY <3>3, <3>5
    <3>7. pc' = [pc EXCEPT ![t] = x]
      BY <3>2, <3>3
    <3>. QED  BY <3>4, <3>6, <3>7
  <2>2. PICK d : d = [c EXCEPT !.valid = v, !.received = 0, !.buffering = b, !.ret = r]
    OBVIOUS
  <2>3. call' = [call EXCEPT ![t] = d]
    BY <1>2, <1>3, <2>1, <2>2
  <2>4. Alike(c, d) /\ d.got = c.got /\ d.buffering = b
    BY <1>3, <2>2 DEF IsCall, Alike
  <2>5. ReaderData(pc[t], call[t], x, d, NodeOf[t])
    BY <1>0, <1>2, <2>1, <2>4 DEF ReaderData, Filling, RemoteReads, Channels
  <2>. QED  BY <1>0, <1>1, <2>1, <2>3, <2>5, ReaderKeepsData
<1>7. CASE ReadError(t) \/ (FinishRead(t) /\ ~call[t].buffering)
  <2>1. pc' = [pc EXCEPT ![t] = "release"] /\ \E r : call' = [call EXCEPT ![t].ret = r]
    BY <1>7, Zenon DEF ReadError, FinishRead, Goto
  <2>2. PICK r : call' = [call EXCEPT ![t].ret = r]
    BY <2>1
  <2>3. PICK d : d = [c EXCEPT !.ret = r]
    OBVIOUS
  <2>4. call' = [call EXCEPT ![t] = d]
    BY <1>2, <2>2, <2>3
  <2>5. Alike(c, d) /\ d.got = c.got
    BY <1>3, <2>3 DEF IsCall, Alike
  <2>6. ReaderData(pc[t], call[t], "release", d, NodeOf[t])
    BY <1>0, <1>2, <2>5 DEF ReaderData, Filling, RemoteReads, Channels
  <2>. QED  BY <1>0, <1>1, <2>1, <2>4, <2>6, ReaderKeepsData
<1>. QED  BY <1>4, <1>5, <1>6, <1>7

LEMMA AppendsUnit ==
    ASSUME NEW q \in Seq(Unit), NEW u \in Unit
    PROVE  /\ Append(q, u) \in Seq(Unit) /\ Append(q, u) # <<>>
           /\ q = <<>> => Append(q, u)[1] = u
           /\ q # <<>> => Append(q, u)[1] = q[1]
OBVIOUS

LEMMA PieceData ==
    ASSUME PortalsFit, Buffers, Data, NEW t \in Thread, Moves(t), AllArrive', log' = log, ReadPiece(t)
    PROVE  Data'
<1>0. ReadStep(t) /\ pc[t] = "piece" /\ pc[t] \in RemoteReads /\ pool' = pool /\ Incoming(t) # <<>> /\ ~call[t].buffering
  BY DEF ReadStep, ReadPiece, RemoteReads, Channels, WriteFrame, bufferVars
<1>1. PICK c, l, n, m : c = call[t] /\ l = pc[t] /\ n = NodeOf[t] /\ m = Head(Incoming(t))
  OBVIOUS
<1>2. IsCall(c) /\ call = [u \in Thread |-> call[u]] /\ pc \in [Thread -> PCs] /\ c.buffering = FALSE /\ c.from[1] # n
  <2>1. CallFits(pc[t], call[t], NodeOf[t], Len(log)) /\ BufferFits(pc[t], call[t])
    BY DEF PortalsFit, CallsFit, Buffers
  <2>2. c.buffering = FALSE /\ c.from[1] # n
    BY <1>0, <1>1, <2>1 DEF CallFits, BufferFits
  <2>. QED  BY <1>1, <2>1, <2>2 DEF PortalsFit, CallsFit, CallFits
<1>3. CASE pc' = [pc EXCEPT ![t] = "panic"] /\ UNCHANGED call
  <2>1. call' = [call EXCEPT ![t] = c]
    BY <1>1, <1>2, <1>3
  <2>2. ReaderData(l, c, "panic", c, n)
    BY <1>0, <1>1, PlaceData
  <2>. QED  BY <1>0, <1>1, <1>3, <2>1, <2>2, ReaderKeepsData
<1>4. CASE pc' = [pc EXCEPT ![t] = "drop"] /\ call' = [call EXCEPT ![t].ret = "invalid"]
  <2>1. PICK d : d = [c EXCEPT !.ret = "invalid"]
    OBVIOUS
  <2>2. call' = [call EXCEPT ![t] = d]
    BY <1>1, <1>4, <2>1
  <2>3. Alike(c, d) /\ d.got = c.got
    BY <1>2, <2>1 DEF IsCall, Alike
  <2>4. ReaderData(pc[t], call[t], "drop", d, NodeOf[t])
    BY <1>0, <1>1, <2>3 DEF ReaderData, Filling, RemoteReads, Channels
  <2>. QED  BY <1>0, <1>4, <2>2, <2>4, ReaderKeepsData
<1>5. CASE /\ ~IsHeader(m) /\ call' = [call EXCEPT ![t].got = Append(@, m.unit), ![t].received = @ + 1]
           /\ \E x \in {"finish", "piece"} : pc' = [pc EXCEPT ![t] = x]
  <2>1. PICK g, k, x : g = Append(c.got, m.unit) /\ k = c.received + 1 /\ x \in {"finish", "piece"} /\ pc' = [pc EXCEPT ![t] = x]
    BY <1>5
  <2>2. PICK d : d = [c EXCEPT !.got = g, !.received = k]
    OBVIOUS
  <2>3. call' = [call EXCEPT ![t] = d]
    BY <1>1, <1>2, <1>5, <2>1, <2>2
  <2>4. Alike(c, d) /\ d.got = g /\ d.buffering = FALSE
    BY <1>2, <2>2 DEF IsCall, Alike
  <2>5. m.unit \in Unit /\ IsForeign(log, m.unit[1])
    BY <1>0, <1>1, <1>5, Incomes DEF Data
  <2>6. c.got \in Seq(Unit) /\ Reads1st(log, l, c, n)
    BY <1>0, <1>1 DEF Data, DataFits, ReadsIn, Reading
  <2>7. c.got # <<>> => IsForeign(log, Message(c.got))
    BY <1>2, <2>6, NotLocal
  <2>8. g \in Seq(Unit) /\ g # <<>> /\ (g[1] = m.unit \/ (c.got # <<>> /\ g[1] = c.got[1]))
    BY <2>1, <2>5, <2>6, AppendsUnit
  <2>9. IsForeign(log, Message(g))
    BY <2>5, <2>7, <2>8 DEF Message
  <2>10. Reads1st(log, x, d, n)
    BY <2>4, <2>9 DEF Reads1st, IsForeign, IsLocal
  <2>11. ~Filling(x, d) /\ x \in RemoteReads /\ x \notin {"more", "relock"}
    BY <2>1, <2>4 DEF Filling, RemoteReads, Channels
  <2>12. ReaderData(pc[t], call[t], x, d, NodeOf[t])
    BY <1>0, <1>1, <2>4, <2>8, <2>10, <2>11 DEF ReaderData
  <2>. QED  BY <1>0, <2>1, <2>3, <2>12, ReaderKeepsData
<1>6. \/ pc' = [pc EXCEPT ![t] = "panic"] /\ UNCHANGED call
      \/ pc' = [pc EXCEPT ![t] = "drop"] /\ call' = [call EXCEPT ![t].ret = "invalid"]
      \/ /\ ~IsHeader(m) /\ call' = [call EXCEPT ![t].got = Append(@, m.unit), ![t].received = @ + 1]
         /\ \E x \in {"finish", "piece"} : pc' = [pc EXCEPT ![t] = x]
  BY <1>1 DEF ReadPiece, Goto, AfterPiece
<1>. QED  BY <1>3, <1>4, <1>5, <1>6

\* Steps of writers between nodes, and those on the table.
LEMMA WriterData ==
    ASSUME PortalsFit, Buffers, Data, NEW t \in Thread, Moves(t), AllArrive', log' = log, WriteStep(t)
    PROVE  Data'
<1>1. pool' = pool
  BY Frames DEF bufferVars
<1>2. PICK x, d : x = pc'[t] /\ d = call'[t]
  OBVIOUS
<1>3. x \in Writing \ {"write local", "publish"}
  <2>1. pc \in [Thread -> PCs]
    BY DEF PortalsFit, CallsFit
  <2>. QED  BY <1>2, <2>1 DEF WriteStep, TakeAllow, LockAllow, ReceiveAllow, AllowError, LockWrite, SendHeader, SendPiece,
         WriteError, Goto, Writing, RemoteWrites
<1>4. DataFits(log', x, d, NodeOf[t], pool[NodeOf[t]])
  BY <1>3, NoData
<1>. QED  BY <1>1, <1>2, <1>4, GrowsSelf, DataSame

LEMMA LogDomain == ASSUME NEW L \in Seq(Entry) PROVE DOMAIN L = 1 .. Len(L) /\ Len(L) \in Nat
OBVIOUS

LEMMA TableData ==
    ASSUME PortalsFit, Buffers, Data, NEW t \in Thread, Moves(t), AllArrive', Grows(log, log'), TableStep(t)
    PROVE  Data'
<1>0. pc \in [Thread -> PCs] /\ call = [u \in Thread |-> call[u]] /\ pool' = pool /\ NodeOf[t] \in Node /\ log \in Seq(Entry)
  BY Frames, Consts DEF PortalsFit, CallsFit, TablesFit, TableFrame, bufferVars
<1>1. PICK n, p : n = NodeOf[t] /\ p = pool[n]
  OBVIOUS
<1>2. CASE ReadEnd(t) \/ WriteEnd(t)
  <2>1. pc'[t] = "idle" /\ call'[t] = NoCall
    BY <1>0, <1>2 DEF ReadEnd, WriteEnd, Goto
  <2>2. DataFits(log', "idle", NoCall, NodeOf[t], pool[NodeOf[t]])
    BY NoData
  <2>. QED  BY <1>0, <2>1, <2>2, DataSame
<1>3. CASE \E q \in Port, s \in Nat : ReadBegin(t, q, s)
  <2>1. PICK q \in Port, s \in Nat : ReadBegin(t, q, s)
    BY <1>3
  <2>2. PICK f, x : f = allowed[n][q] /\ x = IF f[1] = n THEN "read local" ELSE "again"
    OBVIOUS
  <2>3. PICK d : d = [NoCall EXCEPT !.port = q, !.size = s, !.left = s, !.from = f]
    OBVIOUS
  <2>4. call' = [call EXCEPT ![t] = d] /\ pc' = [pc EXCEPT ![t] = x]
    BY <1>1, <2>1, <2>2, <2>3 DEF ReadBegin, Goto
  <2>5. call'[t] = d /\ pc'[t] = x
    BY <1>0, <2>4
  <2>6. NewRead(d, q, f, s) /\ x \in {"read local", "again"}
    BY <2>2, <2>3 DEF NewRead
  <2>7. DataFits(log', x, d, NodeOf[t], pool[NodeOf[t]])
    BY <2>6, NewReadData
  <2>. QED  BY <1>0, <2>5, <2>7, DataSame
<1>4. CASE \E q \in Peer, s \in Nat \ {0} : WriteBegin(t, q, s)
  <2>1. PICK q \in Peer, s \in Nat \ {0} : WriteBegin(t, q, s)
    BY <1>4
  <2>2. PICK k, x : k = Len(log) + 1 /\ x = IF q[1] = n THEN "write local" ELSE "wait allow"
    OBVIOUS
  <2>3. PICK d : d = [NoCall EXCEPT !.port = q, !.size = s, !.left = s, !.msg = k]
    OBVIOUS
  <2>4. call' = [call EXCEPT ![t] = d] /\ pc' = [pc EXCEPT ![t] = x]
    BY <1>1, <2>1, <2>2, <2>3 DEF WriteBegin, Goto
  <2>5. call'[t] = d /\ pc'[t] = x
    BY <1>0, <2>4
  <2>6. NewWrite(d, q, k, s) /\ s \in Nat
    BY <2>3 DEF NewWrite
  <2>7. \A b \in Buffer : p[b].data # <<>> => Message(p[b].data) # k
    <3>1. Contents(log, n, p)
      BY <1>0, <1>1 DEF Data
    <3>2. k \notin DOMAIN log
      <4>1. PICK j : j = Len(log)
        OBVIOUS
      <4>2. DOMAIN log = 1 .. j /\ j \in Nat
        BY <1>0, <4>1, LogDomain
      <4>3. k = j + 1
        BY <2>2, <4>1
      <4>. QED  BY <4>2, <4>3
    <3>. QED  BY <3>1, <3>2 DEF Contents
  <2>8. DataFits(log', x, d, n, p)
    BY <2>2, <2>6, <2>7, NewWriteData
  <2>9. DataFits(log', x, d, NodeOf[t], pool[NodeOf[t]])
    BY <1>1, <2>8
  <2>. QED  BY <1>0, <2>5, <2>9, DataSame
<1>5. CASE UNCHANGED <<pc, call>>
  <2>1. PICK l, c : l = pc[t] /\ c = call[t]
    OBVIOUS
  <2>2. DataFits(log, l, c, n, p) /\ Contents(log, n, p) /\ c.buf \in Buffer \cup {NoBuffer}
    BY <1>0, <1>1, <2>1 DEF Data, Buffers, BufferFits
  <2>3. DataFits(log', l, c, n, p)
    BY <2>2, FitsGrow
  <2>4. DataFits(log', l, c, NodeOf[t], pool[NodeOf[t]]) /\ pc'[t] = l /\ call'[t] = c
    BY <1>1, <1>5, <2>1, <2>3
  <2>. QED  BY <1>0, <2>4, DataSame
<1>. QED  BY <1>2, <1>3, <1>4, <1>5 DEF TableStep, Create, Unlink, Allow, Open, Close

\* A writer that gives the lock up, and a reader that finds nothing.
LEMMA IdleData ==
    ASSUME PortalsFit, Buffers, Data, NEW t \in Thread, Moves(t), AllArrive', log' = log,
           \/ WriteLocalYield(t)
           \/ /\ UNCHANGED <<call, pool>> /\ ReadStep(t)
              /\ pc' = [pc EXCEPT ![t] = "lock"] \/ pc' = [pc EXCEPT ![t] = "check"]
    PROVE  Data'
<1>0. pc \in [Thread -> PCs] /\ call = [u \in Thread |-> call[u]]
  BY DEF PortalsFit, CallsFit
<1>1. PICK n, p, l, c : n = NodeOf[t] /\ p = pool[n] /\ l = pc[t] /\ c = call[t]
  OBVIOUS
<1>2. CASE WriteLocalYield(t)
  <2>1. pc'[t] = l /\ call'[t] = c /\ pool' = pool /\ LocalStep(t)
    BY <1>1, <1>2 DEF WriteLocalYield, bufferVars, LocalStep
  <2>2. DataFits(log', l, c, NodeOf[t], pool[NodeOf[t]])
    BY <1>1 DEF Data
  <2>. QED  BY <2>1, <2>2, GrowsSelf, DataSame
<1>3. CASE ReadStep(t) /\ UNCHANGED <<call, pool>> /\ (pc' = [pc EXCEPT ![t] = "lock"] \/ pc' = [pc EXCEPT ![t] = "check"])
  <2>1. PICK x \in {"lock", "check"} : pc' = [pc EXCEPT ![t] = x]
    BY <1>3
  <2>2. l \in RemoteReads
    BY <1>1, <1>3, Frames
  <2>3. ReaderData(l, c, x, c, n)
    BY <2>2, PlaceData
  <2>4. call' = [call EXCEPT ![t] = c] /\ ReaderData(pc[t], call[t], x, c, NodeOf[t])
    BY <1>0, <1>1, <1>3, <2>3
  <2>. QED  BY <1>3, <2>1, <2>4, ReaderKeepsData
<1>. QED  BY <1>2, <1>3

-----------------------------------------------------------------------------
(* A buffer is filled.                                                     *)

LEMMA PairIs == ASSUME NEW A, NEW B, NEW v \in A \X B PROVE v = <<v[1], v[2]>>
OBVIOUS

\* The message of a local writer and what it has filled of it.
LocalPart(L, c, n, p) ==
    /\ IsLocal(L, c.msg) /\ c.msg \in DOMAIN L /\ L[c.msg].size = c.size
    /\ L[c.msg].from = <<n, c.port[2]>> /\ L[c.msg].to = <<n, L[c.msg].to[2]>>
    /\ c.port[1] = n /\ c.size \in Nat /\ c.left \in Nat
    /\ c.buf = NoBuffer => c.left = c.size
    /\ c.buf # NoBuffer => LET d == p[c.buf].data IN d # <<>> /\ Message(d) = c.msg /\ End(d) = c.size - c.left
    /\ \A b \in Buffer : p[b].data # <<>> /\ Message(p[b].data) = c.msg => End(p[b].data) <= c.size - c.left

LEMMA LocalWriter ==
    ASSUME PortalsFit, Buffers, Data, NEW t \in Thread, pc[t] \in {"write local", "publish"},
           NEW c, c = call[t], NEW n, n = NodeOf[t], NEW p, p = pool[n]
    PROVE  LocalPart(log, c, n, p) /\ (pc[t] = "publish" => c.left = 0)
<1>1. pc[t] \in Writing
  BY DEF Writing
<1>2. DataFits(log, pc[t], c, n, p)
  BY DEF Data
<1>3. WritesOut(pc[t], c, n, p)
  BY <1>2 DEF DataFits
<1>4. /\ c.port[1] = n /\ c.size \in Nat /\ c.left \in Nat
      /\ c.buf = NoBuffer => c.left = c.size
      /\ c.buf # NoBuffer => LET d == p[c.buf].data IN d # <<>> /\ Message(d) = c.msg /\ End(d) = c.size - c.left
      /\ \A b \in Buffer : p[b].data # <<>> /\ Message(p[b].data) = c.msg => End(p[b].data) <= c.size - c.left
      /\ pc[t] = "publish" => c.left = 0
  BY <1>3 DEF WritesOut
<1>5. PICK e : e = log[c.msg]
  OBVIOUS
<1>6. /\ c.msg \in DOMAIN log /\ c.msg \in 1 .. Len(log) /\ e.size = c.size
      /\ e.from = <<n, c.port[2]>> /\ e.to[1] = n /\ IsLocal(log, c.msg)
  BY <1>1, <1>4, <1>5, LocalMessage DEF Data
<1>7. e.to = <<n, e.to[2]>>
  <2>1. log \in Seq(Entry)
    BY DEF PortalsFit, TablesFit
  <2>2. e \in Entry
    <3>1. PICK k : k = c.msg
      OBVIOUS
    <3>2. k \in 1 .. Len(log) /\ e = log[k]
      BY <1>5, <1>6, <3>1
    <3>. QED  BY <2>1, <3>2, ItemFits, Zenon
  <2>3. e.to \in Node \X Port
    BY <2>2 DEF Entry, Peer
  <2>4. e.to = <<e.to[1], e.to[2]>>
    BY <2>3, PairIs
  <2>. QED  BY <1>6, <2>4, Zenon
<1>. QED  BY <1>4, <1>5, <1>6, <1>7 DEF LocalPart

\* What the next buffer of a local writer contains.
LEMMA UnitsAre ==
    ASSUME NEW t, NEW w, NEW k, NEW d, PartIs(d, t, w, k), NEW m, m = call[t].msg
    PROVE  d \in Seq(Unit) /\ d # <<>> /\ Message(d) = m /\ Offset(d) = w /\ End(d) = w + k /\ IsPart(d, m, w)
<1>. m \in Nat /\ w \in Nat /\ k \in Nat \ {0} /\ d = Units(t, w + 1, w + k)
  BY DEF PartIs
<1>1. (w + k) - (w + 1) + 1 = k
  OBVIOUS
<1>2. d = [i \in 1 .. k |-> <<m, (w + 1) + i - 1>>]
  BY <1>1, Zenon DEF Units
<1>3. d \in Seq(Unit) /\ Len(d) = k /\ d # <<>>
  BY UnitsFit
<1>4. \A i \in 1 .. k : d[i] = <<m, w + i>>
  <2>1. \A i \in 1 .. k : (w + 1) + i - 1 = w + i
    OBVIOUS
  <2>. QED  BY <1>2, <2>1
<1>5. d[1] = <<m, w + 1>>
  <2>1. 1 \in 1 .. k
    OBVIOUS
  <2>. QED  BY <1>4, <2>1
<1>6. (w + 1) - 1 = w
  OBVIOUS
<1>7. Message(d) = m /\ Offset(d) = w
  BY <1>5, <1>6 DEF Message, Offset
<1>. QED  BY <1>3, <1>4, <1>7 DEF IsPart, End

\* Data of a message that is not local say nothing of what is next to them.
LEMMA NotJoined == ASSUME NEW L, NEW d, NEW e, ~HasLocal(L, d), ~HasLocal(L, e) PROVE Joined(L, d, e)
BY DEF Joined

LEMMA ForeignIs ==
    ASSUME NEW L, NEW d, IsForeign(L, Message(d)) PROVE ~HasLocal(L, d) /\ Message(d) \in DOMAIN L
BY DEF IsForeign, IsLocal, HasLocal

\* Only what b contains is changed, or whether it is complete.
LEMMA ContentsEdit ==
    ASSUME NEW L, NEW n, NEW p, Sane(p), Contents(L, n, p), NEW b \in Buffer, NEW q,
           \A c \in Buffer : c # b => q[c] = p[c],
           q[b].next = p[b].next, q[b].data # <<>> => Message(q[b].data) \in DOMAIN L, Part(L, n, q[b]),
           \/ q[b].data = p[b].data
           \/ ~HasLocal(L, q[b].data) /\ ~HasLocal(L, p[b].data) /\ p[b].busy /\ (p[b].data = <<>> => p[b].seq = 0)
    PROVE  Contents(L, n, q)
<1>0. p \in Pool /\ Chained(p) /\ NoBuffer \notin Buffer
  BY BuffersFinite DEF Sane
<1>1. ASSUME NEW c \in Buffer
      PROVE  /\ q[c].data # <<>> => Message(q[c].data) \in DOMAIN L
             /\ Part(L, n, q[c])
             /\ q[c].next # NoBuffer => Joined(L, q[c].data, q[q[c].next].data)
  <2>1. /\ q[c].data # <<>> => Message(q[c].data) \in DOMAIN L
        /\ Part(L, n, q[c])
    BY DEF Contents
  <2>2. ASSUME q[c].next # NoBuffer PROVE Joined(L, q[c].data, q[q[c].next].data)
    <3>1. PICK e : e = p[c].next
      OBVIOUS
    <3>2. q[c].next = e /\ e \in Buffer
      <4>1. q[c].next = p[c].next
        OBVIOUS
      <4>2. p[c].next \in Buffer \cup {NoBuffer}
        BY <1>0, SlotFits
      <4>. QED  BY <2>2, <3>1, <4>1, <4>2
    <3>3. Joined(L, p[c].data, p[e].data)
      BY <2>2, <3>1, <3>2 DEF Contents
    <3>4. CASE q[b].data = p[b].data
      BY <3>2, <3>3, <3>4
    <3>5. CASE ~HasLocal(L, q[b].data) /\ ~HasLocal(L, p[b].data) /\ p[b].busy /\ (p[b].data = <<>> => p[b].seq = 0)
      <4>1. ~p[c].busy /\ p[e].seq = p[c].seq + 1 /\ p[c].seq \in Nat
        BY <1>0, <2>2, <3>1, <3>2, SlotFits DEF Chained
      <4>2. c # b
        BY <3>5, <4>1
      <4>3. CASE e # b
        BY <3>2, <3>3, <4>2, <4>3
      <4>4. CASE e = b
        <5>1. p[b].data # <<>>
          BY <3>5, <4>1, <4>4
        <5>2. ~HasLocal(L, p[c].data)
          <6>1. SUFFICES ASSUME HasLocal(L, p[c].data) PROVE FALSE
            OBVIOUS
          <6>2. Message(p[b].data) = Message(p[c].data)
            BY <3>3, <4>4, <6>1 DEF Joined, Message
          <6>. QED  BY <3>5, <5>1, <6>1, <6>2 DEF HasLocal
        <5>. QED  BY <3>2, <3>5, <4>2, <4>4, <5>2, NotJoined
      <4>. QED  BY <4>3, <4>4
    <3>. QED  BY <3>4, <3>5
  <2>. QED  BY <2>1, <2>2
<1>. QED  BY <1>1 DEF Contents

\* A buffer is added to those of n, with d in it.
Adds(L, n, p, previous, from, to, d) ==
    LET m == Message(d) IN
    /\ d # <<>> => m \in DOMAIN L
    /\ HasLocal(L, d) =>
         /\ L[m].from = from /\ L[m].to = <<n, to>>
         /\ Offset(d) \in Nat /\ IsPart(d, m, Offset(d)) /\ End(d) <= L[m].size
         /\ previous = NoBuffer => Offset(d) = 0
    /\ previous # NoBuffer => Joined(L, p[previous].data, d)

LEMMA AllocContents ==
    ASSUME NEW L, NEW n, NEW p, Sane(p), Contents(L, n, p), NEW previous \in Buffer \cup {NoBuffer}, NEW from, NEW to, NEW a,
           NEW d, NEW new \in Buffer, ~IsUsed(p, new), new # previous, NEW q,
           AllocDoes(q, p, previous, from, to, a, d, new), Adds(L, n, p, previous, from, to, d)
    PROVE  Contents(L, n, q)
<1>0. p \in Pool /\ Chained(p) /\ NoBuffer \notin Buffer
  BY BuffersFinite DEF Sane
<1>1. /\ q[new] = Slot(p, previous, from, to, a, d)
      /\ previous # NoBuffer => q[previous] = [p[previous] EXCEPT !.next = new, !.busy = FALSE]
      /\ \A b \in Buffer : b # new /\ b # previous => q[b] = p[b]
  BY DEF AllocDoes
<1>2. /\ q[new].from = from /\ q[new].to = to /\ q[new].busy /\ q[new].next = NoBuffer /\ q[new].data = d
      /\ q[new].seq = 0 => previous = NoBuffer
  <2>1. q[new].seq = IF previous = NoBuffer THEN 0 ELSE p[previous].seq + 1
    BY <1>1 DEF Slot
  <2>2. previous # NoBuffer => p[previous].seq \in Nat
    BY <1>0, SlotFits
  <2>3. q[new].seq = 0 => previous = NoBuffer
    BY <2>1, <2>2
  <2>. QED  BY <1>1, <2>3 DEF Slot
<1>3. ASSUME previous # NoBuffer
      PROVE  /\ previous \in Buffer /\ q[previous].next = new /\ q[previous].data = p[previous].data
             /\ q[previous].from = p[previous].from /\ q[previous].to = p[previous].to /\ q[previous].seq = p[previous].seq
  <2>1. p[previous] \in {Unused} \cup BufferKind
    BY <1>0, <1>3, SlotFits
  <2>. QED  BY <1>1, <1>3, <2>1 DEF Unused, BufferKind
<1>4. Part(L, n, q[new])
  BY <1>2 DEF Adds, Part
<1>5. previous # NoBuffer => Part(L, n, q[previous])
  <2>1. SUFFICES ASSUME previous # NoBuffer PROVE Part(L, n, q[previous])
    OBVIOUS
  <2>2. Part(L, n, p[previous])
    BY <1>3, <2>1 DEF Contents
  <2>3. q[previous].next # NoBuffer
    BY <1>0, <1>3, <2>1
  <2>. QED  BY <1>3, <2>1, <2>2, <2>3 DEF Part
<1>6. ASSUME NEW c \in Buffer
      PROVE  /\ q[c].data # <<>> => Message(q[c].data) \in DOMAIN L
             /\ Part(L, n, q[c])
             /\ q[c].next # NoBuffer => Joined(L, q[c].data, q[q[c].next].data)
  <2>1. CASE c = new
    BY <1>2, <1>4, <2>1 DEF Adds
  <2>2. CASE c # new
    <3>1. q[c].data = p[c].data
      BY <1>0, <1>1, <1>3, <2>2
    <3>2. q[c].data # <<>> => Message(q[c].data) \in DOMAIN L
      BY <3>1 DEF Contents
    <3>3. Part(L, n, q[c])
      BY <1>0, <1>1, <1>5, <2>2 DEF Contents
    <3>4. ASSUME q[c].next # NoBuffer PROVE Joined(L, q[c].data, q[q[c].next].data)
      <4>1. CASE c = previous
        <5>1. previous # NoBuffer
          BY <1>0, <4>1
        <5>2. Joined(L, p[previous].data, d) /\ q[c].next = new
          BY <1>3, <4>1, <5>1 DEF Adds
        <5>. QED  BY <1>2, <3>1, <4>1, <5>2
      <4>2. CASE c # previous
        <5>1. PICK e : e = p[c].next
          OBVIOUS
        <5>2. q[c].next = e /\ e # NoBuffer
          BY <1>1, <2>2, <3>4, <4>2, <5>1
        <5>3. e \in Buffer /\ IsUsed(p, e)
          BY <1>0, <5>1, <5>2, SlotFits DEF Chained
        <5>4. q[e].data = p[e].data
          BY <1>0, <1>1, <1>3, <5>3
        <5>5. Joined(L, p[c].data, p[e].data)
          BY <5>1, <5>2 DEF Contents
        <5>. QED  BY <3>1, <5>2, <5>4, <5>5
      <4>. QED  BY <4>1, <4>2
    <3>. QED  BY <3>2, <3>3, <3>4
  <2>. QED  BY <2>1, <2>2
<1>. QED  BY <1>6 DEF Contents

\* What a thread does that takes a free buffer.
LEMMA TakingPool ==
    ASSUME PortalsFit, Buffers, NEW t \in Thread, NEW previous, NEW from, NEW to, NEW d, Takings(t, previous, from, to, d),
           NEW p, p = pool[NodeOf[t]], NEW new, new = Min(FreeBuffers(p))
    PROVE  \E q : /\ pool' = [pool EXCEPT ![NodeOf[t]] = q] /\ Spares(t, q)
                  /\ new \in Buffer /\ ~IsUsed(p, new) /\ new # previous /\ previous \in Buffer \cup {NoBuffer}
                  /\ AllocDoes(q, p, previous, from, to, age[NodeOf[t]], d, new)
<1>0. PICK o : o = NodeOf[t] /\ o \in Node
  BY Consts
<1>1. PICK q, a : a = age[o] /\ q = BufferAlloc(p, previous, from, to, a, d)
  OBVIOUS
<1>2. Sane(p) /\ p \in Pool /\ a \in Nat /\ pool = [n \in Node |-> pool[n]]
  BY <1>0, <1>1 DEF Buffers, PoolFits, Sane
<1>3. /\ from \in Peer /\ to \in Port /\ d \in Seq(Unit) /\ Len(d) <= MPORTAL_BUFFER_SIZE
      /\ previous # NoBuffer => d # <<>>
      /\ GoesOn(p, previous, from, to) /\ FreeBuffers(p) # {}
  BY <1>0, <1>1 DEF Takings
<1>4. /\ new \in Buffer /\ ~IsUsed(p, new) /\ new # previous
      /\ \A b \in Buffer : b # new /\ b # previous => q[b] = p[b]
      /\ \A b \in Buffer : b # new /\ First(p, b) => First(q, b)
  <2>1. Allocates(q, p, previous, from, to, d, new)
    BY <1>1, <1>2, <1>3, AllocKeeps
  <2>. QED  BY <2>1 DEF Allocates
<1>5. previous \in Buffer \cup {NoBuffer}
  BY <1>3 DEF GoesOn
<1>6. AllocDoes(q, p, previous, from, to, a, d, new)
  BY <1>1, <1>2, <1>4, <1>5, AllocIs
<1>7. pool' = [pool EXCEPT ![o] = q]
  <2>1. pool' = [pool EXCEPT ![o] = BufferAlloc(@, previous, from, to, age[o], d)]
    BY <1>0 DEF Takings
  <2>. QED  BY <1>0, <1>1, <2>1
<1>8. ASSUME NEW u \in Thread \ {t}, NodeOf[u] = o
      PROVE  /\ Fills(u) \/ Takes(u) => call[u].buf \in Buffer /\ call[u].buf # new /\ call[u].buf # previous
             /\ Takes(u) => First(p, call[u].buf)
  <2>1. /\ Fills(u) => call[u].buf \in Buffer /\ IsUsed(p, call[u].buf)
        /\ Takes(u) => call[u].buf \in Buffer /\ IsUsed(p, call[u].buf) /\ ~p[call[u].buf].busy /\ First(p, call[u].buf)
    BY <1>0, <1>8, BufferOf
  <2>2. Fills(u) => call[u].buf # previous
    <3>1. previous # NoBuffer => Fills(t) /\ call[t].buf = previous
      BY DEF Takings
    <3>. QED  BY <1>0, <1>8, <2>1, <3>1, BuffersFinite DEF Buffers, FillersApart
  <2>3. Takes(u) => call[u].buf # previous
    BY <1>3, <2>1, BuffersFinite DEF GoesOn
  <2>. QED  BY <1>4, <2>1, <2>2, <2>3
<1>9. Spares(t, q)
  BY <1>0, <1>4, <1>8 DEF Spares
<1>. QED  BY <1>0, <1>1, <1>4, <1>5, <1>6, <1>7, <1>9

\* The call of a thread fits what it has put into a new buffer.
FitsNew(x, e, n, p, new, d) ==
    \A q : q[new].data = d /\ (\A b \in Buffer : b # new => q[b].data = p[b].data) => DataFits(log, x, e, n, q)

\* The step takes a free buffer for data of the message of t, or of another node.
LEMMA TakingData ==
    ASSUME PortalsFit, Buffers, Data, NEW t \in Thread, Moves(t), LocalStep(t) \/ ReadStep(t) \/ WriteStep(t),
           AllArrive', log' = log,
           NEW previous, NEW from, NEW to, NEW d, Takings(t, previous, from, to, d),
           NEW n, n = NodeOf[t], NEW p, p = pool[n], NEW new, new = Min(FreeBuffers(p)),
           Adds(log, n, p, previous, from, to, d),
           d = <<>> \/ IsForeign(log, Message(d)) \/ (pc[t] \in Writing /\ Message(d) = call[t].msg),
           NEW x, NEW e, pc'[t] = x, call'[t] = e,
           FitsNew(x, e, n, p, new, d)
    PROVE  Data'
<1>1. PICK q : /\ pool' = [pool EXCEPT ![NodeOf[t]] = q] /\ Spares(t, q)
               /\ new \in Buffer /\ ~IsUsed(p, new) /\ new # previous /\ previous \in Buffer \cup {NoBuffer}
               /\ AllocDoes(q, p, previous, from, to, age[NodeOf[t]], d, new)
  BY TakingPool
<1>2. Sane(p) /\ p \in Pool /\ Contents(log, n, p)
  <2>1. n \in Node
    BY Consts
  <2>. QED  BY <2>1 DEF Buffers, PoolFits, Sane, Data
<1>3. PICK a : a = age[NodeOf[t]]
  OBVIOUS
<1>4. AllocDoes(q, p, previous, from, to, a, d, new)
  BY <1>1, <1>3
<1>5. Contents(log, n, q)
  BY <1>1, <1>2, <1>4, AllocContents
<1>6. q[new].data = d /\ \A b \in Buffer : b # new => q[b].data = p[b].data
  <2>1. /\ q[new] = Slot(p, previous, from, to, a, d)
        /\ previous # NoBuffer => q[previous] = [p[previous] EXCEPT !.next = new, !.busy = FALSE]
        /\ \A b \in Buffer : b # new /\ b # previous => q[b] = p[b]
    BY <1>4 DEF AllocDoes
  <2>2. previous # NoBuffer => q[previous].data = p[previous].data
    <3>1. previous # NoBuffer => p[previous] \in {Unused} \cup BufferKind
      BY <1>1, <1>2, SlotFits
    <3>. QED  BY <2>1, <3>1 DEF Unused, BufferKind
  <2>3. NoBuffer \notin Buffer /\ q[new].data = d
    BY <2>1, BuffersFinite DEF Slot
  <2>. QED  BY <2>1, <2>2, <2>3
<1>7. NewData(t, q, log')
  BY <1>6 DEF NewData
<1>8. DataFits(log', pc'[t], call'[t], NodeOf[t], q) /\ Contents(log', NodeOf[t], q)
  BY <1>5, <1>6 DEF FitsNew
<1>. QED  BY <1>1, <1>7, <1>8, GrowsSelf, DataStep

\* The numbers of a writer that fills k more of what is left, b of a.
LEMMA PartLeft ==
    ASSUME NEW a \in Nat, NEW b \in Nat, NEW k \in Nat \ {0}, k <= b, b <= a
    PROVE  /\ a - b \in Nat /\ (a - b) + k <= a /\ b - k \in Nat /\ (a - b) + k = a - (b - k)
           /\ (a - b) + k <= a - (b - k)
           /\ \A z \in Nat : z <= a - b => z <= a - (b - k)
           /\ b = a => a - b = 0
OBVIOUS

LEMMA FirstOfSome == ASSUME NEW k \in Nat \ {0}, NEW d, Len(d) = k PROVE 1 \in 1 .. Len(d)
OBVIOUS

LEMMA EndFits ==
    ASSUME NEW L, NEW n, NEW p, Sane(p), Contents(L, n, p), NEW b \in Buffer, HasLocal(L, p[b].data)
    PROVE  Offset(p[b].data) \in Nat /\ End(p[b].data) \in Nat
<1>1. Part(L, n, p[b])
  BY DEF Contents
<1>2. Offset(p[b].data) \in Nat /\ p[b].data \in Seq(Unit)
  BY <1>1, SlotFits DEF Part, Sane
<1>. QED  BY <1>2 DEF End

LEMMA WriteData ==
    ASSUME PortalsFit, Buffers, Data, NEW t \in Thread, Moves(t), AllArrive', log' = log, WriteLocal(t)
    PROVE  Data'
<1>0. /\ pc \in [Thread -> PCs] /\ call = [u \in Thread |-> call[u]] /\ BufferFits(pc[t], call[t]) /\ IsCall(call[t])
      /\ NodeOf[t] \in Node
  BY Consts DEF PortalsFit, CallsFit, CallFits, Buffers
<1>1. LocalStep(t) /\ pc[t] = "write local" /\ pc[t] \in Writing
  BY DEF LocalStep, WriteLocal, Writing
<1>2. PICK c, n, p, k, new : /\ c = call[t] /\ n = NodeOf[t] /\ p = pool[n] /\ k = Min({c.left, MPORTAL_BUFFER_SIZE})
                             /\ new = Min(FreeBuffers(p))
  OBVIOUS
<1>3. PICK from, to, d, m, previous, w :
         /\ from = Config(t).from /\ to = Config(t).to[2] /\ d = Units(t, w + 1, w + k)
         /\ m = c.msg /\ previous = c.buf /\ w = c.size - c.left
  OBVIOUS
<1>4. /\ IsLocal(log, m) /\ m \in DOMAIN log /\ log[m].size = c.size /\ log[m].from = from /\ log[m].to = <<n, to>>
      /\ c.port[1] = n /\ c.size \in Nat /\ c.left \in Nat
      /\ previous = NoBuffer => c.left = c.size
      /\ previous # NoBuffer => p[previous].data # <<>> /\ Message(p[previous].data) = m /\ End(p[previous].data) = w
      /\ \A b \in Buffer : p[b].data # <<>> /\ Message(p[b].data) = m => End(p[b].data) <= w
  <2>1. /\ IsLocal(log, c.msg) /\ c.msg \in DOMAIN log /\ log[c.msg].size = c.size
        /\ log[c.msg].to = <<n, log[c.msg].to[2]>>
        /\ c.port[1] = n /\ c.size \in Nat /\ c.left \in Nat
        /\ c.buf = NoBuffer => c.left = c.size
        /\ c.buf # NoBuffer => LET z == p[c.buf].data IN z # <<>> /\ Message(z) = c.msg /\ End(z) = c.size - c.left
        /\ \A b \in Buffer : p[b].data # <<>> /\ Message(p[b].data) = c.msg => End(p[b].data) <= c.size - c.left
    <3>1. pc[t] \in {"write local", "publish"} /\ c = call[t] /\ n = NodeOf[t] /\ p = pool[n]
      BY <1>1, <1>2
    <3>2. LocalPart(log, c, n, p)
      BY <3>1, LocalWriter
    <3>. QED  BY <3>2 DEF LocalPart
  <2>2. from = log[m].from /\ to = log[m].to[2]
    BY <1>2, <1>3 DEF Config
  <2>. QED  BY <1>3, <2>1, <2>2
<1>5. /\ k \in Nat \ {0} /\ k <= MPORTAL_BUFFER_SIZE /\ k <= c.left /\ c.left \in 1 .. c.size /\ m \in 1 .. Len(log)
      /\ w = Written(t)
  <2>1. k \in Nat \ {0} /\ k <= MPORTAL_BUFFER_SIZE /\ k <= c.left
    BY <1>1, <1>2, LocalSize
  <2>2. c.left \in 1 .. c.size /\ m \in 1 .. Len(log)
    BY <1>1, <1>2, <1>3 DEF PortalsFit, CallsFit, CallFits
  <2>3. w = Written(t)
    BY <1>2, <1>3 DEF Written
  <2>. QED  BY <2>1, <2>2, <2>3
<1>6. /\ w \in Nat /\ w + k <= c.size /\ c.left - k \in Nat /\ w + k = c.size - (c.left - k)
      /\ w + k <= c.size - (c.left - k)
      /\ \A z \in Nat : z <= w => z <= c.size - (c.left - k)
      /\ previous = NoBuffer => w = 0
  <2>1. PICK a, b : a = c.size /\ b = c.left
    OBVIOUS
  <2>2. a \in Nat /\ b \in Nat /\ b <= a /\ k \in Nat \ {0} /\ k <= b /\ w = a - b /\ (previous = NoBuffer => b = a)
    BY <1>3, <1>4, <1>5, <2>1
  <2>. QED  BY <2>1, <2>2, PartLeft
<1>7. d \in Seq(Unit) /\ Len(d) = k /\ d # <<>> /\ Message(d) = m /\ Offset(d) = w /\ End(d) = w + k /\ IsPart(d, m, w)
  <2>1. Len(log) \in Nat
    BY CallIs
  <2>2. m \in Nat
    BY <1>5, <2>1, IndexFits, Zenon
  <2>3. PartIs(d, t, w, k)
    BY <1>2, <1>3, <1>5, <1>6, <2>2 DEF PartIs
  <2>. QED  BY <1>2, <1>3, <2>3, UnitsFit, UnitsAre
<1>8. FreeBuffers(p) # {} /\ new \in Buffer
  <2>1. FreeBuffers(p) # {}
    BY <1>2 DEF WriteLocal
  <2>. QED  BY <1>2, <2>1, FreeIs
<1>9. PICK e : e = [c EXCEPT !.buf = new, !.left = c.left - k]
  OBVIOUS
<1>10. PICK x \in {"publish", "write local"} : pc' = [pc EXCEPT ![t] = x] /\ (x = "publish" => c.left = k)
  <2>1. pc' = [pc EXCEPT ![t] = IF c.left = k THEN "publish" ELSE "write local"]
    BY <1>2 DEF WriteLocal, Goto
  <2>2. PICK x : x = IF c.left = k THEN "publish" ELSE "write local"
    OBVIOUS
  <2>. QED  BY <2>1, <2>2
<1>11. call' = [call EXCEPT ![t] = e]
  BY <1>2, <1>9 DEF WriteLocal
<1>12. pc'[t] = x /\ call'[t] = e
  BY <1>0, <1>10, <1>11
<1>13. Same(c, e) /\ e.buf = new /\ e.left = c.left - k
  BY <1>0, <1>2, <1>9 DEF IsCall, Same
<1>14. Takings(t, previous, from, to, d)
  <2>1. pool' = [pool EXCEPT ![n] = BufferAlloc(@, previous, from, to, age[n], d)] /\ age' = [age EXCEPT ![n] = @ + 1]
    <3>1. d = Units(t, Written(t) + 1, Written(t) + k)
      BY <1>3, <1>5
    <3>. QED  BY <1>2, <1>3, <3>1 DEF WriteLocal
  <2>2. previous # NoBuffer => Fills(t)
    BY <1>1, <1>2, <1>3 DEF Fills, Filling
  <2>3. GoesOn(p, previous, from, to)
    <3>1. previous # NoBuffer => p[previous].from = from /\ p[previous].to = to /\ p[previous].busy /\ p[previous].data # <<>>
      BY <1>1, <1>2, <1>3, <2>2 DEF Buffers, FillFits, Writing
    <3>2. previous \in Buffer \cup {NoBuffer}
      BY <1>0, <1>2, <1>3 DEF BufferFits
    <3>. QED  BY <3>1, <3>2 DEF GoesOn
  <2>4. from \in Peer /\ to \in Port
    BY <1>1, <1>3, LogFits
  <2>. QED  BY <1>2, <1>3, <1>5, <1>7, <1>8, <2>1, <2>2, <2>3, <2>4 DEF Takings
<1>15. Adds(log, n, p, previous, from, to, d)
  <2>1. previous # NoBuffer => Joined(log, p[previous].data, d)
    <3>1. d[1] = <<m, w + 1>>
      <4>1. 1 \in 1 .. Len(d) /\ w + 1 = w + 1
        BY <1>5, <1>7, FirstOfSome
      <4>. QED  BY <1>7, <4>1 DEF IsPart
    <3>. QED  BY <1>4, <3>1 DEF Joined
  <2>. QED  BY <1>4, <1>6, <1>7, <2>1 DEF Adds
<1>16. ASSUME NEW q, q[new].data = d, \A b \in Buffer : b # new => q[b].data = p[b].data
       PROVE  DataFits(log, x, e, n, q)
  <2>1. x \notin Reading /\ x \notin {"more", "relock"}
    BY DEF Reading, RemoteReads, Channels
  <2>2. ASSUME NEW b \in Buffer, q[b].data # <<>>, Message(q[b].data) = m PROVE End(q[b].data) <= c.size - (c.left - k)
    <3>1. CASE b = new
      <4>1. End(q[b].data) = w + k
        BY <1>7, <1>16, <3>1
      <4>. QED  BY <1>6, <4>1
    <3>2. CASE b # new
      <4>1. q[b].data = p[b].data
        BY <1>16, <3>2
      <4>2. HasLocal(log, p[b].data)
        BY <1>4, <2>2, <4>1 DEF HasLocal
      <4>3. End(p[b].data) \in Nat
        BY <1>0, <1>2, <4>2, EndFits DEF Data, Buffers, PoolFits
      <4>. QED  BY <1>4, <1>6, <2>2, <4>1, <4>3
    <3>. QED  BY <3>1, <3>2
  <2>3. new # NoBuffer
    BY <1>8, BuffersFinite
  <2>4. x = "publish" => e.left = 0
    BY <1>4, <1>10, <1>13
  <2>5. WritesOut(x, e, n, q)
    <3>1. e.port = c.port /\ e.size = c.size /\ e.msg = m
      BY <1>3, <1>13 DEF Same
    <3>2. e.left = c.left - k /\ e.left \in Nat /\ e.size - e.left = c.size - (c.left - k)
      BY <1>6, <1>13, <3>1
    <3>3. End(d) = e.size - e.left
      BY <1>6, <1>7, <3>2
    <3>. QED  BY <1>4, <1>7, <1>13, <1>16, <2>2, <2>3, <2>4, <3>1, <3>2, <3>3 DEF WritesOut
  <2>. QED  BY <2>1, <2>5 DEF DataFits, Keeps, ReadsIn
<1>17. Message(d) = call[t].msg
  BY <1>2, <1>3, <1>7
<1>18. FitsNew(x, e, n, p, new, d)
  BY <1>16 DEF FitsNew
<1>19. n = NodeOf[t] /\ p = pool[n] /\ new = Min(FreeBuffers(p)) /\ (LocalStep(t) \/ ReadStep(t) \/ WriteStep(t))
       /\ (d = <<>> \/ IsForeign(log, Message(d)) \/ (pc[t] \in Writing /\ Message(d) = call[t].msg))
  BY <1>1, <1>2, <1>17
<1>. QED  BY <1>12, <1>14, <1>15, <1>18, <1>19, TakingData

\* A buffer for what comes from another node.
LEMMA AllocsData ==
    ASSUME PortalsFit, Buffers, Data, NEW t \in Thread, Moves(t), AllArrive', log' = log, AllocFirst(t) \/ AllocNext(t)
    PROVE  Data'
<1>0. /\ pc \in [Thread -> PCs] /\ call = [u \in Thread |-> call[u]] /\ BufferFits(pc[t], call[t]) /\ IsCall(call[t])
      /\ NodeOf[t] \in Node /\ DataFits(log, pc[t], call[t], NodeOf[t], pool[NodeOf[t]])
  BY Consts DEF PortalsFit, CallsFit, CallFits, Buffers, Data
<1>1. ReadStep(t) /\ pc[t] \in {"alloc", "more"} /\ pc[t] \in Reading
  BY DEF ReadStep, AllocFirst, AllocNext, Reading, RemoteReads, Channels
<1>2. PICK c, n, p, new : c = call[t] /\ n = NodeOf[t] /\ p = pool[n] /\ new = Min(FreeBuffers(p))
  OBVIOUS
<1>3. FreeBuffers(p) # {} /\ new \in Buffer
  <2>1. FreeBuffers(p) # {}
    BY <1>2 DEF AllocFirst, AllocNext
  <2>. QED  BY <1>2, <2>1, FreeIs
<1>4. PICK e, x : e = [c EXCEPT !.buf = new] /\ x = IF pc[t] = "alloc" THEN "piece" ELSE "relock"
  OBVIOUS
<1>5. pc' = [pc EXCEPT ![t] = x] /\ call' = [call EXCEPT ![t] = e]
  BY <1>2, <1>4 DEF AllocFirst, AllocNext, Goto
<1>6. pc'[t] = x /\ call'[t] = e /\ x \in {"piece", "relock"} /\ (x = "relock" <=> pc[t] = "more")
  BY <1>0, <1>1, <1>4, <1>5
<1>7. Alike(c, e) /\ e.buf = new /\ e.got = c.got /\ e.header = c.header
  BY <1>0, <1>2, <1>4 DEF IsCall, Alike
<1>8. ASSUME NEW q, NEW d, q[new].data = d, d # <<>> => IsForeign(log, Message(d)),
             x = "relock" => IsForeign(log, c.header.unit[1])
      PROVE  DataFits(log, x, e, n, q)
  <2>1. c.got \in Seq(Unit) /\ Reads1st(log, pc[t], c, n)
    BY <1>0, <1>1, <1>2 DEF DataFits, ReadsIn
  <2>2. Reads1st(log, x, e, n)
    BY <1>7, <2>1 DEF Reads1st, Alike
  <2>3. Keeps(log, x, e, q)
    BY <1>6, <1>7, <1>8 DEF Keeps
  <2>. QED  BY <1>6, <1>7, <2>1, <2>2, <2>3 DEF DataFits, ReadsIn, ReadsOn, WritesOut
<1>9. CASE AllocFirst(t)
  <2>1. pc[t] = "alloc" /\ x = "piece"
    BY <1>4, <1>9 DEF AllocFirst
  <2>2. PICK from, to, d, previous : from = c.header.from /\ to = c.header.to /\ d = <<>> /\ previous = NoBuffer
    OBVIOUS
  <2>3. from \in Peer /\ to \in Port
    BY <1>0, <1>2, <2>1, <2>2 DEF BufferFits, Header
  <2>4. Takings(t, previous, from, to, d)
    <3>1. /\ pool' = [pool EXCEPT ![n] = BufferAlloc(@, previous, from, to, age[n], d)]
          /\ age' = [age EXCEPT ![n] = @ + 1]
      BY <1>2, <1>9, <2>2 DEF AllocFirst
    <3>2. GoesOn(p, previous, from, to)
      BY <2>2 DEF GoesOn
    <3>3. d \in Seq(Unit) /\ Len(d) <= MPORTAL_BUFFER_SIZE
      BY <2>2, BufferAssumption
    <3>. QED  BY <1>2, <1>3, <2>2, <2>3, <3>1, <3>2, <3>3 DEF Takings
  <2>5. Adds(log, n, p, previous, from, to, d)
    BY <2>2 DEF Adds, HasLocal
  <2>6. FitsNew(x, e, n, p, new, d)
    BY <1>8, <2>1, <2>2 DEF FitsNew
  <2>. QED  BY <1>1, <1>2, <1>6, <2>2, <2>4, <2>5, <2>6, TakingData
<1>10. CASE AllocNext(t)
  <2>1. pc[t] = "more"
    BY <1>10 DEF AllocNext
  <2>2. PICK b, from, to, u, d : b = c.buf /\ from = p[b].from /\ to = p[b].to /\ u = c.header.unit /\ d = <<u>>
    OBVIOUS
  <2>3. Fills(t) /\ Filling(pc[t], c) /\ b # NoBuffer
    BY <1>0, <1>2, <2>1, <2>2 DEF BufferFits, Fills, Filling
  <2>4. b \in Buffer /\ IsUsed(p, b) /\ p[b].busy /\ p \in Pool
    BY <1>2, <2>2, <2>3, BufferOf
  <2>5. from \in Peer /\ to \in Port
    <3>1. p[b] \in BufferKind
      BY <2>4, SlotFits DEF IsUsed
    <3>. QED  BY <2>2, <3>1 DEF BufferKind
  <2>6. p[b].data # <<>>
    BY <1>2, <2>1, <2>2, <2>3 DEF Buffers, FillFits
  <2>7. u \in Unit
    <3>1. c.header \in Piece
      BY <1>2, <2>1 DEF PortalsFit, CallsFit, CallFits
    <3>. QED  BY <2>2, <3>1 DEF Piece
  <2>8. d \in Seq(Unit) /\ Len(d) <= MPORTAL_BUFFER_SIZE /\ d # <<>> /\ d[1] = u
    BY <2>2, <2>7, BufferAssumption
  <2>9. IsForeign(log, u[1]) /\ IsForeign(log, Message(p[b].data))
    <3>1. Keeps(log, pc[t], c, p)
      BY <1>0, <1>2 DEF DataFits
    <3>. QED  BY <1>1, <2>1, <2>2, <2>3, <2>6, <3>1 DEF Keeps
  <2>10. IsForeign(log, Message(d))
    BY <2>8, <2>9 DEF Message
  <2>11. Takings(t, b, from, to, d)
    <3>1. pool' = [pool EXCEPT ![n] = BufferAlloc(@, b, @[b].from, @[b].to, age[n], d)] /\ age' = [age EXCEPT ![n] = @ + 1]
      BY <1>2, <1>10, <2>2 DEF AllocNext
    <3>2. pool' = [pool EXCEPT ![n] = BufferAlloc(@, b, from, to, age[n], d)]
      BY <1>2, <2>2, <3>1
    <3>3. GoesOn(p, b, from, to)
      BY <2>2, <2>4, <2>6 DEF GoesOn
    <3>. QED  BY <1>2, <1>3, <2>2, <2>3, <2>5, <2>8, <3>1, <3>2, <3>3 DEF Takings
  <2>12. Adds(log, n, p, b, from, to, d)
    <3>1. ~HasLocal(log, d) /\ Message(d) \in DOMAIN log /\ ~HasLocal(log, p[b].data)
      BY <2>9, <2>10, ForeignIs
    <3>. QED  BY <3>1, NotJoined DEF Adds
  <2>13. FitsNew(x, e, n, p, new, d)
    BY <1>8, <2>2, <2>9, <2>10 DEF FitsNew
  <2>. QED  BY <1>1, <1>2, <1>6, <2>10, <2>11, <2>12, <2>13, TakingData
<1>. QED  BY <1>9, <1>10

\* A thread is at x with e, whatever the buffers contain.
FitsAny(x, e, n) == \A q : DataFits(log, x, e, n, q)

\* t is done with the buffer that it fills.
LEMMA LeaveData ==
    ASSUME PortalsFit, Buffers, Data, NEW t \in Thread, Moves(t), LocalStep(t) \/ ReadStep(t) \/ WriteStep(t),
           AllArrive', log' = log, Fills(t),
           NEW n, n = NodeOf[t], NEW p, p = pool[n], NEW b, b = call[t].buf, p[b].data # <<>>,
           pool' = [pool EXCEPT ![NodeOf[t]] = SetAvailable(@, call[t].buf)],
           HasLocal(log, p[b].data) => End(p[b].data) = log[Message(p[b].data)].size,
           NEW x, NEW e, pc'[t] = x, call'[t] = e, FitsAny(x, e, n)
    PROVE  Data'
<1>0. n \in Node /\ Contents(log, n, p) /\ p \in Pool
  <2>1. n \in Node
    BY Consts
  <2>. QED  BY <2>1 DEF Data, Buffers, PoolFits, Sane
<1>1. PICK q : q = SetAvailable(p, b)
  OBVIOUS
<1>2. Sane(p) /\ b \in Buffer /\ IsUsed(p, b) /\ p[b].busy
  BY BufferOf
<1>3. (\A c \in Buffer : c # b => q[c] = p[c]) /\ \A c \in Buffer : First(p, c) => First(q, c)
  <2>1. OthersStay(q, p, b)
    BY <1>1, <1>2, AvailableKeeps
  <2>. QED  BY <2>1 DEF OthersStay
<1>4. Spares(t, q)
  BY <1>2, <1>3, OwnSpares
<1>5. pool' = [pool EXCEPT ![NodeOf[t]] = q]
  BY <1>1
<1>6. /\ q[b].from = p[b].from /\ q[b].to = p[b].to /\ q[b].seq = p[b].seq /\ q[b].next = p[b].next
      /\ q[b].data = p[b].data
  <2>1. p[b] \in BufferKind /\ p = [c \in Buffer |-> p[c]]
    BY <1>0, <1>2, SlotFits DEF Pool, IsUsed
  <2>2. PICK y : y = [p[b] EXCEPT !.busy = FALSE]
    OBVIOUS
  <2>3. q[b] = y
    BY <1>1, <1>2, <2>1, <2>2 DEF SetAvailable
  <2>4. y.from = p[b].from /\ y.to = p[b].to /\ y.seq = p[b].seq /\ y.next = p[b].next /\ y.data = p[b].data
    BY <2>1, <2>2 DEF BufferKind
  <2>. QED  BY <2>3, <2>4
<1>7. Contents(log, n, q)
  <2>1. Part(log, n, q[b])
    <3>1. Part(log, n, p[b])
      BY <1>0, <1>2 DEF Contents
    <3>. QED  BY <1>6, <3>1 DEF Part
  <2>2. q[b].data # <<>> => Message(q[b].data) \in DOMAIN log
    BY <1>0, <1>2, <1>6 DEF Contents
  <2>. QED  BY <1>0, <1>2, <1>3, <1>6, <2>1, <2>2, ContentsEdit
<1>8. NewData(t, q, log')
  BY <1>3, <1>6 DEF NewData
<1>9. DataFits(log', pc'[t], call'[t], NodeOf[t], q) /\ Contents(log', NodeOf[t], q)
  BY <1>7 DEF FitsAny
<1>. QED  BY <1>4, <1>5, <1>8, <1>9, GrowsSelf, DataStep

LEMMA NothingLeft == ASSUME NEW a \in Nat, NEW b, b = 0 PROVE a - b = a
OBVIOUS

LEMMA PublishData ==
    ASSUME PortalsFit, Buffers, Data, NEW t \in Thread, Moves(t), AllArrive', log' = log, Publish(t)
    PROVE  Data'
<1>0. /\ pc \in [Thread -> PCs] /\ call = [u \in Thread |-> call[u]] /\ BufferFits(pc[t], call[t])
  BY DEF PortalsFit, CallsFit, Buffers
<1>1. /\ LocalStep(t) /\ pc[t] = "publish" /\ call' = call /\ pc' = [pc EXCEPT ![t] = "write end"]
      /\ pool' = [pool EXCEPT ![NodeOf[t]] = SetAvailable(@, call[t].buf)]
  BY DEF LocalStep, Publish, historyVars, Goto
<1>2. PICK c, n, p, b : c = call[t] /\ n = NodeOf[t] /\ p = pool[n] /\ b = call[t].buf
  OBVIOUS
<1>3. Fills(t) /\ p[b].data # <<>> /\ b # NoBuffer
  <2>1. Fills(t) /\ b # NoBuffer
    BY <1>0, <1>1, <1>2 DEF Fills, Filling, BufferFits
  <2>. QED  BY <1>1, <1>2, <2>1 DEF Buffers, FillFits
<1>4. LocalPart(log, c, n, p) /\ c.left = 0
  BY <1>1, <1>2, LocalWriter
<1>5. End(p[b].data) = log[Message(p[b].data)].size
  <2>1. Message(p[b].data) = c.msg /\ End(p[b].data) = c.size - c.left /\ log[c.msg].size = c.size /\ c.size \in Nat
    BY <1>2, <1>3, <1>4 DEF LocalPart
  <2>2. End(p[b].data) = c.size
    BY <1>4, <2>1, NothingLeft
  <2>. QED  BY <2>1, <2>2
<1>6. FitsAny("write end", c, n)
  <2>1. "write end" \in Writing \ {"write local", "publish"}
    BY DEF Writing, RemoteWrites
  <2>. QED  BY <2>1, NoData DEF FitsAny
<1>7. pc'[t] = "write end" /\ call'[t] = c
  BY <1>0, <1>1, <1>2
<1>8. PICK x : x = "write end"
  OBVIOUS
<1>9. pc'[t] = x /\ FitsAny(x, c, n)
  BY <1>6, <1>7, <1>8
<1>. QED  BY <1>1, <1>2, <1>3, <1>5, <1>7, <1>9, LeaveData

\* What a reader keeps for another port, in the buffer that it fills.
LEMMA KeptData ==
    ASSUME PortalsFit, Buffers, Data, NEW t \in Thread, Fills(t), pc[t] \in Reading,
           NEW n, n = NodeOf[t], NEW p, p = pool[n], NEW b, b = call[t].buf
    PROVE  p[b].data # <<>> => IsForeign(log, Message(p[b].data)) /\ ~HasLocal(log, p[b].data)
<1>1. DataFits(log, pc[t], call[t], n, p)
  BY DEF Data
<1>2. p[b].data # <<>> => IsForeign(log, Message(p[b].data))
  BY <1>1 DEF DataFits, Keeps, Fills
<1>. QED  BY <1>2, ForeignIs

LEMMA FinishData ==
    ASSUME PortalsFit, Buffers, Data, NEW t \in Thread, Moves(t), AllArrive', log' = log,
           FinishRead(t), call[t].buffering
    PROVE  Data'
<1>0. /\ pc \in [Thread -> PCs] /\ call = [u \in Thread |-> call[u]] /\ BufferFits(pc[t], call[t]) /\ IsCall(call[t])
      /\ DataFits(log, pc[t], call[t], NodeOf[t], pool[NodeOf[t]])
  BY DEF PortalsFit, CallsFit, CallFits, Buffers, Data
<1>1. /\ ReadStep(t) /\ pc[t] = "finish" /\ pc[t] \in Reading /\ pc' = [pc EXCEPT ![t] = "release"]
      /\ pool' = [pool EXCEPT ![NodeOf[t]] = SetAvailable(@, call[t].buf)]
      /\ call' = [call EXCEPT ![t].ret = "partial"]
  BY DEF ReadStep, FinishRead, Goto, Reading, RemoteReads, Channels
<1>2. PICK c, n, p, b : c = call[t] /\ n = NodeOf[t] /\ p = pool[n] /\ b = call[t].buf
  OBVIOUS
<1>3. PICK d, x : d = [c EXCEPT !.ret = "partial"] /\ x = "release"
  OBVIOUS
<1>4. call'[t] = d /\ pc'[t] = x
  BY <1>0, <1>1, <1>2, <1>3
<1>5. Alike(c, d) /\ d.got = c.got
  BY <1>0, <1>2, <1>3 DEF IsCall, Alike
<1>6. Fills(t) /\ p[b].data # <<>>
  <2>1. Fills(t)
    BY <1>0, <1>1 DEF Fills, Filling, BufferFits
  <2>. QED  BY <1>1, <1>2, <2>1 DEF Buffers, FillFits
<1>7. ~HasLocal(log, p[b].data)
  BY <1>1, <1>2, <1>6, KeptData
<1>8. FitsAny(x, d, n)
  <2>1. c.got \in Seq(Unit) /\ Reads1st(log, pc[t], c, n)
    BY <1>0, <1>1, <1>2 DEF DataFits, ReadsIn
  <2>2. d.got \in Seq(Unit) /\ Reads1st(log, x, d, n)
    BY <1>5, <2>1 DEF Reads1st, Alike
  <2>. QED  BY <1>3, <2>2 DEF FitsAny, DataFits, WritesOut, Keeps, Filling, ReadsIn, ReadsOn
<1>. QED  BY <1>1, <1>2, <1>4, <1>6, <1>7, <1>8, LeaveData

LEMMA KeepData ==
    ASSUME PortalsFit, Buffers, Data, NEW t \in Thread, Moves(t), AllArrive', log' = log, KeepPiece(t)
    PROVE  Data'
<1>0. /\ pc \in [Thread -> PCs] /\ call = [u \in Thread |-> call[u]] /\ BufferFits(pc[t], call[t]) /\ IsCall(call[t])
      /\ NodeOf[t] \in Node /\ DataFits(log, pc[t], call[t], NodeOf[t], pool[NodeOf[t]])
  BY Consts DEF PortalsFit, CallsFit, CallFits, Buffers, Data
<1>1. /\ ReadStep(t) /\ pc[t] = "piece" /\ call[t].buffering /\ Incoming(t) # <<>>
  BY DEF ReadStep, KeepPiece
<1>2. PICK c, n, b, p, m, l : c = call[t] /\ n = NodeOf[t] /\ b = c.buf /\ p = pool[n] /\ m = Head(Incoming(t)) /\ l = pc[t]
  OBVIOUS
<1>3. Fills(t) /\ pc[t] \in Reading /\ pc[t] \in RemoteReads /\ Filling(l, c)
  BY <1>0, <1>1, <1>2 DEF Fills, Filling, BufferFits, Reading, RemoteReads, Channels
<1>4. Sane(p) /\ p \in Pool /\ Chained(p) /\ b \in Buffer /\ IsUsed(p, b) /\ p[b].busy /\ Contents(log, n, p)
  <2>1. Sane(p) /\ b \in Buffer /\ IsUsed(p, b) /\ p[b].busy
    BY <1>2, <1>3, BufferOf
  <2>. QED  BY <1>0, <1>2, <2>1 DEF Sane, Data
<1>5. p[b].data # <<>> => IsForeign(log, Message(p[b].data)) /\ ~HasLocal(log, p[b].data)
  BY <1>2, <1>3, KeptData
<1>6. ~IsHeader(m) => m.unit \in Unit /\ IsForeign(log, m.unit[1])
  BY <1>1, <1>2, <1>3, Incomes DEF Data
<1>7. CASE IsHeader(m)
  <2>1. pc' = [pc EXCEPT ![t] = "panic"] /\ UNCHANGED <<pool, call>>
    BY <1>2, <1>7 DEF KeepPiece, Goto
  <2>2. call' = [call EXCEPT ![t] = c]
    BY <1>0, <1>2, <2>1
  <2>3. ReaderData(l, c, "panic", c, n)
    BY <1>2, <1>3, PlaceData
  <2>4. ReaderData(pc[t], call[t], "panic", c, NodeOf[t])
    BY <1>2, <2>3
  <2>. QED  BY <1>1, <2>1, <2>2, <2>4, ReaderKeepsData
<1>8. CASE ~IsHeader(m) /\ HasSpace(n, b)
  <2>1. PICK e : e = m.unit
    OBVIOUS
  <2>2. e \in Unit /\ IsForeign(log, e[1]) /\ Len(p[b].data) < MPORTAL_BUFFER_SIZE
    BY <1>2, <1>6, <1>8, <2>1 DEF HasSpace
  <2>3. PICK q, d : d = Append(p[b].data, e) /\ q = [p EXCEPT ![b].data = d]
    OBVIOUS
  <2>4. pool' = [pool EXCEPT ![n][b].data = Append(@, e)] /\ UNCHANGED call
        /\ \E x \in {"finish", "piece"} : pc' = [pc EXCEPT ![t] = x]
    BY <1>2, <1>8, <2>1 DEF KeepPiece, Goto, AfterPiece
  <2>5. PICK x \in {"finish", "piece"} : pc' = [pc EXCEPT ![t] = x]
    BY <2>4
  <2>6. pool' = [pool EXCEPT ![NodeOf[t]] = q]
    BY <1>2, <2>3, <2>4
  <2>7. (\A c1 \in Buffer : c1 # b => q[c1] = p[c1]) /\ \A c1 \in Buffer : First(p, c1) => First(q, c1)
    <3>1. q = [p EXCEPT ![b].data = Append(p[b].data, e)]
      BY <2>3
    <3>2. Grown(q, p, b)
      BY <1>4, <2>2, <3>1, DataKeeps
    <3>. QED  BY <3>2 DEF Grown, OthersStay
  <2>8. Spares(t, q)
    BY <1>2, <1>3, <2>7, OwnSpares
  <2>9. q[b].next = p[b].next /\ q[b].data = d
    <3>1. p[b] \in BufferKind /\ p = [c1 \in Buffer |-> p[c1]]
      BY <1>4, SlotFits DEF IsUsed, Pool
    <3>2. PICK y : y = [p[b] EXCEPT !.data = d]
      OBVIOUS
    <3>3. q[b] = y
      BY <1>4, <2>3, <3>1, <3>2
    <3>. QED  BY <3>1, <3>2, <3>3 DEF BufferKind
  <2>10. d # <<>> /\ IsForeign(log, Message(d))
    <3>1. p[b].data \in Seq(Unit)
      BY <1>4, SlotFits
    <3>2. d # <<>> /\ (p[b].data = <<>> => d[1] = e) /\ (p[b].data # <<>> => d[1] = p[b].data[1])
      BY <2>2, <2>3, <3>1, AppendsUnit
    <3>. QED  BY <1>5, <2>2, <3>2 DEF Message
  <2>11. ~HasLocal(log, q[b].data) /\ ~HasLocal(log, p[b].data) /\ Message(q[b].data) \in DOMAIN log
    <3>1. ~HasLocal(log, p[b].data)
      BY <1>5 DEF HasLocal
    <3>. QED  BY <2>9, <2>10, <3>1, ForeignIs
  <2>12. Contents(log, n, q)
    <3>1. p[b].data = <<>> => p[b].seq = 0
      <4>1. p[b].seq \in Nat
        BY <1>4, SlotFits
      <4>. QED  BY <1>4, <4>1 DEF Chained
    <3>2. Part(log, n, q[b])
      BY <2>11 DEF Part
    <3>. QED  BY <1>4, <2>7, <2>9, <2>11, <3>1, <3>2, ContentsEdit
  <2>13. pc'[t] = x /\ call'[t] = c
    BY <1>0, <1>2, <2>4, <2>5
  <2>14. DataFits(log, x, c, n, q)
    <3>1. c.got \in Seq(Unit) /\ Reads1st(log, l, c, n)
      BY <1>0, <1>2, <1>3 DEF DataFits, ReadsIn
    <3>2. Reads1st(log, x, c, n)
      BY <3>1 DEF Reads1st
    <3>3. Keeps(log, x, c, q)
      BY <1>2, <2>9, <2>10 DEF Keeps
    <3>. QED  BY <3>1, <3>2, <3>3 DEF DataFits, WritesOut, ReadsIn, ReadsOn
  <2>15. NewData(t, q, log')
    BY <1>2, <2>7, <2>9, <2>10 DEF NewData
  <2>16. Contents(log', NodeOf[t], q) /\ DataFits(log', pc'[t], call'[t], NodeOf[t], q)
    BY <1>2, <2>12, <2>13, <2>14
  <2>. QED  BY <1>1, <2>6, <2>8, <2>15, <2>16, GrowsSelf, DataStep
<1>9. CASE ~IsHeader(m) /\ ~HasSpace(n, b)
  <2>1. /\ call' = [call EXCEPT ![t].header = m] /\ pc' = [pc EXCEPT ![t] = "more"] /\ UNCHANGED pool
    BY <1>2, <1>9 DEF KeepPiece, Goto
  <2>2. PICK d : d = [c EXCEPT !.header = m]
    OBVIOUS
  <2>3. call' = [call EXCEPT ![t] = d]
    BY <1>2, <2>1, <2>2
  <2>4. Alike(c, d) /\ d.got = c.got /\ d.buf = c.buf /\ d.header = m
    BY <1>0, <1>2, <2>2 DEF IsCall, Alike
  <2>5. IsForeign(log, d.header.unit[1])
    BY <1>6, <1>9, <2>4
  <2>6. ReaderData(pc[t], call[t], "more", d, NodeOf[t])
    BY <1>2, <1>3, <2>4, <2>5 DEF ReaderData, RemoteReads, Channels
  <2>. QED  BY <1>1, <2>1, <2>3, <2>6, ReaderKeepsData
<1>. QED  BY <1>7, <1>8, <1>9

-----------------------------------------------------------------------------
(* What a read takes out of the buffers.                                   *)

LEMMA SeqsJoin ==
    ASSUME NEW x \in Seq(Unit), NEW y \in Seq(Unit)
    PROVE  /\ x \o y \in Seq(Unit) /\ Len(x \o y) = Len(x) + Len(y) /\ Len(x) \in Nat /\ Len(y) \in Nat
           /\ x # <<>> => x \o y # <<>> /\ (x \o y)[1] = x[1]
           /\ x = <<>> => x \o y = y
           /\ \A i \in 1 .. Len(x) : (x \o y)[i] = x[i]
           /\ \A i \in 1 .. Len(x) + Len(y) : i \notin 1 .. Len(x) =>
                i - Len(x) \in 1 .. Len(y) /\ (x \o y)[i] = y[i - Len(x)]
OBVIOUS

LEMMA SumIs == ASSUME NEW a \in Nat, NEW b \in Nat, NEW i \in Nat PROVE (a + b) + (i - b) = a + i
OBVIOUS

\* Parts of a message that follow each other make one.
LEMMA PartsJoin ==
    ASSUME NEW x \in Seq(Unit), NEW y \in Seq(Unit), NEW m, NEW a \in Nat, NEW b, b = a + Len(x),
           IsPart(x, m, a), IsPart(y, m, b)
    PROVE  IsPart(x \o y, m, a)
<1>1. Len(x \o y) = Len(x) + Len(y) /\ Len(x) \in Nat /\ Len(y) \in Nat
  BY SeqsJoin
<1>2. ASSUME NEW i \in 1 .. Len(x) + Len(y) PROVE (x \o y)[i] = <<m, a + i>>
  <2>1. CASE i \in 1 .. Len(x)
    <3>1. (x \o y)[i] = x[i]
      BY <2>1, SeqsJoin
    <3>. QED  BY <2>1, <3>1 DEF IsPart
  <2>2. CASE i \notin 1 .. Len(x)
    <3>1. PICK j : j = i - Len(x)
      OBVIOUS
    <3>2. j \in 1 .. Len(y) /\ (x \o y)[i] = y[j]
      BY <2>2, <3>1, SeqsJoin
    <3>3. y[j] = <<m, b + j>>
      BY <3>2 DEF IsPart
    <3>4. i \in Nat
      BY <1>1
    <3>5. b + j = a + i
      BY <1>1, <3>1, <3>4, SumIs
    <3>. QED  BY <3>2, <3>3, <3>5
  <2>. QED  BY <2>1, <2>2
<1>. QED  BY <1>1, <1>2 DEF IsPart

\* What the buffers of a path from the first to the i-th hold, when e is what they do.
PathPart(L, f, p, e, i) ==
    LET a == p[f[0]].data
        d == p[f[i]].data IN
    /\ e \in Seq(Unit) /\ e # <<>> /\ Message(e) = Message(a)
    /\ HasLocal(L, d) <=> HasLocal(L, a)
    /\ HasLocal(L, a) => /\ Message(d) = Message(a) /\ Offset(a) \in Nat
                         /\ IsPart(e, Message(a), Offset(a)) /\ End(d) = Offset(a) + Len(e)

\* Two neighbours.
LEMMA Neighbours ==
    ASSUME NEW L, NEW d, NEW e, Joined(L, d, e), d # <<>>, e # <<>>
    PROVE  /\ HasLocal(L, e) <=> HasLocal(L, d)
           /\ HasLocal(L, d) => Message(e) = Message(d) /\ e[1][2] = End(d) + 1
<1>1. ASSUME HasLocal(L, d) \/ HasLocal(L, e) PROVE Message(e) = Message(d) /\ e[1][2] = End(d) + 1
  <2>1. e[1] = <<Message(d), End(d) + 1>>
    BY <1>1 DEF Joined
  <2>. QED  BY <2>1 DEF Message
<1>. QED  BY <1>1 DEF HasLocal

LEMMA NextOffset == ASSUME NEW a \in Nat, NEW b \in Nat, NEW v, v = (a + b) + 1 PROVE v - 1 = a + b /\ v - 1 \in Nat
OBVIOUS

LEMMA PathGrows ==
    ASSUME NEW L, NEW n, NEW p \in Pool, Contents(L, n, p), NEW f, NEW i \in Nat, NEW e, PathPart(L, f, p, e, i),
           NEW b \in Buffer, NEW c \in Buffer, b = f[i], c = f[i + 1], p[b].next = c, p[b].data # <<>>, p[c].data # <<>>
    PROVE  PathPart(L, f, p, e \o p[c].data, i + 1)
<1>1. PICK a, x, y, m, s : a = p[f[0]].data /\ x = p[b].data /\ y = p[c].data /\ m = Message(a) /\ s = Offset(a)
  OBVIOUS
<1>2. /\ e \in Seq(Unit) /\ e # <<>> /\ Message(e) = m
      /\ HasLocal(L, x) <=> HasLocal(L, a)
      /\ HasLocal(L, a) => Message(x) = m /\ s \in Nat /\ IsPart(e, m, s) /\ End(x) = s + Len(e)
  BY <1>1 DEF PathPart
<1>3. y \in Seq(Unit) /\ e \o y \in Seq(Unit) /\ e \o y # <<>> /\ Message(e \o y) = m
      /\ Len(e \o y) = Len(e) + Len(y) /\ Len(e) \in Nat /\ Len(y) \in Nat
  <2>1. y \in Seq(Unit)
    BY <1>1, SlotFits
  <2>. QED  BY <1>2, <2>1, SeqsJoin DEF Message
<1>4. Joined(L, x, y)
  BY <1>1, BuffersFinite DEF Contents
<1>5. /\ HasLocal(L, y) <=> HasLocal(L, a)
      /\ HasLocal(L, a) => Message(y) = m /\ y[1][2] = End(x) + 1
  BY <1>1, <1>2, <1>4, Neighbours
<1>6. ASSUME HasLocal(L, a) PROVE IsPart(e \o y, m, s) /\ End(y) = s + Len(e \o y)
  <2>1. y[1][2] = (s + Len(e)) + 1
    BY <1>2, <1>5, <1>6
  <2>2. Offset(y) = s + Len(e)
    BY <1>2, <1>3, <1>6, <2>1, NextOffset DEF Offset
  <2>3. IsPart(y, m, Offset(y))
    BY <1>1, <1>5, <1>6 DEF Contents, Part
  <2>4. IsPart(e \o y, m, s)
    BY <1>2, <1>3, <1>6, <2>2, <2>3, PartsJoin
  <2>5. End(y) = s + Len(e \o y)
    BY <1>2, <1>3, <1>6, <2>2 DEF End
  <2>. QED  BY <2>4, <2>5
<1>. QED  BY <1>1, <1>2, <1>3, <1>5, <1>6 DEF PathPart

\* The first k + 1 buffers of a path, which are complete, hold D[k + 1].
LEMMA PathData ==
    ASSUME NEW L, NEW o, NEW p \in Pool, Chained(p), Contents(L, o, p),
           NEW from \in Peer, NEW to, NEW previous, Continues(p, previous, to, from), NEW remainder,
           NEW f, NEW D, NEW ready, NEW n, IsWalk(f, D, ready, n, p, previous, to, from, remainder)
    PROVE  \A k \in Nat : k < ready => PathPart(L, f, p, D[k + 1], k)
<1>. DEFINE Good == {k \in Nat : k < ready => PathPart(L, f, p, D[k + 1], k)}
<1>0. IsPath(f, p, previous, to, from) /\ IsReady(f, p, ready) /\ ready \in Nat /\ ready <= MPORTAL_BUFFER_MAX
      /\ MPORTAL_BUFFER_MAX \in Nat
  BY BufferAssumption DEF IsWalk, IsReady
<1>1. PICK g : g = [k \in 1 .. ready |-> p[f[k - 1]].data]
  OBVIOUS
<1>2. Joins(D, g, ready, Unit)
  BY <1>1 DEF IsWalk
<1>3. ASSUME NEW k \in Nat, k < ready
      PROVE  /\ f[k] \in Buffer /\ p[f[k]].data # <<>> /\ p[f[k]].data \in Seq(Unit)
             /\ D[k + 1] = D[k] \o p[f[k]].data
  <2>1. f[k] \in Buffer /\ p[f[k]].data # <<>>
    BY <1>0, <1>3, OnPath
  <2>2. k + 1 \in 1 .. ready /\ (k + 1) - 1 = k
    BY <1>0, <1>3
  <2>3. g[k + 1] = p[f[k]].data
    BY <1>1, <2>2
  <2>4. D[k + 1] = D[k] \o g[k + 1]
    BY <1>2, <2>2 DEF Joins
  <2>. QED  BY <2>1, <2>3, <2>4, SlotFits
<1>4. 0 \in Good
  <2>1. SUFFICES ASSUME 0 < ready PROVE PathPart(L, f, p, D[0 + 1], 0)
    OBVIOUS
  <2>2. PICK a, b : b = f[0] /\ a = p[b].data
    OBVIOUS
  <2>3. b \in Buffer /\ a # <<>> /\ a \in Seq(Unit) /\ D[0 + 1] = D[0] \o a
    BY <1>3, <2>1, <2>2
  <2>4. D[0 + 1] = a
    <3>1. D[0] = <<>> /\ <<>> \in Seq(Unit)
      BY <1>2, NothingIs DEF Joins
    <3>. QED  BY <2>3, <3>1, SeqsJoin
  <2>5. Part(L, o, p[b])
    BY <2>3 DEF Contents
  <2>6. HasLocal(L, a) => Offset(a) \in Nat /\ IsPart(a, Message(a), Offset(a))
    BY <2>2, <2>5 DEF Part
  <2>. QED  BY <2>2, <2>3, <2>4, <2>6 DEF PathPart, End
<1>5. ASSUME NEW k \in Good PROVE k + 1 \in Good
  <2>1. SUFFICES ASSUME k + 1 < ready PROVE PathPart(L, f, p, D[(k + 1) + 1], k + 1)
    OBVIOUS
  <2>2. k \in Nat /\ k + 1 \in Nat /\ k < ready /\ k + 1 \in 1 .. MPORTAL_BUFFER_MAX /\ (k + 1) - 1 = k
    BY <1>0, <2>1
  <2>3. PICK b, c, e : b = f[k] /\ c = f[k + 1] /\ e = D[k + 1]
    OBVIOUS
  <2>4. b \in Buffer /\ c \in Buffer /\ p[b].data # <<>> /\ p[c].data # <<>> /\ D[(k + 1) + 1] = e \o p[c].data
    BY <1>3, <2>1, <2>2, <2>3
  <2>5. p[b].next = c
    <3>1. f[k + 1] = IF f[k] = NoBuffer THEN NoBuffer ELSE p[f[k]].next
      BY <1>0, <2>2 DEF IsPath
    <3>. QED  BY <2>3, <2>4, <3>1, BuffersFinite
  <2>6. PathPart(L, f, p, e, k)
    BY <2>2, <2>3
  <2>7. PathPart(L, f, p, e \o p[c].data, k + 1)
    BY <2>2, <2>3, <2>4, <2>5, <2>6, PathGrows
  <2>. QED  BY <2>4, <2>7
<1>6. Good = Nat
  <2>. HIDE DEF Good
  <2>1. Good \in SUBSET Nat
    BY DEF Good
  <2>. QED  BY <1>4, <1>5, <2>1, NatSetInduction
<1>. QED  BY <1>6

\* The first and the last of the buffers that are copied, b and e.
CopiedIs(L, r, p, previous, to, from, b, e) ==
    LET a == p[b].data
        d == p[e].data IN
    /\ a # <<>> /\ p[b].from = from /\ p[b].to = to /\ Message(r.copied) = Message(a)
    /\ IF previous = NoBuffer THEN p[b].seq = 0 ELSE p[previous].next = b
    /\ ~r.error /\ r.left # 0 => r.previous = e
    /\ HasLocal(L, d) <=> HasLocal(L, a)
    /\ HasLocal(L, a) => /\ Message(d) = Message(a) /\ Offset(a) \in Nat
                         /\ IsPart(r.copied, Message(a), Offset(a)) /\ End(d) = Offset(a) + Len(r.copied)

ReadTells(L, r, p, previous, to, from) ==
    r.copied # <<>> => \E b, e \in Buffer : CopiedIs(L, r, p, previous, to, from, b, e)

LEMMA ReadIsTold ==
    ASSUME NEW L, NEW o, NEW p \in Pool, Chained(p), Contents(L, o, p), NEW from \in Peer, NEW to,
           NEW previous, Continues(p, previous, to, from),
           NEW remainder \in Nat, NEW r, r = BufferRead(p, to, from, previous, remainder)
    PROVE  ReadTells(L, r, p, previous, to, from)
<1>. SUFFICES ASSUME r.copied # <<>> PROVE \E b, e \in Buffer : CopiedIs(L, r, p, previous, to, from, b, e)
  BY DEF ReadTells
<1>1. PICK f, D, ready, n :
         /\ IsWalk(f, D, ready, n, p, previous, to, from, remainder)
         /\ IsOutcome(r, f, D, ready, n, p, previous, remainder)
  BY Walks DEF Continues
<1>2. IsPath(f, p, previous, to, from) /\ IsReady(f, p, ready) /\ ready \in Nat /\ n \in 0 .. ready /\ n \in Nat
  BY <1>1, BufferAssumption DEF IsWalk, IsReady, IsFit
<1>3. PICK left : left = remainder - Len(D[n])
  OBVIOUS
<1>4. /\ r.copied = D[n] /\ r.left = left /\ r.error = (n < ready)
      /\ r.previous = IF Over(f, p, ready, n, left) THEN NoBuffer ELSE LastOf(f, n, previous)
  BY <1>1, <1>3 DEF IsOutcome
<1>5. n # 0
  <2>1. D[0] = <<>>
    BY <1>1 DEF IsWalk, Joins
  <2>. QED  BY <1>4, <2>1
<1>6. PICK k \in Nat : n = k + 1 /\ k < ready /\ 0 < ready /\ n - 1 = k
  <2>1. n - 1 \in Nat /\ n = (n - 1) + 1 /\ n - 1 < ready /\ 0 < ready
    BY <1>2, <1>5
  <2>. QED  BY <2>1
<1>7. PICK b, e, a, d : b = f[0] /\ e = f[k] /\ a = p[b].data /\ d = p[e].data
  OBVIOUS
<1>8. b \in Buffer /\ Of(p, b, to, from) /\ a # <<>> /\ e \in Buffer
  <2>1. 0 \in Nat
    OBVIOUS
  <2>2. f[0] \in Buffer /\ Of(p, f[0], to, from) /\ p[f[0]].data # <<>>
    BY <1>2, <1>6, <2>1, OnPath
  <2>3. f[k] \in Buffer
    BY <1>2, <1>6, OnPath
  <2>. QED  BY <1>7, <2>2, <2>3
<1>9. PathPart(L, f, p, D[n], k)
  BY <1>1, <1>6, PathData
<1>10. IF previous = NoBuffer THEN p[b].seq = 0 ELSE p[previous].next = b
  <2>1. previous = NoBuffer => p[b].seq = 0
    <3>1. previous = NoBuffer => b = FirstBuffer(p, to, from)
      BY <1>2, <1>7 DEF IsPath
    <3>. QED  BY <1>8, <3>1, FirstIs
  <2>2. previous # NoBuffer => p[previous].next = b
    BY <1>2, <1>7 DEF IsPath
  <2>. QED  BY <2>1, <2>2
<1>11. ASSUME ~r.error, r.left # 0 PROVE r.previous = e
  <2>1. ~(n < ready) /\ left # 0
    BY <1>4, <1>11
  <2>2. ~Over(f, p, ready, n, left)
    BY <2>1, Zenon DEF Over, Discards
  <2>3. LastOf(f, n, previous) = e
    BY <1>5, <1>6, <1>7 DEF LastOf
  <2>. QED  BY <1>4, <2>2, <2>3
<1>12. /\ Message(r.copied) = Message(a)
       /\ HasLocal(L, d) <=> HasLocal(L, a)
       /\ HasLocal(L, a) => /\ Message(d) = Message(a) /\ Offset(a) \in Nat
                            /\ IsPart(r.copied, Message(a), Offset(a)) /\ End(d) = Offset(a) + Len(r.copied)
  BY <1>4, <1>7, <1>9 DEF PathPart
<1>. QED  BY <1>7, <1>8, <1>10, <1>11, <1>12 DEF CopiedIs, Of

-----------------------------------------------------------------------------
(* What a reader has got.                                                  *)

LEMMA LeftIs ==
    ASSUME NEW s \in Nat, NEW a \in Nat, NEW b \in Nat, NEW v, NEW w, v = s - a, w = v - b, w \in Nat
    PROVE  w = s - (a + b) /\ a + b <= s
OBVIOUS

LEMMA SuccessorIs == ASSUME NEW k \in Nat, NEW v, v = k + 1 PROVE v - 1 = k /\ k = 0 + k
OBVIOUS

LEMMA AddsNothing == ASSUME NEW a \in Nat PROVE 0 + a = a
OBVIOUS

\* What a reader has got, g, is the beginning of a message, up to the end of d, if that
\* message is local.
Beginning(L, n, c, g, d) ==
    LET m == Message(g) IN
    /\ m \in DOMAIN L
    /\ HasLocal(L, d) <=> IsLocal(L, m)
    /\ IsLocal(L, m) => /\ IsPart(g, m, 0) /\ L[m].from = c.from /\ L[m].to = <<n, c.port>>
                        /\ Message(d) = m /\ End(d) = Len(g)

LEMMA GotFirst ==
    ASSUME NEW L, NEW n, NEW p, Contents(L, n, p), NEW c, c.got = <<>>,
           NEW r, r.copied \in Seq(Unit), r.copied # <<>>, NEW b \in Buffer, NEW e \in Buffer,
           CopiedIs(L, r, p, NoBuffer, c.port, c.from, b, e)
    PROVE  Beginning(L, n, c, r.copied, p[e].data)
<1>1. PICK a, d, g, m : a = p[b].data /\ d = p[e].data /\ g = r.copied /\ m = Message(g)
  OBVIOUS
<1>2. /\ a # <<>> /\ p[b].from = c.from /\ p[b].to = c.port /\ m = Message(a) /\ p[b].seq = 0
      /\ HasLocal(L, d) <=> HasLocal(L, a)
      /\ HasLocal(L, a) => /\ Message(d) = Message(a) /\ Offset(a) \in Nat
                           /\ IsPart(g, Message(a), Offset(a)) /\ End(d) = Offset(a) + Len(g)
  BY <1>1 DEF CopiedIs
<1>3. m \in DOMAIN L
  BY <1>1, <1>2 DEF Contents
<1>4. HasLocal(L, a) <=> IsLocal(L, m)
  BY <1>2 DEF HasLocal
<1>5. Len(g) \in Nat
  BY <1>1
<1>6. ASSUME IsLocal(L, m)
      PROVE  /\ IsPart(g, m, 0) /\ L[m].from = c.from /\ L[m].to = <<n, c.port>>
             /\ Message(d) = m /\ End(d) = Len(g)
  <2>1. Offset(a) = 0 /\ L[m].from = p[b].from /\ L[m].to = <<n, p[b].to>>
    <3>1. HasLocal(L, p[b].data) /\ Part(L, n, p[b])
      BY <1>1, <1>4, <1>6 DEF Contents
    <3>2. Message(p[b].data) = m
      BY <1>1, <1>2
    <3>. QED  BY <1>1, <1>2, <3>1, <3>2 DEF Part
  <2>2. IsPart(g, m, 0) /\ End(d) = 0 + Len(g) /\ Message(d) = m
    BY <1>2, <1>4, <1>6, <2>1
  <2>. QED  BY <1>2, <1>5, <2>1, <2>2, AddsNothing
<1>. QED  BY <1>1, <1>2, <1>3, <1>4, <1>6 DEF Beginning

LEMMA GotNext ==
    ASSUME NEW L, NEW n, NEW p, Contents(L, n, p), NEW c, c.got \in Seq(Unit), c.got # <<>>,
           Reads1st(L, "read local", c, n), ReadsOn(L, "read local", c, p), c.buf \in Buffer, c.buf # NoBuffer,
           p[c.buf].data # <<>>,
           NEW r, r.copied \in Seq(Unit), r.copied # <<>>, NEW b \in Buffer, NEW e \in Buffer,
           CopiedIs(L, r, p, c.buf, c.port, c.from, b, e), b # NoBuffer
    PROVE  Beginning(L, n, c, c.got \o r.copied, p[e].data)
<1>1. PICK a, d, x, g, m : /\ a = p[b].data /\ d = p[e].data /\ x = p[c.buf].data
                           /\ g = c.got \o r.copied /\ m = Message(c.got)
  OBVIOUS
<1>2. /\ a # <<>> /\ Message(r.copied) = Message(a) /\ p[c.buf].next = b
      /\ HasLocal(L, d) <=> HasLocal(L, a)
      /\ HasLocal(L, a) => /\ Message(d) = Message(a) /\ Offset(a) \in Nat
                           /\ IsPart(r.copied, Message(a), Offset(a)) /\ End(d) = Offset(a) + Len(r.copied)
  BY <1>1 DEF CopiedIs
<1>3. Joined(L, x, a)
  BY <1>1, <1>2 DEF Contents
<1>4. /\ HasLocal(L, a) <=> HasLocal(L, x)
      /\ HasLocal(L, x) => Message(a) = Message(x) /\ a[1][2] = End(x) + 1
  <2>1. x # <<>>
    BY <1>1
  <2>. QED  BY <1>2, <1>3, <2>1, Neighbours
<1>5. /\ m \in DOMAIN L
      /\ IsLocal(L, m) => IsPart(c.got, m, 0) /\ L[m].from = c.from /\ L[m].to = <<n, c.port>>
      /\ IsLocal(L, m) \/ HasLocal(L, x) => m = Message(x) /\ End(x) = Len(c.got)
  BY <1>1 DEF Reads1st, ReadsOn
<1>6. HasLocal(L, x) <=> IsLocal(L, m)
  BY <1>1, <1>5 DEF HasLocal
<1>7. /\ g \in Seq(Unit) /\ Len(g) = Len(c.got) + Len(r.copied) /\ Len(c.got) \in Nat /\ Len(r.copied) \in Nat
      /\ Message(g) = m
  BY <1>1, SeqsJoin DEF Message
<1>8. ASSUME IsLocal(L, m)
      PROVE  IsPart(g, m, 0) /\ Message(d) = m /\ End(d) = Len(g)
  <2>1. Message(a) = m /\ a[1][2] = Len(c.got) + 1
    BY <1>4, <1>5, <1>6, <1>8
  <2>2. Offset(a) = 0 + Len(c.got) /\ Offset(a) = Len(c.got)
    <3>1. PICK v, k : v = a[1][2] /\ k = Len(c.got) /\ k \in Nat
      BY <1>7
    <3>2. v = k + 1
      BY <2>1, <3>1, Zenon
    <3>3. v - 1 = k /\ k = 0 + k
      BY <3>1, <3>2, SuccessorIs, Zenon
    <3>. QED  BY <3>1, <3>3 DEF Offset
  <2>3. IsPart(r.copied, m, Offset(a)) /\ End(d) = Offset(a) + Len(r.copied) /\ Message(d) = m
    BY <1>2, <1>4, <1>6, <1>8, <2>1
  <2>4. IsPart(c.got \o r.copied, m, 0)
    BY <1>5, <1>8, <2>2, <2>3, PartsJoin
  <2>. QED  BY <1>1, <1>7, <2>2, <2>3, <2>4
<1>. QED  BY <1>1, <1>2, <1>4, <1>5, <1>6, <1>7, <1>8 DEF Beginning

\* What has been sent between threads of one node has been sent by one of them.
LEMMA LocalFrom ==
    ASSUME NEW L, NEW n, NEW y, Part(L, n, y), HasLocal(L, y.data)
    PROVE  y.from[1] = n
<1>1. PICK e, v, w : e = L[Message(y.data)] /\ v = e.from /\ w = e.to
  OBVIOUS
<1>2. v = y.from /\ w = <<n, y.to>>
  BY <1>1 DEF Part
<1>3. v[1] = w[1]
  BY <1>1 DEF HasLocal, IsLocal
<1>4. w[1] = n
  BY <1>2
<1>. QED  BY <1>2, <1>3, <1>4

\* What is left to be read.
LEMMA LeftOf ==
    ASSUME NEW c, NEW r, NEW g, c.size \in Nat, c.left = c.size - Len(c.got), r.left = c.left - Len(r.copied),
           r.left \in Nat, Len(g) = Len(c.got) + Len(r.copied), Len(c.got) \in Nat, Len(r.copied) \in Nat
    PROVE  Len(g) <= c.size /\ r.left = c.size - Len(g)
<1>1. PICK s, a, b, v, w : s = c.size /\ a = Len(c.got) /\ b = Len(r.copied) /\ v = c.left /\ w = r.left
  OBVIOUS
<1>2. s \in Nat /\ a \in Nat /\ b \in Nat /\ v = s - a /\ w = v - b /\ w \in Nat
  BY <1>1
<1>3. a + b <= s /\ w = s - (a + b)
  BY <1>2, LeftIs
<1>. QED  BY <1>1, <1>3

LEMMA NoneJoined == ASSUME NEW x \in Seq(Unit), NEW y, y = <<>> PROVE x \o y = x
OBVIOUS

LEMMA GotJoined ==
    ASSUME NEW x \in Seq(Unit), NEW y \in Seq(Unit), NEW g, g = x \o y
    PROVE  /\ g \in Seq(Unit) /\ Len(g) = Len(x) + Len(y) /\ Len(x) \in Nat /\ Len(y) \in Nat
           /\ x # <<>> => g # <<>> /\ Message(g) = Message(x)
           /\ x = <<>> => g = y
<1>1. x # <<>> => x \o y # <<>> /\ (x \o y)[1] = x[1]
  BY SeqsJoin
<1>. QED  BY <1>1, SeqsJoin DEF Message

\* What a reader has got, and where it goes on, after it was at l with c and took r.
HasGot(L, x, d, n, q) == d.got \in Seq(Unit) /\ Reads1st(L, x, d, n) /\ ReadsOn(L, x, d, q)

\* The read r of a reader at l with c, which then is at x with d and the buffers q.
Taken(l, c, r, x, d, p, q) ==
    /\ r.copied \in Seq(Unit) /\ r.left \in Nat /\ r.left = c.left - Len(r.copied)
    /\ r.previous # NoBuffer => q[r.previous] = p[r.previous]
    /\ x = "read local" => l = "read local" /\ r.copied # <<>> /\ ~r.error /\ r.left # 0
    /\ Alike(c, d) /\ d.got = c.got \o r.copied /\ d.left = r.left /\ d.buf = r.previous

\* One between threads of a node.
LEMMA GotLocal ==
    ASSUME NEW L, NEW n, NEW p, Contents(L, n, p), NEW c, c.size \in Nat,
           HasGot(L, "read local", c, n, p), c.buf \in Buffer \cup {NoBuffer}, c.buf # NoBuffer => p[c.buf].data # <<>>,
           NEW r, ReadTells(L, r, p, c.buf, c.port, c.from), r.copied # <<>>,
           NEW x \in {"read local", "read end"}, NEW d, NEW q, Taken("read local", c, r, x, d, p, q)
    PROVE  HasGot(L, x, d, n, q)
<1>1. /\ c.got \in Seq(Unit) /\ Reads1st(L, "read local", c, n) /\ ReadsOn(L, "read local", c, p)
      /\ r.copied \in Seq(Unit) /\ r.left \in Nat /\ r.left = c.left - Len(r.copied)
      /\ r.previous # NoBuffer => q[r.previous] = p[r.previous]
      /\ x = "read local" => ~r.error /\ r.left # 0
      /\ Alike(c, d) /\ d.got = c.got \o r.copied /\ d.left = r.left /\ d.buf = r.previous
  BY DEF HasGot, Taken
<1>2. PICK b \in Buffer, e \in Buffer : CopiedIs(L, r, p, c.buf, c.port, c.from, b, e)
  BY DEF ReadTells
<1>3. b # NoBuffer /\ e # NoBuffer
  BY BuffersFinite
<1>4. PICK g, m, w : g = d.got /\ m = Message(g) /\ w = p[e].data
  OBVIOUS
<1>5. /\ g \in Seq(Unit) /\ g # <<>> /\ Len(g) = Len(c.got) + Len(r.copied) /\ Len(c.got) \in Nat
      /\ Len(r.copied) \in Nat /\ (c.got = <<>> => g = r.copied)
  <2>1. PICK u, v : u = c.got /\ v = r.copied
    OBVIOUS
  <2>2. u \in Seq(Unit) /\ v \in Seq(Unit) /\ g = u \o v /\ v # <<>>
    BY <1>1, <1>4, <2>1, Zenon
  <2>3. g \in Seq(Unit) /\ Len(g) = Len(u) + Len(v) /\ Len(u) \in Nat /\ Len(v) \in Nat /\ (u = <<>> => g = v)
        /\ (u # <<>> => g # <<>>)
    BY <2>2, GotJoined
  <2>4. g # <<>>
    BY <2>2, <2>3
  <2>. QED  BY <2>1, <2>3, <2>4
<1>6. /\ m \in DOMAIN L
      /\ HasLocal(L, w) <=> IsLocal(L, m)
      /\ IsLocal(L, m) => /\ IsPart(g, m, 0) /\ L[m].from = c.from /\ L[m].to = <<n, c.port>>
                          /\ Message(w) = m /\ End(w) = Len(g)
  <2>1. CASE c.buf = NoBuffer
    <3>1. c.got = <<>>
      BY <1>1, <2>1 DEF ReadsOn
    <3>2. g = r.copied
      BY <1>5, <3>1
    <3>3. CopiedIs(L, r, p, NoBuffer, c.port, c.from, b, e)
      BY <1>2, <2>1
    <3>4. Beginning(L, n, c, r.copied, w)
      BY <1>1, <1>4, <3>1, <3>3, GotFirst
    <3>. QED  BY <1>4, <3>2, <3>4 DEF Beginning
  <2>2. CASE c.buf # NoBuffer
    <3>1. c.got # <<>> /\ c.buf \in Buffer /\ p[c.buf].data # <<>>
      BY <1>1, <2>2 DEF ReadsOn
    <3>2. Beginning(L, n, c, c.got \o r.copied, w)
      BY <1>1, <1>2, <1>3, <1>4, <2>2, <3>1, GotNext
    <3>. QED  BY <1>1, <1>4, <3>2 DEF Beginning
  <2>. QED  BY <2>1, <2>2
<1>7. Len(g) <= c.size /\ r.left = c.size - Len(g)
  <2>1. c.left = c.size - Len(c.got)
    BY <1>1 DEF ReadsOn
  <2>. QED  BY <1>1, <1>5, <2>1, LeftOf, Zenon
<1>8. d.port = c.port /\ d.from = c.from /\ d.size = c.size
  BY <1>1 DEF Alike
<1>9. Reads1st(L, x, d, n)
  BY <1>4, <1>6, <1>7, <1>8 DEF Reads1st
<1>10. ReadsOn(L, x, d, q)
  <2>1. SUFFICES ASSUME x = "read local" PROVE ReadsOn(L, x, d, q)
    BY DEF ReadsOn
  <2>2. d.buf = e /\ q[d.buf].data = w
    BY <1>1, <1>2, <1>3, <1>4, <2>1 DEF CopiedIs
  <2>3. d.left = d.size - Len(d.got)
    BY <1>1, <1>4, <1>7, <1>8
  <2>4. IsLocal(L, Message(d.got)) \/ HasLocal(L, w) => Message(d.got) = Message(w) /\ End(w) = Len(d.got)
    BY <1>4, <1>6
  <2>. QED  BY <1>3, <1>4, <1>5, <2>2, <2>3, <2>4 DEF ReadsOn
<1>. QED  BY <1>4, <1>5, <1>9, <1>10 DEF HasGot

\* One between nodes.
LEMMA GotForeign ==
    ASSUME NEW L, NEW n, NEW p, Contents(L, n, p), NEW l, NEW c, c.from[1] # n,
           c.got \in Seq(Unit), Reads1st(L, l, c, n),
           NEW r, ReadTells(L, r, p, c.buf, c.port, c.from), r.copied # <<>>,
           NEW x, x # "read local", NEW d, NEW q, Taken(l, c, r, x, d, p, q)
    PROVE  HasGot(L, x, d, n, q)
<1>1. /\ r.copied \in Seq(Unit) /\ Alike(c, d) /\ d.got = c.got \o r.copied
  BY DEF Taken
<1>2. PICK b \in Buffer, e \in Buffer : CopiedIs(L, r, p, c.buf, c.port, c.from, b, e)
  BY DEF ReadTells
<1>3. /\ d.got \in Seq(Unit) /\ (c.got = <<>> => d.got = r.copied)
      /\ c.got # <<>> => Message(d.got) = Message(c.got)
  <2>1. PICK u, v, g : u = c.got /\ v = r.copied /\ g = d.got
    OBVIOUS
  <2>2. u \in Seq(Unit) /\ v \in Seq(Unit) /\ g = u \o v
    BY <1>1, <2>1, Zenon
  <2>3. g \in Seq(Unit) /\ (u = <<>> => g = v) /\ (u # <<>> => Message(g) = Message(u))
    BY <2>2, GotJoined
  <2>. QED  BY <2>1, <2>3
<1>4. Message(d.got) \in DOMAIN L /\ ~IsLocal(L, Message(d.got))
  <2>1. CASE c.got # <<>>
    <3>1. Message(d.got) = Message(c.got)
      BY <1>3, <2>1
    <3>. QED  BY <2>1, <3>1, NotLocal
  <2>2. CASE c.got = <<>>
    <3>1. PICK m : m = Message(p[b].data)
      OBVIOUS
    <3>2. p[b].data # <<>> /\ p[b].from = c.from /\ Message(r.copied) = m
      BY <1>2, <3>1 DEF CopiedIs
    <3>3. d.got = r.copied
      BY <1>3, <2>2
    <3>4. m \in DOMAIN L /\ Part(L, n, p[b])
      BY <3>1, <3>2 DEF Contents
    <3>5. ~IsLocal(L, m)
      <4>1. SUFFICES ASSUME IsLocal(L, m) PROVE FALSE
        OBVIOUS
      <4>2. HasLocal(L, p[b].data)
        BY <3>1, <3>2, <4>1 DEF HasLocal
      <4>3. p[b].from[1] = n
        BY <3>4, <4>2, LocalFrom
      <4>. QED  BY <3>2, <4>3
    <3>. QED  BY <3>2, <3>3, <3>4, <3>5
  <2>. QED  BY <2>1, <2>2
<1>. QED  BY <1>3, <1>4 DEF HasGot, Reads1st, ReadsOn

LEMMA GotData ==
    ASSUME NEW L, NEW n, NEW p, Contents(L, n, p), NEW l, NEW c, c.size \in Nat,
           HasGot(L, l, c, n, p), c.buf \in Buffer \cup {NoBuffer}, c.buf # NoBuffer => p[c.buf].data # <<>>,
           l # "read local" => c.from[1] # n,
           NEW r, ReadTells(L, r, p, c.buf, c.port, c.from),
           NEW x, l = "read local" => x \in {"read local", "read end"}, NEW d, NEW q, Taken(l, c, r, x, d, p, q)
    PROVE  HasGot(L, x, d, n, q)
<1>1. CASE r.copied = <<>>
  <2>1. d.got = c.got /\ Alike(c, d) /\ x # "read local" /\ c.got \in Seq(Unit) /\ Reads1st(L, l, c, n)
    BY <1>1, NoneJoined DEF Taken, HasGot
  <2>2. Reads1st(L, x, d, n)
    BY <2>1 DEF Reads1st, Alike
  <2>. QED  BY <2>1, <2>2 DEF HasGot, ReadsOn
<1>2. CASE r.copied # <<>> /\ l = "read local"
  BY <1>2, GotLocal
<1>3. CASE r.copied # <<>> /\ l # "read local"
  <2>1. x # "read local" /\ c.got \in Seq(Unit) /\ Reads1st(L, l, c, n)
    BY <1>3 DEF Taken, HasGot
  <2>. QED  BY <1>3, <2>1, GotForeign
<1>. QED  BY <1>1, <1>2, <1>3

-----------------------------------------------------------------------------
(* A reader takes what is available.                                       *)

\* With a buffer that is released go those before it.
LEMMA ContentsLeft ==
    ASSUME NEW L, NEW n, NEW p, Sane(p), Contents(L, n, p), NEW R,
           NEW q, q = [b \in Buffer |-> IF b \in R THEN Unused ELSE p[b]],
           \A b \in Buffer \cap R, c \in Buffer : p[c].next = b => c \in R
    PROVE  Contents(L, n, q)
<1>0. p \in Pool /\ NoBuffer \notin Buffer
  BY BuffersFinite DEF Sane
<1>1. ASSUME NEW b \in Buffer
      PROVE  /\ q[b].data # <<>> => Message(q[b].data) \in DOMAIN L
             /\ Part(L, n, q[b])
             /\ q[b].next # NoBuffer => Joined(L, q[b].data, q[q[b].next].data)
  <2>1. CASE b \in R
    <3>1. q[b] = Unused
      BY <2>1
    <3>2. q[b].data = <<>> /\ q[b].next = NoBuffer
      BY <3>1 DEF Unused
    <3>. QED  BY <3>2 DEF Part, HasLocal
  <2>2. CASE b \notin R
    <3>1. q[b] = p[b]
      BY <2>2
    <3>2. ASSUME p[b].next # NoBuffer PROVE Joined(L, p[b].data, q[p[b].next].data)
      <4>1. PICK e : e = p[b].next
        OBVIOUS
      <4>2. e \in Buffer
        BY <1>0, <3>2, <4>1, SlotFits
      <4>3. e \notin R
        BY <2>2, <4>1, <4>2
      <4>4. q[e] = p[e]
        BY <4>2, <4>3
      <4>5. Joined(L, p[b].data, p[e].data)
        BY <3>2, <4>1 DEF Contents
      <4>. QED  BY <4>1, <4>4, <4>5
    <3>. QED  BY <3>1, <3>2 DEF Contents
  <2>. QED  BY <2>1, <2>2
<1>. QED  BY <1>1 DEF Contents

\* The conditions of ReadIsTold, at a reader.
LEMMA TakerTold ==
    ASSUME PortalsFit, Buffers, Data, NEW t \in Thread, pc[t] \in {"read local", "again", "locked"}, ~call[t].buffering,
           NEW r, Gets(r, t), NEW c, c = call[t], NEW p, p = pool[NodeOf[t]]
    PROVE  /\ ReadTells(log, r, p, c.buf, c.port, c.from)
           /\ c.buf # NoBuffer => p[c.buf].data # <<>>
           /\ pc[t] # "read local" => c.from[1] # NodeOf[t]
<1>0. BufferFits(pc[t], call[t]) /\ NodeOf[t] \in Node
  BY Consts DEF PortalsFit, CallsFit, Buffers
<1>1. PICK n, previous : n = NodeOf[t] /\ previous = c.buf
  OBVIOUS
<1>2. /\ pc[t] \in Reading /\ c.from \in Peer /\ c.port \in Port /\ c.left \in Nat
      /\ previous \in Buffer \cup {NoBuffer} /\ Sane(p) /\ p \in Pool /\ Chained(p) /\ Contents(log, n, p)
  <2>1. Sane(p) /\ p \in Pool
    BY BufferOf
  <2>2. Contents(log, n, p)
    BY <1>0, <1>1 DEF Data
  <2>. QED  BY <1>1, <2>1, <2>2, BufferGot DEF Sane
<1>3. previous # NoBuffer => Takes(t)
  BY <1>0, <1>1, <1>2 DEF Takes, Taking, BufferFits, Reading, RemoteReads
<1>4. previous # NoBuffer =>
        /\ IsUsed(p, previous) /\ ~p[previous].busy /\ First(p, previous)
        /\ p[previous].from = c.from /\ p[previous].to = c.port
  <2>1. /\ p = pool[NodeOf[t]] /\ previous = call[t].buf /\ c.from = call[t].from /\ c.port = call[t].port
        /\ previous # NoBuffer => Takes(t)
    BY <1>1, <1>3
  <2>2. Takes(t) => /\ IsUsed(p, previous) /\ ~p[previous].busy /\ First(p, previous)
                    /\ p[previous].from = call[t].from /\ p[previous].to = call[t].port
    BY <2>1, BufferOf
  <2>. QED  BY <2>1, <2>2
<1>5. Continues(p, previous, c.port, c.from)
  BY <1>2, <1>4 DEF Continues, FollowsOn
<1>6. r = BufferRead(p, c.port, c.from, previous, c.left)
  BY <1>1 DEF Available, Gets
<1>7. ReadTells(log, r, p, previous, c.port, c.from)
  <2>1. PICK to, from, remainder : to = c.port /\ from = c.from /\ remainder = c.left
    OBVIOUS
  <2>2. /\ p \in Pool /\ Chained(p) /\ from \in Peer /\ Continues(p, previous, to, from) /\ remainder \in Nat
        /\ Contents(log, n, p) /\ r = BufferRead(p, to, from, previous, remainder)
    BY <1>2, <1>5, <1>6, <2>1
  <2>3. ReadTells(log, r, p, previous, to, from)
    BY <2>2, ReadIsTold
  <2>. QED  BY <2>1, <2>3
<1>8. previous # NoBuffer => p[previous].data # <<>>
  BY <1>2, <1>4 DEF Chained
<1>9. pc[t] # "read local" => c.from[1] # NodeOf[t]
  BY DEF PortalsFit, CallsFit, CallFits, RemoteReads
<1>. QED  BY <1>1, <1>7, <1>8, <1>9

\* A reader that takes nothing out by its call is none that fills or writes.
LEMMA TakesData ==
    ASSUME NEW L, NEW x \in {"read local", "read end", "again", "exit"}, NEW d, ~d.buffering, NEW n, NEW q,
           HasGot(L, x, d, n, q)
    PROVE  DataFits(L, x, d, n, q)
<1>1. WritesOut(x, d, n, q)
  BY DEF WritesOut
<1>2. Keeps(L, x, d, q)
  BY DEF Keeps, Filling
<1>. QED  BY <1>1, <1>2 DEF DataFits, ReadsIn, HasGot

LEMMA DataTake ==
    ASSUME PortalsFit, Buffers, Data, NEW t \in Thread, Moves(t), LocalStep(t) \/ ReadStep(t) \/ WriteStep(t),
           AllArrive', log' = log,
           pc[t] \in {"read local", "again", "locked"}, ~call[t].buffering,
           NEW r, Gets(r, t), NEW x \in {"read local", "read end", "again", "exit"}, TakeAvailable(t, r, x),
           pc[t] = "read local" => x \in {"read local", "read end"},
           x = "read local" => pc[t] = "read local" /\ r.copied # <<>> /\ ~r.error /\ r.left # 0
    PROVE  Data'
<1>0. /\ pc \in [Thread -> PCs] /\ call = [u \in Thread |-> call[u]] /\ BufferFits(pc[t], call[t]) /\ IsCall(call[t])
      /\ NodeOf[t] \in Node /\ pool = [n \in Node |-> pool[n]]
  BY Consts DEF PortalsFit, CallsFit, CallFits, Buffers, PoolFits
<1>1. pc' = [pc EXCEPT ![t] = x]
  BY Zenon DEF TakeAvailable, Goto
<1>2. PICK c, n, p, previous, l : c = call[t] /\ n = NodeOf[t] /\ p = pool[n] /\ previous = c.buf /\ l = pc[t]
  OBVIOUS
<1>3. /\ l \in Reading /\ c.from \in Peer /\ c.port \in Port /\ c.left \in Nat /\ c.size \in Nat
      /\ previous \in Buffer \cup {NoBuffer} /\ Sane(p) /\ Contents(log, n, p)
  <2>1. Sane(p)
    BY <1>2, BufferOf
  <2>2. Contents(log, n, p)
    BY <1>0, <1>2 DEF Data
  <2>. QED  BY <1>2, <2>1, <2>2, BufferGot
<1>4. PICK R : ReadDoes(R, r, p, previous, c.port, c.from, c.left)
  BY <1>2, BufferGot DEF Got
<1>5. PICK q : q = r.pool
  OBVIOUS
<1>6. /\ q = [b \in Buffer |-> IF b \in R THEN Unused ELSE p[b]]
      /\ \A b \in Buffer \cap R : p[b].to = c.port /\ \A e \in Buffer : p[e].next = b => e \in R
      /\ r.copied \in Seq(Unit) /\ r.left \in Nat /\ r.left = c.left - Len(r.copied)
      /\ r.previous \in Buffer \cup {NoBuffer} /\ (r.previous # NoBuffer => r.previous \notin R)
  BY <1>4, <1>5 DEF ReadDoes, Of
<1>7. \A b \in Buffer : b \notin R => q[b] = p[b]
  BY <1>6
<1>8. r.previous # NoBuffer => q[r.previous] = p[r.previous]
  BY <1>6, <1>7
<1>9. \A b \in Buffer : First(p, b) => First(q, b)
  <2>1. Emptied(q, p, R)
    BY <1>3, <1>6, ReadKeeps
  <2>. QED  BY <2>1 DEF Emptied
<1>10. PICK g, f : call' = [call EXCEPT ![t].got = g, ![t].left = r.left, ![t].buf = r.previous, ![t].ret = f]
                   /\ g = call[t].got \o r.copied
  BY Zenon DEF TakeAvailable
<1>11. PICK d : d = [c EXCEPT !.got = g, !.left = r.left, !.buf = r.previous, !.ret = f]
  OBVIOUS
<1>12. call' = [call EXCEPT ![t] = d]
  BY <1>2, <1>10, <1>11
<1>13. pc'[t] = x /\ call'[t] = d
  BY <1>0, <1>1, <1>12
<1>14. Alike(c, d) /\ d.buffering = c.buffering /\ d.left = r.left /\ d.buf = r.previous /\ d.got = g
  BY <1>0, <1>2, <1>11 DEF IsCall, Alike
<1>15. pool' = [pool EXCEPT ![NodeOf[t]] = q]
  BY <1>5, Zenon DEF TakeAvailable
<1>16. Spares(t, q)
  <2>1. ASSUME NEW u \in Thread \ {t}, NodeOf[u] = n
        PROVE  /\ Fills(u) \/ Takes(u) => q[call[u].buf] = p[call[u].buf]
               /\ Takes(u) => First(q, call[u].buf)
    <3>1. PICK b : b = call[u].buf
      OBVIOUS
    <3>2. /\ Fills(u) => b \in Buffer /\ p[b].busy
          /\ Takes(u) => b \in Buffer /\ First(p, b) /\ pc[u] \in Reading /\ p[b].to = call[u].port
      BY <1>2, <2>1, <3>1, BufferOf
    <3>3. Takes(u) => call[u].port # c.port
      BY <1>2, <1>3, <2>1, <3>2 DEF Buffers, PortsDiffer
    <3>4. \A e \in Buffer \cap R : ~p[e].busy
      BY <1>4 DEF ReadDoes, Of
    <3>5. Fills(u) \/ Takes(u) => b \notin R
      BY <1>6, <3>2, <3>3, <3>4
    <3>. QED  BY <1>7, <1>9, <3>1, <3>2, <3>5
  <2>. QED  BY <1>2, <2>1 DEF Spares
<1>17. NewData(t, q, log')
  <2>1. \A b \in Buffer : q[b].data = p[b].data \/ q[b].data = <<>>
    BY <1>6 DEF Unused
  <2>. QED  BY <1>2, <2>1 DEF NewData
<1>18. Contents(log', n, q)
  <2>1. \A b \in Buffer \cap R, e \in Buffer : p[e].next = b => e \in R
    BY <1>6
  <2>2. Contents(log, n, q)
    BY <1>3, <1>6, <2>1, ContentsLeft
  <2>. QED  BY <2>2
<1>19. Taken(l, c, r, x, d, p, q)
  BY <1>2, <1>6, <1>8, <1>10, <1>14 DEF Taken
<1>20. HasGot(log, l, c, n, p)
  <2>1. ReadsIn(log, l, c, n, p)
    BY <1>2 DEF Data, DataFits
  <2>. QED  BY <1>3, <2>1 DEF ReadsIn, HasGot
<1>21. /\ ReadTells(log, r, p, c.buf, c.port, c.from)
       /\ c.buf # NoBuffer => p[c.buf].data # <<>>
       /\ l # "read local" => c.from[1] # n
  BY <1>2, TakerTold
<1>22. HasGot(log, x, d, n, q)
  <2>1. l = "read local" => x \in {"read local", "read end"}
    BY <1>2
  <2>2. c.buf \in Buffer \cup {NoBuffer}
    BY <1>2, <1>3
  <2>. QED  BY <1>3, <1>19, <1>20, <1>21, <2>1, <2>2, GotData
<1>23. DataFits(log', pc'[t], call'[t], NodeOf[t], q)
  <2>1. ~d.buffering
    BY <1>2, <1>14
  <2>2. DataFits(log, x, d, n, q)
    BY <1>22, <2>1, TakesData
  <2>. QED  BY <1>2, <1>13, <2>2
<1>24. Grows(log, log')
  BY GrowsSelf
<1>. QED  BY <1>2, <1>15, <1>16, <1>17, <1>18, <1>23, <1>24, DataStep

LEMMA DataReads ==
    ASSUME PortalsFit, Buffers, Data, NEW t \in Thread, Moves(t), AllArrive', log' = log,
           ReadLocal(t) \/ ReadBuffered(t) \/ LockedRead(t)
    PROVE  Data'
<1>0. BufferFits(pc[t], call[t]) /\ pc[t] \in {"read local", "again", "locked"}
  BY DEF Buffers, ReadLocal, ReadBuffered, LockedRead
<1>1. ~call[t].buffering
  BY <1>0 DEF BufferFits, Keeping, ReadLocal, ReadBuffered, LockedRead
<1>2. LocalStep(t) \/ ReadStep(t) \/ WriteStep(t)
  BY DEF LocalStep, ReadStep
<1>3. PICK r : Gets(r, t)
  BY DEF Gets
<1>4. r = Available(t) /\ \A s : Gets(s, t) <=> s = r
  BY <1>3 DEF Gets
<1>5. CASE ReadLocal(t)
  <2>1. PICK x : x = IF r.error \/ r.left = 0 THEN "read end" ELSE "read local"
    OBVIOUS
  <2>2. TakeAvailable(t, r, x) /\ pc[t] = "read local" /\ (r.error \/ r.copied # <<>>)
    BY <1>4, <1>5, <2>1, Zenon DEF ReadLocal
  <2>3. x \in {"read local", "read end"} /\ (x = "read local" => r.copied # <<>> /\ ~r.error /\ r.left # 0)
    BY <2>1, <2>2
  <2>. QED  BY <1>0, <1>1, <1>2, <1>3, <2>2, <2>3, DataTake
<1>6. ASSUME pc' = [pc EXCEPT ![t] = "lock"] \/ pc' = [pc EXCEPT ![t] = "check"],
             UNCHANGED <<bufferVars, call, historyVars>>, ReadStep(t)
      PROVE  Data'
  <2>1. UNCHANGED <<call, pool>>
    BY <1>6 DEF bufferVars
  <2>. QED  BY <1>6, <2>1, IdleData
<1>7. CASE ReadBuffered(t)
  <2>1. CASE TakeAvailable(t, r, IF r.error \/ r.left = 0 THEN "exit" ELSE "again")
    <3>1. PICK x : x = IF r.error \/ r.left = 0 THEN "exit" ELSE "again"
      OBVIOUS
    <3>2. TakeAvailable(t, r, x)
      BY <2>1, <3>1, Zenon
    <3>3. x \in {"again", "exit"} /\ pc[t] = "again"
      BY <1>7, <3>1 DEF ReadBuffered
    <3>. QED  BY <1>0, <1>1, <1>2, <1>3, <3>2, <3>3, DataTake
  <2>2. CASE /\ ~r.error /\ r.copied = <<>> /\ r.previous = NoBuffer
             /\ Goto(t, "lock")
             /\ UNCHANGED <<bufferVars, call, historyVars>>
    BY <1>6, <1>7, <2>2 DEF Goto, ReadStep
  <2>. QED  BY <1>4, <1>7, <2>1, <2>2, Zenon DEF ReadBuffered
<1>8. CASE LockedRead(t)
  <2>1. CASE TakeAvailable(t, r, "exit")
    <3>1. pc[t] = "locked"
      BY <1>8 DEF LockedRead
    <3>. QED  BY <1>0, <1>1, <1>2, <1>3, <2>1, <3>1, DataTake
  <2>2. CASE /\ ~r.error /\ r.copied = <<>>
             /\ Goto(t, "check")
             /\ UNCHANGED <<bufferVars, call, historyVars>>
    BY <1>6, <1>8, <2>2 DEF Goto, ReadStep
  <2>. QED  BY <1>4, <1>8, <2>1, <2>2, Zenon DEF LockedRead
<1>. QED  BY <1>5, <1>7, <1>8

-----------------------------------------------------------------------------
(* The invariant and what it is for.                                       *)

LEMMA DataStutter == ASSUME Data, UNCHANGED vars PROVE Data'
<1>1. UNCHANGED <<pc, call, pool, log, channel>>
  BY DEF vars, tableVars, historyVars, bufferVars, mailboxVars
<1>. QED  BY <1>1 DEF Data, AllLogged, AllArrive, Written1st

LEMMA DataNext == Base /\ Base' /\ Buffers /\ Data /\ [Next]_vars => Data'
<1>. SUFFICES ASSUME Base, Base', Buffers, Data, [Next]_vars PROVE Data'
  OBVIOUS
<1>0. PortalsFit /\ log' \in Seq(Entry) /\ AllLogged /\ AllArrive
  BY DEF Base, PortalsFit, TablesFit, Data
<1>1. CASE \E t \in scene.who : (Client(t) \/ Step(t)) /\ UNCHANGED scene
  <2>1. PICK t \in scene.who : (Client(t) \/ Step(t)) /\ UNCHANGED scene
    BY <1>1
  <2>2. t \in Thread
    BY <1>0, SceneAssumption DEF PortalsFit, TablesFit
  <2>3. Moves(t)
    BY <1>0, <2>1, <2>2, StepFits
  <2>4. TableStep(t) \/ LocalStep(t) \/ ReadStep(t) \/ WriteStep(t)
    BY <1>0, <2>1, <2>2, Groups
  <2>5. Grows(log, log') /\ (LocalStep(t) \/ ReadStep(t) \/ WriteStep(t) => log' = log)
    BY <1>0, <2>2, <2>4, LogGrows
  <2>6. AllArrive'
    BY <1>0, <2>2, <2>4, <2>5, AllArrives
  <2>7. CASE TableStep(t)
    BY <1>0, <2>2, <2>3, <2>5, <2>6, <2>7, TableData
  <2>8. CASE WriteStep(t)
    BY <1>0, <2>2, <2>3, <2>5, <2>6, <2>8, WriterData
  <2>9. CASE LocalStep(t)
    <3>1. log' = log
      BY <2>5, <2>9
    <3>2. CASE WriteLocal(t)
      BY <1>0, <2>2, <2>3, <2>6, <3>1, <3>2, WriteData
    <3>3. CASE WriteLocalYield(t)
      BY <1>0, <2>2, <2>3, <2>6, <3>1, <3>3, IdleData
    <3>4. CASE Publish(t)
      BY <1>0, <2>2, <2>3, <2>6, <3>1, <3>4, PublishData
    <3>5. CASE ReadLocal(t)
      BY <1>0, <2>2, <2>3, <2>6, <3>1, <3>5, DataReads
    <3>. QED  BY <2>9, <3>2, <3>3, <3>4, <3>5 DEF LocalStep
  <2>10. CASE ReadStep(t)
    <3>1. log' = log
      BY <2>5, <2>10
    <3>2. CASE Again(t) \/ ReadHeader(t) \/ Validate(t) \/ ReadError(t) \/ (FinishRead(t) /\ ~call[t].buffering)
      BY <1>0, <2>2, <2>3, <2>6, <3>1, <3>2, BareData
    <3>3. CASE LockRead(t) \/ CheckChannel(t) \/ SetChannel(t) \/ SendAllow(t) \/ Relock(t) \/ Drop(t)
                 \/ ReleaseChannel(t) \/ Exit(t)
      BY <1>0, <2>2, <2>3, <2>6, <3>1, <3>3, PassingData
    <3>4. CASE ReadPiece(t)
      BY <1>0, <2>2, <2>3, <2>6, <3>1, <3>4, PieceData
    <3>5. CASE KeepPiece(t)
      BY <1>0, <2>2, <2>3, <2>6, <3>1, <3>5, KeepData
    <3>6. CASE AllocFirst(t) \/ AllocNext(t)
      BY <1>0, <2>2, <2>3, <2>6, <3>1, <3>6, AllocsData
    <3>7. CASE FinishRead(t) /\ call[t].buffering
      BY <1>0, <2>2, <2>3, <2>6, <3>1, <3>7, FinishData
    <3>8. CASE ReadBuffered(t) \/ LockedRead(t)
      BY <1>0, <2>2, <2>3, <2>6, <3>1, <3>8, DataReads
    <3>. QED  BY <2>10, <3>2, <3>3, <3>4, <3>5, <3>6, <3>7, <3>8, Zenon DEF ReadStep
  <2>. QED  BY <2>4, <2>7, <2>8, <2>9, <2>10
<1>2. CASE UNCHANGED vars
  BY <1>2, DataStutter
<1>. QED  BY <1>1, <1>2 DEF Next

LEMMA DataInit == Init => Data
<1>. SUFFICES ASSUME Init PROVE Data
  OBVIOUS
<1>1. /\ pc = [t \in Thread |-> "idle"] /\ call = [t \in Thread |-> NoCall]
      /\ pool = [n \in Node |-> [b \in Buffer |-> Unused]] /\ log = <<>>
      /\ channel = [n \in Node |-> [m \in Node |-> <<>>]]
  BY DEF Init
<1>2. AllLogged
  BY <1>1 DEF AllLogged, Logged, Written1st, Writing, RemoteWrites
<1>3. AllArrive
  BY <1>1 DEF AllArrive, Arrives
<1>4. ASSUME NEW n \in Node PROVE Contents(log, n, pool[n])
  <2>1. \A b \in Buffer : pool[n][b].data = <<>> /\ pool[n][b].next = NoBuffer
    BY <1>1 DEF Unused
  <2>. QED  BY <2>1 DEF Contents, Part, HasLocal
<1>5. ASSUME NEW t \in Thread PROVE DataFits(log, pc[t], call[t], NodeOf[t], pool[NodeOf[t]])
  BY <1>1, NoData
<1>. QED  BY <1>2, <1>3, <1>4, <1>5 DEF Data

LEMMA DataHolds == Spec => [](Base /\ Buffers /\ Data)
<1>1. Init => Base /\ Buffers /\ Data
  BY BaseInit, BuffersInit, DataInit
<1>2. Base /\ Buffers /\ Data /\ [Next]_vars => Base' /\ Buffers' /\ Data'
  BY BaseNext, BuffersNext, DataNext
<1>. QED  BY <1>1, <1>2, PTL DEF Spec

LEMMA WholeIs ==
    ASSUME NEW g \in Seq(Unit), NEW m, IsPart(g, m, 0)
    PROVE  g = [i \in 1 .. Len(g) |-> <<m, i>>]
<1>1. g = [i \in 1 .. Len(g) |-> g[i]]
  OBVIOUS
<1>2. \A i \in 1 .. Len(g) : g[i] = <<m, i>>
  BY DEF IsPart
<1>. QED  BY <1>1, <1>2

\* A reader has got nothing of a message between threads of one node but its
\* beginning, from the peer that it allowed, to the port that it reads, and no more
\* than it has room for: ReadsOneMessage for the messages of do_kportal_local_awrite,
\* whatever else is read and kept of other nodes at the same time.
LocalReads ==
    \A t \in Thread : pc[t] \in Reading /\ call[t].got # <<>> =>
        LET c == call[t]
            m == c.got[1][1] IN
        /\ m \in DOMAIN log
        /\ log[m].from[1] = log[m].to[1] =>
             /\ log[m].from = c.from /\ log[m].to = <<NodeOf[t], c.port>>
             /\ c.got = [i \in 1 .. Len(c.got) |-> <<m, i>>]
             /\ Len(c.got) <= c.size

\* What the reader of a port gets of a message that a thread of its own node has
\* written is that message and no other, from its first unit on (LocalReads).
THEOREM PortalLocalReads == Spec => []LocalReads
<1>1. Data => LocalReads
  <2>1. SUFFICES ASSUME Data, NEW t \in Thread, pc[t] \in Reading, call[t].got # <<>>,
                        NEW c, c = call[t], NEW m, m = Message(c.got)
                 PROVE  /\ m \in DOMAIN log
                        /\ log[m].from[1] = log[m].to[1] =>
                             /\ log[m].from = c.from /\ log[m].to = <<NodeOf[t], c.port>>
                             /\ c.got = [i \in 1 .. Len(c.got) |-> <<m, i>>]
                             /\ Len(c.got) <= c.size
    BY DEF LocalReads, Message
  <2>2. c.got \in Seq(Unit) /\ Reads1st(log, pc[t], c, NodeOf[t])
    BY <2>1 DEF Data, DataFits, ReadsIn
  <2>3. /\ m \in DOMAIN log
        /\ log[m].from[1] = log[m].to[1] =>
             /\ log[m].from = c.from /\ log[m].to = <<NodeOf[t], c.port>>
             /\ IsPart(c.got, m, 0) /\ Len(c.got) <= c.size
    BY <2>1, <2>2 DEF Reads1st, IsLocal
  <2>. QED  BY <2>2, <2>3, WholeIs
<1>. QED  BY <1>1, DataHolds, PTL
=============================================================================
