---------------------------- MODULE MPortalProofs ----------------------------
(***************************************************************************)
(* Proofs about MPortal, for any nodes, threads, ports and instances, and  *)
(* whatever the number of faults and the capacity of buffers, tables and   *)
(* mailboxes.                                                              *)
(*                                                                         *)
(* Base: a call has what its place needs (CallFits), and every lock, busy  *)
(* channel and busy portal is held by a call that is where it releases it  *)
(* (Held).  The steps come in four groups, by what they leave alone        *)
(* (Frames).                                                               *)
(*                                                                         *)
(* Channelled: the protocol between the readers of a node and the writers  *)
(* of another one (Protocol), as long as the node is sound.  One reader at *)
(* most has the channel, and its place tells what is in there (Phase): a   *)
(* message is asked for, is on its way from its header to its last piece,  *)
(* or there is nothing, no permission and no writer that has one.          *)
(***************************************************************************)
EXTENDS MPortal, FiniteSetTheorems, WellFoundedInduction, TLAPS

\* The places of a reader and of a writer between nodes, and of any.
RemoteReads == Channels \cup {"again", "lock", "locked", "check", "set", "exit", "panic"}
Reading == RemoteReads \cup {"read local", "read end"}
RemoteWrites == {"wait allow", "read allow", "lock write", "send header", "send"}
Writing == RemoteWrites \cup {"write local", "publish", "write end"}

\* A call has its fields.
IsCall(c) ==
    c = [port |-> c.port, size |-> c.size, left |-> c.left, got |-> c.got, buf |-> c.buf,
         valid |-> c.valid, buffering |-> c.buffering, received |-> c.received,
         header |-> c.header, from |-> c.from, ret |-> c.ret, msg |-> c.msg]

\* What the call c of a thread of node n is at place l, k messages being written.
CallFits(l, c, n, k) ==
    /\ l \in PCs /\ IsCall(c)
    /\ l = "idle" => c = NoCall
    /\ l \in Reading => c.from \in Peer /\ c.port \in Port
    /\ l \in RemoteReads => c.from[1] # n
    /\ l \in {"more", "relock"} => c.header \in Piece
    /\ l \in Writing => c.from = None /\ c.port \in Peer /\ c.msg \in 1 .. k
    /\ l \in RemoteWrites => c.port[1] # n
    /\ l \in RemoteWrites \cup {"write local"} => c.size \in Nat /\ c.left \in 1 .. c.size

CallsFit ==
    /\ pc \in [Thread -> PCs] /\ call = [t \in Thread |-> call[t]]
    /\ \A t \in Thread : CallFits(pc[t], call[t], NodeOf[t], Len(log))

Entry == [from : Peer, to : Peer, size : Nat]

TablesFit ==
    /\ scene \in Scenes
    /\ created \in [Node -> SUBSET Port] /\ busyIn \in [Node -> SUBSET Port]
    /\ allowed \in [Node -> [Port -> Peer \cup {None}]]
    /\ output \in [Node -> [Peer -> Port \cup {None}]]
    /\ mports \in [Node -> SUBSET Peer] /\ busyOut \in [Node -> SUBSET Peer]
    /\ log \in Seq(Entry)

LocksFit ==
    /\ localLock \in [Node -> Thread \cup {NoThread}]
    /\ allowLock \in [Node -> Thread \cup {NoThread}]
    /\ readLock \in [Node -> [Node -> Thread \cup {NoThread}]]
    /\ writeLock \in [Node -> [Node -> Thread \cup {NoThread}]]
    /\ reading \in [Node -> SUBSET Node] /\ isAllowed \in [Node -> SUBSET Node]

MailFits ==
    /\ allows \in [Node -> Seq(Node)]
    /\ channel \in [Node -> [Node -> Seq(Header \cup Piece)]]

\* Where a thread is that has a lock.
Locking == {"locked", "check", "set", "allow", "header", "validate", "alloc", "piece",
            "drop", "finish", "release", "exit", "panic"}

SendPlaces == {"send header", "send"}

HeldBy(lock, n, places) == lock # NoThread => NodeOf[lock] = n /\ pc[lock] \in places

LocalHeld == \A n \in Node : HeldBy(localLock[n], n, {"write local", "publish"})
AllowHeld == \A n \in Node : HeldBy(allowLock[n], n, {"read allow"})
ReadHeld ==
    \A n, m \in Node : /\ HeldBy(readLock[n][m], n, Locking)
                       /\ readLock[n][m] # NoThread => Remote(readLock[n][m]) = m
WriteHeld ==
    \A n, m \in Node : /\ HeldBy(writeLock[n][m], n, SendPlaces)
                       /\ writeLock[n][m] # NoThread => Target(writeLock[n][m]) = m
ChannelHeld ==
    \A n \in Node : \A m \in reading[n] :
        \E t \in Thread : NodeOf[t] = n /\ pc[t] \in Channels \cup {"panic"} /\ Remote(t) = m
BusyHeld ==
    \A n \in Node :
        /\ \A p \in busyIn[n] : \E t \in Thread : NodeOf[t] = n /\ pc[t] \in Reading /\ call[t].port = p
        /\ \A q \in busyOut[n] : \E t \in Thread : NodeOf[t] = n /\ pc[t] \in Writing /\ call[t].port = q

Held == LocalHeld /\ AllowHeld /\ ReadHeld /\ WriteHeld /\ ChannelHeld /\ BusyHeld

PortalsFit == TablesFit /\ LocksFit /\ MailFits /\ CallsFit

-----------------------------------------------------------------------------
\* The readers of node n on the way to the channel from node m, with the lock, and
\* one that has it.
LockPlaces == {"locked", "check", "set", "allow", "header", "validate", "alloc", "piece",
               "drop", "finish", "release"}
Marked == Channels \cup {"locked", "check", "set"}
Placed(u, n, m) == NodeOf[u] = n /\ pc[u] \in Marked /\ Remote(u) = m
Holds(u, n, m) == NodeOf[u] = n /\ pc[u] \in Channels /\ Remote(u) = m

\* What a permission of node n for node m is: on its way, noted, taken by a writer.
Allows(n, m) == {i \in DOMAIN allows[m] : allows[m][i] = n}
Ready(n, m) == {u \in Thread : /\ NodeOf[u] = m /\ pc[u] \in {"lock write", "send header"}
                                /\ Target(u) = n}
Sending(n, m) == {u \in Thread : NodeOf[u] = m /\ pc[u] = "send" /\ Target(u) = n}
NoCredit(n, m) == Allows(n, m) = {} /\ n \notin isAllowed[m] /\ Ready(n, m) = {}
OneToken(n, m) ==
    /\ \A i, j \in Allows(n, m) : i = j
    /\ \A u, v \in Ready(n, m) \cup Sending(n, m) : u = v
    /\ n \in isAllowed[m] => Allows(n, m) = {}
    /\ Ready(n, m) \cup Sending(n, m) # {} => Allows(n, m) = {} /\ n \notin isAllowed[m]

\* What is left of a message in q, when s are at sending it.
Rest(q, s) ==
    /\ \A i \in 1 .. Len(q) : ~IsHeader(q[i]) /\ (q[i].eof => i = Len(q))
    /\ s = {} <=> q # <<>> /\ q[Len(q)].eof

Quiet(n, m) == NoCredit(n, m) /\ Sending(n, m) = {} /\ channel[n][m] = <<>>
Awaited(n, m) == Sending(n, m) = {} /\ channel[n][m] = <<>>
Started(n, m) ==
    /\ NoCredit(n, m) /\ channel[n][m] # <<>> /\ IsHeader(channel[n][m][1])
    /\ Rest(Tail(channel[n][m]), Sending(n, m))
Stream(n, m) == NoCredit(n, m) /\ Rest(channel[n][m], Sending(n, m))

\* What a reader at place l, which has kept the piece h, finds in the channel.
Phase(l, h, n, m) ==
    /\ l = "header" => Awaited(n, m) \/ Started(n, m)
    /\ l \in {"validate", "alloc", "piece"} => Stream(n, m)
    /\ l \in {"more", "relock"} => IF h.eof THEN Quiet(n, m) ELSE Stream(n, m)
    /\ l = "drop" => Stream(n, m) \/ Quiet(n, m)
    /\ l \in {"allow", "finish", "release"} => Quiet(n, m)

Locked(u, n, m) ==
    /\ pc[u] \in LockPlaces => readLock[n][m] = u
    /\ pc[u] = "set" => m \notin reading[n]
    /\ pc[u] \in Channels => m \in reading[n]

Protocol(n, m) ==
    /\ \A u \in Thread : Placed(u, n, m) => Locked(u, n, m)
    /\ \A u, v \in Thread : Holds(u, n, m) /\ Holds(v, n, m) => u = v
    /\ OneToken(n, m)
    /\ (\A u \in Thread : ~Holds(u, n, m)) => Quiet(n, m)
    /\ \A u \in Thread : Holds(u, n, m) => Phase(pc[u], call[u].header, n, m)

Protocols == \A n \in Node : Sound(n) => \A m \in Node \ {n} : Protocol(n, m)
NoPanic == \A t \in Thread : pc[t] = "panic" => ~Sound(NodeOf[t])
OthersIdle == \A t \in Thread \ scene.who : pc[t] = "idle"

-----------------------------------------------------------------------------
LEMMA LeastIsIn ==
    ASSUME NEW S \in SUBSET Nat, S # {}
    PROVE  \E x \in S : \A y \in S : x =< y
<1>. DEFINE upTo(x) == {y \in S : y <= x}
            T == {upTo(x) : x \in S}
<1>1. \A x \in S : x \in Nat /\ upTo(x) \in SUBSET Nat /\ x \in upTo(x)
  <2>1. TAKE x \in S
  <2>2. x \in Nat /\ x <= x
    OBVIOUS
  <2>3. upTo(x) \in SUBSET Nat
    OBVIOUS
  <2>4. x \in upTo(x)
    BY <2>2, Zenon
  <2>. QED  BY <2>2, <2>3, <2>4
<1>2. \A x \in S : IsFiniteSet(upTo(x))
  <2>1. TAKE x \in S
  <2>2. x \in Nat /\ upTo(x) \in SUBSET Nat /\ \A y \in upTo(x) : y <= x
    OBVIOUS
  <2>. HIDE DEF upTo
  <2>. QED  BY <2>2, FS_BoundedSetOfNaturals
<1>3. T \subseteq FiniteSubsetsOf(Nat) /\ T # {}
  <2>. HIDE DEF upTo
  <2>. QED  BY <1>1, <1>2 DEF FiniteSubsetsOf
<1>4. PICK least \in T : \A u \in T : ~(<<u, least>> \in StrictSubsetOrdering(Nat))
  <2>. HIDE DEF T
  <2>. QED  BY <1>3, FS_StrictSubsetOrderingWellFounded, WFMin, Zenon
<1>5. PICK x \in S : least = upTo(x)
  OBVIOUS
<1>6. \A y \in S : x =< y
  <2>1. SUFFICES ASSUME NEW y \in S, y < x PROVE FALSE
    OBVIOUS
  <2>2. x \notin upTo(y) /\ upTo(y) \subseteq upTo(x)
    <3>1. x \in Nat /\ y \in Nat /\ ~(x <= y)
      BY <2>1
    <3>2. \A z \in S : z <= y => z <= x
      BY <2>1
    <3>. QED  BY <3>1, <3>2, Zenon
  <2>3. upTo(y) \in T
    OBVIOUS
  <2>4. <<upTo(y), upTo(x)>> \in StrictSubsetOrdering(Nat)
    <3>. HIDE DEF upTo
    <3>. QED  BY <1>1, <2>2 DEF StrictSubsetOrdering
  <2>. QED  BY <2>3, <2>4, <1>4, <1>5
<1>. QED  BY <1>6

LEMMA MinIsIn ==
    ASSUME NEW S \in SUBSET Nat, S # {}
    PROVE  Min(S) \in S
BY LeastIsIn DEF Min

-----------------------------------------------------------------------------
LEMMA Consts ==
    /\ NodeOf \in [Thread -> Node] /\ NoThread \notin Thread
    /\ Port \subseteq Nat /\ None \notin Port /\ None \notin Peer
    /\ Inputs \in [Thread -> SUBSET (Port \X Peer)]
    /\ Outputs \in [Thread -> SUBSET (Peer \X Port)]
BY ThreadAssumption, BoundAssumption

LEMMA AppendFits ==
    ASSUME NEW S, NEW q \in Seq(S), NEW e \in S
    PROVE  /\ Append(q, e) \in Seq(S) /\ Len(Append(q, e)) = Len(q) + 1 /\ Len(q) \in Nat
           /\ \A i \in 1 .. Len(q) : Append(q, e)[i] = q[i]
           /\ Append(q, e)[Len(q) + 1] = e
OBVIOUS

LEMMA PeerIs ==
    ASSUME NEW q \in Peer
    PROVE  q[1] \in Node /\ q[2] \in Port /\ q # None
BY ThreadAssumption DEF Peer

\* The parts of a call that stay as long as it lasts.
Alike(c, d) == d.port = c.port /\ d.from = c.from /\ d.msg = c.msg /\ d.size = c.size

\* What a step of t does to its place and its call.
Moves(t) ==
    /\ pc' = [pc EXCEPT ![t] = pc'[t]] /\ call' = [call EXCEPT ![t] = call'[t]]
    /\ Len(log') >= Len(log)
    /\ CallFits(pc'[t], call'[t], NodeOf[t], Len(log'))
    /\ pc[t] # "idle" /\ pc'[t] # "idle" => Alike(call[t], call'[t])

\* A step that does not touch the call, to a place like the one before.
LEMMA Passes ==
    ASSUME CallsFit, log \in Seq(Entry), NEW t \in Thread, NEW l, pc' = [pc EXCEPT ![t] = l], UNCHANGED call, UNCHANGED log,
           CallFits(l, call[t], NodeOf[t], Len(log))
    PROVE  Moves(t)
BY DEF CallsFit, Moves, Alike

LEMMA TableCalls ==
    ASSUME PortalsFit, NEW t \in Thread, NEW p, NEW q, NEW m,
           Create(t, p) \/ Allow(t, p, q) \/ Unlink(t, p) \/ Open(t, m, p) \/ Close(t, q)
    PROVE  Moves(t)
<1>1. UNCHANGED <<pc, call, log>>
  BY DEF Create, Allow, Unlink, Open, Close, historyVars
<1>. QED  BY <1>1 DEF PortalsFit, CallsFit, Moves, Alike, TablesFit

LEMMA ReadBegins ==
    ASSUME PortalsFit, NEW t \in Thread, NEW p \in Port, NEW s \in Nat, ReadBegin(t, p, s)
    PROVE  Moves(t)
<1>1. PICK n, f : n = NodeOf[t] /\ f = allowed[n][p]
  OBVIOUS
<1>2. n \in Node /\ f \in Peer /\ None \notin Peer
  <2>1. n \in Node /\ None \notin Peer
    BY <1>1, Consts
  <2>2. allowed[n][p] \in Peer \cup {None}
    BY <2>1 DEF PortalsFit, TablesFit
  <2>3. f # None
    BY <1>1 DEF ReadBegin
  <2>. QED  BY <1>1, <2>1, <2>2, <2>3
<1>3. PICK c : c = [NoCall EXCEPT !.port = p, !.size = s, !.left = s, !.from = f]
  OBVIOUS
<1>4. c.port = p /\ c.from = f /\ c.size = s /\ IsCall(c)
  BY <1>3 DEF NoCall, IsCall
<1>5. /\ pc[t] = "idle" /\ UNCHANGED log
      /\ pc' = [pc EXCEPT ![t] = IF f[1] = n THEN "read local" ELSE "again"]
      /\ call' = [call EXCEPT ![t] = c]
  BY <1>1, <1>3 DEF ReadBegin, Goto, historyVars
<1>6. CallFits(IF f[1] = n THEN "read local" ELSE "again", c, n, Len(log))
  <2>1. CallFits("read local", c, n, Len(log))
    BY <1>2, <1>4 DEF CallFits, Reading, RemoteReads, Writing, RemoteWrites, Channels, PCs
  <2>2. f[1] # n => CallFits("again", c, n, Len(log))
    BY <1>2, <1>4 DEF CallFits, Reading, RemoteReads, Writing, RemoteWrites, Channels, PCs
  <2>. QED  BY <2>1, <2>2
<1>7. Len(log) \in Nat
  BY DEF PortalsFit, TablesFit
<1>8. pc \in [Thread -> PCs] /\ call = [u \in Thread |-> call[u]]
  BY DEF PortalsFit, CallsFit
<1>9. Len(log') >= Len(log) /\ Len(log') = Len(log)
  <2>1. log' = log
    BY <1>5
  <2>. QED  BY <1>7, <2>1
<1>10. pc' = [pc EXCEPT ![t] = pc'[t]] /\ pc'[t] = (IF f[1] = n THEN "read local" ELSE "again")
  BY <1>5, <1>8
<1>11. call' = [call EXCEPT ![t] = call'[t]] /\ call'[t] = c
  BY <1>5, <1>8
<1>. QED  BY <1>1, <1>5, <1>6, <1>9, <1>10, <1>11 DEF Moves

LEMMA WriteBegins ==
    ASSUME PortalsFit, NEW t \in Thread, NEW q \in Peer, NEW s \in Nat \ {0}, WriteBegin(t, q, s)
    PROVE  Moves(t) /\ log' \in Seq(Entry)
<1>1. PICK n, p : n = NodeOf[t] /\ p = output[n][q]
  OBVIOUS
<1>2. n \in Node /\ p \in Port /\ None \notin Peer /\ q[1] \in Node /\ q[2] \in Port
  <2>1. n \in Node /\ None \notin Peer
    BY <1>1, Consts
  <2>2. output[n][q] \in Port \cup {None}
    BY <2>1 DEF PortalsFit, TablesFit
  <2>3. p # None
    BY <1>1 DEF WriteBegin
  <2>. QED  BY <1>1, <2>1, <2>2, <2>3, PeerIs
<1>3. PICK c, k : c = [NoCall EXCEPT !.port = q, !.size = s, !.left = s, !.msg = k] /\ k = Len(log) + 1
  OBVIOUS
<1>4. c.port = q /\ c.from = None /\ c.size = s /\ c.left = s /\ c.msg = k /\ IsCall(c)
  BY <1>3 DEF NoCall, IsCall
<1>5. PICK e : e = [from |-> <<n, q[2]>>, to |-> <<q[1], p>>, size |-> s]
  OBVIOUS
<1>6. e \in Entry
  BY <1>2, <1>5 DEF Entry, Peer
<1>7. /\ pc[t] = "idle" /\ log' = Append(log, e)
      /\ pc' = [pc EXCEPT ![t] = IF q[1] = n THEN "write local" ELSE "wait allow"]
      /\ call' = [call EXCEPT ![t] = c]
  BY <1>1, <1>3, <1>5 DEF WriteBegin, Goto
<1>8. log' \in Seq(Entry) /\ Len(log') = Len(log) + 1 /\ Len(log) \in Nat
  <2>1. log \in Seq(Entry)
    BY DEF PortalsFit, TablesFit
  <2>. QED  BY <1>6, <1>7, <2>1, AppendFits, Zenon
<1>9. CallFits(IF q[1] = n THEN "write local" ELSE "wait allow", c, n, Len(log'))
  <2>1. c.msg \in 1 .. Len(log') /\ c.left \in 1 .. c.size /\ c.size \in Nat
    BY <1>3, <1>4, <1>8
  <2>2. CallFits("write local", c, n, Len(log'))
    BY <1>4, <2>1 DEF CallFits, Reading, RemoteReads, Writing, RemoteWrites, Channels, PCs
  <2>3. q[1] # n => CallFits("wait allow", c, n, Len(log'))
    BY <1>4, <2>1 DEF CallFits, Reading, RemoteReads, Writing, RemoteWrites, Channels, PCs
  <2>. QED  BY <2>2, <2>3
<1>10. Len(log') >= Len(log)
  BY <1>8
<1>. QED  BY <1>1, <1>7, <1>8, <1>9, <1>10 DEF PortalsFit, CallsFit, Moves

LEMMA Ends ==
    ASSUME PortalsFit, NEW t \in Thread, ReadEnd(t) \/ WriteEnd(t)
    PROVE  Moves(t) /\ pc'[t] = "idle"
<1>1. /\ pc' = [pc EXCEPT ![t] = "idle"] /\ call' = [call EXCEPT ![t] = NoCall] /\ UNCHANGED log
  BY DEF ReadEnd, WriteEnd, Goto, historyVars
<1>2. CallFits("idle", NoCall, NodeOf[t], Len(log))
  BY DEF CallFits, NoCall, IsCall, Reading, RemoteReads, Writing, RemoteWrites, Channels, PCs
<1>. QED  BY <1>1, <1>2 DEF PortalsFit, TablesFit, CallsFit, Moves

\* The steps that leave the calls alone.
Passing(t) ==
    LockRead(t) \/ CheckChannel(t) \/ SetChannel(t) \/ SendAllow(t) \/ Relock(t) \/ Drop(t)
    \/ ReleaseChannel(t) \/ Exit(t) \/ TakeAllow(t) \/ LockAllow(t) \/ ReceiveAllow(t) \/ AllowError(t)
    \/ LockWrite(t) \/ SendHeader(t) \/ WriteError(t) \/ Publish(t) \/ WriteLocalYield(t)

LEMMA PassingMoves ==
    ASSUME PortalsFit, NEW t \in Thread, Passing(t)
    PROVE  Moves(t)
<1>1. PICK l : l = pc[t]
  OBVIOUS
<1>2. CallFits(l, call[t], NodeOf[t], Len(log)) /\ Len(log) \in Nat
  BY <1>1 DEF PortalsFit, CallsFit, TablesFit
<1>3. UNCHANGED <<call, log>>
  BY DEF Passing, LockRead, CheckChannel, SetChannel, SendAllow, Relock, Drop,
    ReleaseChannel, Exit, TakeAllow, LockAllow, ReceiveAllow, AllowError,
    LockWrite, SendHeader, WriteError, Publish, WriteLocalYield, historyVars
<1>4. \E x : pc' = [pc EXCEPT ![t] = x] /\ CallFits(x, call[t], NodeOf[t], Len(log))
  <2>1. CASE LockRead(t) \/ CheckChannel(t) \/ SetChannel(t) \/ SendAllow(t)
    <3>1. \E x \in {"lock", "locked", "set", "allow", "header"} : pc' = [pc EXCEPT ![t] = x]
      BY <2>1 DEF LockRead, CheckChannel, SetChannel, SendAllow, Goto
    <3>2. l \in {"lock", "check", "set", "allow"}
      BY <1>1, <2>1 DEF LockRead, CheckChannel, SetChannel, SendAllow
    <3>. QED  BY <1>2, <3>1, <3>2 DEF CallFits, Reading, RemoteReads, Writing, RemoteWrites, Channels, PCs
  <2>2. CASE Relock(t) \/ Drop(t) \/ ReleaseChannel(t) \/ Exit(t)
    <3>1. \E x \in {"finish", "piece", "release", "drop", "exit", "again", "read end"} : pc' = [pc EXCEPT ![t] = x]
      BY <2>2 DEF Relock, Drop, ReleaseChannel, Exit, AfterPiece, Goto
    <3>2. l \in {"relock", "drop", "release", "exit"}
      BY <1>1, <2>2 DEF Relock, Drop, ReleaseChannel, Exit
    <3>. QED  BY <1>2, <3>1, <3>2 DEF CallFits, Reading, RemoteReads, Writing, RemoteWrites, Channels, PCs
  <2>3. CASE TakeAllow(t) \/ LockAllow(t) \/ ReceiveAllow(t) \/ AllowError(t) \/ LockWrite(t) \/ SendHeader(t) \/ WriteError(t)
    <3>1. \E x \in RemoteWrites \cup {"write end"} : pc' = [pc EXCEPT ![t] = x]
      BY <2>3 DEF TakeAllow, LockAllow, ReceiveAllow, AllowError, LockWrite, SendHeader, WriteError, Goto, RemoteWrites
    <3>2. l \in RemoteWrites
      BY <1>1, <2>3 DEF TakeAllow, LockAllow, ReceiveAllow, AllowError, LockWrite, SendHeader, WriteError, RemoteWrites
    <3>. QED  BY <1>2, <3>1, <3>2 DEF CallFits, Reading, RemoteReads, Writing, RemoteWrites, Channels, PCs
  <2>4. CASE Publish(t) \/ WriteLocalYield(t)
    <3>1. \/ l = "publish" /\ pc' = [pc EXCEPT ![t] = "write end"]
          \/ l = "write local" /\ UNCHANGED pc
      BY <1>1, <2>4 DEF Publish, WriteLocalYield, Goto
    <3>2. UNCHANGED pc => pc' = [pc EXCEPT ![t] = l]
      BY <1>1 DEF PortalsFit, CallsFit
    <3>3. CallFits(l, call[t], NodeOf[t], Len(log)) /\ (l = "publish" => CallFits("write end", call[t], NodeOf[t], Len(log)))
      BY <1>2 DEF CallFits, Reading, RemoteReads, Writing, RemoteWrites, Channels, PCs
    <3>. QED  BY <3>1, <3>2, <3>3
  <2>. QED  BY <2>1, <2>2, <2>3, <2>4 DEF Passing
<1>. QED  BY <1>3, <1>4, Passes DEF PortalsFit, TablesFit

\* A step that changes the call, but not what stays.
LEMMA Edits ==
    ASSUME PortalsFit, NEW t \in Thread, NEW l, NEW c, UNCHANGED log,
           pc' = [pc EXCEPT ![t] = l], call' = [call EXCEPT ![t] = c],
           Alike(call[t], c), CallFits(l, c, NodeOf[t], Len(log))
    PROVE  Moves(t)
<1>1. Len(log) \in Nat
  BY DEF PortalsFit, TablesFit
<1>2. pc \in [Thread -> PCs] /\ call = [u \in Thread |-> call[u]]
  BY DEF PortalsFit, CallsFit
<1>. QED  BY <1>1, <1>2 DEF Moves

\* The kinds of messages in a data mailbox.
LEMMA Kinds ==
    ASSUME NEW m \in Header \cup Piece
    PROVE  /\ IsHeader(m) <=> m \in Header
           /\ ~IsHeader(m) <=> m \in Piece
BY DEF IsHeader, Header, Piece

LEMMA HeadFits ==
    ASSUME NEW S, NEW q \in Seq(S), q # <<>>
    PROVE  /\ Head(q) \in S /\ Tail(q) \in Seq(S) /\ Head(q) = q[1]
           /\ Len(q) \in Nat /\ Len(q) > 0 /\ Len(Tail(q)) = Len(q) - 1
           /\ \A i \in 1 .. Len(Tail(q)) : Tail(q)[i] = q[i + 1]
OBVIOUS

\* A reader goes on with other locals.
LEMMA Reader ==
    ASSUME NEW c, NEW d, NEW n, NEW k \in Nat, NEW l \in Reading, NEW x \in Reading,
           CallFits(l, c, n, k), Alike(c, d), IsCall(d),
           x \in RemoteReads => l \in RemoteReads,
           x \in {"more", "relock"} => d.header \in Piece
    PROVE  CallFits(x, d, n, k)
<1>1. x \in PCs /\ x # "idle" /\ x \notin Writing /\ x \notin RemoteWrites \cup {"write local"}
  BY DEF Reading, RemoteReads, Writing, RemoteWrites, Channels, PCs
<1>. QED  BY <1>1 DEF CallFits, Alike

ReaderStep(t) ==
    ReadLocal(t) \/ Again(t) \/ ReadBuffered(t) \/ LockedRead(t) \/ ReadHeader(t) \/ Validate(t)
    \/ AllocFirst(t) \/ ReadPiece(t) \/ KeepPiece(t) \/ AllocNext(t) \/ FinishRead(t) \/ ReadError(t)

LEMMA RemoteFits ==
    ASSUME PortalsFit, NEW t \in Thread, pc[t] \in RemoteReads
    PROVE  /\ NodeOf[t] \in Node /\ Remote(t) \in Node /\ Remote(t) # NodeOf[t]
           /\ Incoming(t) \in Seq(Header \cup Piece)
<1>1. call[t].from \in Peer /\ call[t].from[1] # NodeOf[t]
  BY DEF PortalsFit, CallsFit, CallFits, Reading
<1>. QED  BY <1>1, PeerIs, Consts DEF PortalsFit, MailFits, Remote, Incoming

ReaderGoes(t) ==
    \E x, d :
       /\ x \in Reading
       /\ pc' = [pc EXCEPT ![t] = x] /\ call' = [call EXCEPT ![t] = d]
       /\ pc[t] \in Reading /\ (x \in RemoteReads => pc[t] \in RemoteReads)
       /\ Alike(call[t], d) /\ IsCall(d)
       /\ x \in {"more", "relock"} => d.header \in Piece

LEMMA Goes ==
    ASSUME NEW t \in Thread, NEW x, NEW d, pc' = [pc EXCEPT ![t] = x], call' = [call EXCEPT ![t] = d],
           Alike(call[t], d), IsCall(d), pc[t] \in RemoteReads,
           x \in RemoteReads \cup {"read end"}, x \in {"more", "relock"} => d.header \in Piece
    PROVE  ReaderGoes(t)
BY DEF ReaderGoes, Reading

\* Each field of a call can be set.
LEMMA Sets ==
    ASSUME NEW c, IsCall(c), NEW a, NEW b, NEW e, NEW g
    PROVE  /\ LET d == [c EXCEPT !.got = g, !.left = a, !.buf = b, !.ret = e] IN
              Alike(c, d) /\ IsCall(d) /\ d.header = c.header
           /\ LET d == [c EXCEPT !.buf = a, !.valid = b, !.buffering = e, !.left = g] IN
              Alike(c, d) /\ IsCall(d) /\ d.header = c.header
           /\ LET d == [c EXCEPT !.valid = a, !.received = b, !.buffering = e, !.ret = g] IN
              Alike(c, d) /\ IsCall(d) /\ d.header = c.header
           /\ LET d == [c EXCEPT !.buf = a] IN Alike(c, d) /\ IsCall(d) /\ d.header = c.header
           /\ LET d == [c EXCEPT !.ret = a] IN Alike(c, d) /\ IsCall(d) /\ d.header = c.header
           /\ LET d == [c EXCEPT !.header = a] IN Alike(c, d) /\ IsCall(d) /\ d.header = a
           /\ LET d == [c EXCEPT !.got = a, !.received = b] IN
              Alike(c, d) /\ IsCall(d) /\ d.header = c.header
<1>1. PICK p, s, l, o, u, v, f, r, h, m, x, k :
        c = [port |-> p, size |-> s, left |-> l, got |-> o, buf |-> u, valid |-> v, buffering |-> f,
             received |-> r, header |-> h, from |-> m, ret |-> x, msg |-> k]
  BY Zenon DEF IsCall
<1>2. c.port = p /\ c.size = s /\ c.from = m /\ c.msg = k /\ c.header = h
  BY <1>1
<1>3. ASSUME NEW l1, NEW o1, NEW u1, NEW v1, NEW f1, NEW r1, NEW h1, NEW x1, NEW d,
             d = [port |-> p, size |-> s, left |-> l1, got |-> o1, buf |-> u1, valid |-> v1,
                  buffering |-> f1, received |-> r1, header |-> h1, from |-> m, ret |-> x1, msg |-> k]
      PROVE  Alike(c, d) /\ IsCall(d) /\ d.header = h1
  BY <1>2, <1>3 DEF IsCall, Alike
<1>4. LET d == [c EXCEPT !.got = g, !.left = a, !.buf = b, !.ret = e] IN Alike(c, d) /\ IsCall(d) /\ d.header = c.header
  <2>1. PICK c1 : c1 = [c EXCEPT !.got = g]
    OBVIOUS
  <2>2. c1 =
          [port |-> p, size |-> s, left |-> l, got |-> g, buf |-> u, valid |-> v, buffering |->
           f, received |-> r, header |-> h, from |-> m, ret |-> x, msg |-> k]
    BY <1>1, <2>1
  <2>3. PICK c3 : c3 = [c1 EXCEPT !.left = a]
    OBVIOUS
  <2>4. c3 =
          [port |-> p, size |-> s, left |-> a, got |-> g, buf |-> u, valid |-> v, buffering |->
           f, received |-> r, header |-> h, from |-> m, ret |-> x, msg |-> k]
    BY <2>2, <2>3
  <2>5. PICK c5 : c5 = [c3 EXCEPT !.buf = b]
    OBVIOUS
  <2>6. c5 =
          [port |-> p, size |-> s, left |-> a, got |-> g, buf |-> b, valid |-> v, buffering |->
           f, received |-> r, header |-> h, from |-> m, ret |-> x, msg |-> k]
    BY <2>4, <2>5
  <2>7. PICK c7 : c7 = [c5 EXCEPT !.ret = e]
    OBVIOUS
  <2>8. c7 =
          [port |-> p, size |-> s, left |-> a, got |-> g, buf |-> b, valid |-> v, buffering |->
           f, received |-> r, header |-> h, from |-> m, ret |-> e, msg |-> k]
    BY <2>6, <2>7
  <2>9. [c EXCEPT !.got = g, !.left = a, !.buf = b, !.ret = e] = c7
    BY <2>1, <2>3, <2>5, <2>7, Zenon
  <2>. QED  BY <1>2, <1>3, <2>8, <2>9
<1>5. LET d == [c EXCEPT !.buf = a, !.valid = b, !.buffering = e, !.left = g] IN Alike(c, d) /\ IsCall(d) /\ d.header = c.header
  <2>1. PICK c1 : c1 = [c EXCEPT !.buf = a]
    OBVIOUS
  <2>2. c1 =
          [port |-> p, size |-> s, left |-> l, got |-> o, buf |-> a, valid |-> v, buffering |->
           f, received |-> r, header |-> h, from |-> m, ret |-> x, msg |-> k]
    BY <1>1, <2>1
  <2>3. PICK c3 : c3 = [c1 EXCEPT !.valid = b]
    OBVIOUS
  <2>4. c3 =
          [port |-> p, size |-> s, left |-> l, got |-> o, buf |-> a, valid |-> b, buffering |->
           f, received |-> r, header |-> h, from |-> m, ret |-> x, msg |-> k]
    BY <2>2, <2>3
  <2>5. PICK c5 : c5 = [c3 EXCEPT !.buffering = e]
    OBVIOUS
  <2>6. c5 =
          [port |-> p, size |-> s, left |-> l, got |-> o, buf |-> a, valid |-> b, buffering |->
           e, received |-> r, header |-> h, from |-> m, ret |-> x, msg |-> k]
    BY <2>4, <2>5
  <2>7. PICK c7 : c7 = [c5 EXCEPT !.left = g]
    OBVIOUS
  <2>8. c7 =
          [port |-> p, size |-> s, left |-> g, got |-> o, buf |-> a, valid |-> b, buffering |->
           e, received |-> r, header |-> h, from |-> m, ret |-> x, msg |-> k]
    BY <2>6, <2>7
  <2>9. [c EXCEPT !.buf = a, !.valid = b, !.buffering = e, !.left = g] = c7
    BY <2>1, <2>3, <2>5, <2>7, Zenon
  <2>. QED  BY <1>2, <1>3, <2>8, <2>9
<1>6. LET d == [c EXCEPT !.valid = a, !.received = b, !.buffering = e, !.ret = g] IN Alike(c, d) /\ IsCall(d) /\ d.header = c.header
  <2>1. PICK c1 : c1 = [c EXCEPT !.valid = a]
    OBVIOUS
  <2>2. c1 =
          [port |-> p, size |-> s, left |-> l, got |-> o, buf |-> u, valid |-> a, buffering |->
           f, received |-> r, header |-> h, from |-> m, ret |-> x, msg |-> k]
    BY <1>1, <2>1
  <2>3. PICK c3 : c3 = [c1 EXCEPT !.received = b]
    OBVIOUS
  <2>4. c3 =
          [port |-> p, size |-> s, left |-> l, got |-> o, buf |-> u, valid |-> a, buffering |->
           f, received |-> b, header |-> h, from |-> m, ret |-> x, msg |-> k]
    BY <2>2, <2>3
  <2>5. PICK c5 : c5 = [c3 EXCEPT !.buffering = e]
    OBVIOUS
  <2>6. c5 =
          [port |-> p, size |-> s, left |-> l, got |-> o, buf |-> u, valid |-> a, buffering |->
           e, received |-> b, header |-> h, from |-> m, ret |-> x, msg |-> k]
    BY <2>4, <2>5
  <2>7. PICK c7 : c7 = [c5 EXCEPT !.ret = g]
    OBVIOUS
  <2>8. c7 =
          [port |-> p, size |-> s, left |-> l, got |-> o, buf |-> u, valid |-> a, buffering |->
           e, received |-> b, header |-> h, from |-> m, ret |-> g, msg |-> k]
    BY <2>6, <2>7
  <2>9. [c EXCEPT !.valid = a, !.received = b, !.buffering = e, !.ret = g] = c7
    BY <2>1, <2>3, <2>5, <2>7, Zenon
  <2>. QED  BY <1>2, <1>3, <2>8, <2>9
<1>7. LET d == [c EXCEPT !.buf = a] IN Alike(c, d) /\ IsCall(d) /\ d.header = c.header
  <2>1. [c EXCEPT !.buf = a] =
                 [port |-> p, size |-> s, left |-> l, got |-> o, buf |-> a, valid |-> v,
                 buffering |-> f, received |-> r, header |-> h, from |-> m, ret |-> x, msg |-> k]
    BY <1>1
  <2>. QED  BY <1>2, <1>3, <2>1
<1>8. LET d == [c EXCEPT !.ret = a] IN Alike(c, d) /\ IsCall(d) /\ d.header = c.header
  <2>1. [c EXCEPT !.ret = a] =
                 [port |-> p, size |-> s, left |-> l, got |-> o, buf |-> u, valid |-> v,
                 buffering |-> f, received |-> r, header |-> h, from |-> m, ret |-> a, msg |-> k]
    BY <1>1
  <2>. QED  BY <1>2, <1>3, <2>1
<1>9. LET d == [c EXCEPT !.header = a] IN Alike(c, d) /\ IsCall(d) /\ d.header = a
  <2>1. [c EXCEPT !.header = a] =
                 [port |-> p, size |-> s, left |-> l, got |-> o, buf |-> u, valid |-> v,
                 buffering |-> f, received |-> r, header |-> a, from |-> m, ret |-> x, msg |-> k]
    BY <1>1
  <2>. QED  BY <1>2, <1>3, <2>1
<1>10. LET d == [c EXCEPT !.got = a, !.received = b] IN Alike(c, d) /\ IsCall(d) /\ d.header = c.header
  <2>1. PICK c1 : c1 = [c EXCEPT !.got = a]
    OBVIOUS
  <2>2. c1 =
          [port |-> p, size |-> s, left |-> l, got |-> a, buf |-> u, valid |-> v, buffering |->
           f, received |-> r, header |-> h, from |-> m, ret |-> x, msg |-> k]
    BY <1>1, <2>1
  <2>3. PICK c3 : c3 = [c1 EXCEPT !.received = b]
    OBVIOUS
  <2>4. c3 =
          [port |-> p, size |-> s, left |-> l, got |-> a, buf |-> u, valid |-> v, buffering |->
           f, received |-> b, header |-> h, from |-> m, ret |-> x, msg |-> k]
    BY <2>2, <2>3
  <2>5. [c EXCEPT !.got = a, !.received = b] = c3
    BY <2>1, <2>3, Zenon
  <2>. QED  BY <1>2, <1>3, <2>4, <2>5
<1>. QED  BY <1>4, <1>5, <1>6, <1>7, <1>8, <1>9, <1>10

\* The place of a thread, of which a step of the reader goes on.
LEMMA ReaderCalls ==
    ASSUME PortalsFit, NEW t \in Thread, ReaderStep(t)
    PROVE  ReaderGoes(t)
<1>0. /\ pc \in [Thread -> PCs] /\ call = [u \in Thread |-> call[u]] /\ IsCall(call[t])
      /\ pc[t] \in {"more", "relock"} => call[t].header \in Piece
  BY DEF PortalsFit, CallsFit, CallFits
<1>1. /\ {"again", "lock", "locked", "check", "set", "allow", "header", "validate", "alloc", "piece",
          "more", "relock", "drop", "finish", "release", "exit", "panic"} = RemoteReads
      /\ "read local" \in Reading /\ "read end" \in Reading
      /\ "read local" \notin RemoteReads /\ "read end" \notin RemoteReads
  BY DEF Reading, RemoteReads, Channels
<1>2. PICK c : c = call[t]
  OBVIOUS
<1>3. IsCall(c) /\ Alike(c, c)
  BY <1>0, <1>2 DEF Alike
<1>4. ASSUME UNCHANGED call PROVE call' = [call EXCEPT ![t] = c]
  BY <1>0, <1>2, <1>4
<1>5. CASE ReadLocal(t) \/ ReadBuffered(t) \/ LockedRead(t)
  <2>1. PICK r : r = Available(t)
    OBVIOUS
  <2>2. ASSUME NEW l, TakeAvailable(t, r, l)
        PROVE  /\ pc' = [pc EXCEPT ![t] = l]
               /\ \E d : call' = [call EXCEPT ![t] = d] /\ Alike(c, d) /\ IsCall(d)
    <3>1. PICK g, a, b, e :
            /\ call' = [call EXCEPT ![t].got = g, ![t].left = a, ![t].buf = b, ![t].ret = e]
            /\ pc' = [pc EXCEPT ![t] = l]
      BY <2>2, Zenon DEF TakeAvailable, Goto
    <3>2. PICK d : d = [c EXCEPT !.got = g, !.left = a, !.buf = b, !.ret = e]
      OBVIOUS
    <3>3. Alike(c, d) /\ IsCall(d)
      BY <1>3, <3>2, Sets
    <3>4. call' = [call EXCEPT ![t] = d]
      BY <1>2, <3>1, <3>2
    <3>. QED  BY <3>1, <3>3, <3>4
  <2>3. CASE ReadLocal(t)
    <3>1. pc[t] = "read local" /\ \E l \in {"read local", "read end"} : TakeAvailable(t, r, l)
      BY <2>1, <2>3 DEF ReadLocal
    <3>2. PICK l \in {"read local", "read end"} : TakeAvailable(t, r, l)
      BY <3>1
    <3>3. PICK d : call' = [call EXCEPT ![t] = d] /\ Alike(c, d) /\ IsCall(d)
      BY <2>2, <3>2
    <3>4. pc' = [pc EXCEPT ![t] = l]
      BY <2>2, <3>2
    <3>5. l \in Reading /\ l \notin RemoteReads /\ pc[t] \in Reading /\ l \notin {"more", "relock"}
      BY <1>1, <3>1
    <3>. QED  BY <1>2, <3>3, <3>4, <3>5 DEF ReaderGoes
  <2>4. CASE ReadBuffered(t) \/ LockedRead(t)
    <3>1. /\ pc[t] \in {"again", "locked"}
          /\ \/ \E l \in {"exit", "again"} : TakeAvailable(t, r, l)
             \/ \E l \in {"lock", "check"} : Goto(t, l) /\ UNCHANGED call
      BY <2>1, <2>4 DEF ReadBuffered, LockedRead
    <3>2. CASE \E l \in {"lock", "check"} : Goto(t, l) /\ UNCHANGED call
      <4>1. PICK l \in {"lock", "check"} : pc' = [pc EXCEPT ![t] = l] /\ UNCHANGED call
        BY <3>2 DEF Goto
      <4>2. l \in RemoteReads /\ pc[t] \in RemoteReads /\ l \notin {"more", "relock"}
        BY <1>1, <3>1
      <4>. QED  BY <1>2, <1>3, <1>4, <4>1, <4>2, Goes
    <3>3. CASE \E l \in {"exit", "again"} : TakeAvailable(t, r, l)
      <4>1. PICK l \in {"exit", "again"} : TakeAvailable(t, r, l)
        BY <3>3
      <4>2. PICK d : call' = [call EXCEPT ![t] = d] /\ Alike(c, d) /\ IsCall(d)
        BY <2>2, <4>1
      <4>3. pc' = [pc EXCEPT ![t] = l]
        BY <2>2, <4>1
      <4>4. l \in RemoteReads /\ pc[t] \in RemoteReads /\ l \notin {"more", "relock"}
        BY <1>1, <3>1
      <4>. QED  BY <1>2, <4>2, <4>3, <4>4, Goes
    <3>. QED  BY <3>1, <3>2, <3>3
  <2>. QED  BY <1>5, <2>3, <2>4
<1>6. CASE Again(t)
  <2>1. PICK d : d = [c EXCEPT !.buf = NoBuffer, !.valid = TRUE, !.buffering = FALSE, !.left = c.size]
    OBVIOUS
  <2>2. pc[t] = "again" /\ UNCHANGED pc /\ call' = [call EXCEPT ![t] = d]
    BY <1>2, <1>6, <2>1 DEF Again
  <2>3. Alike(c, d) /\ IsCall(d)
    BY <1>3, <2>1, Sets
  <2>4. pc' = [pc EXCEPT ![t] = "again"] /\ pc[t] \in RemoteReads /\ "again" \in RemoteReads
    BY <1>0, <1>1, <2>2
  <2>. QED  BY <1>2, <2>2, <2>3, <2>4, Goes
<1>7. CASE Validate(t)
  <2>1. PICK v, b, e :
          /\ v = (c.header.to \in created[NodeOf[t]])
          /\ b = (IF v THEN c.header.from[2] # c.from[2] ELSE c.buffering)
          /\ e = (IF v THEN c.ret ELSE "partial")
    OBVIOUS
  <2>2. PICK d : d = [c EXCEPT !.valid = v, !.received = 0, !.buffering = b, !.ret = e]
    OBVIOUS
  <2>3. pc[t] = "validate" /\ call' = [call EXCEPT ![t] = d]
    BY <1>2, <1>7, <2>1, <2>2 DEF Validate
  <2>4. PICK l \in {"drop", "alloc", "piece"} : pc' = [pc EXCEPT ![t] = l]
    BY <1>7 DEF Validate, Goto
  <2>5. Alike(c, d) /\ IsCall(d)
    BY <1>3, <2>2, Sets, ZenonT(60)
  <2>6. pc[t] \in RemoteReads /\ l \in RemoteReads /\ l \notin {"more", "relock"}
    BY <1>1, <2>3
  <2>. QED  BY <1>2, <2>3, <2>4, <2>5, <2>6, Goes
<1>8. CASE AllocFirst(t) \/ AllocNext(t)
  <2>1. PICK b : b = Min(FreeBuffers(pool[NodeOf[t]]))
    OBVIOUS
  <2>2. PICK d : d = [c EXCEPT !.buf = b]
    OBVIOUS
  <2>3. /\ pc[t] \in {"alloc", "more"}
        /\ pc' = [pc EXCEPT ![t] = IF pc[t] = "alloc" THEN "piece" ELSE "relock"]
        /\ call' = [call EXCEPT ![t] = d]
    BY <1>2, <1>8, <2>1, <2>2 DEF AllocFirst, AllocNext, Goto
  <2>4. PICK l : l = IF pc[t] = "alloc" THEN "piece" ELSE "relock"
    OBVIOUS
  <2>5. Alike(c, d) /\ IsCall(d) /\ d.header = c.header
    BY <1>3, <2>2, Sets
  <2>6. pc[t] \in RemoteReads /\ l \in RemoteReads /\ (l \in {"more", "relock"} => d.header \in Piece)
    BY <1>0, <1>1, <1>2, <2>3, <2>4, <2>5
  <2>7. pc' = [pc EXCEPT ![t] = l]
    BY <2>3, <2>4
  <2>. QED  BY <1>2, <2>3, <2>5, <2>6, <2>7, Goes
<1>9. CASE FinishRead(t) \/ ReadError(t)
  <2>1. PICK e : call' = [call EXCEPT ![t].ret = e] /\ pc' = [pc EXCEPT ![t] = "release"]
    BY <1>9, Zenon DEF FinishRead, ReadError, Goto
  <2>2. pc[t] \in RemoteReads /\ "release" \in RemoteReads
    BY <1>1, <1>9 DEF FinishRead, ReadError
  <2>3. PICK d : d = [c EXCEPT !.ret = e]
    OBVIOUS
  <2>4. Alike(c, d) /\ IsCall(d)
    BY <1>3, <2>3, Sets
  <2>5. call' = [call EXCEPT ![t] = d]
    BY <1>2, <2>1, <2>3
  <2>. QED  BY <1>2, <2>1, <2>2, <2>4, <2>5, Goes
<1>10. CASE ReadHeader(t)
  <2>1. PICK m : m = Head(Incoming(t))
    OBVIOUS
  <2>2. pc[t] \in RemoteReads /\ "panic" \in RemoteReads /\ "validate" \in RemoteReads
    BY <1>1, <1>10 DEF ReadHeader
  <2>3. \/ pc' = [pc EXCEPT ![t] = "panic"] /\ UNCHANGED call
        \/ pc' = [pc EXCEPT ![t] = "validate"] /\ \E h : call' = [call EXCEPT ![t].header = h]
    BY <1>10, <2>1 DEF ReadHeader, Goto
  <2>4. CASE pc' = [pc EXCEPT ![t] = "panic"] /\ UNCHANGED call
    BY <1>2, <1>3, <1>4, <2>2, <2>4, Goes
  <2>5. CASE pc' = [pc EXCEPT ![t] = "validate"] /\ \E h : call' = [call EXCEPT ![t].header = h]
    <3>0. PICK h : call' = [call EXCEPT ![t].header = h]
      BY <2>5
    <3>1. PICK d : d = [c EXCEPT !.header = h]
      OBVIOUS
    <3>2. Alike(c, d) /\ IsCall(d)
      BY <1>3, <3>1, Sets
    <3>3. call' = [call EXCEPT ![t] = d]
      BY <1>2, <3>0, <3>1
    <3>. QED  BY <1>2, <2>2, <2>5, <3>2, <3>3, Goes
  <2>. QED  BY <2>3, <2>4, <2>5
<1>11. CASE ReadPiece(t)
  <2>1. pc[t] = "piece"
    BY <1>11 DEF ReadPiece
  <2>2. PICK m, g, k : m = Head(Incoming(t)) /\ g = Append(c.got, m.unit) /\ k = c.received + 1
    OBVIOUS
  <2>3. \/ UNCHANGED call /\ pc' = [pc EXCEPT ![t] = "panic"]
        \/ /\ call' = [call EXCEPT ![t].got = g, ![t].received = k]
           /\ \E l \in {"finish", "piece"} : pc' = [pc EXCEPT ![t] = l]
        \/ /\ call' = [call EXCEPT ![t].ret = "invalid"]
           /\ pc' = [pc EXCEPT ![t] = "drop"]
    BY <1>2, <1>11, <2>2 DEF ReadPiece, Goto, AfterPiece
  <2>4. PICK l \in {"panic", "finish", "piece", "drop"} : pc' = [pc EXCEPT ![t] = l]
    BY <2>3
  <2>5. pc[t] \in RemoteReads /\ l \in RemoteReads /\ l \notin {"more", "relock"}
    BY <1>1, <2>1
  <2>6. PICK a, b : a = [c EXCEPT !.got = g, !.received = k] /\ b = [c EXCEPT !.ret = "invalid"]
    OBVIOUS
  <2>7. /\ Alike(c, a) /\ IsCall(a) /\ Alike(c, b) /\ IsCall(b)
    BY <1>3, <2>6, Sets
  <2>8. call' = [call EXCEPT ![t] = a] \/ call' = [call EXCEPT ![t] = b] \/ call' = [call EXCEPT ![t] = c]
    BY <1>2, <1>4, <2>3, <2>6
  <2>. QED  BY <1>2, <1>3, <2>4, <2>5, <2>7, <2>8, Goes
<1>12. CASE KeepPiece(t)
  <2>1. PICK m : m = Head(Incoming(t))
    OBVIOUS
  <2>2. /\ pc[t] = "piece"
        /\ \/ UNCHANGED call /\ \E l \in {"panic", "finish", "piece"} : pc' = [pc EXCEPT ![t] = l]
           \/ /\ call' = [call EXCEPT ![t].header = m] /\ pc' = [pc EXCEPT ![t] = "more"]
              /\ ~IsHeader(m) /\ Incoming(t) # <<>>
    BY <1>12, <2>1 DEF KeepPiece, Goto, AfterPiece
  <2>3. pc[t] \in RemoteReads /\ "more" \in RemoteReads
    BY <1>1, <2>2
  <2>4. CASE UNCHANGED call /\ \E l \in {"panic", "finish", "piece"} : pc' = [pc EXCEPT ![t] = l]
    <3>1. PICK l \in {"panic", "finish", "piece"} : pc' = [pc EXCEPT ![t] = l]
      BY <2>4
    <3>2. l \in RemoteReads /\ l \notin {"more", "relock"}
      BY <1>1
    <3>. QED  BY <1>2, <1>3, <1>4, <2>3, <2>4, <3>1, <3>2, Goes
  <2>5. CASE /\ call' = [call EXCEPT ![t].header = m] /\ pc' = [pc EXCEPT ![t] = "more"]
             /\ ~IsHeader(m) /\ Incoming(t) # <<>>
    <3>1. PICK d : d = [c EXCEPT !.header = m]
      OBVIOUS
    <3>2. Alike(c, d) /\ IsCall(d) /\ d.header = m
      BY <1>3, <3>1, Sets, ZenonT(60)
    <3>3. call' = [call EXCEPT ![t] = d]
      BY <1>2, <2>5, <3>1
    <3>4. m \in Header \cup Piece
      BY <2>1, <2>3, <2>5, RemoteFits, HeadFits
    <3>5. m \in Piece
      BY <2>5, <3>4, Kinds
    <3>. QED  BY <1>2, <2>3, <2>5, <3>2, <3>3, <3>5, Goes
  <2>. QED  BY <2>2, <2>4, <2>5
<1>. QED  BY <1>5, <1>6, <1>7, <1>8, <1>9, <1>10, <1>11, <1>12 DEF ReaderStep

LEMMA ReaderMoves ==
    ASSUME PortalsFit, NEW t \in Thread, ReaderStep(t)
    PROVE  Moves(t)
<1>1. PICK x, d :
             /\ x \in Reading
             /\ pc' = [pc EXCEPT ![t] = x] /\ call' = [call EXCEPT ![t] = d]
             /\ pc[t] \in Reading /\ (x \in RemoteReads => pc[t] \in RemoteReads)
             /\ Alike(call[t], d) /\ IsCall(d)
             /\ x \in {"more", "relock"} => d.header \in Piece
  BY ReaderCalls DEF ReaderGoes
<1>2. UNCHANGED log
  BY DEF ReaderStep, ReadLocal, Again, ReadBuffered, LockedRead, ReadHeader, Validate,
    AllocFirst, ReadPiece, KeepPiece, AllocNext, FinishRead, ReadError, TakeAvailable, historyVars
<1>3. CallFits(pc[t], call[t], NodeOf[t], Len(log)) /\ Len(log) \in Nat
  BY DEF PortalsFit, CallsFit, TablesFit
<1>4. CallFits(x, d, NodeOf[t], Len(log))
  BY <1>1, <1>3, Reader
<1>. QED  BY <1>1, <1>2, <1>4, Edits

LEMMA WritesOn ==
    ASSUME NEW c, NEW d, NEW n, NEW k \in Nat, NEW l, NEW x, CallFits(l, c, n, k), Alike(c, d), IsCall(d),
           \/ l = "write local" /\ (x = "publish" \/ (x = "write local" /\ d.left \in 1 .. d.size))
           \/ l = "send" /\ (x = "write end" \/ (x = "send" /\ d.left \in 1 .. d.size))
    PROVE  CallFits(x, d, n, k)
<1>1. /\ l \in Writing /\ x \in Writing /\ x \in PCs /\ x \notin Reading /\ x # "idle"
      /\ x \in RemoteWrites => l \in RemoteWrites
      /\ l \in RemoteWrites \cup {"write local"} /\ x \notin RemoteReads /\ x \notin {"more", "relock"}
      /\ x \in RemoteWrites \cup {"write local"} => d.left \in 1 .. d.size
  BY DEF Reading, RemoteReads, Writing, RemoteWrites, Channels, PCs
<1>. QED  BY <1>1 DEF CallFits, Alike

LEMMA WriterMoves ==
    ASSUME PortalsFit, NEW t \in Thread, WriteLocal(t) \/ SendPiece(t)
    PROVE  Moves(t)
<1>0. /\ pc \in [Thread -> PCs] /\ call = [u \in Thread |-> call[u]]
      /\ CallFits(pc[t], call[t], NodeOf[t], Len(log)) /\ Len(log) \in Nat
  BY DEF PortalsFit, CallsFit, TablesFit
<1>1. UNCHANGED log
  BY DEF WriteLocal, SendPiece, historyVars
<1>2. CASE WriteLocal(t)
  <2>1. PICK k, b : k = Min({call[t].left, MPORTAL_BUFFER_SIZE}) /\ b = Min(FreeBuffers(pool[NodeOf[t]]))
    OBVIOUS
  <2>2. PICK d : d = [call[t] EXCEPT !.buf = b, !.left = call[t].left - k]
    OBVIOUS
  <2>3. PICK l : l = IF call[t].left = k THEN "publish" ELSE "write local"
    OBVIOUS
  <2>4. pc[t] = "write local" /\ pc' = [pc EXCEPT ![t] = l] /\ call' = [call EXCEPT ![t] = d]
    BY <1>2, <2>1, <2>2, <2>3 DEF WriteLocal, Goto
  <2>5. call[t].left \in 1 .. call[t].size /\ call[t].size \in Nat /\ IsCall(call[t])
    BY <1>0, <2>4 DEF CallFits
  <2>6. k \in Nat /\ k > 0 /\ k <= call[t].left
    <3>1. MPORTAL_BUFFER_SIZE \in Nat /\ MPORTAL_BUFFER_SIZE > 0
      BY BufferAssumption
    <3>. QED  BY <2>1, <2>5, <3>1 DEF Min
  <2>7. Alike(call[t], d) /\ IsCall(d) /\ d.left = call[t].left - k
    BY <2>2, <2>5 DEF Alike, IsCall
  <2>8. CallFits(l, d, NodeOf[t], Len(log))
    <3>0. PICK z, w, v : z = call[t].size /\ w = call[t].left /\ v = d.left
      OBVIOUS
    <3>2. z \in Nat /\ w \in 1 .. z /\ v = w - k /\ d.size = z
      BY <2>5, <2>7, <3>0 DEF Alike
    <3>3. w # k => v \in 1 .. z
      BY <2>6, <3>0, <3>2
    <3>4. call[t].left # k => d.left \in 1 .. d.size
      BY <3>0, <3>2, <3>3, Zenon
    <3>1. l = "publish" \/ (l = "write local" /\ d.left \in 1 .. d.size)
      BY <2>3, <3>4
    <3>. QED  BY <1>0, <2>4, <2>5, <2>7, <3>1, WritesOn
  <2>. QED  BY <1>1, <2>4, <2>7, <2>8, Edits
<1>3. CASE SendPiece(t)
  <2>2. PICK d : d = [call[t] EXCEPT !.left = call[t].left - 1]
    OBVIOUS
  <2>3. PICK l : l = IF call[t].left = 1 THEN "write end" ELSE "send"
    OBVIOUS
  <2>4. pc[t] = "send" /\ pc' = [pc EXCEPT ![t] = l] /\ call' = [call EXCEPT ![t] = d]
    BY <1>0, <1>3, <2>2, <2>3 DEF SendPiece, Goto
  <2>5. call[t].left \in 1 .. call[t].size /\ call[t].size \in Nat /\ IsCall(call[t])
    BY <1>0, <2>4 DEF CallFits, RemoteWrites
  <2>7. Alike(call[t], d) /\ IsCall(d) /\ d.left = call[t].left - 1
    BY <2>2, <2>5 DEF Alike, IsCall
  <2>8. CallFits(l, d, NodeOf[t], Len(log))
    <3>0. PICK z, w, v : z = call[t].size /\ w = call[t].left /\ v = d.left
      OBVIOUS
    <3>2. z \in Nat /\ w \in 1 .. z /\ v = w - 1 /\ d.size = z
      BY <2>5, <2>7, <3>0 DEF Alike
    <3>3. w # 1 => v \in 1 .. z
      BY <3>2
    <3>4. call[t].left # 1 => d.left \in 1 .. d.size
      BY <3>0, <3>2, <3>3, Zenon
    <3>1. l = "write end" \/ (l = "send" /\ d.left \in 1 .. d.size)
      BY <2>3, <3>4
    <3>. QED  BY <1>0, <2>4, <2>5, <2>7, <3>1, WritesOn
  <2>. QED  BY <1>1, <2>4, <2>7, <2>8, Edits
<1>. QED  BY <1>2, <1>3

\* Every step.
LEMMA StepMoves ==
    ASSUME PortalsFit, NEW t \in Thread, Client(t) \/ Step(t)
    PROVE  Moves(t) /\ log' \in Seq(Entry)
<1>0. log \in Seq(Entry)
  BY DEF PortalsFit, TablesFit
<1>1. CASE Step(t)
  <2>1. Moves(t)
    BY <1>1, ReaderMoves, PassingMoves, WriterMoves, Ends DEF Step, ReaderStep, Passing
  <2>2. UNCHANGED log
    BY <1>1 DEF Step, WriteLocal, WriteLocalYield, Publish, ReadLocal,
     Again, ReadBuffered, LockRead, LockedRead, CheckChannel, SetChannel, SendAllow, ReadHeader, Validate,
     AllocFirst, ReadPiece, KeepPiece, AllocNext, Relock, Drop, FinishRead, ReleaseChannel, Exit, ReadError,
     TakeAllow, LockAllow, ReceiveAllow, AllowError, LockWrite, SendHeader, SendPiece, WriteError,
     ReadEnd, WriteEnd, TakeAvailable, historyVars
  <2>. QED  BY <1>0, <2>1, <2>2
<1>2. CASE Client(t)
  <2>1. /\ \A i \in Inputs[t] : i[1] \in Port /\ i[2] \in Peer
        /\ \A o \in Outputs[t] : o[1] \in Peer /\ o[2] \in Port
    BY Consts
  <2>2. scene.sizes \subseteq Nat \ {0}
    BY SceneAssumption DEF PortalsFit, TablesFit
  <2>3. \/ \E p, q, m : Create(t, p) \/ Allow(t, p, q) \/ Unlink(t, p) \/ Open(t, m, p) \/ Close(t, q)
        \/ \E p \in Port, s \in Nat : ReadBegin(t, p, s)
        \/ \E q \in Peer, s \in Nat \ {0} : WriteBegin(t, q, s)
    BY <1>2, <2>1, <2>2 DEF Client
  <2>4. ASSUME NEW p, NEW q, NEW m, Create(t, p) \/ Allow(t, p, q) \/ Unlink(t, p) \/ Open(t, m, p) \/ Close(t, q)
        PROVE  Moves(t) /\ UNCHANGED log
    BY <2>4, TableCalls DEF Create, Allow, Unlink, Open, Close, historyVars
  <2>5. ASSUME NEW p \in Port, NEW s \in Nat, ReadBegin(t, p, s)
        PROVE  Moves(t) /\ UNCHANGED log
    BY <2>5, ReadBegins DEF ReadBegin, historyVars
  <2>6. ASSUME NEW q \in Peer, NEW s \in Nat \ {0}, WriteBegin(t, q, s)
        PROVE  Moves(t) /\ log' \in Seq(Entry)
    BY <2>6, WriteBegins
  <2>. QED  BY <1>0, <2>3, <2>4, <2>5, <2>6
<1>. QED  BY <1>1, <1>2

-----------------------------------------------------------------------------
\* The steps by what they leave alone.
TableStep(t) ==
    \/ \E p \in Port : Create(t, p) \/ Unlink(t, p)
    \/ \E p \in Port, q \in Peer : Allow(t, p, q)
    \/ \E m \in Node, p \in Port : Open(t, m, p)
    \/ \E q \in Peer : Close(t, q)
    \/ \E p \in Port, s \in Nat : ReadBegin(t, p, s)
    \/ \E q \in Peer, s \in Nat \ {0} : WriteBegin(t, q, s)
    \/ ReadEnd(t) \/ WriteEnd(t)
LocalStep(t) == WriteLocal(t) \/ WriteLocalYield(t) \/ Publish(t) \/ ReadLocal(t)
ReadStep(t) ==
    \/ Again(t) \/ ReadBuffered(t) \/ LockRead(t) \/ LockedRead(t)
    \/ CheckChannel(t) \/ SetChannel(t) \/ SendAllow(t) \/ ReadHeader(t) \/ Validate(t)
    \/ AllocFirst(t) \/ ReadPiece(t) \/ KeepPiece(t) \/ AllocNext(t) \/ Relock(t)
    \/ Drop(t) \/ FinishRead(t) \/ ReleaseChannel(t) \/ Exit(t) \/ ReadError(t)
WriteStep(t) ==
    \/ TakeAllow(t) \/ LockAllow(t) \/ ReceiveAllow(t) \/ AllowError(t)
    \/ LockWrite(t) \/ SendHeader(t) \/ SendPiece(t) \/ WriteError(t)

LEMMA Groups ==
    ASSUME PortalsFit, NEW t \in Thread, Client(t) \/ Step(t)
    PROVE  TableStep(t) \/ LocalStep(t) \/ ReadStep(t) \/ WriteStep(t)
<1>1. CASE Step(t)
  BY <1>1 DEF Step, TableStep, LocalStep, ReadStep, WriteStep
<1>2. CASE Client(t)
  <2>1. /\ \A i \in Inputs[t] : i[1] \in Port /\ i[2] \in Peer
        /\ \A o \in Outputs[t] : o[1] \in Peer /\ o[2] \in Port
    BY Consts
  <2>2. scene.sizes \subseteq Nat \ {0}
    BY SceneAssumption DEF PortalsFit, TablesFit
  <2>3. CASE \E i \in Inputs[t] : Create(t, i[1]) \/ Allow(t, i[1], i[2])
    BY <2>1, <2>3 DEF TableStep
  <2>4. CASE \E i \in Inputs[t], s \in scene.sizes : ReadBegin(t, i[1], s)
    BY <2>1, <2>2, <2>4 DEF TableStep
  <2>5. CASE \E o \in Outputs[t] : Open(t, o[1][1], o[2])
    <3>1. PICK o \in Outputs[t] : Open(t, o[1][1], o[2])
      BY <2>5
    <3>2. o[1][1] \in Node /\ o[2] \in Port
      BY <2>1, PeerIs
    <3>. QED  BY <3>1, <3>2 DEF TableStep
  <2>6. CASE \E o \in Outputs[t], s \in scene.sizes : WriteBegin(t, o[1], s)
    BY <2>1, <2>2, <2>6 DEF TableStep
  <2>7. CASE (\E i \in Inputs[t] : Unlink(t, i[1])) \/ (\E o \in Outputs[t] : Close(t, o[1]))
    BY <2>1, <2>7 DEF TableStep
  <2>. QED  BY <1>2, <2>3, <2>4, <2>5, <2>6, <2>7 DEF Client
<1>. QED  BY <1>1, <1>2

LEMMA Frames ==
    ASSUME NEW t \in Thread
    PROVE  /\ TableStep(t) => TableFrame /\ pc[t] \in {"idle", "read end", "write end"} /\ UNCHANGED <<stolen, broken>>
           /\ LocalStep(t) => /\ UNCHANGED <<tableVars, readVars, writeVars, mailboxVars, stolen, broken>>
                              /\ pc[t] \in {"write local", "publish", "read local"}
           /\ ReadStep(t) => UNCHANGED <<tableVars, localLock, writeVars>> /\ pc[t] \in RemoteReads
           /\ WriteStep(t) => UNCHANGED <<tableVars, bufferVars, localLock, readVars>> /\ pc[t] \in RemoteWrites
<1>1. TableStep(t) => TableFrame /\ pc[t] \in {"idle", "read end", "write end"} /\ UNCHANGED <<stolen, broken>>
  BY DEF TableStep, Create, Unlink, Allow, Open, Close, ReadBegin, WriteBegin, ReadEnd, WriteEnd, historyVars
<1>2. LocalStep(t) => /\ UNCHANGED <<tableVars, readVars, writeVars, mailboxVars, stolen, broken>>
                      /\ pc[t] \in {"write local", "publish", "read local"}
  BY DEF LocalStep, WriteLocal, WriteLocalYield, Publish, ReadLocal, TakeAvailable, ReadFrame,
    readVars, writeVars, mailboxVars, historyVars
<1>3. ReadStep(t) => UNCHANGED <<tableVars, localLock, writeVars>>
  BY DEF ReadStep, Again, ReadBuffered, LockRead, LockedRead, CheckChannel, SetChannel, SendAllow, ReadHeader,
    Validate, AllocFirst, ReadPiece, KeepPiece, AllocNext, Relock, Drop, FinishRead, ReleaseChannel, Exit,
    ReadError, ReadFrame, WriteFrame, TableFrame, writeVars, readVars, mailboxVars, bufferVars
<1>4. ReadStep(t) => pc[t] \in RemoteReads
  BY DEF ReadStep, Again, ReadBuffered, LockRead, LockedRead, CheckChannel, SetChannel, SendAllow, ReadHeader,
    Validate, AllocFirst, ReadPiece, KeepPiece, AllocNext, Relock, Drop, FinishRead, ReleaseChannel, Exit,
    ReadError, RemoteReads, Channels
<1>5. WriteStep(t) => UNCHANGED <<tableVars, bufferVars, localLock, readVars>> /\ pc[t] \in RemoteWrites
  BY DEF WriteStep, TakeAllow, LockAllow, ReceiveAllow, AllowError, LockWrite, SendHeader, SendPiece, WriteError,
    WriteFrame, RemoteWrites
<1>. QED  BY <1>1, <1>2, <1>3, <1>4, <1>5

\* One value is set.
LEMMA InnerFits ==
    ASSUME NEW A, NEW B, NEW C, NEW f \in [A -> [B -> C]], NEW a \in A, NEW b \in B, NEW c \in C
    PROVE  [f EXCEPT ![a][b] = c] \in [A -> [B -> C]]
OBVIOUS

\* Setting one entry of a table leaves the others.
LEMMA OtherEntry ==
    ASSUME NEW S, NEW T, NEW V, NEW f \in [S -> [T -> V]], NEW o, NEW r, NEW z,
           NEW n \in S, NEW m \in T, ~(n = o /\ m = r)
    PROVE  [f EXCEPT ![o][r] = z][n][m] = f[n][m]
<1>1. CASE n = o
  <2>1. [f EXCEPT ![o][r] = z][n] = [f[n] EXCEPT ![r] = z]
    BY <1>1
  <2>2. f[n] \in [T -> V] /\ m # r
    BY <1>1
  <2>. QED  BY <2>1, <2>2
<1>2. CASE n # o
  BY <1>2
<1>. QED  BY <1>1, <1>2

LEMMA ItemFits ==
    ASSUME NEW S, NEW q \in Seq(S), NEW i \in 1 .. Len(q)
    PROVE  q[i] \in S /\ i \in Nat
OBVIOUS

LEMMA SetFits ==
    ASSUME NEW A, NEW B, NEW f \in [A -> SUBSET B], NEW a \in A, NEW b \in B
    PROVE  [f EXCEPT ![a] = @ \cup {b}] \in [A -> SUBSET B] /\ [f EXCEPT ![a] = @ \ {b}] \in [A -> SUBSET B]
OBVIOUS

\* The tables.
LEMMA TablesKept ==
    ASSUME PortalsFit, NEW t \in Thread, TableStep(t), UNCHANGED scene
    PROVE  TablesFit'
<1>0. /\ TablesFit /\ NodeOf[t] \in Node
      /\ log \in Seq(Entry)
  BY Consts DEF PortalsFit, TablesFit
<1>1. CASE \E p \in Port : Create(t, p) \/ Unlink(t, p)
  <2>1. PICK p \in Port : Create(t, p) \/ Unlink(t, p)
    BY <1>1
  <2>2. PICK n : n = NodeOf[t]
    OBVIOUS
  <2>3. /\ created' = [created EXCEPT ![n] = @ \cup {p}] \/ created' = [created EXCEPT ![n] = @ \ {p}]
        /\ allowed' = allowed \/ allowed' = [allowed EXCEPT ![n][p] = None]
        /\ UNCHANGED <<output, mports, busyIn, busyOut, log>>
    BY <2>1, <2>2 DEF Create, Unlink, historyVars
  <2>4. created' \in [Node -> SUBSET Port]
    <3>1. created \in [Node -> SUBSET Port] /\ n \in Node
      BY <1>0, <2>2 DEF TablesFit
    <3>2. CASE created' = [created EXCEPT ![n] = @ \cup {p}]
      BY <3>1, <3>2, SetFits
    <3>3. CASE created' = [created EXCEPT ![n] = @ \ {p}]
      BY <3>1, <3>3, SetFits
    <3>. QED  BY <2>3, <3>2, <3>3
  <2>5. allowed' \in [Node -> [Port -> Peer \cup {None}]]
    <3>1. allowed \in [Node -> [Port -> Peer \cup {None}]] /\ n \in Node /\ None \in Peer \cup {None}
      BY <1>0, <2>2 DEF TablesFit
    <3>2. [allowed EXCEPT ![n][p] = None] \in [Node -> [Port -> Peer \cup {None}]]
      BY <3>1, InnerFits, Zenon
    <3>. QED  BY <2>3, <3>1, <3>2, Zenon
  <2>. QED  BY <1>0, <2>3, <2>4, <2>5 DEF TablesFit
<1>2. CASE \E p \in Port, q \in Peer : Allow(t, p, q)
  BY <1>0, <1>2 DEF Allow, TablesFit, historyVars
<1>3. CASE \E m \in Node, p \in Port : Open(t, m, p)
  <2>1. PICK m \in Node, p \in Port : Open(t, m, p)
    BY <1>3
  <2>2. PICK n, l, q : n = NodeOf[t] /\ l = Min(FreePorts(n, m)) /\ q = <<m, l>>
    OBVIOUS
  <2>3. FreePorts(n, m) # {} /\ FreePorts(n, m) \in SUBSET Nat
    BY <2>1, <2>2, Consts DEF Open, FreePorts
  <2>4. l \in Port
    BY <2>2, <2>3, MinIsIn DEF FreePorts
  <2>5. q \in Peer
    BY <2>2, <2>4 DEF Peer
  <2>6. /\ mports' = [mports EXCEPT ![n] = @ \cup {q}]
        /\ output' = [output EXCEPT ![n][q] = p] \/ output' = output
        /\ UNCHANGED <<created, allowed, busyIn, busyOut, log>>
    BY <2>1, <2>2 DEF Open, historyVars
  <2>7. mports' \in [Node -> SUBSET Peer]
    BY <1>0, <2>2, <2>5, <2>6 DEF TablesFit
  <2>8. output' \in [Node -> [Peer -> Port \cup {None}]]
    <3>1. output \in [Node -> [Peer -> Port \cup {None}]] /\ n \in Node /\ p \in Port \cup {None}
      BY <1>0, <2>2 DEF TablesFit
    <3>2. [output EXCEPT ![n][q] = p] \in [Node -> [Peer -> Port \cup {None}]]
      BY <2>5, <3>1, InnerFits, Zenon
    <3>. QED  BY <2>6, <3>1, <3>2, Zenon
  <2>. QED  BY <1>0, <2>6, <2>7, <2>8 DEF TablesFit
<1>4. CASE \E q \in Peer : Close(t, q)
  BY <1>0, <1>4 DEF Close, TablesFit, historyVars
<1>5. CASE \E p \in Port, s \in Nat : ReadBegin(t, p, s)
  <2>1. PICK p \in Port : busyIn' = [busyIn EXCEPT ![NodeOf[t]] = @ \cup {p}]
    BY <1>5 DEF ReadBegin
  <2>2. UNCHANGED <<created, allowed, output, mports, busyOut, log>>
    BY <1>5 DEF ReadBegin, historyVars
  <2>. QED  BY <1>0, <2>1, <2>2 DEF TablesFit
<1>6. CASE \E q \in Peer, s \in Nat \ {0} : WriteBegin(t, q, s)
  <2>1. PICK q \in Peer, s \in Nat \ {0} : WriteBegin(t, q, s)
    BY <1>6
  <2>2. log' \in Seq(Entry)
    BY <2>1, WriteBegins
  <2>3. busyOut' = [busyOut EXCEPT ![NodeOf[t]] = @ \cup {q}] /\ UNCHANGED <<created, allowed, output, mports, busyIn>>
    BY <2>1 DEF WriteBegin
  <2>. QED  BY <1>0, <2>2, <2>3 DEF TablesFit
<1>7. CASE ReadEnd(t)
  BY <1>0, <1>7 DEF ReadEnd, TablesFit
<1>8. CASE WriteEnd(t)
  BY <1>0, <1>8 DEF WriteEnd, TablesFit, historyVars
<1>. QED  BY <1>1, <1>2, <1>3, <1>4, <1>5, <1>6, <1>7, <1>8 DEF TableStep

\* The calls.
LEMMA CallsKept ==
    ASSUME PortalsFit, NEW t \in Thread, Moves(t), log' \in Seq(Entry)
    PROVE  CallsFit'
<1>0. CallsFit /\ Len(log) \in Nat /\ Len(log') \in Nat /\ Len(log') >= Len(log)
  BY DEF PortalsFit, TablesFit, Moves
<1>1. pc'[t] \in PCs
  BY DEF Moves, CallFits
<1>2. pc' \in [Thread -> PCs] /\ call' = [u \in Thread |-> call'[u]]
  BY <1>0, <1>1 DEF Moves, CallsFit
<1>3. ASSUME NEW u \in Thread PROVE CallFits(pc'[u], call'[u], NodeOf[u], Len(log'))
  <2>1. CASE u = t
    BY <2>1 DEF Moves
  <2>2. CASE u # t
    <3>1. pc'[u] = pc[u] /\ call'[u] = call[u]
      BY <1>0, <2>2 DEF Moves, CallsFit
    <3>2. CallFits(pc[u], call[u], NodeOf[u], Len(log))
      BY <1>0 DEF CallsFit
    <3>3. PICK k, l : k = Len(log) /\ l = Len(log')
      OBVIOUS
    <3>4. call[u].msg \in 1 .. k => call[u].msg \in 1 .. l
      BY <1>0, <3>3
    <3>5. CallFits(pc[u], call[u], NodeOf[u], l)
      BY <3>2, <3>3, <3>4 DEF CallFits
    <3>. QED  BY <3>1, <3>3, <3>5
  <2>. QED  BY <2>1, <2>2
<1>. QED  BY <1>2, <1>3 DEF CallsFit

\* The locks.
LEMMA LocksKept ==
    ASSUME PortalsFit, NEW t \in Thread, TableStep(t) \/ LocalStep(t) \/ ReadStep(t) \/ WriteStep(t)
    PROVE  LocksFit'
<1>0. LocksFit /\ NodeOf[t] \in Node
  BY Consts DEF PortalsFit
<1>1. CASE TableStep(t)
  <2>1. UNCHANGED <<localLock, allowLock, readLock, writeLock, reading, isAllowed>>
    BY <1>1, Frames DEF TableFrame, readVars, writeVars
  <2>. QED  BY <1>0, <2>1 DEF LocksFit
<1>2. CASE LocalStep(t)
  <2>1. UNCHANGED <<allowLock, readLock, writeLock, reading, isAllowed>>
    BY <1>2, Frames DEF readVars, writeVars
  <2>2. localLock' = localLock \/ \E v \in Thread \cup {NoThread} : localLock' = [localLock EXCEPT ![NodeOf[t]] = v]
    BY <1>2 DEF LocalStep, WriteLocal, WriteLocalYield, Publish, ReadLocal, ReadFrame
  <2>. QED  BY <1>0, <2>1, <2>2 DEF LocksFit
<1>3. CASE ReadStep(t)
  <2>1. UNCHANGED <<localLock, allowLock, writeLock, isAllowed>>
    BY <1>3, Frames DEF writeVars
  <2>2. PICK m : m = Remote(t) /\ m \in Node
    BY <1>3, Frames, RemoteFits
  <2>3. readLock' = readLock \/ \E v \in Thread \cup {NoThread} : readLock' = [readLock EXCEPT ![NodeOf[t]][m] = v]
    BY <1>3, <2>2 DEF ReadStep, Again, ReadBuffered, LockRead, LockedRead, CheckChannel, SetChannel, SendAllow, ReadHeader,
      Validate, AllocFirst, ReadPiece, KeepPiece, AllocNext, Relock, Drop, FinishRead, ReleaseChannel, Exit,
      ReadError, ReadFrame, WriteFrame, TableFrame, readVars
  <2>4. \/ reading' = reading \/ reading' = [reading EXCEPT ![NodeOf[t]] = @ \cup {m}]
        \/ reading' = [reading EXCEPT ![NodeOf[t]] = @ \ {m}]
    BY <1>3, <2>2 DEF ReadStep, Again, ReadBuffered, LockRead, LockedRead, CheckChannel, SetChannel, SendAllow, ReadHeader,
      Validate, AllocFirst, ReadPiece, KeepPiece, AllocNext, Relock, Drop, FinishRead, ReleaseChannel, Exit,
      ReadError, ReadFrame, WriteFrame, TableFrame, readVars
  <2>5. readLock' \in [Node -> [Node -> Thread \cup {NoThread}]]
    <3>1. readLock \in [Node -> [Node -> Thread \cup {NoThread}]]
      BY <1>0 DEF LocksFit
    <3>2. ASSUME NEW v \in Thread \cup {NoThread}
          PROVE  [readLock EXCEPT ![NodeOf[t]][m] = v] \in [Node -> [Node -> Thread \cup {NoThread}]]
      BY <1>0, <2>2, <3>1, InnerFits, Zenon
    <3>. QED  BY <2>3, <3>1, <3>2, Zenon
  <2>6. reading' \in [Node -> SUBSET Node]
    BY <1>0, <2>2, <2>4 DEF LocksFit
  <2>. QED  BY <1>0, <2>1, <2>5, <2>6 DEF LocksFit
<1>4. CASE WriteStep(t)
  <2>1. UNCHANGED <<localLock, readLock, reading>>
    BY <1>4, Frames DEF readVars
  <2>2. allowLock' = allowLock \/ \E v \in Thread \cup {NoThread} : allowLock' = [allowLock EXCEPT ![NodeOf[t]] = v]
    BY <1>4 DEF WriteStep, TakeAllow, LockAllow, ReceiveAllow, AllowError, LockWrite, SendHeader, SendPiece, WriteError, writeVars
  <2>3. PICK m : m = Target(t)
    OBVIOUS
  <2>4. m \in Node
    BY <1>4, <2>3, Frames, PeerIs DEF PortalsFit, CallsFit, CallFits, Target, Writing
  <2>5. writeLock' = writeLock \/ \E v \in Thread \cup {NoThread} : writeLock' = [writeLock EXCEPT ![NodeOf[t]][m] = v]
    BY <1>4, <2>3 DEF WriteStep, TakeAllow, LockAllow, ReceiveAllow, AllowError, LockWrite, SendHeader, SendPiece, WriteError, writeVars
  <2>6. writeLock' \in [Node -> [Node -> Thread \cup {NoThread}]]
    <3>1. writeLock \in [Node -> [Node -> Thread \cup {NoThread}]]
      BY <1>0 DEF LocksFit
    <3>2. ASSUME NEW v \in Thread \cup {NoThread}
          PROVE  [writeLock EXCEPT ![NodeOf[t]][m] = v] \in [Node -> [Node -> Thread \cup {NoThread}]]
      BY <1>0, <2>4, <3>1, InnerFits, Zenon
    <3>. QED  BY <2>4, <2>5, <3>1, <3>2, Zenon
  <2>7. isAllowed' \in [Node -> SUBSET Node]
    <3>1. CASE ReceiveAllow(t)
      <4>1. PICK h, now : /\ h = Head(allows[NodeOf[t]]) /\ now \in {isAllowed[NodeOf[t]], isAllowed[NodeOf[t]] \cup {h}}
                          /\ isAllowed' = [isAllowed EXCEPT ![NodeOf[t]] = now \ {Target(t)}]
                          /\ allows[NodeOf[t]] # <<>>
        BY <3>1 DEF ReceiveAllow
      <4>2. h \in Node
        <5>1. allows[NodeOf[t]] \in Seq(Node)
          BY <1>0 DEF PortalsFit, MailFits
        <5>. QED  BY <4>1, <5>1, HeadFits
      <4>. QED  BY <1>0, <4>1, <4>2 DEF LocksFit
    <3>2. CASE TakeAllow(t)
      BY <1>0, <3>2 DEF TakeAllow, LocksFit
    <3>3. CASE ~ReceiveAllow(t) /\ ~TakeAllow(t)
      BY <1>0, <1>4, <3>3 DEF WriteStep, LockAllow, AllowError, LockWrite, SendHeader, SendPiece, WriteError, writeVars, LocksFit
    <3>. QED  BY <3>1, <3>2, <3>3
  <2>8. allowLock' \in [Node -> Thread \cup {NoThread}]
    BY <1>0, <2>2 DEF LocksFit
  <2>. QED  BY <1>0, <2>1, <2>6, <2>7, <2>8 DEF LocksFit
<1>. QED  BY <1>1, <1>2, <1>3, <1>4

\* The mailboxes.
LEMMA SendFits ==
    ASSUME PortalsFit, NEW t \in Thread, NEW m \in Header \cup Piece, Send(t, m), pc[t] \in RemoteWrites
    PROVE  MailFits'
<1>1. NodeOf[t] \in Node /\ Target(t) \in Node /\ MailFits
  <2>1. call[t].port \in Peer
    BY DEF PortalsFit, CallsFit, CallFits, Writing
  <2>. QED  BY <2>1, PeerIs, Consts DEF PortalsFit, Target
<1>2. PICK n, o, q : n = NodeOf[t] /\ o = Target(t) /\ q = channel[o][n]
  OBVIOUS
<1>3. channel' = [channel EXCEPT ![o][n] = Append(q, m)] /\ UNCHANGED allows
  BY <1>2 DEF Send
<1>4. Append(q, m) \in Seq(Header \cup Piece)
  <2>1. q \in Seq(Header \cup Piece)
    BY <1>1, <1>2 DEF MailFits
  <2>. QED  BY <2>1, AppendFits, Zenon
<1>. QED  BY <1>1, <1>2, <1>3, <1>4 DEF MailFits

LEMMA ReceiveFits ==
    ASSUME PortalsFit, NEW t \in Thread, Receive(t), Incoming(t) # <<>>, UNCHANGED allows, pc[t] \in RemoteReads
    PROVE  MailFits'
<1>1. NodeOf[t] \in Node /\ Remote(t) \in Node /\ MailFits /\ Incoming(t) \in Seq(Header \cup Piece)
  BY RemoteFits DEF PortalsFit
<1>2. PICK n, o, q, r : n = NodeOf[t] /\ o = Remote(t) /\ q = channel[n][o] /\ r = Tail(q)
  OBVIOUS
<1>3. channel' = [channel EXCEPT ![n][o] = r] /\ UNCHANGED allows
  BY <1>2 DEF Receive
<1>4. r \in Seq(Header \cup Piece)
  BY <1>1, <1>2, HeadFits DEF Incoming
<1>. QED  BY <1>1, <1>2, <1>3, <1>4 DEF MailFits

LEMMA NextUnit == ASSUME NEW z \in Nat, NEW y \in 1 .. z PROVE (z - y) + 1 \in Nat
OBVIOUS

\* What a writer sends.
LEMMA SentFits ==
    ASSUME PortalsFit, NEW t \in Thread, pc[t] = "send header" \/ pc[t] = "send"
    PROVE  /\ [from |-> Config(t).from, to |-> Config(t).to[2]] \in Header
           /\ \A b \in BOOLEAN : [unit |-> <<call[t].msg, Written(t) + 1>>, eof |-> b] \in Piece
<1>1. PICK k : k = call[t].msg
  OBVIOUS
<1>2. k \in 1 .. Len(log) /\ call[t].size \in Nat /\ call[t].left \in 1 .. call[t].size
  BY <1>1 DEF PortalsFit, CallsFit, CallFits, Writing, RemoteWrites
<1>3. log \in Seq(Entry)
  BY DEF PortalsFit, TablesFit
<1>4. log[k] \in Entry /\ k \in Nat
  <2>. QED  BY <1>2, <1>3, ItemFits, Zenon
<1>5. PICK e : e = log[k]
  OBVIOUS
<1>6. e.from \in Peer /\ e.to[2] \in Port
  BY <1>4, <1>5, PeerIs DEF Entry
<1>7. [from |-> e.from, to |-> e.to[2]] \in Header
  BY <1>6 DEF Header
<1>8. PICK w : w = Written(t) + 1
  OBVIOUS
<1>9. w \in Nat
  <2>1. (call[t].size - call[t].left) + 1 \in Nat
    BY <1>2, NextUnit, Zenon
  <2>. QED  BY <1>8, <2>1, Zenon DEF Written
<1>10. \A b \in BOOLEAN : [unit |-> <<k, w>>, eof |-> b] \in Piece
  BY <1>4, <1>9 DEF Piece, Unit
<1>. QED  BY <1>1, <1>5, <1>7, <1>8, <1>10 DEF Config

LEMMA MailKept ==
    ASSUME PortalsFit, NEW t \in Thread, TableStep(t) \/ LocalStep(t) \/ ReadStep(t) \/ WriteStep(t)
    PROVE  MailFits'
<1>0. MailFits /\ NodeOf[t] \in Node
  BY Consts DEF PortalsFit
<1>1. CASE UNCHANGED mailboxVars
  BY <1>0, <1>1 DEF MailFits, mailboxVars
<1>2. CASE TableStep(t) \/ LocalStep(t)
  BY <1>1, <1>2, Frames DEF TableFrame
<1>3. CASE ReadStep(t)
  <2>1. CASE SendAllow(t)
    <3>1. PICK n, m, q : n = NodeOf[t] /\ m = Remote(t) /\ q = Append(allows[m], n)
      OBVIOUS
    <3>2. m \in Node /\ n \in Node
      BY <1>3, <3>1, Frames, RemoteFits
    <3>3. allows' = [allows EXCEPT ![m] = q] /\ UNCHANGED channel
      BY <2>1, <3>1 DEF SendAllow
    <3>4. q \in Seq(Node)
      <4>1. allows[m] \in Seq(Node)
        BY <1>0, <3>2 DEF MailFits
      <4>. QED  BY <3>1, <3>2, <4>1, AppendFits, Zenon
    <3>. QED  BY <1>0, <3>2, <3>3, <3>4 DEF MailFits
  <2>2. CASE ReadHeader(t) \/ ReadPiece(t) \/ KeepPiece(t) \/ Drop(t)
    <3>1. Receive(t) /\ Incoming(t) # <<>> /\ UNCHANGED allows
      BY <2>2 DEF ReadHeader, ReadPiece, KeepPiece, Drop
    <3>. QED  BY <1>3, <3>1, Frames, ReceiveFits
  <2>3. CASE ~SendAllow(t) /\ ~(ReadHeader(t) \/ ReadPiece(t) \/ KeepPiece(t) \/ Drop(t))
    <3>1. UNCHANGED mailboxVars
      BY <1>3, <2>3 DEF ReadStep, Again, ReadBuffered, LockRead, LockedRead, CheckChannel, SetChannel,
        Validate, AllocFirst, AllocNext, Relock, FinishRead, ReleaseChannel, Exit, ReadError, TableFrame
    <3>. QED  BY <1>1, <3>1
  <2>. QED  BY <2>1, <2>2, <2>3
<1>4. CASE WriteStep(t)
  <2>0. pc[t] \in RemoteWrites
    BY <1>4, Frames
  <2>1. CASE ReceiveAllow(t)
    <3>1. PICK n, q : n = NodeOf[t] /\ q = Tail(allows[n])
      OBVIOUS
    <3>2. allows' = [allows EXCEPT ![n] = q] /\ UNCHANGED channel /\ allows[n] # <<>>
      BY <2>1, <3>1 DEF ReceiveAllow
    <3>3. q \in Seq(Node)
      <4>1. allows[n] \in Seq(Node)
        BY <1>0, <3>1 DEF MailFits
      <4>. QED  BY <3>1, <3>2, <4>1, HeadFits
    <3>. QED  BY <1>0, <3>1, <3>2, <3>3 DEF MailFits
  <2>2. CASE SendHeader(t)
    <3>1. PICK m \in Header : Send(t, m)
      BY <2>2, SentFits DEF SendHeader
    <3>. QED  BY <2>0, <3>1, SendFits
  <2>3. CASE SendPiece(t)
    <3>1. PICK m \in Piece : Send(t, m)
      BY <2>3, SentFits DEF SendPiece
    <3>. QED  BY <2>0, <3>1, SendFits
  <2>4. CASE ~ReceiveAllow(t) /\ ~SendHeader(t) /\ ~SendPiece(t)
    <3>1. UNCHANGED mailboxVars
      BY <1>4, <2>4 DEF WriteStep, TakeAllow, LockAllow, AllowError, LockWrite, WriteError
    <3>. QED  BY <1>1, <3>1
  <2>. QED  BY <2>1, <2>2, <2>3, <2>4
<1>. QED  BY <1>2, <1>3, <1>4

\* A step keeps the types.
LEMMA StepFits ==
    ASSUME PortalsFit, NEW t \in Thread, Client(t) \/ Step(t), UNCHANGED scene
    PROVE  PortalsFit' /\ Moves(t)
<1>1. Moves(t) /\ log' \in Seq(Entry)
  BY StepMoves
<1>2. TableStep(t) \/ LocalStep(t) \/ ReadStep(t) \/ WriteStep(t)
  BY Groups
<1>3. TablesFit'
  <2>1. CASE TableStep(t)
    BY <2>1, TablesKept
  <2>2. CASE ~TableStep(t)
    <3>1. UNCHANGED tableVars
      BY <1>2, <2>2, Frames
    <3>. QED  BY <1>1, <3>1 DEF PortalsFit, TablesFit, tableVars
  <2>. QED  BY <2>1, <2>2
<1>. QED  BY <1>1, <1>2, <1>3, LocksKept, MailKept, CallsKept DEF PortalsFit

-----------------------------------------------------------------------------
\* What a step of t leaves of the others, and of its own call.
LEMMA MovesOther ==
    ASSUME PortalsFit, NEW t \in Thread, Moves(t), NEW u \in Thread \ {t}
    PROVE  pc'[u] = pc[u] /\ call'[u] = call[u]
BY DEF Moves, PortalsFit, CallsFit

LEMMA StaysAlike ==
    ASSUME NEW t \in Thread, Moves(t), pc[t] # "idle", pc'[t] # "idle"
    PROVE  Remote(t)' = Remote(t) /\ Target(t)' = Target(t) /\ call'[t].port = call[t].port
BY DEF Moves, Alike, Remote, Target

\* A lock of a node, and the step that t takes with it.
LEMMA LockKept ==
    ASSUME PortalsFit, NEW t \in Thread, Moves(t), NEW n \in Node, NEW old, NEW new, NEW places,
           HeldBy(old, n, places), old \in Thread \cup {NoThread},
           new = old \/ new = NoThread \/ new = t,
           new = t => NodeOf[t] = n /\ pc'[t] \in places
    PROVE  new # NoThread => NodeOf[new] = n /\ pc'[new] \in places
<1>1. CASE new = t
  BY <1>1
<1>2. CASE new # t /\ new # NoThread
  <2>1. new = old /\ new \in Thread \ {t}
    BY <1>2
  <2>2. pc'[new] = pc[new]
    BY <2>1, MovesOther
  <2>. QED  BY <1>2, <2>1, <2>2 DEF HeldBy
<1>. QED  BY <1>1, <1>2

LEMMA LocalKept ==
    ASSUME PortalsFit, LocalHeld, NEW t \in Thread, Moves(t),
           TableStep(t) \/ LocalStep(t) \/ ReadStep(t) \/ WriteStep(t)
    PROVE  LocalHeld'
<1>. DEFINE places == {"write local", "publish"}
<1>0. PICK o : o = NodeOf[t] /\ o \in Node
  BY Consts
<1>1. LocksFit /\ pc \in [Thread -> PCs]
  BY DEF PortalsFit, CallsFit
<1>2. localLock[o] = t => pc[t] \in places
  BY <1>0, Consts DEF LocalHeld, HeldBy
<1>3. /\ localLock' = localLock \/ localLock' = [localLock EXCEPT ![o] = t] \/ localLock' = [localLock EXCEPT ![o] = NoThread]
      /\ localLock'[o] = t => pc'[t] \in places
  <2>1. CASE LocalStep(t)
    <3>1. CASE WriteLocal(t)
      <4>1. localLock' = [localLock EXCEPT ![o] = t] /\ pc' = [pc EXCEPT ![t] = IF call[t].left = Min({call[t].left, MPORTAL_BUFFER_SIZE}) THEN "publish" ELSE "write local"]
        BY <1>0, <3>1 DEF WriteLocal, Goto
      <4>. QED  BY <1>1, <4>1
    <3>2. CASE WriteLocalYield(t) \/ Publish(t)
      <4>1. localLock' = [localLock EXCEPT ![o] = NoThread]
        BY <1>0, <3>2 DEF WriteLocalYield, Publish
      <4>2. localLock'[o] # t
        BY <1>0, <1>1, <4>1, Consts DEF LocksFit
      <4>. QED  BY <4>1, <4>2
    <3>3. CASE ReadLocal(t)
      <4>1. localLock' = localLock /\ localLock[o] = NoThread
        BY <1>0, <3>3 DEF ReadLocal, ReadFrame
      <4>. QED  BY <4>1, Consts
    <3>. QED  BY <2>1, <3>1, <3>2, <3>3 DEF LocalStep
  <2>2. CASE ~LocalStep(t)
    <3>1. UNCHANGED localLock
      BY <2>2, Frames DEF TableFrame
    <3>2. pc[t] \notin places
      BY <2>2, Frames DEF RemoteReads, RemoteWrites, Channels
    <3>. QED  BY <1>2, <3>1, <3>2
  <2>. QED  BY <2>1, <2>2
<1>4. ASSUME NEW n \in Node
      PROVE  localLock'[n] # NoThread => NodeOf[localLock'[n]] = n /\ pc'[localLock'[n]] \in places
  <2>1. HeldBy(localLock[n], n, places) /\ localLock[n] \in Thread \cup {NoThread}
    BY <1>1 DEF LocalHeld, LocksFit
  <2>2. localLock'[n] = localLock[n] \/ (n = o /\ (localLock'[n] = NoThread \/ localLock'[n] = t))
    BY <1>0, <1>1, <1>3 DEF LocksFit
  <2>3. localLock'[n] = t => NodeOf[t] = n /\ pc'[t] \in places
    <3>1. CASE n = o
      BY <1>0, <1>3, <3>1
    <3>2. CASE n # o
      BY <1>0, <2>1, <2>2, <3>2, Consts DEF HeldBy
    <3>. QED  BY <3>1, <3>2
  <2>. HIDE DEF places
  <2>. QED  BY <2>1, <2>2, <2>3, LockKept
<1>. QED  BY <1>4 DEF LocalHeld, HeldBy

LEMMA AllowKept ==
    ASSUME PortalsFit, AllowHeld, NEW t \in Thread, Moves(t),
           TableStep(t) \/ LocalStep(t) \/ ReadStep(t) \/ WriteStep(t)
    PROVE  AllowHeld'
<1>. DEFINE places == {"read allow"}
<1>0. PICK o : o = NodeOf[t] /\ o \in Node
  BY Consts
<1>1. LocksFit /\ pc \in [Thread -> PCs]
  BY DEF PortalsFit, CallsFit
<1>2. allowLock[o] = t => pc[t] \in places
  BY <1>0, Consts DEF AllowHeld, HeldBy
<1>3. /\ allowLock' = allowLock \/ allowLock' = [allowLock EXCEPT ![o] = t] \/ allowLock' = [allowLock EXCEPT ![o] = NoThread]
      /\ allowLock'[o] = t => pc'[t] \in places
  <2>1. CASE WriteStep(t)
    <3>1. CASE LockAllow(t)
      BY <1>0, <1>1, <3>1 DEF LockAllow, Goto
    <3>2. CASE ReceiveAllow(t) \/ AllowError(t)
      <4>1. allowLock' = [allowLock EXCEPT ![o] = NoThread]
        BY <1>0, <3>2 DEF ReceiveAllow, AllowError
      <4>2. allowLock'[o] # t
        BY <1>0, <1>1, <4>1, Consts DEF LocksFit
      <4>. QED  BY <4>1, <4>2
    <3>3. CASE TakeAllow(t) \/ LockWrite(t) \/ SendHeader(t) \/ SendPiece(t) \/ WriteError(t)
      <4>1. allowLock' = allowLock /\ pc[t] # "read allow"
        BY <3>3 DEF TakeAllow, LockWrite, SendHeader, SendPiece, WriteError, writeVars
      <4>. QED  BY <1>2, <4>1
    <3>. QED  BY <2>1, <3>1, <3>2, <3>3 DEF WriteStep
  <2>2. CASE ~WriteStep(t)
    <3>1. UNCHANGED allowLock
      BY <2>2, Frames DEF TableFrame, writeVars
    <3>2. pc[t] \notin places
      BY <2>2, Frames DEF RemoteReads, Channels
    <3>. QED  BY <1>2, <3>1, <3>2
  <2>. QED  BY <2>1, <2>2
<1>4. ASSUME NEW n \in Node
      PROVE  allowLock'[n] # NoThread => NodeOf[allowLock'[n]] = n /\ pc'[allowLock'[n]] \in places
  <2>1. HeldBy(allowLock[n], n, places) /\ allowLock[n] \in Thread \cup {NoThread}
    BY <1>1 DEF AllowHeld, LocksFit
  <2>2. allowLock'[n] = allowLock[n] \/ (n = o /\ (allowLock'[n] = NoThread \/ allowLock'[n] = t))
    BY <1>0, <1>1, <1>3 DEF LocksFit
  <2>3. allowLock'[n] = t => NodeOf[t] = n /\ pc'[t] \in places
    <3>1. CASE n = o
      BY <1>0, <1>3, <3>1
    <3>2. CASE n # o
      BY <1>0, <2>1, <2>2, <3>2, Consts DEF HeldBy
    <3>. QED  BY <3>1, <3>2
  <2>. HIDE DEF places
  <2>. QED  BY <2>1, <2>2, <2>3, LockKept
<1>. QED  BY <1>4 DEF AllowHeld, HeldBy

Going == Channels \cup {"panic"}

\* What a step of a reader does to its lock and its channel.
LEMMA ReadLocks ==
    ASSUME PortalsFit, NEW t \in Thread, Moves(t), ReadStep(t), NEW o, NEW r, o = NodeOf[t], r = Remote(t)
    PROVE  /\ \/ readLock' = readLock /\ (pc[t] \in Locking => pc'[t] \in Locking)
              \/ readLock' = [readLock EXCEPT ![o][r] = t] /\ pc'[t] \in Locking
              \/ readLock' = [readLock EXCEPT ![o][r] = NoThread]
           /\ \/ reading' = reading /\ (pc[t] \in Going => pc'[t] \in Going)
              \/ reading' = [reading EXCEPT ![o] = @ \cup {r}] /\ pc'[t] \in Going
              \/ reading' = [reading EXCEPT ![o] = @ \ {r}]
           /\ pc'[t] # "idle"
<1>0. pc \in [Thread -> PCs]
  BY DEF PortalsFit, CallsFit
<1>1. CASE Again(t) \/ ReadBuffered(t)
  <2>1. UNCHANGED <<readLock, reading>> /\ pc[t] = "again" /\ (\E x \in {"again", "exit", "lock"} : pc'[t] = x)
    BY <1>0, <1>1 DEF Again, ReadBuffered, TakeAvailable, Goto, TableFrame, readVars
  <2>. QED  BY <2>1 DEF Locking, Going, Channels
<1>2. CASE LockRead(t)
  <2>1. readLock' = [readLock EXCEPT ![o][r] = t] /\ UNCHANGED reading /\ pc[t] = "lock" /\ pc'[t] = "locked"
    BY <1>0, <1>2 DEF LockRead, Goto
  <2>. QED  BY <2>1 DEF Locking, Going, Channels
<1>3. CASE LockedRead(t)
  <2>1. UNCHANGED <<readLock, reading>> /\ pc[t] = "locked" /\ (\E x \in {"exit", "check"} : pc'[t] = x)
    BY <1>0, <1>3 DEF LockedRead, TakeAvailable, Goto, readVars
  <2>. QED  BY <2>1 DEF Locking, Going, Channels
<1>4. CASE CheckChannel(t)
  <2>1. /\ UNCHANGED reading /\ pc[t] = "check"
        /\ \/ readLock' = [readLock EXCEPT ![o][r] = NoThread] /\ pc'[t] = "lock"
           \/ readLock' = readLock /\ pc'[t] = "set"
    BY <1>0, <1>4 DEF CheckChannel, Goto
  <2>. QED  BY <2>1 DEF Locking, Going, Channels
<1>5. CASE SetChannel(t)
  <2>1. /\ reading' = [reading EXCEPT ![o] = @ \cup {r}] /\ UNCHANGED readLock /\ pc[t] = "set" /\ pc'[t] = "allow"
    BY <1>0, <1>5 DEF SetChannel, Goto
  <2>. QED  BY <2>1 DEF Locking, Going, Channels
<1>6. CASE SendAllow(t) \/ ReadHeader(t) \/ Validate(t) \/ AllocFirst(t)
  <2>1. /\ UNCHANGED <<readLock, reading>>
        /\ \E x \in {"header", "validate", "panic", "drop", "alloc", "piece"} : pc'[t] = x
    BY <1>0, <1>6 DEF SendAllow, ReadHeader, Validate, AllocFirst, Goto, WriteFrame, TableFrame, readVars
  <2>. QED  BY <2>1 DEF Locking, Going, Channels
<1>7. CASE ReadPiece(t) \/ Drop(t) \/ FinishRead(t) \/ ReadError(t)
  <2>1. /\ UNCHANGED <<readLock, reading>>
        /\ \E x \in {"finish", "panic", "drop", "piece", "release"} : pc'[t] = x
    BY <1>0, <1>7 DEF ReadPiece, Drop, FinishRead, ReadError, AfterPiece, Goto, WriteFrame, TableFrame, readVars
  <2>. QED  BY <2>1 DEF Locking, Going, Channels
<1>8. CASE KeepPiece(t)
  <2>1. /\ UNCHANGED reading
        /\ \/ readLock' = [readLock EXCEPT ![o][r] = NoThread] /\ pc'[t] = "more"
           \/ readLock' = readLock /\ \E x \in {"finish", "panic", "piece"} : pc'[t] = x
    BY <1>0, <1>8 DEF KeepPiece, Goto, AfterPiece
  <2>. QED  BY <2>1 DEF Locking, Going, Channels
<1>9. CASE AllocNext(t)
  <2>1. UNCHANGED <<readLock, reading>> /\ pc[t] = "more" /\ pc'[t] = "relock"
    BY <1>0, <1>9 DEF AllocNext, Goto, readVars
  <2>. QED  BY <2>1 DEF Locking, Going, Channels
<1>10. CASE Relock(t)
  <2>1. readLock' = [readLock EXCEPT ![o][r] = t] /\ UNCHANGED reading /\ \E x \in {"finish", "piece"} : pc'[t] = x
    BY <1>0, <1>10 DEF Relock, Goto, AfterPiece
  <2>. QED  BY <2>1 DEF Locking, Going, Channels
<1>11. CASE ReleaseChannel(t)
  <2>1. reading' = [reading EXCEPT ![o] = @ \ {r}] /\ UNCHANGED readLock /\ pc'[t] = "exit"
    BY <1>0, <1>11 DEF ReleaseChannel, Goto
  <2>. QED  BY <2>1 DEF Locking, Going, Channels
<1>12. CASE Exit(t)
  <2>1. readLock' = [readLock EXCEPT ![o][r] = NoThread] /\ UNCHANGED reading /\ pc[t] = "exit" /\ \E x \in {"again", "read end"} : pc'[t] = x
    BY <1>0, <1>12 DEF Exit, Goto
  <2>. QED  BY <2>1 DEF Locking, Going, Channels
<1>. QED  BY <1>1, <1>2, <1>3, <1>4, <1>5, <1>6, <1>7, <1>8, <1>9, <1>10, <1>11, <1>12 DEF ReadStep

LEMMA ReadKept ==
    ASSUME PortalsFit, ReadHeld, NEW t \in Thread, Moves(t),
           TableStep(t) \/ LocalStep(t) \/ ReadStep(t) \/ WriteStep(t)
    PROVE  ReadHeld'
<1>0. PICK o : o = NodeOf[t] /\ o \in Node
  BY Consts
<1>1. LocksFit /\ pc \in [Thread -> PCs]
  BY DEF PortalsFit, CallsFit
<1>2. \A n, m \in Node : readLock[n][m] = t => n = o /\ pc[t] \in Locking /\ Remote(t) = m
  BY <1>0, Consts DEF ReadHeld, HeldBy
<1>3. \A n, m \in Node : /\ readLock'[n][m] = readLock[n][m] \/ readLock'[n][m] = NoThread \/ readLock'[n][m] = t
                         /\ readLock'[n][m] = t => n = o /\ pc'[t] \in Locking /\ Remote(t)' = m
  <2>1. CASE ReadStep(t)
    <3>1. PICK r : r = Remote(t)
      OBVIOUS
    <3>2. r \in Node /\ pc[t] # "idle"
      <4>1. pc[t] \in RemoteReads /\ "idle" \notin RemoteReads
        BY <2>1, Frames DEF RemoteReads, Channels
      <4>. QED  BY <3>1, <4>1, RemoteFits
    <3>3. /\ \/ readLock' = readLock /\ (pc[t] \in Locking => pc'[t] \in Locking)
             \/ readLock' = [readLock EXCEPT ![o][r] = t] /\ pc'[t] \in Locking
             \/ readLock' = [readLock EXCEPT ![o][r] = NoThread]
          /\ pc'[t] # "idle"
      BY <1>0, <2>1, <3>1, ReadLocks
    <3>4. Remote(t)' = r
      BY <3>1, <3>2, <3>3, StaysAlike
    <3>5. readLock \in [Node -> [Node -> Thread \cup {NoThread}]]
      BY <1>1 DEF LocksFit
    <3>. HIDE DEF Locking
    <3>6. CASE readLock' = readLock /\ (pc[t] \in Locking => pc'[t] \in Locking)
      BY <1>2, <3>1, <3>4, <3>6
    <3>7. CASE readLock' = [readLock EXCEPT ![o][r] = t] /\ pc'[t] \in Locking
      BY <1>0, <1>2, <3>1, <3>2, <3>4, <3>5, <3>7
    <3>8. CASE readLock' = [readLock EXCEPT ![o][r] = NoThread]
      BY <1>0, <1>2, <3>1, <3>2, <3>4, <3>5, <3>8, Consts
    <3>. QED  BY <3>3, <3>6, <3>7, <3>8
  <2>2. CASE ~ReadStep(t)
    <3>1. UNCHANGED readLock
      BY <2>2, Frames DEF TableFrame, readVars
    <3>2. pc[t] \notin Locking
      BY <2>2, Frames DEF RemoteWrites, Locking
    <3>. QED  BY <1>2, <3>1, <3>2
  <2>. QED  BY <2>1, <2>2
<1>4. ASSUME NEW n \in Node, NEW m \in Node, readLock'[n][m] # NoThread
      PROVE  /\ NodeOf[readLock'[n][m]] = n /\ pc'[readLock'[n][m]] \in Locking
             /\ Remote(readLock[n][m])' = m
  <2>1. PICK u : u = readLock'[n][m]
    OBVIOUS
  <2>2. CASE u = t
    BY <1>0, <1>3, <2>1, <2>2 DEF Remote
  <2>3. CASE u # t
    <3>1. u = readLock[n][m] /\ u \in Thread \ {t}
      BY <1>1, <1>3, <1>4, <2>1, <2>3 DEF LocksFit
    <3>2. pc'[u] = pc[u] /\ call'[u] = call[u]
      BY <3>1, MovesOther
    <3>3. NodeOf[u] = n /\ pc[u] \in Locking /\ Remote(u) = m
      BY <1>4, <2>1, <3>1 DEF ReadHeld, HeldBy
    <3>. QED  BY <2>1, <3>2, <3>3 DEF Remote
  <2>. QED  BY <2>2, <2>3
<1>. QED  BY <1>4 DEF ReadHeld, HeldBy

LEMMA WriteKept ==
    ASSUME PortalsFit, WriteHeld, NEW t \in Thread, Moves(t),
           TableStep(t) \/ LocalStep(t) \/ ReadStep(t) \/ WriteStep(t)
    PROVE  WriteHeld'
<1>0. PICK o : o = NodeOf[t] /\ o \in Node
  BY Consts
<1>1. LocksFit /\ pc \in [Thread -> PCs]
  BY DEF PortalsFit, CallsFit
<1>2. \A n, m \in Node : writeLock[n][m] = t => n = o /\ pc[t] \in SendPlaces /\ Target(t) = m
  BY <1>0, Consts DEF WriteHeld, HeldBy
<1>3. \A n, m \in Node : /\ writeLock'[n][m] = writeLock[n][m] \/ writeLock'[n][m] = NoThread \/ writeLock'[n][m] = t
                         /\ writeLock'[n][m] = t => n = o /\ pc'[t] \in SendPlaces /\ Target(t)' = m
  <2>1. CASE WriteStep(t)
    <3>1. PICK r : r = Target(t)
      OBVIOUS
    <3>2. r \in Node /\ pc[t] # "idle"
      <4>1. pc[t] \in RemoteWrites
        BY <2>1, Frames
      <4>2. call[t].port \in Peer
        BY <4>1 DEF PortalsFit, CallsFit, CallFits, Writing
      <4>. QED  BY <3>1, <4>1, <4>2, PeerIs DEF Target, RemoteWrites
    <3>3. /\ \/ writeLock' = writeLock /\ (pc[t] \in SendPlaces => pc'[t] \in SendPlaces)
             \/ writeLock' = [writeLock EXCEPT ![o][r] = t] /\ pc'[t] \in SendPlaces
             \/ writeLock' = [writeLock EXCEPT ![o][r] = NoThread]
          /\ pc'[t] # "idle"
      <4>1. CASE LockWrite(t)
        <5>1. writeLock' = [writeLock EXCEPT ![o][r] = t] /\ pc'[t] = "send header"
          BY <1>0, <1>1, <3>1, <4>1 DEF LockWrite, Goto
        <5>. QED  BY <5>1 DEF SendPlaces
      <4>2. CASE SendHeader(t)
        <5>1. writeLock' = writeLock /\ pc'[t] = "send"
          BY <1>1, <4>2 DEF SendHeader, Goto, writeVars
        <5>. QED  BY <5>1 DEF SendPlaces
      <4>3. CASE SendPiece(t)
        <5>1. \/ writeLock' = [writeLock EXCEPT ![o][r] = NoThread] /\ pc'[t] = "write end"
              \/ writeLock' = writeLock /\ pc'[t] = pc[t] /\ pc[t] = "send"
          BY <1>0, <1>1, <3>1, <4>3 DEF SendPiece, Goto
        <5>. QED  BY <5>1 DEF SendPlaces
      <4>4. CASE WriteError(t)
        <5>1. writeLock' = [writeLock EXCEPT ![o][r] = NoThread] /\ pc'[t] = "write end"
          BY <1>0, <1>1, <3>1, <4>4 DEF WriteError, Goto
        <5>. QED  BY <5>1 DEF SendPlaces
      <4>5. CASE TakeAllow(t) \/ LockAllow(t) \/ ReceiveAllow(t) \/ AllowError(t)
        <5>1. writeLock' = writeLock /\ (\E x \in {"wait allow", "read allow"} : pc[t] = x)
          BY <4>5 DEF TakeAllow, LockAllow, ReceiveAllow, AllowError
        <5>2. \E x \in {"lock write", "read allow", "wait allow", "write end"} : pc'[t] = x
          BY <1>1, <4>5 DEF TakeAllow, LockAllow, ReceiveAllow, AllowError, Goto
        <5>. QED  BY <5>1, <5>2 DEF SendPlaces
      <4>. QED  BY <2>1, <4>1, <4>2, <4>3, <4>4, <4>5 DEF WriteStep
    <3>4. Target(t)' = r
      BY <3>1, <3>2, <3>3, StaysAlike
    <3>5. writeLock \in [Node -> [Node -> Thread \cup {NoThread}]]
      BY <1>1 DEF LocksFit
    <3>6. CASE writeLock' = writeLock /\ (pc[t] \in SendPlaces => pc'[t] \in SendPlaces)
      BY <1>2, <3>1, <3>4, <3>6
    <3>7. CASE writeLock' = [writeLock EXCEPT ![o][r] = t] /\ pc'[t] \in SendPlaces
      BY <1>0, <1>2, <3>1, <3>2, <3>4, <3>5, <3>7
    <3>8. CASE writeLock' = [writeLock EXCEPT ![o][r] = NoThread]
      BY <1>0, <1>2, <3>1, <3>2, <3>4, <3>5, <3>8, Consts
    <3>. QED  BY <3>3, <3>6, <3>7, <3>8
  <2>2. CASE ~WriteStep(t)
    <3>1. UNCHANGED writeLock
      BY <2>2, Frames DEF TableFrame, writeVars
    <3>2. pc[t] \notin SendPlaces
      BY <2>2, Frames DEF RemoteReads, Channels, SendPlaces
    <3>. QED  BY <1>2, <3>1, <3>2
  <2>. QED  BY <2>1, <2>2
<1>4. ASSUME NEW n \in Node, NEW m \in Node, writeLock'[n][m] # NoThread
      PROVE  /\ NodeOf[writeLock'[n][m]] = n /\ pc'[writeLock'[n][m]] \in SendPlaces
             /\ Target(writeLock[n][m])' = m
  <2>1. PICK u : u = writeLock'[n][m]
    OBVIOUS
  <2>2. CASE u = t
    BY <1>0, <1>3, <2>1, <2>2 DEF Target
  <2>3. CASE u # t
    <3>1. u = writeLock[n][m] /\ u \in Thread \ {t}
      BY <1>1, <1>3, <1>4, <2>1, <2>3 DEF LocksFit
    <3>2. pc'[u] = pc[u] /\ call'[u] = call[u]
      BY <3>1, MovesOther
    <3>3. NodeOf[u] = n /\ pc[u] \in SendPlaces /\ Target(u) = m
      BY <1>4, <2>1, <3>1 DEF WriteHeld, HeldBy
    <3>. QED  BY <2>1, <3>2, <3>3 DEF Target
  <2>. QED  BY <2>2, <2>3
<1>. QED  BY <1>4 DEF WriteHeld, HeldBy

LEMMA ChannelKept ==
    ASSUME PortalsFit, ChannelHeld, NEW t \in Thread, Moves(t),
           TableStep(t) \/ LocalStep(t) \/ ReadStep(t) \/ WriteStep(t)
    PROVE  ChannelHeld'
<1>0. PICK o : o = NodeOf[t] /\ o \in Node
  BY Consts
<1>1. LocksFit
  BY DEF PortalsFit
<1>2. ASSUME NEW n \in Node, NEW m \in reading[n],
             n = o /\ Remote(t) = m => (pc'[t] \in Going /\ Remote(t)' = m) \/ pc[t] \notin Going
      PROVE  \E u \in Thread : NodeOf[u] = n /\ pc'[u] \in Going /\ Remote(u)' = m
  <2>1. PICK u \in Thread : NodeOf[u] = n /\ pc[u] \in Going /\ Remote(u) = m
    BY DEF ChannelHeld, Going
  <2>2. CASE u = t
    BY <1>0, <1>2, <2>1, <2>2
  <2>3. CASE u # t
    <3>1. pc'[u] = pc[u] /\ call'[u] = call[u]
      BY <2>3, MovesOther
    <3>2. Remote(u)' = Remote(u)
      BY <3>1 DEF Remote
    <3>. QED  BY <2>1, <3>1, <3>2
  <2>. QED  BY <2>2, <2>3
<1>3. ASSUME NEW n \in Node, NEW m \in reading'[n]
      PROVE  \E u \in Thread : NodeOf[u] = n /\ pc'[u] \in Going /\ Remote(u)' = m
  <2>1. CASE ReadStep(t)
    <3>1. PICK r : r = Remote(t)
      OBVIOUS
    <3>2. r \in Node /\ pc[t] # "idle"
      <4>1. pc[t] \in RemoteReads /\ "idle" \notin RemoteReads
        BY <2>1, Frames DEF RemoteReads, Channels
      <4>. QED  BY <3>1, <4>1, RemoteFits
    <3>3. /\ \/ reading' = reading /\ (pc[t] \in Going => pc'[t] \in Going)
             \/ reading' = [reading EXCEPT ![o] = @ \cup {r}] /\ pc'[t] \in Going
             \/ reading' = [reading EXCEPT ![o] = @ \ {r}]
          /\ pc'[t] # "idle"
      BY <1>0, <2>1, <3>1, ReadLocks
    <3>4. Remote(t)' = r
      BY <3>1, <3>2, <3>3, StaysAlike
    <3>5. reading \in [Node -> SUBSET Node]
      BY <1>1 DEF LocksFit
    <3>. HIDE DEF Going
    <3>6. CASE reading' = reading /\ (pc[t] \in Going => pc'[t] \in Going)
      BY <1>2, <1>3, <3>1, <3>4, <3>6
    <3>7. CASE reading' = [reading EXCEPT ![o] = @ \cup {r}] /\ pc'[t] \in Going
      <4>1. CASE n = o /\ m = r
        BY <1>0, <3>4, <3>7, <4>1
      <4>2. CASE ~(n = o /\ m = r)
        <5>1. m \in reading[n]
          BY <1>3, <3>5, <3>7, <4>2
        <5>. QED  BY <1>2, <3>1, <4>2, <5>1
      <4>. QED  BY <4>1, <4>2
    <3>8. CASE reading' = [reading EXCEPT ![o] = @ \ {r}]
      <4>1. m \in reading[n] /\ ~(n = o /\ m = r)
        BY <1>0, <1>3, <3>5, <3>8
      <4>. QED  BY <1>2, <3>1, <4>1
    <3>. QED  BY <3>3, <3>6, <3>7, <3>8
  <2>2. CASE ~ReadStep(t)
    <3>1. UNCHANGED reading
      BY <2>2, Frames DEF TableFrame, readVars
    <3>2. pc[t] \notin Going
      BY <2>2, Frames DEF RemoteWrites, Going, Channels
    <3>. QED  BY <1>2, <1>3, <3>1, <3>2
  <2>. QED  BY <2>1, <2>2
<1>. QED  BY <1>3 DEF ChannelHeld, Going

\* A portal is busy as long as the call that uses it.
LEMMA BusyStep ==
    ASSUME PortalsFit, NEW t \in Thread, Moves(t), NEW o, o = NodeOf[t],
           TableStep(t) \/ LocalStep(t) \/ ReadStep(t) \/ WriteStep(t)
    PROVE  /\ \/ /\ busyIn' = busyIn /\ (pc'[t] \in Reading <=> pc[t] \in Reading)
                 /\ pc[t] \in Reading => call'[t].port = call[t].port
              \/ /\ pc'[t] \in Reading /\ busyIn' = [busyIn EXCEPT ![o] = @ \cup {call'[t].port}] /\ pc[t] \notin Reading
                 /\ call'[t].port \notin busyIn[o]
              \/ pc[t] = "read end" /\ busyIn' = [busyIn EXCEPT ![o] = @ \ {call[t].port}] /\ pc'[t] \notin Reading
           /\ \/ /\ busyOut' = busyOut /\ (pc'[t] \in Writing <=> pc[t] \in Writing)
                 /\ pc[t] \in Writing => call'[t].port = call[t].port
              \/ /\ pc'[t] \in Writing /\ busyOut' = [busyOut EXCEPT ![o] = @ \cup {call'[t].port}] /\ pc[t] \notin Writing
                 /\ call'[t].port \notin busyOut[o]
              \/ pc[t] = "write end" /\ busyOut' = [busyOut EXCEPT ![o] = @ \ {call[t].port}] /\ pc'[t] \notin Writing
<1>0. pc \in [Thread -> PCs] /\ call = [u \in Thread |-> call[u]]
  BY DEF PortalsFit, CallsFit
<1>1. "idle" \notin Reading \cup Writing /\ "read end" \notin Writing /\ "write end" \notin Reading
  BY DEF Reading, RemoteReads, Channels, Writing, RemoteWrites
<1>2. CASE TableStep(t)
  <2>1. CASE ReadEnd(t)
    <3>1. pc[t] = "read end" /\ pc'[t] = "idle" /\ UNCHANGED busyOut /\ busyIn' = [busyIn EXCEPT ![o] = @ \ {call[t].port}]
      BY <1>0, <2>1 DEF ReadEnd, Goto
    <3>. QED  BY <1>1, <3>1, Zenon
  <2>2. CASE WriteEnd(t)
    <3>1. pc[t] = "write end" /\ pc'[t] = "idle" /\ UNCHANGED busyIn /\ busyOut' = [busyOut EXCEPT ![o] = @ \ {call[t].port}]
      BY <1>0, <2>2 DEF WriteEnd, Goto
    <3>. QED  BY <1>1, <3>1, Zenon
  <2>3. CASE \E p, s : ReadBegin(t, p, s)
    <3>1. PICK p, s : ReadBegin(t, p, s)
      BY <2>3
    <3>2. PICK f : f = allowed[NodeOf[t]][p]
      OBVIOUS
    <3>3. PICK c : c = [NoCall EXCEPT !.port = p, !.size = s, !.left = s, !.from = f]
      OBVIOUS
    <3>4. pc[t] = "idle" /\ UNCHANGED busyOut /\ busyIn' = [busyIn EXCEPT ![o] = @ \cup {p}] /\ call' = [call EXCEPT ![t] = c]
          /\ \E l \in {"read local", "again"} : pc' = [pc EXCEPT ![t] = l]
      BY <3>1, <3>2, <3>3 DEF ReadBegin, Goto
    <3>5. c.port = p
      BY <3>3 DEF NoCall
    <3>6. call'[t].port = p
      BY <1>0, <3>4, <3>5
    <3>7. pc'[t] \in Reading /\ pc'[t] \notin Writing
      BY <1>0, <3>4 DEF Reading, RemoteReads, Writing, RemoteWrites
    <3>8. p \notin busyIn[o]
      BY <3>1 DEF ReadBegin
    <3>. QED  BY <1>1, <3>4, <3>6, <3>7, <3>8
  <2>4. CASE \E q, s : WriteBegin(t, q, s)
    <3>1. PICK q, s : WriteBegin(t, q, s)
      BY <2>4
    <3>2. PICK k : k = Len(log) + 1
      OBVIOUS
    <3>3. PICK c : c = [NoCall EXCEPT !.port = q, !.size = s, !.left = s, !.msg = k]
      OBVIOUS
    <3>4. pc[t] = "idle" /\ UNCHANGED busyIn /\ busyOut' = [busyOut EXCEPT ![o] = @ \cup {q}] /\ call' = [call EXCEPT ![t] = c]
          /\ \E l \in {"write local", "wait allow"} : pc' = [pc EXCEPT ![t] = l]
      BY <3>1, <3>2, <3>3 DEF WriteBegin, Goto
    <3>5. c.port = q
      BY <3>3 DEF NoCall
    <3>6. call'[t].port = q
      BY <1>0, <3>4, <3>5
    <3>7. pc'[t] \in Writing /\ pc'[t] \notin Reading
      BY <1>0, <3>4 DEF Reading, RemoteReads, Channels, Writing, RemoteWrites
    <3>8. q \notin busyOut[o]
      BY <3>1 DEF WriteBegin
    <3>. QED  BY <1>1, <3>4, <3>6, <3>7, <3>8
  <2>5. CASE \E p, q, m : Create(t, p) \/ Unlink(t, p) \/ Allow(t, p, q) \/ Open(t, m, p) \/ Close(t, q)
    BY <1>1, <2>5, ZenonT(60) DEF Create, Unlink, Allow, Open, Close
  <2>. QED  BY <1>2, <2>1, <2>2, <2>3, <2>4, <2>5 DEF TableStep
<1>3. CASE LocalStep(t) \/ ReadStep(t) \/ WriteStep(t)
  <2>1. UNCHANGED <<busyIn, busyOut>>
    BY <1>3, Frames DEF tableVars
  <2>2. pc[t] # "idle" /\ pc'[t] # "idle"
    <3>1. CASE LocalStep(t)
      BY <1>0, <3>1, ZenonT(60) DEF LocalStep, WriteLocal, WriteLocalYield, Publish, ReadLocal, TakeAvailable, Goto
    <3>2. CASE ReadStep(t)
      BY <3>2, Frames, ReadLocks DEF RemoteReads, Channels
    <3>3. CASE WriteStep(t)
      <4>1. pc[t] # "idle"
        BY <3>3, Frames DEF RemoteWrites
      <4>2. pc'[t] # "idle"
        BY <1>0, <3>3 DEF WriteStep, TakeAllow, LockAllow, ReceiveAllow, AllowError, LockWrite, SendHeader, SendPiece, WriteError, Goto
      <4>. QED  BY <4>1, <4>2
    <3>. QED  BY <1>3, <3>1, <3>2, <3>3
  <2>3. call'[t].port = call[t].port /\ call'[t].from = call[t].from
    BY <2>2 DEF Moves, Alike
  <2>4. CallFits(pc[t], call[t], NodeOf[t], Len(log)) /\ CallFits(pc'[t], call'[t], NodeOf[t], Len(log'))
    BY DEF Moves, PortalsFit, CallsFit
  <2>5. /\ pc[t] \in Reading <=> call[t].from \in Peer
        /\ pc'[t] \in Reading <=> call'[t].from \in Peer
    <3>1. \A l, c, n, k : CallFits(l, c, n, k) /\ l # "idle" => (l \in Reading <=> c.from \in Peer)
      <4>1. PCs \ {"idle"} \subseteq Reading \cup Writing
        BY DEF PCs, Reading, RemoteReads, Channels, Writing, RemoteWrites
      <4>. QED  BY <4>1, Consts DEF CallFits
    <3>. QED  BY <2>2, <2>4, <3>1
  <2>6. /\ pc[t] \in Writing <=> call[t].from = None
        /\ pc'[t] \in Writing <=> call'[t].from = None
    <3>1. \A l, c, n, k : CallFits(l, c, n, k) /\ l # "idle" => (l \in Writing <=> c.from = None)
      <4>1. PCs \ {"idle"} \subseteq Reading \cup Writing
        BY DEF PCs, Reading, RemoteReads, Channels, Writing, RemoteWrites
      <4>. QED  BY <4>1, Consts DEF CallFits
    <3>. QED  BY <2>2, <2>4, <3>1
  <2>. QED  BY <2>1, <2>3, <2>5, <2>6
<1>. QED  BY <1>2, <1>3

LEMMA BusyKept ==
    ASSUME PortalsFit, BusyHeld, NEW t \in Thread, Moves(t),
           TableStep(t) \/ LocalStep(t) \/ ReadStep(t) \/ WriteStep(t)
    PROVE  BusyHeld'
<1>0. PICK o : o = NodeOf[t] /\ o \in Node
  BY Consts
<1>1. TablesFit /\ "read end" \in Reading /\ "write end" \in Writing
  BY DEF PortalsFit, Reading, Writing
<1>2. ASSUME NEW n \in Node, NEW p \in busyIn'[n]
      PROVE  \E u \in Thread : NodeOf[u] = n /\ pc'[u] \in Reading /\ call'[u].port = p
  <2>1. CASE p \in busyIn[n]
    <3>1. PICK u \in Thread : NodeOf[u] = n /\ pc[u] \in Reading /\ call[u].port = p
      BY <2>1 DEF BusyHeld
    <3>2. CASE u # t
      <4>1. pc'[u] = pc[u] /\ call'[u] = call[u]
        BY <3>2, MovesOther
      <4>. QED  BY <3>1, <4>1
    <3>3. CASE u = t
      <4>1. \/ pc[t] \in Reading => pc'[t] \in Reading /\ call'[t].port = call[t].port
            \/ pc[t] \notin Reading
            \/ busyIn' = [busyIn EXCEPT ![o] = @ \ {call[t].port}]
        BY <1>0, BusyStep
      <4>2. busyIn' = [busyIn EXCEPT ![o] = @ \ {call[t].port}] => p \notin busyIn'[n]
        <5>1. n = o /\ p = call[t].port /\ n \in DOMAIN busyIn
          BY <1>0, <1>1, <3>1, <3>3 DEF TablesFit
        <5>. QED  BY <5>1, Zenon
      <4>. QED  BY <1>2, <3>1, <3>3, <4>1, <4>2
    <3>. QED  BY <3>2, <3>3
  <2>2. CASE p \notin busyIn[n]
    <3>1. pc'[t] \in Reading /\ busyIn' = [busyIn EXCEPT ![o] = @ \cup {call'[t].port}]
      <4>1. busyIn' # busyIn /\ busyIn' # [busyIn EXCEPT ![o] = @ \ {call[t].port}]
        BY <1>0, <1>1, <1>2, <2>2 DEF TablesFit
      <4>. QED  BY <1>0, <4>1, BusyStep
    <3>2. n = o /\ p = call'[t].port
      BY <1>0, <1>1, <1>2, <2>2, <3>1 DEF TablesFit
    <3>. QED  BY <1>0, <3>1, <3>2
  <2>. QED  BY <2>1, <2>2
<1>3. ASSUME NEW n \in Node, NEW q \in busyOut'[n]
      PROVE  \E u \in Thread : NodeOf[u] = n /\ pc'[u] \in Writing /\ call'[u].port = q
  <2>1. CASE q \in busyOut[n]
    <3>1. PICK u \in Thread : NodeOf[u] = n /\ pc[u] \in Writing /\ call[u].port = q
      BY <2>1 DEF BusyHeld
    <3>2. CASE u # t
      <4>1. pc'[u] = pc[u] /\ call'[u] = call[u]
        BY <3>2, MovesOther
      <4>. QED  BY <3>1, <4>1
    <3>3. CASE u = t
      <4>1. \/ pc[t] \in Writing => pc'[t] \in Writing /\ call'[t].port = call[t].port
            \/ pc[t] \notin Writing
            \/ busyOut' = [busyOut EXCEPT ![o] = @ \ {call[t].port}]
        BY <1>0, BusyStep
      <4>2. busyOut' = [busyOut EXCEPT ![o] = @ \ {call[t].port}] => q \notin busyOut'[n]
        <5>1. n = o /\ q = call[t].port /\ n \in DOMAIN busyOut
          BY <1>0, <1>1, <3>1, <3>3 DEF TablesFit
        <5>. QED  BY <5>1, Zenon
      <4>. QED  BY <1>3, <3>1, <3>3, <4>1, <4>2
    <3>. QED  BY <3>2, <3>3
  <2>2. CASE q \notin busyOut[n]
    <3>1. pc'[t] \in Writing /\ busyOut' = [busyOut EXCEPT ![o] = @ \cup {call'[t].port}]
      <4>1. busyOut' # busyOut /\ busyOut' # [busyOut EXCEPT ![o] = @ \ {call[t].port}]
        BY <1>0, <1>1, <1>3, <2>2 DEF TablesFit
      <4>. QED  BY <1>0, <4>1, BusyStep
    <3>2. n = o /\ q = call'[t].port
      BY <1>0, <1>1, <1>3, <2>2, <3>1 DEF TablesFit
    <3>. QED  BY <1>0, <3>1, <3>2
  <2>. QED  BY <2>1, <2>2
<1>. QED  BY <1>2, <1>3 DEF BusyHeld

-----------------------------------------------------------------------------
Base == PortalsFit /\ Held /\ OthersIdle

LEMMA BaseInit == Init => Base
<1>. SUFFICES ASSUME Init PROVE Base
  OBVIOUS
<1>1. scene \in Scenes /\ scene.who \subseteq Thread
  BY SceneAssumption DEF Init
<1>2. \A t \in Thread : pc[t] = "idle" /\ call[t] = NoCall
  BY DEF Init
<1>3. CallsFit
  <2>1. CallFits("idle", NoCall, 0, 0) /\ "idle" \in PCs /\ "idle" \notin Reading \cup Writing
    BY DEF CallFits, NoCall, IsCall, Reading, RemoteReads, Writing, RemoteWrites, Channels, PCs
  <2>2. \A n, k : CallFits("idle", NoCall, n, k)
    BY <2>1 DEF CallFits, Reading, RemoteReads, Writing, RemoteWrites, Channels
  <2>3. pc \in [Thread -> PCs] /\ call = [t \in Thread |-> call[t]]
    BY <2>1 DEF Init
  <2>. QED  BY <1>2, <2>2, <2>3 DEF CallsFit
<1>4. \A n \in Node : Opened(n) \subseteq Peer \X Port
  BY <1>1, Consts DEF Opened, On
<1>5. TablesFit
  <2>1. \A n \in Node : Created(n) \subseteq Port
    BY <1>1, Consts DEF Created, On
  <2>2. created \in [Node -> SUBSET Port]
    BY <2>1 DEF Init
  <2>3. mports \in [Node -> SUBSET Peer]
    <3>1. \A n \in Node : {o[1] : o \in Opened(n)} \subseteq Peer
      BY <1>4
    <3>. QED  BY <3>1 DEF Init
  <2>4. output \in [Node -> [Peer -> Port \cup {None}]]
    BY DEF Init
  <2>5. busyIn \in [Node -> SUBSET Port] /\ busyOut \in [Node -> SUBSET Peer]
    BY DEF Init
  <2>6. allowed \in [Node -> [Port -> Peer \cup {None}]]
    BY DEF Init
  <2>7. log \in Seq(Entry)
    BY DEF Init
  <2>. QED  BY <1>1, <2>2, <2>3, <2>4, <2>5, <2>6, <2>7 DEF TablesFit
<1>6. LocksFit
  BY DEF Init, LocksFit
<1>7. MailFits
  BY DEF Init, MailFits
<1>8. LocalHeld /\ AllowHeld /\ ReadHeld /\ WriteHeld
  BY DEF Init, LocalHeld, AllowHeld, ReadHeld, WriteHeld, HeldBy
<1>9. ChannelHeld /\ BusyHeld
  BY DEF Init, ChannelHeld, BusyHeld
<1>. QED  BY <1>2, <1>3, <1>5, <1>6, <1>7, <1>8, <1>9 DEF Base, PortalsFit, Held, OthersIdle

LEMMA BaseNext == Base /\ [Next]_vars => Base'
<1>. SUFFICES ASSUME Base, [Next]_vars PROVE Base'
  OBVIOUS
<1>0. PortalsFit /\ Held /\ OthersIdle
  BY DEF Base
<1>1. CASE \E t \in scene.who : (Client(t) \/ Step(t)) /\ UNCHANGED scene
  <2>1. PICK t \in scene.who : (Client(t) \/ Step(t)) /\ UNCHANGED scene
    BY <1>1
  <2>2. t \in Thread
    BY <1>0, SceneAssumption DEF PortalsFit, TablesFit
  <2>3. PortalsFit' /\ Moves(t)
    BY <1>0, <2>1, <2>2, StepFits
  <2>4. TableStep(t) \/ LocalStep(t) \/ ReadStep(t) \/ WriteStep(t)
    BY <1>0, <2>1, <2>2, Groups
  <2>5. Held'
    BY <1>0, <2>2, <2>3, <2>4, LocalKept, AllowKept, ReadKept, WriteKept, ChannelKept, BusyKept DEF Held
  <2>6. OthersIdle'
    <3>1. ASSUME NEW u \in Thread \ scene.who PROVE pc'[u] = "idle"
      <4>1. pc'[u] = pc[u]
        BY <1>0, <2>1, <2>2, <2>3, MovesOther
      <4>. QED  BY <1>0, <4>1 DEF OthersIdle
    <3>. QED  BY <2>1, <3>1 DEF OthersIdle
  <2>. QED  BY <2>3, <2>5, <2>6 DEF Base
<1>2. CASE UNCHANGED vars
  <2>1. TablesFit'
    BY <1>0, <1>2 DEF PortalsFit, vars, tableVars, historyVars, TablesFit
  <2>2. LocksFit' /\ MailFits' /\ CallsFit'
    BY <1>0, <1>2 DEF PortalsFit, vars, readVars, writeVars, mailboxVars, historyVars, LocksFit, MailFits, CallsFit
  <2>0. UNCHANGED <<localLock, allowLock, readLock, writeLock, pc, call>>
    BY <1>2 DEF vars, readVars, writeVars
  <2>5. LocalHeld' /\ AllowHeld'
    BY <1>0, <2>0 DEF Held, LocalHeld, AllowHeld, HeldBy
  <2>6. ReadHeld'
    BY <1>0, <2>0 DEF Held, ReadHeld, HeldBy, Remote
  <2>7. WriteHeld'
    BY <1>0, <2>0 DEF Held, WriteHeld, HeldBy, Target
  <2>4. ChannelHeld' /\ BusyHeld' /\ OthersIdle'
    BY <1>0, <1>2 DEF Held, vars, readVars, tableVars, ChannelHeld, BusyHeld, OthersIdle, Remote
  <2>. QED  BY <2>1, <2>2, <2>4, <2>5, <2>6, <2>7 DEF Base, PortalsFit, Held
<1>. QED  BY <1>1, <1>2 DEF Next

LEMMA BaseHolds == Spec => []Base
BY BaseInit, BaseNext, PTL DEF Spec

\* When all calls on a node have returned, with success or without, and whatever
\* went wrong on the way, it holds no lock, no channel and no portal.
THEOREM PortalsLeaveNothing == Spec => []CallsLeaveNothing
<1>1. Base => CallsLeaveNothing
  <2>. SUFFICES ASSUME Base, NEW n \in Node, \A t \in Thread : NodeOf[t] = n => pc[t] = "idle"
               PROVE  /\ localLock[n] = NoThread /\ allowLock[n] = NoThread
                      /\ \A m \in Node : readLock[n][m] = NoThread /\ writeLock[n][m] = NoThread
                      /\ reading[n] = {} /\ busyIn[n] = {} /\ busyOut[n] = {}
    BY DEF CallsLeaveNothing
  <2>1. LocksFit /\ TablesFit /\ Held
    BY DEF Base, PortalsFit
  <2>2. "idle" \notin Locking /\ "idle" \notin Channels \cup {"panic"} /\ "idle" \notin Reading /\ "idle" \notin Writing
        /\ "idle" \notin SendPlaces
    BY DEF Locking, Channels, Reading, RemoteReads, Writing, RemoteWrites, SendPlaces
  <2>3. localLock[n] = NoThread /\ allowLock[n] = NoThread
    <3>1. localLock[n] \in Thread \cup {NoThread} /\ allowLock[n] \in Thread \cup {NoThread}
      BY <2>1 DEF LocksFit
    <3>2. localLock[n] # NoThread => NodeOf[localLock[n]] = n /\ pc[localLock[n]] # "idle"
      BY <2>1 DEF Held, LocalHeld, HeldBy
    <3>3. allowLock[n] # NoThread => NodeOf[allowLock[n]] = n /\ pc[allowLock[n]] # "idle"
      BY <2>1 DEF Held, AllowHeld, HeldBy
    <3>. QED  BY <3>1, <3>2, <3>3
  <2>4. \A m \in Node : readLock[n][m] = NoThread /\ writeLock[n][m] = NoThread
    BY <2>1, <2>2 DEF Held, ReadHeld, WriteHeld, HeldBy, LocksFit
  <2>5. reading[n] = {}
    BY <2>1, <2>2 DEF Held, ChannelHeld
  <2>6. busyIn[n] = {} /\ busyOut[n] = {}
    BY <2>1, <2>2 DEF Held, BusyHeld
  <2>. QED  BY <2>3, <2>4, <2>5, <2>6
<1>. QED  BY <1>1, BaseHolds, PTL

-----------------------------------------------------------------------------
\* What becomes of the rest of a message when a piece is taken out of it,
LEMMA RestTail ==
    ASSUME NEW S, NEW q \in Seq(S), q # <<>>, NEW s, Rest(q, s)
    PROVE  /\ ~IsHeader(Head(q))
           /\ Head(q).eof => s = {} /\ Tail(q) = <<>>
           /\ ~Head(q).eof => Rest(Tail(q), s)
<1>1. PICK k, r : k = Len(q) /\ r = Tail(q)
  OBVIOUS
<1>2. k \in Nat /\ k > 0 /\ r \in Seq(S) /\ Len(r) = k - 1 /\ Head(q) = q[1] /\ \A i \in 1 .. k - 1 : r[i] = q[i + 1]
  <2>1. /\ Head(q) \in S /\ Tail(q) \in Seq(S) /\ Head(q) = q[1]
        /\ Len(q) \in Nat /\ Len(q) > 0 /\ Len(Tail(q)) = Len(q) - 1
        /\ \A i \in 1 .. Len(Tail(q)) : Tail(q)[i] = q[i + 1]
    BY HeadFits, Zenon
  <2>. QED  BY <1>1, <2>1
<1>3. /\ \A i \in 1 .. k : ~IsHeader(q[i]) /\ (q[i].eof => i = k)
      /\ s = {} <=> q[k].eof
  BY <1>1 DEF Rest
<1>4. 1 \in 1 .. k /\ (k = 1 => r = <<>>) /\ (k # 1 => r # <<>>)
  BY <1>2
<1>5. ~IsHeader(q[1]) /\ (q[1].eof => k = 1)
  BY <1>3, <1>4
<1>6. CASE q[1].eof
  BY <1>1, <1>2, <1>3, <1>4, <1>5, <1>6
<1>7. CASE ~q[1].eof
  <2>1. \A i \in 1 .. k - 1 : ~IsHeader(r[i]) /\ (r[i].eof => i = k - 1)
    <3>1. TAKE i \in 1 .. k - 1
    <3>2. i + 1 \in 1 .. k /\ r[i] = q[i + 1] /\ (i + 1 = k => i = k - 1)
      BY <1>2
    <3>. QED  BY <1>3, <3>2
  <2>2. CASE k = 1
    BY <1>1, <1>2, <1>3, <1>4, <1>5, <1>7, <2>1, <2>2 DEF Rest
  <2>3. CASE k # 1
    <3>1. k - 1 \in 1 .. k - 1 /\ (k - 1) + 1 = k
      BY <1>2, <2>3
    <3>2. r[k - 1] = q[k]
      BY <1>2, <3>1
    <3>. QED  BY <1>1, <1>2, <1>3, <1>4, <1>5, <1>7, <2>1, <2>3, <3>2 DEF Rest
  <2>. QED  BY <2>2, <2>3
<1>. QED  BY <1>6, <1>7

\* and when one is sent.
LEMMA RestAppend ==
    ASSUME NEW S, NEW q \in Seq(S), NEW s, Rest(q, s), s # {}, NEW m \in S, ~IsHeader(m), m.eof \in BOOLEAN
    PROVE  /\ m.eof => Rest(Append(q, m), {})
           /\ ~m.eof => Rest(Append(q, m), s)
<1>1. PICK k, r : k = Len(q) /\ r = Append(q, m)
  OBVIOUS
<1>2. k \in Nat /\ r \in Seq(S) /\ Len(r) = k + 1 /\ r[k + 1] = m /\ \A i \in 1 .. k : r[i] = q[i]
  <2>1. /\ Append(q, m) \in Seq(S) /\ Len(Append(q, m)) = Len(q) + 1 /\ Len(q) \in Nat
        /\ \A i \in 1 .. Len(q) : Append(q, m)[i] = q[i]
        /\ Append(q, m)[Len(q) + 1] = m
    BY AppendFits, Zenon
  <2>. QED  BY <1>1, <2>1
<1>3. \A i \in 1 .. k : ~IsHeader(q[i]) /\ (q[i].eof => i = k)
  BY <1>1 DEF Rest
<1>4. k # 0 => ~q[k].eof
  <2>1. q = <<>> => k = 0
    BY <1>1
  <2>. QED  BY <1>1, <2>1 DEF Rest
<1>5. r # <<>>
  BY <1>2
<1>6. \A i \in 1 .. k + 1 : ~IsHeader(r[i]) /\ (r[i].eof => i = k + 1)
  <2>1. TAKE i \in 1 .. k + 1
  <2>2. CASE i = k + 1
    BY <1>2, <2>2
  <2>3. CASE i # k + 1
    <3>1. i \in 1 .. k /\ (i = k => k # 0)
      BY <1>2, <2>3
    <3>. QED  BY <1>2, <1>3, <1>4, <3>1
  <2>. QED  BY <2>2, <2>3
<1>. QED  BY <1>1, <1>2, <1>5, <1>6 DEF Rest

\* The same for a message of which the header is still there.
LEMMA HeadOfAppend ==
    ASSUME NEW S, NEW q \in Seq(S), q # <<>>, NEW m \in S
    PROVE  Append(q, m) # <<>> /\ Append(q, m)[1] = q[1] /\ Tail(Append(q, m)) = Append(Tail(q), m)
OBVIOUS

\* A header in an empty channel.
LEMMA HeaderAlone ==
    ASSUME NEW m, NEW s, s # {}
    PROVE  /\ Append(<<>>, m) # <<>> /\ Append(<<>>, m)[1] = m /\ Tail(Append(<<>>, m)) = <<>>
           /\ Rest(<<>>, s)
<1>1. Append(<<>>, m) # <<>> /\ Append(<<>>, m)[1] = m /\ Tail(Append(<<>>, m)) = <<>>
  OBVIOUS
<1>2. Rest(<<>>, s)
  BY DEF Rest
<1>. QED  BY <1>1, <1>2

-----------------------------------------------------------------------------
\* The permissions that are on their way, when one is sent or received.
LEMMA AllowSent ==
    ASSUME NEW S, NEW q \in Seq(S), NEW x \in S, NEW n
    PROVE  LET p == {i \in DOMAIN q : q[i] = n}
               r == {i \in DOMAIN Append(q, x) : Append(q, x)[i] = n}
           IN  IF x = n THEN r = p \cup {Len(q) + 1} ELSE r = p
<1>1. /\ Len(q) \in Nat
      /\ DOMAIN q = 1..Len(q)
      /\ DOMAIN Append(q, x) = 1..(Len(q) + 1)
      /\ \A i \in 1..Len(q) : Append(q, x)[i] = q[i]
      /\ Append(q, x)[Len(q) + 1] = x
  OBVIOUS
<1>. QED  BY <1>1

LEMMA AllowTaken ==
    ASSUME NEW S, NEW q \in Seq(S), q # <<>>, NEW n, NEW p, NEW r,
           p = {i \in DOMAIN q : q[i] = n}, r = {i \in DOMAIN Tail(q) : Tail(q)[i] = n}
    PROVE  /\ p = {} => r = {} /\ Head(q) # n
           /\ (\A i, j \in p : i = j) => (\A i, j \in r : i = j)
           /\ Head(q) = n /\ (\A i, j \in p : i = j) => r = {}
           /\ Head(q) = n => p # {}
<1>1. /\ Len(q) \in Nat /\ Len(q) > 0
      /\ DOMAIN q = 1..Len(q)
      /\ DOMAIN Tail(q) = 1..(Len(q) - 1)
      /\ \A i \in 1..(Len(q) - 1) : Tail(q)[i] = q[i + 1]
      /\ Head(q) = q[1]
  OBVIOUS
<1>2. \A i \in r : i \in Nat /\ i + 1 \in p /\ i + 1 # 1
  BY <1>1
<1>3. Head(q) = n => 1 \in p
  BY <1>1
<1>4. p = {} => r = {} /\ Head(q) # n
  BY <1>2, <1>3
<1>5. (\A i, j \in p : i = j) => (\A i, j \in r : i = j)
  <2>1. SUFFICES ASSUME \A i, j \in p : i = j, NEW i \in r, NEW j \in r PROVE i = j
    OBVIOUS
  <2>2. i + 1 = j + 1 /\ i \in Nat /\ j \in Nat
    BY <1>2, <2>1
  <2>. QED  BY <2>2
<1>6. Head(q) = n /\ (\A i, j \in p : i = j) => r = {}
  BY <1>2, <1>3
<1>. QED  BY <1>3, <1>4, <1>5, <1>6

-----------------------------------------------------------------------------
\* What a step leaves alone of what is between two nodes.
Calm(n, m) ==
    /\ channel'[n][m] = channel[n][m] /\ Allows(n, m)' = Allows(n, m)
    /\ n \in isAllowed'[m] <=> n \in isAllowed[m]
    /\ Ready(n, m)' = Ready(n, m) /\ Sending(n, m)' = Sending(n, m)

LEMMA CalmKeeps ==
    ASSUME NEW n, NEW m, Calm(n, m)
    PROVE  /\ Quiet(n, m)' <=> Quiet(n, m)
           /\ Awaited(n, m)' <=> Awaited(n, m)
           /\ Started(n, m)' <=> Started(n, m)
           /\ Stream(n, m)' <=> Stream(n, m)
           /\ OneToken(n, m)' <=> OneToken(n, m)
<1>1. NoCredit(n, m)' <=> NoCredit(n, m)
  BY DEF Calm, NoCredit
<1>2. Quiet(n, m)' <=> Quiet(n, m)
  BY <1>1 DEF Calm, Quiet
<1>3. Awaited(n, m)' <=> Awaited(n, m)
  BY DEF Calm, Awaited
<1>4. Started(n, m)' <=> Started(n, m)
  BY <1>1, Zenon DEF Calm, Started
<1>5. Stream(n, m)' <=> Stream(n, m)
  BY <1>1, Zenon DEF Calm, Stream
<1>6. OneToken(n, m)' <=> OneToken(n, m)
  BY DEF Calm, OneToken
<1>. QED  BY <1>2, <1>3, <1>4, <1>5, <1>6

LEMMA PhaseKept ==
    ASSUME NEW l, NEW h, NEW n, NEW m, Calm(n, m), Phase(l, h, n, m)
    PROVE  Phase(l, h, n, m)'
<1>1. /\ Quiet(n, m)' <=> Quiet(n, m)
      /\ Awaited(n, m)' <=> Awaited(n, m)
      /\ Started(n, m)' <=> Started(n, m)
      /\ Stream(n, m)' <=> Stream(n, m)
  BY CalmKeeps
<1>. QED  BY <1>1 DEF Phase

\* The writers of a node, when another node makes a step.
WriterPlaces == {"lock write", "send header", "send"}

LEMMA WritersSame ==
    ASSUME PortalsFit, NEW t \in Thread, Moves(t), NEW n, NEW m,
           NodeOf[t] # m \/ (pc[t] \notin WriterPlaces /\ pc'[t] \notin WriterPlaces)
    PROVE  Ready(n, m)' = Ready(n, m) /\ Sending(n, m)' = Sending(n, m)
<1>1. ASSUME NEW u \in Thread
      PROVE  /\ u \in Ready(n, m)' <=> u \in Ready(n, m)
             /\ u \in Sending(n, m)' <=> u \in Sending(n, m)
  <2>1. CASE u = t
    BY <2>1 DEF Ready, Sending, WriterPlaces
  <2>2. CASE u # t
    <3>1. pc'[u] = pc[u] /\ call'[u] = call[u]
      BY <2>2, MovesOther
    <3>. QED  BY <3>1 DEF Ready, Sending, Target
  <2>. QED  BY <2>1, <2>2
<1>. QED  BY <1>1 DEF Ready, Sending

LEMMA OtherPlace ==
    ASSUME PortalsFit, NEW t \in Thread, Moves(t), NEW u \in Thread \ {t}, NEW n, NEW m
    PROVE  /\ Placed(u, n, m)' <=> Placed(u, n, m)
           /\ Holds(u, n, m)' <=> Holds(u, n, m)
           /\ pc'[u] = pc[u] /\ call'[u].header = call[u].header
<1>1. pc'[u] = pc[u] /\ call'[u] = call[u]
  BY MovesOther
<1>. QED  BY <1>1 DEF Placed, Holds, Remote

LEMMA HoldsPlaced == ASSUME NEW u, NEW n, NEW m PROVE Holds(u, n, m) <=> Placed(u, n, m) /\ pc[u] \in Channels
BY DEF Holds, Placed, Marked

LEMMA PlacedLocked ==
    ASSUME NEW u \in Thread, NEW n, NEW m, Protocol(n, m), Placed(u, n, m)
    PROVE  Locked(u, n, m)
BY DEF Protocol

\* A step that has nothing to do with the channel between two nodes.
LEMMA ProtocolSame ==
    ASSUME PortalsFit, NEW t \in Thread, Moves(t), NEW n, NEW m, Protocol(n, m), Calm(n, m),
           readLock'[n][m] = readLock[n][m], m \in reading'[n] <=> m \in reading[n],
           ~Placed(t, n, m), ~Placed(t, n, m)'
    PROVE  Protocol(n, m)'
<1>1. ~Holds(t, n, m) /\ ~Holds(t, n, m)'
  BY DEF Holds, Placed, Marked
<1>2. \A u \in Thread : /\ Placed(u, n, m)' <=> Placed(u, n, m)
                        /\ Holds(u, n, m)' <=> Holds(u, n, m)
                        /\ Placed(u, n, m) => pc'[u] = pc[u] /\ call'[u].header = call[u].header
  BY <1>1, OtherPlace
<1>3. \A u \in Thread : Placed(u, n, m)' => Locked(u, n, m)'
  BY <1>2 DEF Protocol, Locked
<1>4. (\A u \in Thread : ~Holds(u, n, m)') => Quiet(n, m)'
  BY <1>2, CalmKeeps DEF Protocol
<1>5. OneToken(n, m)'
  BY CalmKeeps DEF Protocol
<1>6. ASSUME NEW u \in Thread, Holds(u, n, m)' PROVE Phase(pc[u], call[u].header, n, m)'
  <2>1. Holds(u, n, m) /\ pc'[u] = pc[u] /\ call'[u].header = call[u].header
    BY <1>2, <1>6, HoldsPlaced
  <2>2. PICK l, h : l = pc[u] /\ h = call[u].header
    OBVIOUS
  <2>3. Phase(l, h, n, m)
    BY <2>1, <2>2 DEF Protocol
  <2>4. Phase(l, h, n, m)'
    BY <2>3, PhaseKept
  <2>. QED  BY <2>1, <2>2, <2>4
<1>7. \A u, v \in Thread : Holds(u, n, m)' /\ Holds(v, n, m)' => u = v
  BY <1>2 DEF Protocol
<1>. QED  BY <1>3, <1>4, <1>5, <1>6, <1>7 DEF Protocol

\* The lock and the channel, as a step of t between n and m may change them.
LockStep(t, n, m) ==
    /\ readLock'[n][m] = readLock[n][m] \/ readLock[n][m] \in {NoThread, t}
    /\ pc'[t] \in LockPlaces => readLock'[n][m] = t
    /\ pc'[t] = "set" => m \notin reading'[n]
    /\ pc'[t] \in Channels => m \in reading'[n]

\* A reader that is on the way to the channel.
LEMMA ReaderOutside ==
    ASSUME PortalsFit, NEW t \in Thread, Moves(t), NEW n, NEW m, Protocol(n, m), Calm(n, m),
           LockStep(t, n, m), pc[t] \notin Channels, pc'[t] \notin Channels,
           m \in reading'[n] <=> m \in reading[n]
    PROVE  Protocol(n, m)'
<1>0. NoThread \notin Thread
  BY Consts
<1>1. ~Holds(t, n, m) /\ ~Holds(t, n, m)'
  BY DEF Holds
<1>2. \A u \in Thread : Holds(u, n, m)' <=> Holds(u, n, m)
  BY <1>1, OtherPlace
<1>3. ASSUME NEW u \in Thread, Placed(u, n, m)' PROVE Locked(u, n, m)'
  <2>1. CASE u = t
    BY <2>1 DEF LockStep, Locked
  <2>2. CASE u # t
    <3>1. Placed(u, n, m) /\ pc'[u] = pc[u]
      BY <1>3, <2>2, OtherPlace
    <3>2. Locked(u, n, m)
      BY <3>1, PlacedLocked
    <3>. QED  BY <1>0, <2>2, <3>1, <3>2 DEF Locked, LockStep
  <2>. QED  BY <2>1, <2>2
<1>4. (\A u \in Thread : ~Holds(u, n, m)') => Quiet(n, m)'
  BY <1>2, CalmKeeps DEF Protocol
<1>5. OneToken(n, m)'
  BY CalmKeeps DEF Protocol
<1>6. ASSUME NEW u \in Thread, Holds(u, n, m)' PROVE Phase(pc[u], call[u].header, n, m)'
  <2>1. Holds(u, n, m) /\ pc'[u] = pc[u] /\ call'[u].header = call[u].header
    BY <1>1, <1>6, OtherPlace
  <2>2. PICK l, h : l = pc[u] /\ h = call[u].header
    OBVIOUS
  <2>3. Phase(l, h, n, m)
    BY <2>1, <2>2 DEF Protocol
  <2>4. Phase(l, h, n, m)'
    BY <2>3, PhaseKept
  <2>. QED  BY <2>1, <2>2, <2>4
<1>7. \A u, v \in Thread : Holds(u, n, m)' /\ Holds(v, n, m)' => u = v
  BY <1>2 DEF Protocol
<1>. QED  BY <1>3, <1>4, <1>5, <1>6, <1>7 DEF Protocol

\* A reader that takes the channel, or has it: the only one.
LEMMA ReaderInside ==
    ASSUME PortalsFit, NEW t \in Thread, Moves(t), NEW n, NEW m, Protocol(n, m), LockStep(t, n, m),
           Placed(t, n, m), pc[t] \in Channels \/ pc[t] = "set",
           m \in reading[n] => pc'[t] \notin Channels \/ m \in reading'[n],
           OneToken(n, m)',
           IF pc'[t] \in Channels THEN Phase(pc[t], call[t].header, n, m)' ELSE Quiet(n, m)'
    PROVE  Protocol(n, m)'
<1>0. NoThread \notin Thread
  BY Consts
<1>1. ASSUME NEW u \in Thread \ {t} PROVE ~Holds(u, n, m) /\ ~Holds(u, n, m)'
  <2>1. CASE pc[t] \in Channels
    <3>1. Holds(t, n, m)
      BY <2>1 DEF Holds, Placed
    <3>. QED  BY <3>1, OtherPlace DEF Protocol
  <2>2. CASE pc[t] = "set"
    <3>1. m \notin reading[n]
      BY <2>2, PlacedLocked DEF Locked
    <3>2. ~Holds(u, n, m)
      BY <3>1, HoldsPlaced, PlacedLocked DEF Locked
    <3>. QED  BY <3>2, OtherPlace
  <2>. QED  BY <2>1, <2>2
<1>3. ASSUME NEW u \in Thread, Placed(u, n, m)' PROVE Locked(u, n, m)'
  <2>1. CASE u = t
    BY <2>1 DEF LockStep, Locked
  <2>2. CASE u # t
    <3>1. Placed(u, n, m) /\ pc'[u] = pc[u] /\ pc[u] \notin Channels
      BY <1>1, <1>3, <2>2, OtherPlace, HoldsPlaced
    <3>2. Locked(u, n, m)
      BY <3>1, PlacedLocked
    <3>3. pc[u] # "set"
      <4>1. ASSUME pc[u] = "set" PROVE FALSE
        <5>1. readLock[n][m] = u /\ m \notin reading[n]
          BY <3>2, <4>1 DEF Locked, LockPlaces
        <5>2. pc[t] = "set"
          BY <5>1, PlacedLocked DEF Locked
        <5>3. readLock[n][m] = t
          BY <5>2, PlacedLocked DEF Locked, LockPlaces
        <5>. QED  BY <2>2, <5>1, <5>3
      <4>. QED  BY <4>1
    <3>. QED  BY <1>0, <2>2, <3>1, <3>2, <3>3 DEF Locked, LockStep
  <2>. QED  BY <2>1, <2>2
<1>4. (\A u \in Thread : ~Holds(u, n, m)') => Quiet(n, m)'
  <2>1. CASE pc'[t] \in Channels
    <3>1. Holds(t, n, m)'
      <4>1. pc[t] # "idle" /\ pc'[t] # "idle"
        BY <2>1 DEF Placed, Marked, Channels
      <4>2. Remote(t)' = Remote(t)
        BY <4>1, StaysAlike
      <4>. QED  BY <2>1, <4>2 DEF Holds, Placed
    <3>. QED  BY <3>1
  <2>2. CASE pc'[t] \notin Channels
    BY <2>2
  <2>. QED  BY <2>1, <2>2
<1>6. ASSUME NEW u \in Thread, Holds(u, n, m)' PROVE Phase(pc[u], call[u].header, n, m)'
  <2>1. u = t
    BY <1>1, <1>6
  <2>2. pc'[t] \in Channels
    BY <1>6, <2>1 DEF Holds
  <2>. QED  BY <2>1, <2>2
<1>7. \A u, v \in Thread : Holds(u, n, m)' /\ Holds(v, n, m)' => u = v
  BY <1>1
<1>. QED  BY <1>3, <1>4, <1>6, <1>7 DEF Protocol

-----------------------------------------------------------------------------
\* A reader at the channel from which it reads.
LEMMA ReaderAt ==
    ASSUME PortalsFit, NEW t \in Thread, Moves(t), ReadStep(t), NEW n, NEW m, n = NodeOf[t], m = Remote(t)
    PROVE  /\ n \in Node /\ m \in Node /\ m # n
           /\ readLock \in [Node -> [Node -> Thread \cup {NoThread}]]
           /\ reading \in [Node -> SUBSET Node] /\ allows \in [Node -> Seq(Node)]
           /\ channel \in [Node -> [Node -> Seq(Header \cup Piece)]]
           /\ Incoming(t) = channel[n][m] /\ pc \in [Thread -> PCs]
           /\ UNCHANGED isAllowed
           /\ Ready(n, m)' = Ready(n, m) /\ Sending(n, m)' = Sending(n, m)
           /\ pc[t] \in Marked => Placed(t, n, m)
           /\ pc[t] \in Channels => Holds(t, n, m)
<1>1. pc[t] \in RemoteReads /\ UNCHANGED isAllowed
  BY Frames DEF writeVars
<1>2. n \in Node /\ m \in Node /\ m # n
  BY <1>1, RemoteFits
<1>3. Ready(n, m)' = Ready(n, m) /\ Sending(n, m)' = Sending(n, m)
  BY <1>2, WritersSame
<1>. QED  BY <1>1, <1>2, <1>3 DEF PortalsFit, LocksFit, MailFits, CallsFit, Incoming, Placed, Holds

LEMMA TokensSame ==
    ASSUME NEW n, NEW m, UNCHANGED isAllowed, Allows(n, m)' = Allows(n, m),
           Ready(n, m)' = Ready(n, m), Sending(n, m)' = Sending(n, m)
    PROVE  /\ NoCredit(n, m)' <=> NoCredit(n, m)
           /\ OneToken(n, m)' <=> OneToken(n, m)
BY DEF NoCredit, OneToken

LEMMA OutsideKept ==
    ASSUME PortalsFit, NEW t \in Thread, Moves(t), NEW n, NEW m, n = NodeOf[t], m = Remote(t), Protocol(n, m),
           n \notin stolen',
           Again(t) \/ ReadBuffered(t) \/ LockRead(t) \/ LockedRead(t) \/ CheckChannel(t) \/ Exit(t)
    PROVE  Protocol(n, m)' /\ pc'[t] # "panic"
<1>0. ReadStep(t)
  BY DEF ReadStep
<1>1. UNCHANGED <<channel, allows>>
  BY DEF Again, ReadBuffered, LockRead, LockedRead, CheckChannel, Exit, TableFrame, mailboxVars
<1>2. Calm(n, m)
  BY <1>0, <1>1, ReaderAt DEF Calm, Allows
<1>3. UNCHANGED reading
  BY DEF Again, ReadBuffered, LockRead, LockedRead, CheckChannel, Exit, TableFrame, readVars
<1>4. pc \in [Thread -> PCs] /\ readLock \in [Node -> [Node -> Thread \cup {NoThread}]] /\ n \in Node /\ m \in Node
  BY <1>0, ReaderAt
<1>5. pc[t] \in {"locked", "check"} => readLock[n][m] = t
  <2>1. pc[t] \in {"locked", "check"} => Placed(t, n, m)
    BY <1>0, ReaderAt DEF Marked
  <2>. QED  BY <2>1, PlacedLocked DEF Locked, LockPlaces
<1>6. LockStep(t, n, m) /\ pc[t] \notin Channels /\ pc'[t] \notin Channels \cup {"panic"}
  <2>1. CASE Again(t) \/ ReadBuffered(t)
    <3>1. UNCHANGED readLock /\ pc[t] = "again" /\ (\E x \in {"again", "exit", "lock"} : pc'[t] = x)
      BY <1>4, <2>1 DEF Again, ReadBuffered, TakeAvailable, Goto, TableFrame, readVars
    <3>. QED  BY <3>1 DEF LockStep, LockPlaces, Channels
  <2>2. CASE LockRead(t)
    <3>1. readLock[n][m] = NoThread /\ readLock'[n][m] = t /\ pc[t] = "lock" /\ pc'[t] = "locked"
      BY <1>4, <2>2 DEF LockRead, Goto
    <3>. QED  BY <3>1 DEF LockStep, LockPlaces, Channels
  <2>3. CASE LockedRead(t)
    <3>1. UNCHANGED readLock /\ pc[t] = "locked" /\ (\E x \in {"exit", "check"} : pc'[t] = x)
      BY <1>4, <2>3 DEF LockedRead, TakeAvailable, Goto, readVars
    <3>. QED  BY <1>5, <3>1 DEF LockStep, LockPlaces, Channels
  <2>4. CASE CheckChannel(t)
    <3>1. /\ pc[t] = "check"
          /\ \/ readLock'[n][m] = NoThread /\ pc'[t] = "lock"
             \/ readLock' = readLock /\ pc'[t] = "set" /\ m \notin reading'[n]
      BY <1>3, <1>4, <2>4 DEF CheckChannel, Goto
    <3>. QED  BY <1>5, <3>1 DEF LockStep, LockPlaces, Channels
  <2>5. CASE Exit(t)
    <3>1. readLock'[n][m] = NoThread /\ pc[t] = "exit" /\ \E x \in {"again", "read end"} : pc'[t] = x
      BY <1>4, <2>5 DEF Exit, Goto
    <3>2. stolen' = IF readLock[n][m] \in {NoThread, t} THEN stolen ELSE stolen \cup {n}
      BY <2>5 DEF Exit
    <3>3. readLock[n][m] \in {NoThread, t}
      BY <3>2
    <3>. QED  BY <3>1, <3>3 DEF LockStep, LockPlaces, Channels
  <2>. QED  BY <2>1, <2>2, <2>3, <2>4, <2>5
<1>. QED  BY <1>2, <1>3, <1>6, ReaderOutside

\* A reader takes the channel, and asks for a message,
LEMMA AskKept ==
    ASSUME PortalsFit, NEW t \in Thread, Moves(t), NEW n, NEW m, n = NodeOf[t], m = Remote(t), Protocol(n, m),
           SetChannel(t) \/ SendAllow(t)
    PROVE  Protocol(n, m)' /\ pc'[t] # "panic"
<1>0. ReadStep(t)
  BY DEF ReadStep
<1>1. /\ pc \in [Thread -> PCs] /\ readLock \in [Node -> [Node -> Thread \cup {NoThread}]]
      /\ reading \in [Node -> SUBSET Node] /\ allows \in [Node -> Seq(Node)] /\ n \in Node /\ m \in Node
  BY <1>0, ReaderAt
<1>2. UNCHANGED isAllowed /\ Ready(n, m)' = Ready(n, m) /\ Sending(n, m)' = Sending(n, m)
  BY <1>0, ReaderAt
<1>3. UNCHANGED <<channel, readLock>>
  BY DEF SetChannel, SendAllow, WriteFrame, readVars, mailboxVars
<1>4. CASE SetChannel(t)
  <2>1. pc[t] = "set" /\ pc'[t] = "allow" /\ reading' = [reading EXCEPT ![n] = @ \cup {m}] /\ UNCHANGED allows
    BY <1>1, <1>4 DEF SetChannel, Goto, mailboxVars
  <2>2. Placed(t, n, m) /\ pc'[t] \in Channels /\ pc'[t] \in LockPlaces /\ pc'[t] \notin {"set", "panic"}
    BY <1>0, <2>1, ReaderAt DEF Marked, Channels, LockPlaces
  <2>3. readLock[n][m] = t /\ m \notin reading[n]
    BY <2>1, <2>2, PlacedLocked DEF Locked, LockPlaces
  <2>4. \A u \in Thread : ~Holds(u, n, m)
    BY <2>3, HoldsPlaced, PlacedLocked DEF Locked
  <2>5. Calm(n, m)
    BY <1>2, <1>3, <2>1 DEF Calm, Allows
  <2>6. Quiet(n, m)' /\ OneToken(n, m)'
    BY <2>4, <2>5, CalmKeeps DEF Protocol
  <2>7. m \in reading'[n]
    BY <1>1, <2>1
  <2>8. Phase(pc[t], call[t].header, n, m)'
    BY <2>1, <2>6 DEF Phase
  <2>9. LockStep(t, n, m)
    BY <1>3, <2>2, <2>3, <2>7 DEF LockStep
  <2>. QED  BY <2>1, <2>2, <2>6, <2>7, <2>8, <2>9, ReaderInside
<1>5. CASE SendAllow(t)
  <2>1. pc[t] = "allow" /\ pc'[t] = "header" /\ UNCHANGED reading
    BY <1>1, <1>5 DEF SendAllow, WriteFrame, Goto, readVars
  <2>2. allows'[m] = Append(allows[m], n)
    BY <1>1, <1>5 DEF SendAllow
  <2>3. /\ Placed(t, n, m) /\ Holds(t, n, m) /\ pc[t] \in Channels /\ pc[t] \in LockPlaces
        /\ pc'[t] \in Channels /\ pc'[t] \notin {"set", "panic"}
    BY <1>0, <2>1, ReaderAt DEF Marked, Channels, LockPlaces
  <2>4. readLock[n][m] = t /\ m \in reading[n]
    BY <2>3, PlacedLocked DEF Locked
  <2>5. Quiet(n, m)
    BY <2>1, <2>3 DEF Protocol, Phase
  <2>6. Allows(n, m) = {} /\ n \notin isAllowed[m] /\ Ready(n, m) = {} /\ Sending(n, m) = {} /\ channel[n][m] = <<>>
    BY <2>5 DEF Quiet, NoCredit
  <2>7. Allows(n, m)' = {Len(allows[m]) + 1}
    <3>1. allows[m] \in Seq(Node)
      BY <1>1
    <3>2. Allows(n, m)' = Allows(n, m) \cup {Len(allows[m]) + 1}
      BY <1>1, <2>2, <3>1, AllowSent DEF Allows
    <3>. QED  BY <2>6, <3>2
  <2>8. OneToken(n, m)'
    BY <1>2, <2>6, <2>7 DEF OneToken
  <2>9. Phase(pc[t], call[t].header, n, m)'
    BY <1>2, <1>3, <2>1, <2>6 DEF Phase, Awaited
  <2>10. LockStep(t, n, m)
    BY <1>3, <2>1, <2>3, <2>4 DEF LockStep
  <2>. QED  BY <2>1, <2>3, <2>4, <2>8, <2>9, <2>10, ReaderInside
<1>. QED  BY <1>4, <1>5

\* and has it.
LEMMA InsideKept ==
    ASSUME PortalsFit, NEW t \in Thread, Moves(t), ReadStep(t), NEW n, NEW m, n = NodeOf[t], m = Remote(t),
           Protocol(n, m), UNCHANGED allows, pc[t] \in Channels, pc'[t] # "set",
           readLock'[n][m] = readLock[n][m] \/ readLock[n][m] \in {NoThread, t},
           pc'[t] \in LockPlaces => readLock'[n][m] = t,
           pc'[t] \in Channels => reading' = reading,
           IF pc'[t] \in Channels THEN Phase(pc[t], call[t].header, n, m)' ELSE Quiet(n, m)'
    PROVE  Protocol(n, m)'
<1>1. /\ UNCHANGED isAllowed /\ Allows(n, m)' = Allows(n, m)
      /\ Ready(n, m)' = Ready(n, m) /\ Sending(n, m)' = Sending(n, m)
  BY ReaderAt DEF Allows
<1>2. Holds(t, n, m) /\ Placed(t, n, m)
  BY ReaderAt, HoldsPlaced
<1>3. m \in reading[n]
  BY <1>2, PlacedLocked DEF Locked
<1>4. OneToken(n, m)'
  BY <1>1, TokensSame DEF Protocol
<1>5. LockStep(t, n, m)
  BY <1>3 DEF LockStep
<1>. QED  BY <1>2, <1>3, <1>4, <1>5, ReaderInside

\* What is in the channel after one message has been taken out, or none.
LEMMA ChannelLeft ==
    ASSUME PortalsFit, NEW t \in Thread, Moves(t), ReadStep(t), NEW n, NEW m, n = NodeOf[t], m = Remote(t),
           UNCHANGED allows, NEW q, q = channel[n][m]
    PROVE  /\ UNCHANGED channel => (Quiet(n, m)' <=> Quiet(n, m)) /\ (Stream(n, m)' <=> Stream(n, m))
           /\ Receive(t) /\ q # <<>> /\ Started(n, m) => IsHeader(Head(q)) /\ Stream(n, m)'
           /\ Receive(t) /\ q # <<>> /\ Stream(n, m) =>
                /\ ~IsHeader(Head(q))
                /\ IF Head(q).eof THEN Quiet(n, m)' ELSE Stream(n, m)'
<1>1. /\ UNCHANGED isAllowed /\ Allows(n, m)' = Allows(n, m) /\ n \in Node /\ m \in Node
      /\ Ready(n, m)' = Ready(n, m) /\ Sending(n, m)' = Sending(n, m)
      /\ channel \in [Node -> [Node -> Seq(Header \cup Piece)]]
  BY ReaderAt DEF Allows
<1>2. NoCredit(n, m)' <=> NoCredit(n, m)
  BY <1>1, TokensSame
<1>3. UNCHANGED channel => (Quiet(n, m)' <=> Quiet(n, m)) /\ (Stream(n, m)' <=> Stream(n, m))
  <2>1. SUFFICES ASSUME UNCHANGED channel
                 PROVE  (Quiet(n, m)' <=> Quiet(n, m)) /\ (Stream(n, m)' <=> Stream(n, m))
    OBVIOUS
  <2>2. Quiet(n, m)' <=> Quiet(n, m)
    BY <1>1, <1>2, <2>1 DEF Quiet
  <2>3. Stream(n, m)' <=> Stream(n, m)
    BY <1>1, <1>2, <2>1, Zenon DEF Stream
  <2>. QED  BY <2>2, <2>3
<1>4. ASSUME Receive(t), q # <<>>
      PROVE  channel'[n][m] = Tail(q) /\ Head(q) = q[1] /\ q \in Seq(Header \cup Piece)
  <2>1. channel' = [channel EXCEPT ![n][m] = Tail(q)]
    BY <1>4 DEF Receive
  <2>2. q \in Seq(Header \cup Piece)
    BY <1>1
  <2>3. Head(q) = q[1]
    BY <1>4, <2>2, HeadFits, Zenon
  <2>. QED  BY <1>1, <2>1, <2>2, <2>3
<1>5. ASSUME Receive(t), q # <<>>, Started(n, m) PROVE IsHeader(Head(q)) /\ Stream(n, m)'
  <2>1. NoCredit(n, m) /\ IsHeader(q[1]) /\ Rest(Tail(q), Sending(n, m))
    BY <1>5, Zenon DEF Started
  <2>2. Rest(channel'[n][m], Sending(n, m)')
    BY <1>1, <1>4, <1>5, <2>1, Zenon
  <2>. QED  BY <1>2, <1>4, <1>5, <2>1, <2>2, Zenon DEF Stream
<1>6. ASSUME Receive(t), q # <<>>, Stream(n, m)
      PROVE  /\ ~IsHeader(Head(q))
             /\ IF Head(q).eof THEN Quiet(n, m)' ELSE Stream(n, m)'
  <2>1. PICK s : s = Sending(n, m)
    OBVIOUS
  <2>2. NoCredit(n, m) /\ Rest(q, s)
    BY <1>6, <2>1, Zenon DEF Stream
  <2>3. /\ ~IsHeader(Head(q))
        /\ Head(q).eof => s = {} /\ Tail(q) = <<>>
        /\ ~Head(q).eof => Rest(Tail(q), s)
    BY <1>4, <1>6, <2>2, RestTail, Zenon
  <2>4. Head(q).eof => Quiet(n, m)'
    BY <1>1, <1>2, <1>4, <1>6, <2>1, <2>2, <2>3, Zenon DEF Quiet
  <2>5. ~Head(q).eof => Stream(n, m)'
    <3>1. SUFFICES ASSUME ~Head(q).eof PROVE Stream(n, m)'
      OBVIOUS
    <3>2. Rest(channel'[n][m], Sending(n, m)')
      BY <1>1, <1>4, <1>6, <2>1, <2>3, <3>1, Zenon
    <3>. QED  BY <1>2, <2>2, <3>2, Zenon DEF Stream
  <2>. QED  BY <2>3, <2>4, <2>5, Zenon
<1>. QED  BY <1>3, <1>5, <1>6, Zenon

LEMMA HeaderKept ==
    ASSUME PortalsFit, NEW t \in Thread, Moves(t), NEW n, NEW m, n = NodeOf[t], m = Remote(t), Protocol(n, m),
           ReadHeader(t) \/ Validate(t) \/ AllocFirst(t)
    PROVE  Protocol(n, m)' /\ pc'[t] # "panic"
<1>0. ReadStep(t)
  BY DEF ReadStep
<1>1. pc \in [Thread -> PCs] /\ Incoming(t) = channel[n][m]
  BY <1>0, ReaderAt
<1>2. UNCHANGED <<readLock, reading, allows>> /\ pc[t] \in {"header", "validate", "alloc"}
  BY DEF ReadHeader, Validate, AllocFirst, WriteFrame, TableFrame, readVars, mailboxVars
<1>3. Holds(t, n, m) /\ Placed(t, n, m)
  BY <1>0, <1>2, ReaderAt, HoldsPlaced DEF Channels
<1>4. readLock[n][m] = t
  BY <1>2, <1>3, PlacedLocked DEF Locked, LockPlaces
<1>5. Phase(pc[t], call[t].header, n, m)
  BY <1>3 DEF Protocol
<1>6. pc'[t] \in {"validate", "alloc", "piece", "drop"} /\ Stream(n, m)'
  <2>1. CASE ReadHeader(t)
    <3>1. PICK q : q = channel[n][m]
      OBVIOUS
    <3>2. pc[t] = "header" /\ q # <<>> /\ Receive(t)
      BY <1>1, <2>1, <3>1 DEF ReadHeader
    <3>3. Started(n, m)
      BY <1>5, <3>1, <3>2 DEF Phase, Awaited
    <3>4. IsHeader(Head(q)) /\ Stream(n, m)'
      BY <1>0, <1>2, <3>1, <3>2, <3>3, ChannelLeft, Zenon
    <3>5. pc'[t] = "validate"
      BY <1>1, <2>1, <3>1, <3>4 DEF ReadHeader, Goto
    <3>. QED  BY <3>4, <3>5
  <2>2. CASE Validate(t) \/ AllocFirst(t)
    <3>1. pc[t] \in {"validate", "alloc"} /\ UNCHANGED channel
      BY <2>2 DEF Validate, AllocFirst, TableFrame, mailboxVars
    <3>2. pc'[t] \in {"drop", "alloc", "piece"}
      BY <1>1, <2>2 DEF Validate, AllocFirst, Goto
    <3>3. Stream(n, m)
      BY <1>5, <3>1 DEF Phase
    <3>. QED  BY <1>0, <1>2, <3>1, <3>2, <3>3, ChannelLeft
  <2>. QED  BY <2>1, <2>2
<1>7. pc'[t] \in Channels /\ pc'[t] \in LockPlaces /\ pc'[t] # "set" /\ pc'[t] # "panic" /\ pc[t] \in Channels
  BY <1>2, <1>6 DEF Channels, LockPlaces
<1>8. Phase(pc[t], call[t].header, n, m)'
  BY <1>6 DEF Phase
<1>. QED  BY <1>0, <1>2, <1>4, <1>7, <1>8, InsideKept

LEMMA PieceKept ==
    ASSUME PortalsFit, NEW t \in Thread, Moves(t), NEW n, NEW m, n = NodeOf[t], m = Remote(t), Protocol(n, m),
           ReadPiece(t) \/ KeepPiece(t) \/ Drop(t)
    PROVE  Protocol(n, m)' /\ pc'[t] # "panic"
<1>0. ReadStep(t)
  BY DEF ReadStep
<1>1. /\ pc \in [Thread -> PCs] /\ Incoming(t) = channel[n][m] /\ n \in Node /\ m \in Node
      /\ readLock \in [Node -> [Node -> Thread \cup {NoThread}]]
  BY <1>0, ReaderAt
<1>2. UNCHANGED <<reading, allows>> /\ pc[t] \in {"piece", "drop"}
  BY DEF ReadPiece, KeepPiece, Drop, WriteFrame, readVars
<1>3. Holds(t, n, m) /\ Placed(t, n, m)
  BY <1>0, <1>2, ReaderAt, HoldsPlaced DEF Channels
<1>4. readLock[n][m] = t
  BY <1>2, <1>3, PlacedLocked DEF Locked, LockPlaces
<1>5. Phase(pc[t], call[t].header, n, m)
  BY <1>3 DEF Protocol
<1>6. PICK q, e : q = channel[n][m] /\ e = Head(q)
  OBVIOUS
<1>7. q # <<>> /\ Receive(t)
  BY <1>1, <1>6 DEF ReadPiece, KeepPiece, Drop
<1>8. Stream(n, m)
  <2>1. ~Quiet(n, m)
    BY <1>6, <1>7 DEF Quiet
  <2>. QED  BY <1>2, <1>5, <2>1 DEF Phase
<1>9. ~IsHeader(e) /\ IF e.eof THEN Quiet(n, m)' ELSE Stream(n, m)'
  BY <1>0, <1>2, <1>6, <1>7, <1>8, ChannelLeft, Zenon
<1>10. /\ \/ readLock' = readLock /\ pc'[t] = "finish" /\ e.eof
          \/ readLock' = readLock /\ pc'[t] = "piece" /\ ~e.eof
          \/ readLock' = readLock /\ pc'[t] = "drop"
          \/ readLock' = readLock /\ pc'[t] = "release" /\ e.eof
          \/ readLock'[n][m] = NoThread /\ pc'[t] = "more" /\ call'[t].header = e
  <2>1. CASE ReadPiece(t)
    <3>1. UNCHANGED readLock
      BY <2>1 DEF ReadPiece, WriteFrame, readVars
    <3>2. pc'[t] = "drop" \/ pc'[t] = AfterPiece(e)
      BY <1>1, <1>6, <1>9, <2>1 DEF ReadPiece, Goto
    <3>. QED  BY <3>1, <3>2 DEF AfterPiece
  <2>2. CASE Drop(t)
    <3>1. UNCHANGED readLock
      BY <2>2 DEF Drop, WriteFrame, readVars
    <3>2. pc'[t] = IF e.eof THEN "release" ELSE "drop"
      BY <1>1, <1>6, <1>9, <2>2 DEF Drop, Goto
    <3>. QED  BY <3>1, <3>2
  <2>3. CASE KeepPiece(t)
    <3>1. \/ UNCHANGED readLock /\ pc'[t] = AfterPiece(e)
          \/ /\ readLock' = [readLock EXCEPT ![n][m] = NoThread] /\ pc'[t] = "more"
             /\ call' = [call EXCEPT ![t].header = e]
      BY <1>1, <1>6, <1>9, <2>3 DEF KeepPiece, Goto
    <3>2. CASE UNCHANGED readLock /\ pc'[t] = AfterPiece(e)
      BY <3>2 DEF AfterPiece
    <3>3. CASE /\ readLock' = [readLock EXCEPT ![n][m] = NoThread] /\ pc'[t] = "more"
               /\ call' = [call EXCEPT ![t].header = e]
      <4>1. readLock'[n][m] = NoThread
        BY <1>1, <3>3
      <4>2. IsCall(call[t]) /\ call = [u \in Thread |-> call[u]]
        BY DEF PortalsFit, CallsFit, CallFits
      <4>3. PICK c : c = [call[t] EXCEPT !.header = e]
        OBVIOUS
      <4>4. c.header = e
        BY <4>2, <4>3, Sets, ZenonT(60)
      <4>5. call'[t] = c
        BY <3>3, <4>2, <4>3
      <4>. QED  BY <3>3, <4>1, <4>4, <4>5
    <3>. QED  BY <3>1, <3>2, <3>3
  <2>. QED  BY <2>1, <2>2, <2>3
<1>11. /\ pc'[t] \in Channels /\ pc'[t] # "set" /\ pc'[t] # "panic" /\ pc[t] \in Channels
       /\ pc'[t] \in LockPlaces => readLock'[n][m] = t
  BY <1>2, <1>4, <1>10 DEF Channels, LockPlaces
<1>12. Phase(pc[t], call[t].header, n, m)'
  <2>1. /\ pc'[t] \in {"finish", "release"} => Quiet(n, m)'
        /\ pc'[t] = "piece" => Stream(n, m)'
        /\ pc'[t] = "drop" => Stream(n, m)' \/ Quiet(n, m)'
        /\ pc'[t] = "more" => IF call'[t].header.eof THEN Quiet(n, m)' ELSE Stream(n, m)'
        /\ pc'[t] \in {"finish", "piece", "drop", "release", "more"}
    BY <1>9, <1>10
  <2>. QED  BY <2>1 DEF Phase
<1>. QED  BY <1>0, <1>2, <1>4, <1>11, <1>12, InsideKept

\* A reader stays one.
LEMMA ReadPlaces ==
    ASSUME PortalsFit, NEW t \in Thread, Moves(t), ReadStep(t)
    PROVE  pc'[t] \notin WriterPlaces
<1>0. pc \in [Thread -> PCs]
  BY DEF PortalsFit, CallsFit
<1>1. CASE Again(t) \/ ReadBuffered(t) \/ LockRead(t) \/ LockedRead(t) \/ CheckChannel(t) \/ SetChannel(t) \/ SendAllow(t)
  <2>1. \E x \in {"again", "exit", "lock", "locked", "check", "set", "allow", "header"} : pc'[t] = x
    BY <1>0, <1>1, ZenonT(60) DEF Again, ReadBuffered, LockRead, LockedRead, CheckChannel, SetChannel, SendAllow, TakeAvailable, Goto
  <2>. QED  BY <2>1 DEF WriterPlaces
<1>2. CASE ReadHeader(t) \/ Validate(t) \/ AllocFirst(t) \/ ReadPiece(t) \/ KeepPiece(t)
  <2>1. \E x \in {"panic", "validate", "drop", "alloc", "piece", "finish", "more"} : pc'[t] = x
    BY <1>0, <1>2 DEF ReadHeader, Validate, AllocFirst, ReadPiece, KeepPiece, AfterPiece, Goto
  <2>. QED  BY <2>1 DEF WriterPlaces
<1>3. CASE AllocNext(t) \/ Relock(t) \/ Drop(t) \/ FinishRead(t) \/ ReleaseChannel(t) \/ Exit(t) \/ ReadError(t)
  <2>1. \E x \in {"relock", "finish", "piece", "release", "drop", "exit", "again", "read end"} : pc'[t] = x
    BY <1>0, <1>3 DEF AllocNext, Relock, Drop, FinishRead, ReleaseChannel, Exit, ReadError, AfterPiece, Goto
  <2>. QED  BY <2>1 DEF WriterPlaces
<1>. QED  BY <1>1, <1>2, <1>3 DEF ReadStep

LEMMA LeaveKept ==
    ASSUME PortalsFit, NEW t \in Thread, Moves(t), NEW n, NEW m, n = NodeOf[t], m = Remote(t), Protocol(n, m),
           AllocNext(t) \/ Relock(t) \/ FinishRead(t) \/ ReleaseChannel(t)
    PROVE  Protocol(n, m)' /\ pc'[t] # "panic"
<1>0. ReadStep(t)
  BY DEF ReadStep
<1>1. /\ pc \in [Thread -> PCs] /\ n \in Node /\ m \in Node
      /\ readLock \in [Node -> [Node -> Thread \cup {NoThread}]]
  BY <1>0, ReaderAt
<1>2. UNCHANGED <<channel, allows>> /\ pc[t] \in {"more", "relock", "finish", "release"}
  BY DEF AllocNext, Relock, FinishRead, ReleaseChannel, mailboxVars
<1>3. Holds(t, n, m) /\ Placed(t, n, m) /\ pc[t] \in Channels
  BY <1>0, <1>2, ReaderAt, HoldsPlaced DEF Channels
<1>4. pc[t] \in {"finish", "release"} => readLock[n][m] = t
  BY <1>3, PlacedLocked DEF Locked, LockPlaces
<1>5. Phase(pc[t], call[t].header, n, m)
  BY <1>3 DEF Protocol
<1>6. (Quiet(n, m)' <=> Quiet(n, m)) /\ (Stream(n, m)' <=> Stream(n, m))
  BY <1>0, <1>2, ChannelLeft
<1>7. CASE AllocNext(t)
  <2>1. pc[t] = "more" /\ pc'[t] = "relock" /\ UNCHANGED <<readLock, reading>>
    BY <1>1, <1>7 DEF AllocNext, Goto, readVars
  <2>2. call'[t].header = call[t].header
    <3>1. IsCall(call[t]) /\ call = [u \in Thread |-> call[u]]
      BY DEF PortalsFit, CallsFit, CallFits
    <3>2. PICK b : call' = [call EXCEPT ![t].buf = b]
      BY <1>7 DEF AllocNext
    <3>3. PICK c : c = [call[t] EXCEPT !.buf = b]
      OBVIOUS
    <3>4. c.header = call[t].header
      BY <3>1, <3>3, Sets
    <3>5. call'[t] = c
      BY <3>1, <3>2, <3>3
    <3>. QED  BY <3>4, <3>5
  <2>3. IF call[t].header.eof THEN Quiet(n, m) ELSE Stream(n, m)
    BY <1>5, <2>1 DEF Phase
  <2>4. Phase(pc[t], call[t].header, n, m)'
    BY <1>6, <2>1, <2>2, <2>3 DEF Phase
  <2>5. pc'[t] \in Channels /\ pc'[t] \notin LockPlaces /\ pc'[t] # "set" /\ pc'[t] # "panic"
    BY <2>1 DEF Channels, LockPlaces
  <2>. QED  BY <1>0, <1>2, <1>3, <2>1, <2>4, <2>5, InsideKept
<1>8. CASE Relock(t)
  <2>1. /\ pc[t] = "relock" /\ pc'[t] = AfterPiece(call[t].header) /\ UNCHANGED reading
        /\ readLock[n][m] = NoThread /\ readLock'[n][m] = t
    BY <1>1, <1>8 DEF Relock, Goto
  <2>2. IF call[t].header.eof THEN Quiet(n, m) ELSE Stream(n, m)
    BY <1>5, <2>1 DEF Phase
  <2>3. \/ pc'[t] = "finish" /\ Quiet(n, m)'
        \/ pc'[t] = "piece" /\ Stream(n, m)'
    BY <1>6, <2>1, <2>2 DEF AfterPiece
  <2>4. Phase(pc[t], call[t].header, n, m)'
    BY <2>3 DEF Phase
  <2>5. pc'[t] \in Channels /\ pc'[t] # "set" /\ pc'[t] # "panic"
    BY <2>3 DEF Channels
  <2>. QED  BY <1>0, <1>2, <1>3, <2>1, <2>4, <2>5, InsideKept
<1>9. CASE FinishRead(t) \/ ReleaseChannel(t)
  <2>1. /\ UNCHANGED readLock
        /\ \/ pc[t] = "finish" /\ pc'[t] = "release" /\ UNCHANGED reading
           \/ pc[t] = "release" /\ pc'[t] = "exit"
    BY <1>1, <1>9 DEF FinishRead, ReleaseChannel, Goto, readVars
  <2>2. Quiet(n, m)'
    BY <1>5, <1>6, <2>1 DEF Phase
  <2>3. pc'[t] # "panic" /\ pc'[t] # "set" /\ (pc'[t] \in Channels => pc'[t] = "release")
    BY <2>1 DEF Channels
  <2>4. IF pc'[t] \in Channels THEN Phase(pc[t], call[t].header, n, m)' ELSE Quiet(n, m)'
    BY <2>2, <2>3 DEF Phase
  <2>5. pc'[t] \in Channels => UNCHANGED reading
    BY <2>1 DEF Channels
  <2>. QED  BY <1>0, <1>2, <1>3, <1>4, <2>1, <2>3, <2>4, <2>5, InsideKept
<1>. QED  BY <1>7, <1>8, <1>9

\* A step of a reader, for the channel from which it reads and for the others.
LEMMA ReaderKeeps ==
    ASSUME PortalsFit, NEW t \in Thread, Moves(t), ReadStep(t),
           NEW n \in Node, NEW m \in Node \ {n}, Protocol(n, m), n \notin stolen' \cup broken'
    PROVE  Protocol(n, m)'
<1>1. PICK o, r : o = NodeOf[t] /\ r = Remote(t)
  OBVIOUS
<1>2. CASE n = o /\ m = r
  <2>1. ~ReadError(t)
    BY <1>1, <1>2 DEF ReadError
  <2>. QED  BY <1>1, <1>2, <2>1, OutsideKept, AskKept, HeaderKept, PieceKept, LeaveKept DEF ReadStep
<1>3. CASE ~(n = o /\ m = r)
  <2>1. /\ o \in Node /\ r \in Node /\ pc \in [Thread -> PCs]
        /\ readLock \in [Node -> [Node -> Thread \cup {NoThread}]]
        /\ reading \in [Node -> SUBSET Node] /\ allows \in [Node -> Seq(Node)]
        /\ channel \in [Node -> [Node -> Seq(Header \cup Piece)]]
        /\ UNCHANGED isAllowed
    BY <1>1, ReaderAt
  <2>2. pc[t] \in RemoteReads /\ pc'[t] # "idle"
    BY <1>1, Frames, ReadLocks
  <2>3. Remote(t)' = r /\ pc[t] # "idle"
    <3>1. pc[t] # "idle"
      BY <2>2 DEF RemoteReads, Channels
    <3>. QED  BY <1>1, <2>2, <3>1, StaysAlike
  <2>4. ~Placed(t, n, m) /\ ~Placed(t, n, m)'
    BY <1>1, <1>3, <2>3 DEF Placed
  <2>5. readLock'[n][m] = readLock[n][m]
    <3>1. readLock' = readLock \/ readLock' = [readLock EXCEPT ![o][r] = t] \/ readLock' = [readLock EXCEPT ![o][r] = NoThread]
      BY <1>1, ReadLocks
    <3>2. \/ readLock'[n] = readLock[n]
          \/ n = o /\ readLock'[n] = [readLock[n] EXCEPT ![r] = t]
          \/ n = o /\ readLock'[n] = [readLock[n] EXCEPT ![r] = NoThread]
      BY <2>1, <3>1
    <3>3. n = o => m # r
      BY <1>3
    <3>4. readLock[n] \in [Node -> Thread \cup {NoThread}]
      BY <2>1
    <3>. QED  BY <3>2, <3>3, <3>4
  <2>6. m \in reading'[n] <=> m \in reading[n]
    <3>1. reading' = reading \/ reading' = [reading EXCEPT ![o] = @ \cup {r}] \/ reading' = [reading EXCEPT ![o] = @ \ {r}]
      BY <1>1, ReadLocks
    <3>2. \/ reading'[n] = reading[n]
          \/ n = o /\ reading'[n] = reading[n] \cup {r}
          \/ n = o /\ reading'[n] = reading[n] \ {r}
      BY <2>1, <3>1
    <3>3. n = o => m # r
      BY <1>3
    <3>. QED  BY <3>2, <3>3
  <2>7. Ready(n, m)' = Ready(n, m) /\ Sending(n, m)' = Sending(n, m)
    <3>1. pc[t] \notin WriterPlaces
      BY <2>2 DEF RemoteReads, Channels, WriterPlaces
    <3>2. pc'[t] \notin WriterPlaces
      BY <2>2, ReadPlaces
    <3>. QED  BY <3>1, <3>2, WritersSame
  <2>8. channel'[n][m] = channel[n][m]
    <3>1. UNCHANGED channel \/ Receive(t)
      BY DEF ReadStep, Again, ReadBuffered, LockRead, LockedRead, CheckChannel, SetChannel, SendAllow, ReadHeader,
        Validate, AllocFirst, ReadPiece, KeepPiece, AllocNext, Relock, Drop, FinishRead, ReleaseChannel, Exit,
        ReadError, TableFrame, mailboxVars
    <3>2. Receive(t) => channel' = [channel EXCEPT ![o][r] = Tail(channel[o][r])]
      BY <1>1 DEF Receive
    <3>3. CASE Receive(t)
      <4>1. PICK q : q = Tail(channel[o][r])
        OBVIOUS
      <4>2. channel' = [channel EXCEPT ![o][r] = q]
        BY <3>2, <3>3, <4>1
      <4>3. channel \in [Node -> [Node -> Seq(Header \cup Piece)]]
        BY <2>1
      <4>. QED  BY <1>3, <4>2, <4>3, OtherEntry
    <3>. QED  BY <3>1, <3>3
  <2>9. Allows(n, m)' = Allows(n, m)
    <3>1. UNCHANGED allows \/ allows' = [allows EXCEPT ![r] = Append(@, o)]
      BY <1>1 DEF ReadStep, Again, ReadBuffered, LockRead, LockedRead, CheckChannel, SetChannel, SendAllow, ReadHeader,
        Validate, AllocFirst, ReadPiece, KeepPiece, AllocNext, Relock, Drop, FinishRead, ReleaseChannel, Exit,
        ReadError, TableFrame, mailboxVars
    <3>2. CASE UNCHANGED allows
      BY <3>2 DEF Allows
    <3>3. CASE allows' = [allows EXCEPT ![r] = Append(@, o)] /\ m # r
      <4>1. allows'[m] = allows[m]
        BY <2>1, <3>3
      <4>. QED  BY <4>1 DEF Allows
    <3>4. CASE allows' = [allows EXCEPT ![r] = Append(@, o)] /\ m = r
      <4>1. n # o /\ allows'[m] = Append(allows[m], o) /\ allows[m] \in Seq(Node)
        BY <1>3, <2>1, <3>4
      <4>2. PICK q, s : q = allows[m] /\ s = allows'[m]
        OBVIOUS
      <4>3. s = Append(q, o) /\ q \in Seq(Node) /\ o \in Node
        BY <2>1, <4>1, <4>2
      <4>4. {i \in DOMAIN s : s[i] = n} = {i \in DOMAIN q : q[i] = n}
        BY <4>1, <4>3, AllowSent
      <4>. QED  BY <4>2, <4>4 DEF Allows
    <3>. QED  BY <3>1, <3>2, <3>3, <3>4
  <2>10. Calm(n, m)
    BY <2>1, <2>7, <2>8, <2>9 DEF Calm
  <2>. QED  BY <2>4, <2>5, <2>6, <2>10, ProtocolSame
<1>. QED  BY <1>2, <1>3

-----------------------------------------------------------------------------
\* The writers of a node that wait with a permission, and the one that sends.
LEMMA WritersMove ==
    ASSUME PortalsFit, NEW t \in Thread, Moves(t), pc[t] \in RemoteWrites, pc'[t] # "idle", NEW n, NEW m
    PROVE  IF m = NodeOf[t] /\ n = Target(t)
           THEN /\ Ready(n, m)' = (Ready(n, m) \ {t}) \cup (IF pc'[t] \in {"lock write", "send header"} THEN {t} ELSE {})
                /\ Sending(n, m)' = (Sending(n, m) \ {t}) \cup (IF pc'[t] = "send" THEN {t} ELSE {})
                /\ t \in Ready(n, m) <=> pc[t] \in {"lock write", "send header"}
                /\ t \in Sending(n, m) <=> pc[t] = "send"
           ELSE Ready(n, m)' = Ready(n, m) /\ Sending(n, m)' = Sending(n, m)
<1>0. Target(t)' = Target(t)
  <2>1. pc[t] # "idle"
    BY DEF RemoteWrites
  <2>. QED  BY <2>1, StaysAlike
<1>1. ASSUME NEW u \in Thread \ {t}
      PROVE  /\ u \in Ready(n, m)' <=> u \in Ready(n, m)
             /\ u \in Sending(n, m)' <=> u \in Sending(n, m)
  <2>1. pc'[u] = pc[u] /\ call'[u] = call[u]
    BY MovesOther
  <2>. QED  BY <2>1 DEF Ready, Sending, Target
<1>2. t \in Ready(n, m) <=> m = NodeOf[t] /\ n = Target(t) /\ pc[t] \in {"lock write", "send header"}
  BY DEF Ready
<1>3. t \in Sending(n, m) <=> m = NodeOf[t] /\ n = Target(t) /\ pc[t] = "send"
  BY DEF Sending
<1>4. t \in Ready(n, m)' <=> m = NodeOf[t] /\ n = Target(t) /\ pc'[t] \in {"lock write", "send header"}
  BY <1>0 DEF Ready
<1>5. t \in Sending(n, m)' <=> m = NodeOf[t] /\ n = Target(t) /\ pc'[t] = "send"
  BY <1>0 DEF Sending
<1>6. Ready(n, m) \subseteq Thread /\ Ready(n, m)' \subseteq Thread /\ Sending(n, m) \subseteq Thread /\ Sending(n, m)' \subseteq Thread
  BY DEF Ready, Sending
<1>7. PICK r, rr, s, ss : r = Ready(n, m) /\ rr = Ready(n, m)' /\ s = Sending(n, m) /\ ss = Sending(n, m)'
  OBVIOUS
<1>8. PICK own, ready, send :
         /\ own <=> m = NodeOf[t] /\ n = Target(t)
         /\ ready <=> pc'[t] \in {"lock write", "send header"}
         /\ send <=> pc'[t] = "send"
  OBVIOUS
<1>9. /\ \A u \in Thread \ {t} : (u \in rr <=> u \in r) /\ (u \in ss <=> u \in s)
      /\ r \subseteq Thread /\ rr \subseteq Thread /\ s \subseteq Thread /\ ss \subseteq Thread
      /\ t \in rr <=> own /\ ready
      /\ t \in ss <=> own /\ send
      /\ ~own => t \notin r /\ t \notin s
  BY <1>1, <1>2, <1>3, <1>4, <1>5, <1>6, <1>7, <1>8
<1>10. IF own THEN /\ rr = (r \ {t}) \cup (IF ready THEN {t} ELSE {})
                   /\ ss = (s \ {t}) \cup (IF send THEN {t} ELSE {})
       ELSE rr = r /\ ss = s
  <2>1. CASE own
    <3>1. rr = (r \ {t}) \cup (IF ready THEN {t} ELSE {})
      <4>1. CASE ready
        BY <1>9, <2>1, <4>1
      <4>2. CASE ~ready
        BY <1>9, <2>1, <4>2
      <4>. QED  BY <4>1, <4>2
    <3>2. ss = (s \ {t}) \cup (IF send THEN {t} ELSE {})
      <4>1. CASE send
        BY <1>9, <2>1, <4>1
      <4>2. CASE ~send
        BY <1>9, <2>1, <4>2
      <4>. QED  BY <4>1, <4>2
    <3>. QED  BY <2>1, <3>1, <3>2
  <2>2. CASE ~own
    BY <1>9, <2>2
  <2>. QED  BY <2>1, <2>2
<1>11. CASE m = NodeOf[t] /\ n = Target(t)
  <2>1. own
    BY <1>8, <1>11
  <2>2. rr = (r \ {t}) \cup (IF ready THEN {t} ELSE {}) /\ ss = (s \ {t}) \cup (IF send THEN {t} ELSE {})
    BY <1>10, <2>1
  <2>. QED  BY <1>2, <1>3, <1>7, <1>8, <1>11, <2>2, Zenon
<1>12. CASE ~(m = NodeOf[t] /\ n = Target(t))
  <2>1. ~own
    BY <1>8, <1>12
  <2>2. rr = r /\ ss = s
    BY <1>10, <2>1
  <2>. QED  BY <1>7, <1>12, <2>2, Zenon
<1>. QED  BY <1>11, <1>12

\* A step of a writer changes nothing of the channels to which it does not write.
LEMMA WritersApart ==
    ASSUME PortalsFit, NEW t \in Thread, Moves(t), pc[t] \in RemoteWrites, pc'[t] # "idle", NEW n, NEW m,
           ~(m = NodeOf[t] /\ n = Target(t))
    PROVE  Ready(n, m)' = Ready(n, m) /\ Sending(n, m)' = Sending(n, m)
BY WritersMove, ZenonT(60)

\* A step of a writer, when it brings the message along.
LEMMA WriterBrings ==
    ASSUME PortalsFit, NEW t \in Thread, Moves(t), NEW n, NEW m, Protocol(n, m),
           UNCHANGED <<readLock, reading>>, ~Placed(t, n, m), ~Placed(t, n, m)',
           OneToken(n, m)', Quiet(n, m) => Quiet(n, m)', Stream(n, m) => Stream(n, m)',
           Awaited(n, m) \/ Started(n, m) => Awaited(n, m)' \/ Started(n, m)'
    PROVE  Protocol(n, m)'
<1>1. ~Holds(t, n, m) /\ ~Holds(t, n, m)'
  BY DEF Holds, Placed, Marked
<1>2. \A u \in Thread : /\ Placed(u, n, m)' <=> Placed(u, n, m)
                        /\ Holds(u, n, m)' <=> Holds(u, n, m)
                        /\ Placed(u, n, m) => pc'[u] = pc[u] /\ call'[u].header = call[u].header
  BY <1>1, OtherPlace
<1>3. \A u \in Thread : Placed(u, n, m)' => Locked(u, n, m)'
  BY <1>2 DEF Protocol, Locked
<1>4. (\A u \in Thread : ~Holds(u, n, m)') => Quiet(n, m)'
  BY <1>2 DEF Protocol
<1>5. ASSUME NEW u \in Thread, Holds(u, n, m)' PROVE Phase(pc[u], call[u].header, n, m)'
  <2>1. Holds(u, n, m) /\ pc'[u] = pc[u] /\ call'[u].header = call[u].header
    BY <1>2, <1>5, HoldsPlaced
  <2>2. Phase(pc[u], call[u].header, n, m)
    BY <2>1 DEF Protocol
  <2>. QED  BY <2>1, <2>2 DEF Phase
<1>6. \A u, v \in Thread : Holds(u, n, m)' /\ Holds(v, n, m)' => u = v
  BY <1>2 DEF Protocol
<1>. QED  BY <1>3, <1>4, <1>5, <1>6 DEF Protocol

\* Where a writer goes.
LEMMA WritePlaces ==
    ASSUME PortalsFit, NEW t \in Thread, WriteStep(t)
    PROVE  pc'[t] \in RemoteWrites \cup {"write end"}
<1>0. pc \in [Thread -> PCs]
  BY DEF PortalsFit, CallsFit
<1>1. CASE TakeAllow(t) \/ LockAllow(t) \/ ReceiveAllow(t) \/ AllowError(t)
  <2>1. \E x \in {"lock write", "read allow", "wait allow", "write end"} : pc'[t] = x
    BY <1>0, <1>1 DEF TakeAllow, LockAllow, ReceiveAllow, AllowError, Goto
  <2>. QED  BY <2>1 DEF RemoteWrites
<1>2. CASE LockWrite(t) \/ SendHeader(t) \/ SendPiece(t) \/ WriteError(t)
  <2>1. \E x \in {"send header", "send", "write end"} : pc'[t] = x
    BY <1>0, <1>2 DEF LockWrite, SendHeader, SendPiece, WriteError, Goto
  <2>. QED  BY <2>1 DEF RemoteWrites
<1>. QED  BY <1>1, <1>2 DEF WriteStep

LEMMA WriterAt ==
    ASSUME PortalsFit, NEW t \in Thread, Moves(t), WriteStep(t)
    PROVE  /\ NodeOf[t] \in Node /\ Target(t) \in Node /\ Target(t) # NodeOf[t]
           /\ isAllowed \in [Node -> SUBSET Node] /\ allows \in [Node -> Seq(Node)]
           /\ channel \in [Node -> [Node -> Seq(Header \cup Piece)]] /\ pc \in [Thread -> PCs]
           /\ UNCHANGED <<readLock, reading>>
           /\ pc[t] \in RemoteWrites /\ pc'[t] \in RemoteWrites \cup {"write end"} /\ pc'[t] # "idle"
           /\ \A n, m : ~Placed(t, n, m) /\ ~Placed(t, n, m)'
<1>1. pc[t] \in RemoteWrites /\ UNCHANGED <<readLock, reading>>
  BY Frames DEF readVars
<1>2. pc'[t] \in RemoteWrites \cup {"write end"} /\ pc'[t] # "idle"
  BY WritePlaces DEF RemoteWrites
<1>3. call[t].port \in Peer /\ call[t].port[1] # NodeOf[t]
  BY <1>1 DEF PortalsFit, CallsFit, CallFits, Writing
<1>4. \A n, m : ~Placed(t, n, m) /\ ~Placed(t, n, m)'
  BY <1>1, <1>2 DEF Placed, Marked, Channels, RemoteWrites
<1>. QED  BY <1>1, <1>2, <1>3, <1>4, PeerIs, Consts DEF PortalsFit, LocksFit, MailFits, CallsFit, Target

\* A writer takes a permission that has been noted,
LEMMA TakeKept ==
    ASSUME PortalsFit, NEW t \in Thread, Moves(t), NEW n \in Node, NEW m \in Node, Protocol(n, m), TakeAllow(t)
    PROVE  Protocol(n, m)'
<1>0. WriteStep(t)
  BY DEF WriteStep
<1>a. pc[t] \in RemoteWrites /\ pc'[t] # "idle"
  BY <1>0, WriterAt
<1>b. IF m = NodeOf[t] /\ n = Target(t)
      THEN /\ Ready(n, m)' = (Ready(n, m) \ {t}) \cup (IF pc'[t] \in {"lock write", "send header"} THEN {t} ELSE {})
           /\ Sending(n, m)' = (Sending(n, m) \ {t}) \cup (IF pc'[t] = "send" THEN {t} ELSE {})
           /\ t \in Ready(n, m) <=> pc[t] \in {"lock write", "send header"}
           /\ t \in Sending(n, m) <=> pc[t] = "send"
      ELSE Ready(n, m)' = Ready(n, m) /\ Sending(n, m)' = Sending(n, m)
  BY <1>a, WritersMove, ZenonT(60)
<1>1. pc[t] = "wait allow" /\ pc'[t] = "lock write" /\ UNCHANGED <<channel, allows>>
  BY <1>0, WriterAt DEF TakeAllow, Goto, mailboxVars
<1>2. Allows(n, m)' = Allows(n, m) /\ channel'[n][m] = channel[n][m]
  BY <1>1 DEF Allows
<1>3. PICK x, y : x = NodeOf[t] /\ y = Target(t)
  OBVIOUS
<1>4. y \in isAllowed[x] /\ isAllowed' = [isAllowed EXCEPT ![x] = @ \ {y}] /\ x \in Node /\ isAllowed \in [Node -> SUBSET Node]
  BY <1>0, <1>3, WriterAt DEF TakeAllow
<1>5. CASE m = x /\ n = y
  <2>1. Ready(n, m)' = (Ready(n, m) \ {t}) \cup {t} /\ Sending(n, m)' = Sending(n, m) \ {t} /\ t \notin Sending(n, m)
    BY <1>0, <1>1, <1>3, <1>5, <1>b
  <2>2. n \in isAllowed[m] /\ n \notin isAllowed'[m]
    BY <1>4, <1>5
  <2>3. OneToken(n, m)
    BY DEF Protocol
  <2>4. Ready(n, m) = {} /\ Sending(n, m) = {} /\ Allows(n, m) = {}
    BY <2>2, <2>3 DEF OneToken
  <2>5. Ready(n, m)' = {t} /\ Sending(n, m)' = {}
    BY <2>1, <2>4
  <2>6. OneToken(n, m)'
    BY <1>2, <2>2, <2>4, <2>5 DEF OneToken
  <2>7. ~Quiet(n, m) /\ ~Started(n, m) /\ ~Stream(n, m)
    BY <2>2 DEF Quiet, Started, Stream, NoCredit
  <2>8. Awaited(n, m) => Awaited(n, m)'
    BY <1>2, <2>5 DEF Awaited
  <2>. QED  BY <1>0, <2>6, <2>7, <2>8, WriterAt, WriterBrings
<1>6. CASE ~(m = x /\ n = y)
  <2>1. Ready(n, m)' = Ready(n, m) /\ Sending(n, m)' = Sending(n, m)
    BY <1>0, <1>3, <1>6, <1>b
  <2>2. n \in isAllowed'[m] <=> n \in isAllowed[m]
    BY <1>4, <1>6
  <2>3. Calm(n, m)
    BY <1>2, <2>1, <2>2 DEF Calm
  <2>. QED  BY <1>0, <2>3, WriterAt, ProtocolSame
<1>. QED  BY <1>5, <1>6

\* or waits for one, or for the channel, or gives up,
LEMMA WaitKept ==
    ASSUME PortalsFit, NEW t \in Thread, Moves(t), NEW n \in Node, NEW m \in Node, Protocol(n, m), n \notin broken',
           LockAllow(t) \/ LockWrite(t) \/ AllowError(t) \/ WriteError(t)
    PROVE  Protocol(n, m)'
<1>0. WriteStep(t)
  BY DEF WriteStep
<1>a. pc[t] \in RemoteWrites /\ pc'[t] # "idle"
  BY <1>0, WriterAt
<1>b. IF m = NodeOf[t] /\ n = Target(t)
      THEN /\ Ready(n, m)' = (Ready(n, m) \ {t}) \cup (IF pc'[t] \in {"lock write", "send header"} THEN {t} ELSE {})
           /\ Sending(n, m)' = (Sending(n, m) \ {t}) \cup (IF pc'[t] = "send" THEN {t} ELSE {})
           /\ t \in Ready(n, m) <=> pc[t] \in {"lock write", "send header"}
           /\ t \in Sending(n, m) <=> pc[t] = "send"
      ELSE Ready(n, m)' = Ready(n, m) /\ Sending(n, m)' = Sending(n, m)
  BY <1>a, WritersMove, ZenonT(60)
<1>1. UNCHANGED <<channel, allows, isAllowed>>
  BY DEF LockAllow, LockWrite, AllowError, WriteError, mailboxVars
<1>2. PICK x, y : x = NodeOf[t] /\ y = Target(t)
  OBVIOUS
<1>3. Ready(n, m)' = Ready(n, m) /\ Sending(n, m)' = Sending(n, m)
  <2>1. CASE m = x /\ n = y
    <3>1. LockAllow(t) \/ LockWrite(t)
      BY <1>2, <2>1 DEF AllowError, WriteError
    <3>2. \/ pc[t] = "wait allow" /\ pc'[t] = "read allow"
          \/ pc[t] = "lock write" /\ pc'[t] = "send header"
      BY <1>0, <3>1, WriterAt DEF LockAllow, LockWrite, Goto
    <3>3. IF pc[t] = "lock write" THEN Ready(n, m)' = (Ready(n, m) \ {t}) \cup {t} /\ t \in Ready(n, m)
          ELSE Ready(n, m)' = (Ready(n, m) \ {t}) \cup {} /\ t \notin Ready(n, m)
      BY <1>0, <1>2, <2>1, <3>2, <1>b
    <3>4. Sending(n, m)' = (Sending(n, m) \ {t}) \cup {} /\ t \notin Sending(n, m)
      BY <1>0, <1>2, <2>1, <3>2, <1>b
    <3>. QED  BY <3>3, <3>4
  <2>2. CASE ~(m = x /\ n = y)
    BY <1>0, <1>2, <2>2, <1>b
  <2>. QED  BY <2>1, <2>2
<1>4. Calm(n, m)
  BY <1>1, <1>3 DEF Calm, Allows
<1>. QED  BY <1>0, <1>4, WriterAt, ProtocolSame

\* receives one, for itself or for another writer,
LEMMA ReceiveKept ==
    ASSUME PortalsFit, NEW t \in Thread, Moves(t), NEW n \in Node, NEW m \in Node, Protocol(n, m), ReceiveAllow(t)
    PROVE  Protocol(n, m)'
<1>0. WriteStep(t)
  BY DEF WriteStep
<1>a. pc[t] \in RemoteWrites /\ pc'[t] # "idle"
  BY <1>0, WriterAt
<1>b. IF m = NodeOf[t] /\ n = Target(t)
      THEN /\ Ready(n, m)' = (Ready(n, m) \ {t}) \cup (IF pc'[t] \in {"lock write", "send header"} THEN {t} ELSE {})
           /\ Sending(n, m)' = (Sending(n, m) \ {t}) \cup (IF pc'[t] = "send" THEN {t} ELSE {})
           /\ t \in Ready(n, m) <=> pc[t] \in {"lock write", "send header"}
           /\ t \in Sending(n, m) <=> pc[t] = "send"
      ELSE Ready(n, m)' = Ready(n, m) /\ Sending(n, m)' = Sending(n, m)
  BY <1>a, WritersMove, Zenon
<1>1. PICK x, y, h, q : x = NodeOf[t] /\ y = Target(t) /\ q = allows[x] /\ h = Head(q)
  OBVIOUS
<1>2. /\ x \in Node /\ isAllowed \in [Node -> SUBSET Node] /\ allows \in [Node -> Seq(Node)]
      /\ pc \in [Thread -> PCs] /\ q \in Seq(Node)
  BY <1>0, <1>1, WriterAt
<1>3. PICK known \in BOOLEAN : known <=> \E l \in Port : output[x][<<h, l>>] # None
  OBVIOUS
<1>4. PICK now : now = isAllowed[x] \cup (IF known THEN {h} ELSE {})
  OBVIOUS
<1>5. /\ q # <<>> /\ allows' = [allows EXCEPT ![x] = Tail(q)] /\ UNCHANGED channel
      /\ isAllowed' = [isAllowed EXCEPT ![x] = now \ {y}]
      /\ pc[t] = "read allow" /\ pc'[t] = (IF y \in now THEN "lock write" ELSE "wait allow")
  BY <1>1, <1>2, <1>3, <1>4 DEF ReceiveAllow, Goto
<1>6. CASE m # x
  <2>1. Ready(n, m)' = Ready(n, m) /\ Sending(n, m)' = Sending(n, m)
    BY <1>0, <1>1, <1>6, <1>b
  <2>2. allows'[m] = allows[m] /\ isAllowed'[m] = isAllowed[m]
    BY <1>2, <1>5, <1>6
  <2>3. Calm(n, m)
    BY <1>5, <2>1, <2>2 DEF Calm, Allows
  <2>. QED  BY <1>0, <2>3, WriterAt, ProtocolSame
<1>7. CASE m = x
  <2>1. PICK p, r : p = Allows(n, m) /\ r = Allows(n, m)'
    OBVIOUS
  <2>2. /\ p = {} => r = {} /\ h # n
        /\ (\A i, j \in p : i = j) => (\A i, j \in r : i = j)
        /\ h = n /\ (\A i, j \in p : i = j) => r = {}
        /\ h = n => p # {}
    <3>1. PICK s : s = Tail(q)
      OBVIOUS
    <3>2. p = {i \in DOMAIN q : q[i] = n}
      BY <1>1, <1>7, <2>1 DEF Allows
    <3>3. allows'[m] = s
      BY <1>2, <1>5, <1>7, <3>1
    <3>4. r = {i \in DOMAIN s : s[i] = n}
      BY <2>1, <3>3 DEF Allows
    <3>5. /\ q \in Seq(Node) /\ q # <<>> /\ h = Head(q)
          /\ p = {i \in DOMAIN q : q[i] = n}
          /\ r = {i \in DOMAIN Tail(q) : Tail(q)[i] = n}
      BY <1>1, <1>2, <1>5, <3>1, <3>2, <3>4
    <3>. QED  BY <3>5, AllowTaken
  <2>3. /\ n \in isAllowed'[m] <=> n \in now /\ n # y
        /\ n \in now <=> n \in isAllowed[m] \/ (known /\ n = h)
    BY <1>2, <1>4, <1>5, <1>7
  <2>4. PICK ready, ready1, send, send1, noted, noted1 :
          /\ ready = Ready(n, m) /\ ready1 = Ready(n, m)' /\ send = Sending(n, m) /\ send1 = Sending(n, m)'
          /\ noted <=> n \in isAllowed[m]
          /\ noted1 <=> n \in isAllowed'[m]
    OBVIOUS
  <2>5. /\ \A i, j \in p : i = j
        /\ \A u, v \in ready \cup send : u = v
        /\ noted => p = {}
        /\ ready \cup send # {} => p = {} /\ ~noted
    BY <2>1, <2>4 DEF Protocol, OneToken
  <2>6. /\ n = y => t \notin send /\ t \notin ready /\ send1 = (send \ {t}) \cup {}
        /\ n = y => ready1 = (ready \ {t}) \cup (IF n \in now THEN {t} ELSE {})
        /\ n # y => ready1 = ready /\ send1 = send
    BY <1>0, <1>1, <1>5, <1>7, <2>4, <1>b
  <2>7. send1 = send
    BY <2>6
  <2>8. CASE n \in now /\ n = y
    <3>1. ready = {} /\ send = {} /\ r = {} /\ ~(p = {} /\ ~noted)
      BY <2>2, <2>3, <2>4, <2>5, <2>8
    <3>2. ready1 = {t} /\ send1 = {} /\ ~noted1
      BY <2>3, <2>4, <2>6, <2>7, <2>8, <3>1
    <3>3. OneToken(n, m)'
      BY <2>1, <2>4, <3>1, <3>2 DEF OneToken
    <3>4. ~NoCredit(n, m)
      BY <2>1, <2>4, <3>1 DEF NoCredit
    <3>5. ~Quiet(n, m) /\ ~Started(n, m) /\ ~Stream(n, m)
      BY <3>4 DEF Quiet, Started, Stream
    <3>6. Awaited(n, m) => Awaited(n, m)'
      BY <1>5, <2>4, <2>7 DEF Awaited
    <3>. QED  BY <1>0, <3>3, <3>5, <3>6, WriterAt, WriterBrings
  <2>9. CASE ~(n \in now /\ n = y)
    <3>1. ready1 = ready
      BY <2>6, <2>9
    <3>2. /\ noted1 => noted \/ n = h
          /\ noted /\ n # y => noted1
          /\ p = {} /\ ~noted => ~noted1 /\ r = {}
      BY <2>2, <2>3, <2>4
    <3>3. noted1 => r = {}
      BY <2>2, <2>5, <3>2
    <3>4. ready \cup send # {} => r = {} /\ ~noted1
      BY <2>5, <3>2
    <3>5. \A i, j \in r : i = j
      BY <2>2, <2>5
    <3>6. OneToken(n, m)'
      BY <2>1, <2>4, <2>5, <2>7, <3>1, <3>3, <3>4, <3>5 DEF OneToken
    <3>7. NoCredit(n, m) => NoCredit(n, m)'
      BY <2>1, <2>4, <3>1, <3>2 DEF NoCredit
    <3>8. Sending(n, m)' = Sending(n, m) /\ channel'[n][m] = channel[n][m]
      BY <1>5, <2>4, <2>7
    <3>9. Quiet(n, m) => Quiet(n, m)'
      BY <3>7, <3>8 DEF Quiet
    <3>10. Started(n, m) => Started(n, m)'
      BY <3>7, <3>8, Zenon DEF Started
    <3>11. Stream(n, m) => Stream(n, m)'
      BY <3>7, <3>8, Zenon DEF Stream
    <3>12. Awaited(n, m) => Awaited(n, m)'
      BY <3>8 DEF Awaited
    <3>. QED  BY <1>0, <3>6, <3>9, <3>10, <3>11, <3>12, WriterAt, WriterBrings
  <2>. QED  BY <2>8, <2>9
<1>. QED  BY <1>6, <1>7

\* sends the header of its message,
LEMMA SendHeaderKept ==
    ASSUME PortalsFit, NEW t \in Thread, Moves(t), NEW n \in Node, NEW m \in Node, Protocol(n, m), SendHeader(t)
    PROVE  Protocol(n, m)'
<1>0. WriteStep(t)
  BY DEF WriteStep
<1>1. PICK x, y, e : x = NodeOf[t] /\ y = Target(t) /\ e = [from |-> Config(t).from, to |-> Config(t).to[2]]
  OBVIOUS
<1>2. /\ x \in Node /\ y \in Node /\ channel \in [Node -> [Node -> Seq(Header \cup Piece)]] /\ pc \in [Thread -> PCs]
      /\ pc[t] \in RemoteWrites /\ pc'[t] # "idle"
  BY <1>0, <1>1, WriterAt
<1>3. /\ pc[t] = "send header" /\ pc'[t] = "send" /\ UNCHANGED <<allows, isAllowed>>
      /\ channel' = [channel EXCEPT ![y][x] = Append(@, e)]
  BY <1>1, <1>2 DEF SendHeader, Send, Goto, writeVars
<1>4. IsHeader(e)
  BY <1>1 DEF IsHeader
<1>5. CASE m = x /\ n = y
  <2>1. PICK ready, ready1, send, send1 :
          ready = Ready(n, m) /\ ready1 = Ready(n, m)' /\ send = Sending(n, m) /\ send1 = Sending(n, m)'
    OBVIOUS
  <2>2. /\ ready1 = (ready \ {t}) \cup {} /\ t \in ready
        /\ send1 = (send \ {t}) \cup {t} /\ t \notin send
    BY <1>1, <1>2, <1>3, <1>5, <2>1, WritersMove
  <2>3. /\ \A u, v \in ready \cup send : u = v
        /\ Allows(n, m) = {} /\ n \notin isAllowed[m]
    BY <2>1, <2>2 DEF Protocol, OneToken
  <2>4. ready1 = {} /\ send1 = {t}
    BY <2>2, <2>3
  <2>5. Allows(n, m)' = {} /\ n \notin isAllowed'[m]
    BY <1>3, <2>3 DEF Allows
  <2>6. OneToken(n, m)'
    BY <2>1, <2>4, <2>5 DEF OneToken
  <2>7. ~Quiet(n, m) /\ ~Started(n, m) /\ ~Stream(n, m)
    BY <2>1, <2>2 DEF Quiet, Started, Stream, NoCredit
  <2>8. Awaited(n, m) => Started(n, m)'
    <3>1. SUFFICES ASSUME channel[n][m] = <<>> PROVE Started(n, m)'
      BY DEF Awaited
    <3>2. PICK q : q = channel'[n][m]
      OBVIOUS
    <3>3. q = Append(<<>>, e)
      BY <1>2, <1>3, <1>5, <3>1, <3>2
    <3>4. q # <<>> /\ q[1] = e /\ Tail(q) = <<>> /\ Rest(<<>>, send1)
      BY <2>4, <3>3, HeaderAlone
    <3>5. NoCredit(n, m)'
      BY <2>1, <2>4, <2>5 DEF NoCredit
    <3>6. IsHeader(channel'[n][m][1]) /\ Rest(Tail(channel'[n][m]), Sending(n, m)')
      BY <1>4, <2>1, <3>2, <3>4, Zenon
    <3>. QED  BY <3>2, <3>4, <3>5, <3>6, ZenonT(60) DEF Started
  <2>. QED  BY <1>0, <2>6, <2>7, <2>8, WriterAt, WriterBrings
<1>6. CASE ~(m = x /\ n = y)
  <2>1. Ready(n, m)' = Ready(n, m) /\ Sending(n, m)' = Sending(n, m)
    <3>1. ~(m = NodeOf[t] /\ n = Target(t))
      BY <1>1, <1>6
    <3>. QED  BY <1>2, <3>1, WritersApart
  <2>2. channel'[n][m] = channel[n][m]
    BY <1>2, <1>3, <1>6
  <2>3. Calm(n, m)
    BY <1>3, <2>1, <2>2 DEF Calm, Allows
  <2>. QED  BY <1>0, <2>3, WriterAt, ProtocolSame
<1>. QED  BY <1>5, <1>6

\* and the pieces.
LEMMA SendPieceKept ==
    ASSUME PortalsFit, NEW t \in Thread, Moves(t), NEW n \in Node, NEW m \in Node, Protocol(n, m), SendPiece(t)
    PROVE  Protocol(n, m)'
<1>0. WriteStep(t)
  BY DEF WriteStep
<1>1. PICK x, y, last : x = NodeOf[t] /\ y = Target(t) /\ last \in BOOLEAN /\ (last <=> call[t].left = 1)
  OBVIOUS
<1>2. PICK e : e = [unit |-> <<call[t].msg, Written(t) + 1>>, eof |-> last]
  OBVIOUS
<1>3. /\ x \in Node /\ y \in Node /\ channel \in [Node -> [Node -> Seq(Header \cup Piece)]] /\ pc \in [Thread -> PCs]
      /\ pc[t] \in RemoteWrites /\ pc'[t] # "idle"
  BY <1>0, <1>1, WriterAt
<1>4. /\ pc[t] = "send" /\ pc'[t] = (IF last THEN "write end" ELSE "send") /\ UNCHANGED <<allows, isAllowed>>
      /\ channel' = [channel EXCEPT ![y][x] = Append(@, e)]
  <2>1. pc[t] = "send" /\ pc'[t] = (IF last THEN "write end" ELSE "send") /\ UNCHANGED <<allows, isAllowed>>
    BY <1>1, <1>3 DEF SendPiece, Send, Goto
  <2>2. last = (call[t].left = 1)
    BY <1>1
  <2>3. Send(t, [unit |-> <<call[t].msg, Written(t) + 1>>, eof |-> call[t].left = 1])
    BY Zenon DEF SendPiece
  <2>4. Send(t, e)
    BY <1>2, <2>2, <2>3, Zenon
  <2>. QED  BY <1>1, <2>1, <2>4 DEF Send
<1>5. e \in Header \cup Piece /\ ~IsHeader(e) /\ e.eof = last
  <2>1. e \in Piece
    BY <1>1, <1>2, <1>4, SentFits
  <2>. QED  BY <1>2, <2>1, Kinds
<1>6. CASE m = x /\ n = y
  <2>1. PICK ready, ready1, send, send1 :
          ready = Ready(n, m) /\ ready1 = Ready(n, m)' /\ send = Sending(n, m) /\ send1 = Sending(n, m)'
    OBVIOUS
  <2>2. /\ ready1 = (ready \ {t}) \cup {} /\ t \notin ready /\ t \in send
        /\ send1 = (send \ {t}) \cup (IF last THEN {} ELSE {t})
    BY <1>1, <1>3, <1>4, <1>6, <2>1, WritersMove
  <2>3. /\ \A u, v \in ready \cup send : u = v
        /\ Allows(n, m) = {} /\ n \notin isAllowed[m]
    BY <2>1, <2>2 DEF Protocol, OneToken
  <2>4. ready = {} /\ ready1 = {} /\ send = {t} /\ send1 = IF last THEN {} ELSE send
    BY <2>2, <2>3
  <2>5. Allows(n, m)' = {} /\ n \notin isAllowed'[m]
    BY <1>4, <2>3 DEF Allows
  <2>6. OneToken(n, m)'
    BY <2>1, <2>4, <2>5 DEF OneToken
  <2>7. ~Quiet(n, m) /\ ~Awaited(n, m)
    BY <2>1, <2>4 DEF Quiet, Awaited
  <2>8. NoCredit(n, m)'
    BY <2>1, <2>4, <2>5 DEF NoCredit
  <2>9. PICK q, q1 : q = channel[n][m] /\ q1 = channel'[n][m]
    OBVIOUS
  <2>10. q \in Seq(Header \cup Piece) /\ q1 = Append(q, e)
    BY <1>3, <1>4, <1>6, <2>9
  <2>11. \A s \in Seq(Header \cup Piece) : Rest(s, send) => Rest(Append(s, e), send1)
    <3>1. TAKE s \in Seq(Header \cup Piece)
    <3>2. ASSUME Rest(s, send) PROVE (e.eof => Rest(Append(s, e), {})) /\ (~e.eof => Rest(Append(s, e), send))
      BY <1>1, <1>5, <2>4, <3>2, RestAppend
    <3>. QED  BY <1>5, <2>4, <3>2
  <2>12. Stream(n, m) => Stream(n, m)'
    <3>1. SUFFICES ASSUME Rest(q, send) PROVE Stream(n, m)'
      BY <2>1, <2>9, Zenon DEF Stream
    <3>2. Rest(channel'[n][m], Sending(n, m)')
      BY <2>1, <2>9, <2>10, <2>11, <3>1, Zenon
    <3>. QED  BY <2>8, <3>2, Zenon DEF Stream
  <2>13. Started(n, m) => Started(n, m)'
    <3>1. SUFFICES ASSUME q # <<>>, IsHeader(q[1]), Rest(Tail(q), send) PROVE Started(n, m)'
      BY <2>1, <2>9, Zenon DEF Started
    <3>2. q1 # <<>> /\ q1[1] = q[1] /\ Tail(q1) = Append(Tail(q), e)
      BY <1>5, <2>10, <3>1, HeadOfAppend
    <3>3. Tail(q) \in Seq(Header \cup Piece)
      BY <2>10, <3>1, HeadFits
    <3>4. Rest(Tail(q1), send1)
      BY <2>11, <3>1, <3>2, <3>3, Zenon
    <3>. QED  BY <2>1, <2>8, <2>9, <3>1, <3>2, <3>4, ZenonT(60) DEF Started
  <2>. QED  BY <1>0, <2>6, <2>7, <2>12, <2>13, WriterAt, WriterBrings
<1>7. CASE ~(m = x /\ n = y)
  <2>1. Ready(n, m)' = Ready(n, m) /\ Sending(n, m)' = Sending(n, m)
    <3>1. ~(m = NodeOf[t] /\ n = Target(t))
      BY <1>1, <1>7
    <3>. QED  BY <1>3, <3>1, WritersApart
  <2>2. channel'[n][m] = channel[n][m]
    BY <1>3, <1>4, <1>7
  <2>3. Calm(n, m)
    BY <1>4, <2>1, <2>2 DEF Calm, Allows
  <2>. QED  BY <1>0, <2>3, WriterAt, ProtocolSame
<1>. QED  BY <1>6, <1>7

LEMMA WriterKeeps ==
    ASSUME PortalsFit, NEW t \in Thread, Moves(t), WriteStep(t),
           NEW n \in Node, NEW m \in Node, Protocol(n, m), n \notin broken'
    PROVE  Protocol(n, m)'
BY TakeKept, WaitKept, ReceiveKept, SendHeaderKept, SendPieceKept DEF WriteStep

-----------------------------------------------------------------------------
\* The other steps have nothing to do with it.
LEMMA OtherPlaces ==
    ASSUME PortalsFit, NEW t \in Thread, TableStep(t) \/ LocalStep(t)
    PROVE  pc'[t] \notin Marked \cup WriterPlaces \cup {"panic"} /\ pc[t] \notin Marked \cup WriterPlaces
<1>0. pc \in [Thread -> PCs]
  BY DEF PortalsFit, CallsFit
<1>1. pc[t] \in {"idle", "read end", "write end", "write local", "publish", "read local"}
  BY Frames
<1>2. \/ \E x \in {"idle", "read local", "again", "write local", "wait allow", "read end", "publish", "write end"} : pc'[t] = x
      \/ pc'[t] = pc[t]
  <2>1. CASE TableStep(t)
    BY <1>0, <2>1 DEF TableStep, Create, Unlink, Allow, Open, Close, ReadBegin, WriteBegin, ReadEnd, WriteEnd, Goto
  <2>2. CASE LocalStep(t)
    BY <1>0, <2>2 DEF LocalStep, WriteLocal, WriteLocalYield, Publish, ReadLocal, TakeAvailable, Goto
  <2>. QED  BY <2>1, <2>2
<1>. QED  BY <1>1, <1>2 DEF Marked, WriterPlaces, Channels

LEMMA OthersKeep ==
    ASSUME PortalsFit, NEW t \in Thread, Moves(t), TableStep(t) \/ LocalStep(t), NEW n, NEW m, Protocol(n, m)
    PROVE  Protocol(n, m)'
<1>1. UNCHANGED <<readVars, writeVars, mailboxVars>>
  BY Frames DEF TableFrame
<1>2. UNCHANGED <<readLock, reading, isAllowed, channel, allows>>
  BY <1>1 DEF readVars, writeVars, mailboxVars
<1>3. Calm(n, m)
  BY <1>2, OtherPlaces, WritersSame DEF Calm, Allows
<1>4. ~Placed(t, n, m) /\ ~Placed(t, n, m)'
  BY OtherPlaces DEF Placed
<1>. QED  BY <1>2, <1>3, <1>4, ProtocolSame

-----------------------------------------------------------------------------
Channelled == Base /\ Protocols /\ NoPanic

\* A node stays unsound.
LEMMA SoundBefore ==
    ASSUME PortalsFit, NEW t \in Thread, TableStep(t) \/ LocalStep(t) \/ ReadStep(t) \/ WriteStep(t), NEW n
    PROVE  Sound(n)' => Sound(n)
<1>1. stolen \subseteq stolen' /\ broken \subseteq broken'
  <2>1. CASE TableStep(t) \/ LocalStep(t)
    BY <2>1, Frames
  <2>2. CASE ReadStep(t)
    <3>1. CASE Exit(t) \/ ReadError(t)
      BY <3>1 DEF Exit, ReadError
    <3>2. CASE ~(Exit(t) \/ ReadError(t))
      BY <2>2, <3>2 DEF ReadStep, Again, ReadBuffered, LockRead, LockedRead, CheckChannel, SetChannel, SendAllow, ReadHeader,
        Validate, AllocFirst, ReadPiece, KeepPiece, AllocNext, Relock, Drop, FinishRead, ReleaseChannel, TakeAvailable, historyVars
    <3>. QED  BY <3>1, <3>2
  <2>3. CASE WriteStep(t)
    BY <2>3 DEF WriteStep, TakeAllow, LockAllow, ReceiveAllow, AllowError, LockWrite, SendHeader, SendPiece, WriteError, historyVars
  <2>. QED  BY <2>1, <2>2, <2>3
<1>. QED  BY <1>1 DEF Sound

LEMMA ProtocolsKept ==
    ASSUME PortalsFit, Protocols, NEW t \in Thread, Moves(t),
           TableStep(t) \/ LocalStep(t) \/ ReadStep(t) \/ WriteStep(t)
    PROVE  Protocols'
<1>. SUFFICES ASSUME NEW n \in Node, Sound(n)', NEW m \in Node \ {n} PROVE Protocol(n, m)'
  BY DEF Protocols
<1>1. Protocol(n, m) /\ n \notin stolen' \cup broken'
  BY SoundBefore DEF Protocols, Sound
<1>. QED  BY <1>1, ReaderKeeps, WriterKeeps, OthersKeep

LEMMA PanicsKept ==
    ASSUME PortalsFit, Protocols, NoPanic, NEW t \in Thread, Moves(t),
           TableStep(t) \/ LocalStep(t) \/ ReadStep(t) \/ WriteStep(t)
    PROVE  NoPanic'
<1>. SUFFICES ASSUME NEW u \in Thread, pc'[u] = "panic", Sound(NodeOf[u])' PROVE FALSE
  BY DEF NoPanic
<1>1. CASE u # t
  <2>1. pc[u] = "panic"
    BY <1>1, MovesOther
  <2>. QED  BY <2>1, SoundBefore DEF NoPanic
<1>2. CASE u = t
  <2>1. ReadStep(t)
    <3>1. "panic" \notin RemoteWrites \cup {"write end"}
      BY DEF RemoteWrites
    <3>. QED  BY <1>2, <3>1, OtherPlaces, WritePlaces
  <2>2. PICK n, m : n = NodeOf[t] /\ m = Remote(t)
    OBVIOUS
  <2>3. n \in Node /\ m \in Node \ {n}
    BY <2>1, <2>2, ReaderAt
  <2>4. Protocol(n, m) /\ n \notin stolen' \cup broken'
    BY <1>2, <2>2, <2>3, SoundBefore DEF Protocols, Sound
  <2>5. ~ReadError(t)
    BY <2>2, <2>4 DEF ReadError
  <2>. QED  BY <1>2, <2>1, <2>2, <2>4, <2>5, OutsideKept, AskKept, HeaderKept, PieceKept, LeaveKept DEF ReadStep
<1>. QED  BY <1>1, <1>2

LEMMA ChannelsInit == Init => Protocols /\ NoPanic
<1>. SUFFICES ASSUME Init PROVE Protocols /\ NoPanic
  OBVIOUS
<1>1. \A t \in Thread : pc[t] = "idle"
  BY DEF Init
<1>2. NoPanic
  BY <1>1 DEF NoPanic
<1>3. ASSUME NEW n \in Node, NEW m \in Node PROVE Protocol(n, m)
  <2>1. \A u \in Thread : ~Placed(u, n, m) /\ ~Holds(u, n, m)
    BY <1>1 DEF Placed, Holds, Marked, Channels
  <2>2. Allows(n, m) = {} /\ n \notin isAllowed[m] /\ channel[n][m] = <<>>
    BY DEF Init, Allows
  <2>3. Ready(n, m) = {} /\ Sending(n, m) = {}
    BY <1>1 DEF Ready, Sending
  <2>4. Quiet(n, m) /\ OneToken(n, m)
    BY <2>2, <2>3 DEF Quiet, NoCredit, OneToken
  <2>. QED  BY <2>1, <2>4 DEF Protocol
<1>4. Protocols
  BY <1>3 DEF Protocols
<1>. QED  BY <1>2, <1>4

LEMMA ProtocolStutters ==
    ASSUME UNCHANGED vars, NEW n, NEW m, Protocol(n, m)
    PROVE  Protocol(n, m)'
<1>1. UNCHANGED <<readLock, reading, isAllowed, allows, channel, pc, call>>
  BY DEF vars, readVars, writeVars, mailboxVars
<1>2. Calm(n, m)
  BY <1>1 DEF Calm, Allows, Ready, Sending, Target
<1>3. \A u \in Thread : /\ Placed(u, n, m)' <=> Placed(u, n, m)
                        /\ Holds(u, n, m)' <=> Holds(u, n, m)
                        /\ Locked(u, n, m)' <=> Locked(u, n, m)
  BY <1>1 DEF Placed, Holds, Locked, Remote
<1>4. (Quiet(n, m)' <=> Quiet(n, m)) /\ (OneToken(n, m)' <=> OneToken(n, m))
  BY <1>2, CalmKeeps
<1>5. ASSUME NEW u \in Thread, Holds(u, n, m) PROVE Phase(pc[u], call[u].header, n, m)'
  <2>1. PICK l, h : l = pc[u] /\ h = call[u].header
    OBVIOUS
  <2>2. Phase(l, h, n, m)
    BY <1>5, <2>1 DEF Protocol
  <2>3. Phase(l, h, n, m)'
    BY <1>2, <2>2, PhaseKept
  <2>4. l = pc'[u] /\ h = call'[u].header
    BY <1>1, <2>1
  <2>. QED  BY <2>3, <2>4
<1>. QED  BY <1>3, <1>4, <1>5 DEF Protocol

LEMMA ChannelledNext == Channelled /\ [Next]_vars => Channelled'
<1>. SUFFICES ASSUME Channelled, [Next]_vars PROVE Channelled'
  OBVIOUS
<1>0. Base /\ PortalsFit /\ Protocols /\ NoPanic /\ Base'
  BY BaseNext DEF Channelled, Base
<1>1. CASE \E t \in scene.who : (Client(t) \/ Step(t)) /\ UNCHANGED scene
  <2>1. PICK t \in scene.who : (Client(t) \/ Step(t)) /\ UNCHANGED scene
    BY <1>1
  <2>2. t \in Thread
    BY <1>0, SceneAssumption DEF PortalsFit, TablesFit
  <2>3. Moves(t)
    BY <1>0, <2>1, <2>2, StepFits
  <2>4. TableStep(t) \/ LocalStep(t) \/ ReadStep(t) \/ WriteStep(t)
    BY <1>0, <2>1, <2>2, Groups
  <2>. QED  BY <1>0, <2>2, <2>3, <2>4, ProtocolsKept, PanicsKept DEF Channelled
<1>2. CASE UNCHANGED vars
  <2>1. \A n : Sound(n)' <=> Sound(n)
    BY <1>2 DEF vars, historyVars, Sound
  <2>2. Protocols'
    BY <1>0, <1>2, <2>1, ProtocolStutters DEF Protocols
  <2>3. NoPanic'
    BY <1>0, <1>2, <2>1 DEF NoPanic, vars
  <2>. QED  BY <1>0, <2>2, <2>3 DEF Channelled
<1>. QED  BY <1>1, <1>2 DEF Next

LEMMA ChannelledHolds == Spec => []Channelled
<1>1. Init => Channelled
  BY BaseInit, ChannelsInit DEF Channelled
<1>. QED  BY <1>1, ChannelledNext, PTL DEF Spec

\* As long as no operation on the mailboxes from which a node reads has failed, and
\* no reader has released the lock of another, its readers find in the channel what
\* the assertions of kportal_aread ask for.
THEOREM PortalsKeepAssertions == Spec => []NoPanic
<1>1. Channelled => NoPanic
  BY DEF Channelled
<1>. QED  BY <1>1, ChannelledHolds, PTL

\* A set of which all elements are equal.
LEMMA AtMostOne ==
    ASSUME NEW S, \A x, y \in S : x = y
    PROVE  (S = {} /\ Cardinality(S) = 0) \/ (S # {} /\ Cardinality(S) = 1)
<1>1. CASE S = {}
  BY <1>1, FS_EmptySet
<1>2. CASE S # {}
  <2>1. PICK x : S = {x}
    BY <1>2
  <2>. QED  BY <1>2, <2>1, FS_Singleton
<1>. QED  BY <1>1, <1>2

\* The readers of one node ask another for messages one at a time, and there is a
\* reader that waits for the header as long as there is a permission.
THEOREM PortalsOneAtATime == Spec => []OneAtATime
<1>1. Channelled => OneAtATime
  <2>. SUFFICES ASSUME Channelled, NEW n \in Node, NEW m \in Node \ {n}, Sound(n)
               PROVE  /\ Cardinality(Holders(n, m)) <= 1
                      /\ Credits(n, m) <= Cardinality({t \in Holders(n, m) : pc[t] = "header"})
    BY DEF OneAtATime
  <2>0. PortalsFit /\ Protocol(n, m)
    BY DEF Channelled, Base, Protocols
  <2>1. PICK asks, waits : asks = Holders(n, m) /\ waits = {t \in Holders(n, m) : pc[t] = "header"}
    OBVIOUS
  <2>2. \A t : t \in asks <=> t \in Thread /\ Holds(t, n, m)
    <3>1. ASSUME NEW t \in Thread, pc[t] \in Channels PROVE Reads(t)
      <4>1. call[t].from \in Peer
        BY <2>0, <3>1 DEF PortalsFit, CallsFit, CallFits, Reading, RemoteReads
      <4>. QED  BY <4>1, PeerIs DEF Reads
    <3>. QED  BY <2>1, <3>1 DEF Holders, Holds
  <2>3. \A x, y \in asks : x = y
    BY <2>0, <2>2 DEF Protocol
  <2>4. (\A x, y \in waits : x = y) /\ waits \subseteq asks
    BY <2>1, <2>3
  <2>5. PICK p, r : p = Allows(n, m) /\ r = Ready(n, m)
    OBVIOUS
  <2>6. (\A i, j \in p : i = j) /\ (\A u, v \in r : u = v)
    BY <2>0, <2>5 DEF Protocol, OneToken
  <2>7. Credits(n, m) = Cardinality(p) + (IF n \in isAllowed[m] THEN 1 ELSE 0) + Cardinality(r)
    BY <2>5 DEF Credits, Allows, Ready
  <2>8. Cardinality(asks) \in {0, 1} /\ Cardinality(waits) \in {0, 1}
    BY <2>3, <2>4, AtMostOne
  <2>9. CASE NoCredit(n, m)
    <3>1. p = {} /\ r = {} /\ n \notin isAllowed[m]
      BY <2>5, <2>9 DEF NoCredit
    <3>2. Cardinality(p) = 0 /\ Cardinality(r) = 0
      BY <3>1, FS_EmptySet
    <3>. QED  BY <2>1, <2>7, <2>8, <3>1, <3>2
  <2>10. CASE ~NoCredit(n, m)
    <3>1. PICK u \in Thread : Holds(u, n, m)
      BY <2>0, <2>10 DEF Protocol, Quiet
    <3>2. Phase(pc[u], call[u].header, n, m) /\ pc[u] \in Channels
      BY <2>0, <3>1 DEF Protocol, Holds
    <3>3. pc[u] = "header"
      BY <2>10, <3>2 DEF Phase, Channels, Quiet, Stream
    <3>4. u \in waits
      BY <2>1, <2>2, <3>1, <3>3
    <3>5. Cardinality(waits) = 1
      BY <2>4, <3>4, AtMostOne
    <3>6. /\ n \in isAllowed[m] => p = {}
          /\ r # {} => p = {} /\ n \notin isAllowed[m]
      BY <2>0, <2>5 DEF Protocol, OneToken
    <3>7. /\ (p = {} /\ Cardinality(p) = 0) \/ (p # {} /\ Cardinality(p) = 1)
          /\ (r = {} /\ Cardinality(r) = 0) \/ (r # {} /\ Cardinality(r) = 1)
      BY <2>6, AtMostOne
    <3>8. Credits(n, m) <= 1
      BY <2>7, <3>6, <3>7
    <3>. QED  BY <2>1, <2>7, <2>8, <3>5, <3>8
  <2>. QED  BY <2>9, <2>10
<1>. QED  BY <1>1, ChannelledHolds, PTL

=============================================================================
