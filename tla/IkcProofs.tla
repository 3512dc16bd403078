------------------------------ MODULE IkcProofs ------------------------------
(***************************************************************************)
(* Proofs about Mailbox, Portal and StdIkc, for every set of threads and   *)
(* ports, number of ids and instance.                                      *)
(*                                                                         *)
(* Mailboxes: the counters depend on who has a mailbox (IInv): a thread    *)
(* that reads or writes has it, nobody else has or is about to, and its    *)
(* flag is set unless an id was given out too early.                       *)
(*                                                                         *)
(* Portals: what an input has read, what its reader holds and what is on   *)
(* its way are, in this order, what the writer has written and is writing  *)
(* (PortalInv), unless a transfer has failed.                              *)
(*                                                                         *)
(* The standard inputs: one side rests, and an entry names what its thread *)
(* has got (StdInv).                                                       *)
(*                                                                         *)
(* Channels: a port has one input mailbox and so one reader at a time      *)
(* (ChanFit), and every step of a mailbox is one of MailboxChannel.        *)
(***************************************************************************)
EXTENDS StdIkc, FiniteSetTheorems, WellFoundedInduction, TLAPS

\* A set of numbers that is not empty has a least one.
LEMMA LeastIsIn ==
    ASSUME NEW S \in SUBSET Nat, S # {}
    PROVE  \E x \in S : \A y \in S : x =< y
<1>. DEFINE upTo(x) == {y \in S : y <= x}
            T == {upTo(x) : x \in S}
<1>1. \A x \in S : x \in Nat /\ upTo(x) \in SUBSET Nat /\ x \in upTo(x)
  <2>1. TAKE x \in S
  <2>2. x \in Nat /\ x <= x
    OBVIOUS
  <2>3. upTo(x) \in SUBSET Nat
    OBVIOUS
  <2>4. x \in upTo(x)
    BY <2>2, Zenon
  <2>. QED  BY <2>2, <2>3, <2>4
<1>2. \A x \in S : IsFiniteSet(upTo(x))
  <2>1. TAKE x \in S
  <2>2. x \in Nat /\ upTo(x) \in SUBSET Nat /\ \A y \in upTo(x) : y <= x
    OBVIOUS
  <2>. HIDE DEF upTo
  <2>. QED  BY <2>2, FS_BoundedSetOfNaturals
<1>3. T \subseteq FiniteSubsetsOf(Nat) /\ T # {}
  <2>. HIDE DEF upTo
  <2>. QED  BY <1>1, <1>2 DEF FiniteSubsetsOf
<1>4. PICK least \in T : \A u \in T : ~(<<u, least>> \in StrictSubsetOrdering(Nat))
  <2>. HIDE DEF T
  <2>. QED  BY <1>3, FS_StrictSubsetOrderingWellFounded, WFMin, Zenon
<1>5. PICK x \in S : least = upTo(x)
  OBVIOUS
<1>6. \A y \in S : x =< y
  <2>1. SUFFICES ASSUME NEW y \in S, y < x PROVE FALSE
    OBVIOUS
  <2>2. x \notin upTo(y) /\ upTo(y) \subseteq upTo(x)
    <3>1. x \in Nat /\ y \in Nat /\ ~(x <= y)
      BY <2>1
    <3>2. \A z \in S : z <= y => z <= x
      BY <2>1
    <3>. QED  BY <3>1, <3>2, Zenon
  <2>3. upTo(y) \in T
    OBVIOUS
  <2>4. <<upTo(y), upTo(x)>> \in StrictSubsetOrdering(Nat)
    <3>. HIDE DEF upTo
    <3>. QED  BY <1>1, <2>2 DEF StrictSubsetOrdering
  <2>. QED  BY <2>3, <2>4, <1>4, <1>5
<1>. QED  BY <1>6

\* A set of numbers that has 0 and the successor of each has all.
LEMMA NatSetInduction ==
    ASSUME NEW S \in SUBSET Nat, 0 \in S, \A n \in S : n + 1 \in S
    PROVE  S = Nat
<1>. DEFINE Bad == Nat \ S
<1>. SUFFICES ASSUME Bad # {} PROVE FALSE
  OBVIOUS
<1>1. PICK x \in Bad : \A y \in Bad : x =< y
  BY LeastIsIn
<1>2. x \in Nat /\ x # 0 /\ x - 1 \in Nat
  OBVIOUS
<1>3. x - 1 \in S
  BY <1>1, <1>2
<1>. QED  BY <1>2, <1>3

-----------------------------------------------------------------------------

Transfers == {"nreads", "nwrites"}
Makings == {"ncreates", "nopens"}
Removals == {"nunlinks", "ncloses"}

\* Where a thread is fits with what it does.
Fits(c) ==
    /\ c.at = "idle" => c = Idle
    /\ c.at # "idle" => c.counter \in Counter /\ c.id \in MailboxId
    /\ c.at = "flag" => c.counter \notin Transfers
    /\ c.at \in {"awrite", "wait"} => c.counter = "nwrites" /\ c.buffer \in Message
    /\ c.at \in {"aread", "await"} => c.counter = "nreads"
    /\ c.at = "count" /\ c.counter = "nreads" => c.buffer \in Message

CallsOK == \A t \in Thread : Fits(mcall[t])

\* A read that is under way has something to read.
WireOK == wireReader # None => wire # <<>>

\* The mailboxes that a thread has, or is about to get.
Owns(t) == held[t] \cup (IF mcall[t].counter \in Makings THEN {mcall[t].id} ELSE {})

\* They exist, and are nobody else's; who reads or writes has the mailbox.
OwnsOK ==
    /\ \A t \in Thread : \A i \in Owns(t) : mailbox[i] # None
    /\ \A t, u \in Thread : t # u => Owns(t) \cap Owns(u) = {}
    /\ \A t \in Thread : mcall[t].counter \in Transfers => mcall[t].id \in held[t]

\* As long as no id is given out too early, one that is being given back is free,
\* and the flags of the others are set.
FlagsOK ==
    ~overtaken =>
        /\ \A t \in Thread : mcall[t].counter \in Removals => mailbox[mcall[t].id] = None
        /\ \A t \in Thread : \A i \in held[t] : user_mailboxes[i]

SceneOK == scene \in Scenes /\ errors \in Nat

MInv == MailboxTypeOK /\ SceneOK /\ CallsOK /\ WireOK /\ OwnsOK /\ FlagsOK
IInv == MInv /\ CountersTell

-----------------------------------------------------------------------------
LEMMA IdleCall ==
    /\ Idle \in MailboxCalls /\ Idle.at = "idle" /\ Idle.id = None
    /\ Idle.counter \notin Transfers \cup Makings \cup Removals
<1>1. None \notin Counter
  BY MailboxAssumption
<1>. QED  BY <1>1 DEF Idle, MailboxCalls, MailboxPlaces, Transfers, Makings, Removals, Counter

LEMMA MInitial == MailboxInit => MInv
<1>. SUFFICES ASSUME MailboxInit PROVE MInv
  OBVIOUS
<1>1. SceneOK
  BY ProcessAssumption DEF MailboxInit, ProcessInit, SceneOK
<1>2. /\ scene.mailbox \in [MailboxId -> [kind : {"in", "out"}, port : MailboxPort] \cup {None}]
      /\ scene.held \in [Thread -> SUBSET MailboxId]
      /\ \A t \in Thread : \A i \in scene.held[t] :
           scene.mailbox[i] # None /\ \A u \in Thread \ {t} : i \notin scene.held[u]
  BY <1>1, MailboxSceneAssumption DEF SceneOK
<1>3. MailboxTypeOK
  <2>1. /\ mailbox \in [MailboxId -> [kind : {"in", "out"}, port : MailboxPort] \cup {None}]
        /\ held \in [Thread -> SUBSET MailboxId]
    BY <1>2 DEF MailboxInit
  <2>2. mcall \in [Thread -> MailboxCalls]
    BY IdleCall DEF MailboxInit
  <2>3. /\ wire \in Seq([port : MailboxPort, msg : Message])
        /\ kept \in [MailboxPort -> Seq(Message)] /\ received \in [MailboxPort -> Seq(Message)]
    BY DEF MailboxInit
  <2>4. /\ wireReader \in Thread \cup {None} /\ user_mailboxes \in [MailboxId -> BOOLEAN]
        /\ overtaken \in BOOLEAN /\ sent \subseteq Message
    BY DEF MailboxInit
  <2>5. /\ mailbox_counters \in [Counter -> Nat] /\ returned \in [Counter -> Nat]
        /\ calls \in Nat
    BY DEF MailboxInit
  <2>. QED  BY <2>1, <2>2, <2>3, <2>4, <2>5 DEF MailboxTypeOK
<1>4. CallsOK
  BY IdleCall DEF MailboxInit, CallsOK, Fits
<1>5. WireOK
  BY DEF MailboxInit, WireOK
<1>6. \A t \in Thread : Owns(t) = scene.held[t] /\ mcall[t] = Idle
  BY IdleCall DEF MailboxInit, Owns
<1>7. OwnsOK
  BY <1>2, <1>6, IdleCall DEF MailboxInit, OwnsOK
<1>8. FlagsOK
  BY <1>2, <1>6, IdleCall DEF MailboxInit, FlagsOK
<1>. QED  BY <1>1, <1>3, <1>4, <1>5, <1>7, <1>8 DEF MInv

-----------------------------------------------------------------------------
\* A call goes on to c, or returns.
LEMMA CallMoves ==
    ASSUME MailboxTypeOK, CallsOK, NEW t \in Thread, NEW c \in MailboxCalls, Fits(c),
           mcall' = [mcall EXCEPT ![t] = c]
    PROVE  /\ mcall' \in [Thread -> MailboxCalls] /\ CallsOK'
           /\ mcall'[t] = c /\ \A u \in Thread \ {t} : mcall'[u] = mcall[u]
<1>1. mcall \in [Thread -> MailboxCalls]
  BY DEF MailboxTypeOK
<1>2. /\ mcall' \in [Thread -> MailboxCalls]
      /\ mcall'[t] = c /\ \A u \in Thread \ {t} : mcall'[u] = mcall[u]
  BY <1>1
<1>. QED  BY <1>2, Zenon DEF CallsOK

\* Reading and writing leave alone who has which mailbox.
LEMMA OwnersStay ==
    ASSUME OwnsOK, FlagsOK, NEW t \in Thread, NEW c,
           UNCHANGED <<mailbox, user_mailboxes, held, overtaken>>,
           mcall[t].counter \notin Makings,
           c.counter \notin Makings \cup Removals,
           c.counter \in Transfers => c.id \in held[t],
           mcall'[t] = c, \A u \in Thread \ {t} : mcall'[u] = mcall[u]
    PROVE  OwnsOK' /\ FlagsOK'
<1>1. \A u \in Thread : Owns(u)' = Owns(u)
  BY DEF Owns
<1>2. OwnsOK'
  BY <1>1 DEF OwnsOK
<1>3. FlagsOK'
  BY DEF FlagsOK
<1>. QED  BY <1>2, <1>3

\* The mailbox of a call that reads or writes exists.
LEMMA HasMailbox ==
    ASSUME MInv, NEW t \in Thread, mcall[t].counter \in Transfers
    PROVE  /\ mcall[t].id \in held[t] /\ mcall[t].id \in MailboxId
           /\ mailbox[mcall[t].id] # None /\ PortOfCall(t) \in MailboxPort
<1>1. mcall[t].id \in held[t] /\ mcall[t].id \in Owns(t)
  BY DEF MInv, OwnsOK, Owns
<1>2. mcall[t].id \in MailboxId /\ mailbox[mcall[t].id] # None
  BY <1>1 DEF MInv, MailboxTypeOK, OwnsOK
<1>3. mailbox[mcall[t].id] \in [kind : {"in", "out"}, port : MailboxPort]
  BY <1>2 DEF MInv, MailboxTypeOK
<1>. QED  BY <1>1, <1>2, <1>3 DEF PortOfCall

LEMMA OwnedIds ==
    ASSUME MInv, NEW t \in Thread
    PROVE  /\ Owns(t) \subseteq MailboxId
           /\ mcall[t].counter # None => mcall[t].counter \in Counter /\ mcall[t].id \in MailboxId
<1>1. mcall[t] \in MailboxCalls /\ Fits(mcall[t]) /\ held[t] \subseteq MailboxId
  BY DEF MInv, MailboxTypeOK, CallsOK
<1>2. mcall[t].counter # None => mcall[t].counter \in Counter /\ mcall[t].id \in MailboxId
  BY <1>1 DEF Fits, Idle
<1>3. mcall[t].counter \in Makings => mcall[t].counter # None
  BY MailboxAssumption DEF Makings, Counter
<1>. QED  BY <1>1, <1>2, <1>3 DEF Owns

-----------------------------------------------------------------------------
(* Each step keeps MInv.                                                   *)

LEMMA WriteSteps ==
    ASSUME MInv, NEW t \in Thread,
           \/ \E i \in held[t] : kmailbox_write(t, i)
           \/ kmailbox_awrite(t) \/ WaitWritten(t)
    PROVE  MInv'
<1>. USE DEF Transfers, Makings, Removals
<1>1. mcall \in [Thread -> MailboxCalls] /\ mcall[t] \in MailboxCalls /\ Fits(mcall[t])
  BY DEF MInv, MailboxTypeOK, CallsOK
<1>2. ASSUME NEW i \in held[t], kmailbox_write(t, i)
      PROVE  MInv'
  <2>. DEFINE c == [at |-> "awrite", counter |-> "nwrites", id |-> i, buffer |-> calls + 1]
  <2>1. i \in MailboxId /\ calls + 1 \in Message /\ calls' \in Nat
    <3>1. scene.writes \in 0..MaxWrites /\ MaxWrites \in Nat
      BY MailboxSceneAssumption, MailboxAssumption DEF MInv, SceneOK
    <3>. QED  BY <1>2, <3>1 DEF MInv, MailboxTypeOK, kmailbox_write, Message
  <2>2. c \in MailboxCalls /\ Fits(c)
    BY <2>1 DEF MailboxCalls, MailboxPlaces, Fits, Counter
  <2>3. mcall[t] = Idle
    BY <1>1, <1>2 DEF kmailbox_write, In, Fits
  <2>4. mcall' = [mcall EXCEPT ![t] = c]
    BY <1>2 DEF kmailbox_write
  <2>5. /\ mcall' \in [Thread -> MailboxCalls] /\ CallsOK'
        /\ mcall'[t] = c /\ \A u \in Thread \ {t} : mcall'[u] = mcall[u]
    BY <2>2, <2>4, CallMoves DEF MInv
  <2>6. OwnsOK' /\ FlagsOK'
    BY <1>2, <2>3, <2>5, IdleCall, OwnersStay DEF MInv, kmailbox_write, kernelVars
  <2>. QED  BY <1>2, <2>1, <2>5, <2>6
            DEF MInv, MailboxTypeOK, SceneOK, WireOK, kmailbox_write, kernelVars, processVars
<1>3. ASSUME kmailbox_awrite(t)
      PROVE  MInv'
  <2>. DEFINE c == [mcall[t] EXCEPT !.at = "wait"]
              m == mcall[t].buffer
              w == [port |-> PortOfCall(t), msg |-> m]
  <2>1. /\ mcall[t].at = "awrite" /\ mcall[t].counter = "nwrites" /\ m \in Message
    BY <1>1, <1>3 DEF kmailbox_awrite, In, Fits
  <2>2. w \in [port : MailboxPort, msg : Message] /\ mcall[t].id \in held[t]
    BY <2>1, HasMailbox
  <2>3. c \in MailboxCalls /\ Fits(c)
    BY <1>1, <2>1 DEF MailboxCalls, MailboxPlaces, Fits
  <2>4. mcall' = [mcall EXCEPT ![t] = c]
    BY <1>1, <1>3 DEF kmailbox_awrite
  <2>5. /\ mcall' \in [Thread -> MailboxCalls] /\ CallsOK'
        /\ mcall'[t] = c /\ \A u \in Thread \ {t} : mcall'[u] = mcall[u]
    BY <2>3, <2>4, CallMoves DEF MInv
  <2>6. c.counter = "nwrites" /\ c.id = mcall[t].id
    BY <1>1, <2>1 DEF MailboxCalls
  <2>7. OwnsOK' /\ FlagsOK'
    BY <1>3, <2>1, <2>2, <2>5, <2>6, OwnersStay DEF MInv, kmailbox_awrite
  <2>8. wire' = Append(wire, w) /\ wire \in Seq([port : MailboxPort, msg : Message])
    BY <1>3 DEF MInv, MailboxTypeOK, kmailbox_awrite, PortOfCall
  <2>9. wire' \in Seq([port : MailboxPort, msg : Message]) /\ wire' # <<>>
    BY <2>2, <2>8
  <2>. QED  BY <1>3, <2>1, <2>5, <2>7, <2>9
            DEF MInv, MailboxTypeOK, SceneOK, WireOK, kmailbox_awrite, processVars
<1>4. ASSUME WaitWritten(t)
      PROVE  MInv'
  <2>. DEFINE c == [mcall[t] EXCEPT !.at = "count"]
  <2>1. mcall[t].at = "wait" /\ mcall[t].counter = "nwrites"
    BY <1>1, <1>4 DEF WaitWritten, In, Fits
  <2>2. c \in MailboxCalls /\ Fits(c) /\ c.counter = "nwrites" /\ c.id = mcall[t].id
    BY <1>1, <2>1 DEF MailboxCalls, MailboxPlaces, Fits
  <2>3. mcall' = [mcall EXCEPT ![t] = c]
    BY <1>1, <1>4 DEF WaitWritten
  <2>4. /\ mcall' \in [Thread -> MailboxCalls] /\ CallsOK'
        /\ mcall'[t] = c /\ \A u \in Thread \ {t} : mcall'[u] = mcall[u]
    BY <2>2, <2>3, CallMoves DEF MInv
  <2>5. OwnsOK' /\ FlagsOK'
    BY <1>4, <2>1, <2>2, <2>4, HasMailbox, OwnersStay
       DEF MInv, WaitWritten, kernelVars, mailboxHistory
  <2>. QED  BY <1>4, <2>4, <2>5
            DEF MInv, MailboxTypeOK, SceneOK, WireOK, WaitWritten, kernelVars, processVars,
                mailboxHistory
<1>. QED  BY <1>2, <1>3, <1>4

LEMMA ReadSteps ==
    ASSUME MInv, NEW t \in Thread,
           \/ \E i \in held[t] : kmailbox_read(t, i)
           \/ kmailbox_aread(t) \/ WaitRead(t)
    PROVE  MInv'
<1>. USE DEF Transfers, Makings, Removals
<1>1. mcall \in [Thread -> MailboxCalls] /\ mcall[t] \in MailboxCalls /\ Fits(mcall[t])
  BY DEF MInv, MailboxTypeOK, CallsOK
<1>2. ASSUME NEW i \in held[t], kmailbox_read(t, i)
      PROVE  MInv'
  <2>. DEFINE c == [Idle EXCEPT !.at = "aread", !.counter = "nreads", !.id = i]
  <2>1. i \in MailboxId
    BY DEF MInv, MailboxTypeOK
  <2>2. c \in MailboxCalls /\ Fits(c) /\ c.counter = "nreads" /\ c.id = i
    BY <2>1 DEF MailboxCalls, MailboxPlaces, Fits, Counter, Idle
  <2>3. mcall[t] = Idle
    BY <1>1, <1>2 DEF kmailbox_read, In, Fits
  <2>4. mcall' = [mcall EXCEPT ![t] = c]
    BY <1>2 DEF kmailbox_read
  <2>5. /\ mcall' \in [Thread -> MailboxCalls] /\ CallsOK'
        /\ mcall'[t] = c /\ \A u \in Thread \ {t} : mcall'[u] = mcall[u]
    BY <2>2, <2>4, CallMoves DEF MInv
  <2>. HIDE DEF c
  <2>6. OwnsOK' /\ FlagsOK'
    BY <1>2, <2>2, <2>3, <2>5, IdleCall, OwnersStay
       DEF MInv, kmailbox_read, kernelVars, mailboxHistory
  <2>. QED  BY <1>2, <2>5, <2>6
            DEF MInv, MailboxTypeOK, SceneOK, WireOK, kmailbox_read, kernelVars, processVars,
                mailboxHistory
<1>3. ASSUME kmailbox_aread(t)
      PROVE  MInv'
  <2>. DEFINE p == PortOfCall(t)
  <2>1. mcall[t].at = "aread" /\ mcall[t].counter = "nreads"
    BY <1>1, <1>3 DEF kmailbox_aread, In, Fits
  <2>2. p \in MailboxPort /\ mcall[t].id \in held[t]
    BY <2>1, HasMailbox
  <2>3. PICK b \in Message \cup {None} :
           mcall' = [mcall EXCEPT ![t] = [mcall[t] EXCEPT !.at = "await", !.buffer = b]]
    <3>1. CASE kept[p] # <<>>
      <4>1. Head(kept[p]) \in Message
        BY <2>2, <3>1 DEF MInv, MailboxTypeOK
      <4>. QED  BY <1>1, <1>3, <3>1, <4>1 DEF kmailbox_aread
    <3>2. CASE kept[p] = <<>>
      <4>1. mcall' = [mcall EXCEPT ![t].at = "await"]
        BY <1>3, <3>2 DEF kmailbox_aread
      <4>2. [mcall[t] EXCEPT !.at = "await"]
              = [mcall[t] EXCEPT !.at = "await", !.buffer = mcall[t].buffer]
        BY <1>1 DEF MailboxCalls
      <4>. QED  BY <1>1, <4>1, <4>2 DEF MailboxCalls
    <3>. QED  BY <3>1, <3>2
  <2>. DEFINE c == [mcall[t] EXCEPT !.at = "await", !.buffer = b]
  <2>4. c \in MailboxCalls /\ Fits(c) /\ c.counter = "nreads" /\ c.id = mcall[t].id
    BY <1>1, <2>1 DEF MailboxCalls, MailboxPlaces, Fits
  <2>5. /\ mcall' \in [Thread -> MailboxCalls] /\ CallsOK'
        /\ mcall'[t] = c /\ \A u \in Thread \ {t} : mcall'[u] = mcall[u]
    BY <2>3, <2>4, CallMoves DEF MInv
  <2>. HIDE DEF c
  <2>6. OwnsOK' /\ FlagsOK'
    BY <1>3, <2>1, <2>2, <2>4, <2>5, OwnersStay DEF MInv, kmailbox_aread, mailboxHistory
  <2>7. kept' \in [MailboxPort -> Seq(Message)]
    <3>1. CASE kept[p] = <<>>
      BY <1>3, <3>1 DEF kmailbox_aread, MInv, MailboxTypeOK
    <3>2. CASE kept[p] # <<>>
      <4>1. Tail(kept[p]) \in Seq(Message)
        BY <2>2, <3>2 DEF MInv, MailboxTypeOK
      <4>. QED  BY <1>3, <3>2, <4>1 DEF kmailbox_aread, MInv, MailboxTypeOK
    <3>. QED  BY <3>1, <3>2
  <2>8. wireReader' \in Thread \cup {None} /\ WireOK'
    BY <1>3 DEF MInv, MailboxTypeOK, WireOK, kmailbox_aread
  <2>. QED  BY <1>3, <2>5, <2>6, <2>7, <2>8
            DEF MInv, MailboxTypeOK, SceneOK, kmailbox_aread, processVars, mailboxHistory
<1>4. ASSUME WaitRead(t)
      PROVE  MInv'
  <2>. DEFINE p == PortOfCall(t)
              m == Head(wire)
  <2>1. mcall[t].at = "await" /\ mcall[t].counter = "nreads"
    BY <1>1, <1>4 DEF WaitRead, In, Fits
  <2>2. p \in MailboxPort /\ mcall[t].id \in held[t]
    BY <2>1, HasMailbox, SMTT(30)
  <2>3. CASE mcall[t].buffer # None /\ mcall' = [mcall EXCEPT ![t].at = "count"]
               /\ UNCHANGED <<wire, kept, wireReader>>
    <3>. DEFINE c == [mcall[t] EXCEPT !.at = "count"]
    <3>1. c \in MailboxCalls /\ Fits(c) /\ c.counter = "nreads" /\ c.id = mcall[t].id
      BY <1>1, <2>1, <2>3 DEF MailboxCalls, MailboxPlaces, Fits
    <3>2. mcall' = [mcall EXCEPT ![t] = c]
      BY <1>1, <2>3
    <3>3. /\ mcall' \in [Thread -> MailboxCalls] /\ CallsOK'
          /\ mcall'[t] = c /\ \A u \in Thread \ {t} : mcall'[u] = mcall[u]
      BY <3>1, <3>2, CallMoves DEF MInv
    <3>. HIDE DEF c
    <3>4. OwnsOK' /\ FlagsOK'
      BY <1>4, <2>1, <2>2, <3>1, <3>3, OwnersStay DEF MInv, WaitRead, mailboxHistory
    <3>. QED  BY <1>4, <2>3, <3>3, <3>4
              DEF MInv, MailboxTypeOK, SceneOK, WireOK, WaitRead, processVars, mailboxHistory
  <2>4. CASE /\ wireReader = t
             /\ mcall' = [mcall EXCEPT ![t].at = AfterWait(t, m), ![t].buffer =
                             IF AfterWait(t, m) = "count" THEN m.msg ELSE None]
             /\ kept' = IF m.port # p /\ m.port \in Inputs
                        THEN [kept EXCEPT ![m.port] = Append(@, m.msg)] ELSE kept
             /\ wire' = Tail(wire) /\ wireReader' = None
    <3>1. wire # <<>> /\ wire \in Seq([port : MailboxPort, msg : Message])
      BY <2>4, ProcessAssumption DEF MInv, MailboxTypeOK, WireOK
    <3>2. m \in [port : MailboxPort, msg : Message]
            /\ wire' \in Seq([port : MailboxPort, msg : Message])
      <4>. DEFINE M == [port : MailboxPort, msg : Message]
      <4>1. wire # <<>> /\ wire \in Seq(M) /\ wire' = Tail(wire)
        BY <2>4, <3>1
      <4>. HIDE DEF M
      <4>2. Head(wire) \in M /\ wire' \in Seq(M)
        BY <4>1
      <4>. QED  BY <4>2 DEF M
    <3>3. kept' \in [MailboxPort -> Seq(Message)]
      <4>1. kept[m.port] \in Seq(Message) /\ m.msg \in Message /\ m.port \in MailboxPort
        BY <3>2 DEF MInv, MailboxTypeOK
      <4>2. Append(kept[m.port], m.msg) \in Seq(Message)
        BY <4>1
      <4>. QED  BY <2>4, <4>1, <4>2 DEF MInv, MailboxTypeOK
    <3>. DEFINE b == IF AfterWait(t, m) = "count" THEN m.msg ELSE None
                c == [mcall[t] EXCEPT !.at = AfterWait(t, m), !.buffer = b]
    <3>4. AfterWait(t, m) \in {"count", "aread"} /\ m.msg \in Message
      BY <3>2 DEF AfterWait
    <3>5. c \in MailboxCalls /\ Fits(c) /\ c.counter = "nreads" /\ c.id = mcall[t].id
      BY <1>1, <2>1, <3>4 DEF MailboxCalls, MailboxPlaces, Fits
    <3>6. mcall' = [mcall EXCEPT ![t] = c]
      BY <1>1, <2>4
    <3>. HIDE DEF c
    <3>7. /\ mcall' \in [Thread -> MailboxCalls] /\ CallsOK'
          /\ mcall'[t] = c /\ \A u \in Thread \ {t} : mcall'[u] = mcall[u]
      BY <3>5, <3>6, CallMoves DEF MInv
    <3>8. OwnsOK' /\ FlagsOK'
      BY <1>4, <2>1, <2>2, <3>5, <3>7, OwnersStay DEF MInv, WaitRead, mailboxHistory
    <3>. QED  BY <1>4, <2>4, <3>2, <3>3, <3>7, <3>8
              DEF MInv, MailboxTypeOK, SceneOK, WireOK, WaitRead, processVars, mailboxHistory
  <2>. QED  BY <1>4, <2>3, <2>4 DEF WaitRead
<1>. QED  BY <1>2, <1>3, <1>4

\* The call of t returns or fails.
LEMMA EndSteps ==
    ASSUME MInv, NEW t \in Thread, CountTransfer(t) \/ MailboxError(t)
    PROVE  MInv'
<1>. USE DEF Transfers, Makings, Removals
<1>1. mcall \in [Thread -> MailboxCalls] /\ mcall[t] \in MailboxCalls /\ Fits(mcall[t])
  BY DEF MInv, MailboxTypeOK, CallsOK
<1>2. /\ mcall' = [mcall EXCEPT ![t] = Idle] /\ mcall[t].counter \in Transfers
      /\ UNCHANGED <<mailbox, user_mailboxes, held, overtaken>>
  BY <1>1 DEF CountTransfer, MailboxError, Fits, In, mailboxHistory, kernelVars
<1>3. Fits(Idle)
  BY IdleCall DEF Fits
<1>4. /\ mcall' \in [Thread -> MailboxCalls] /\ CallsOK'
      /\ mcall'[t] = Idle /\ \A u \in Thread \ {t} : mcall'[u] = mcall[u]
  BY <1>2, <1>3, IdleCall, CallMoves DEF MInv
<1>5. OwnsOK' /\ FlagsOK'
  BY <1>2, <1>4, IdleCall, OwnersStay DEF MInv
<1>6. CASE CountTransfer(t)
  <2>1. PortOfCall(t) \in MailboxPort
    BY <1>2, HasMailbox
  <2>2. mcall[t].counter = "nreads" => mcall[t].buffer \in Message
    BY <1>1, <1>6 DEF CountTransfer, In, Fits
  <2>3. received' \in [MailboxPort -> Seq(Message)]
    <3>1. CASE mcall[t].counter = "nwrites"
      BY <1>6, <3>1 DEF CountTransfer, MInv, MailboxTypeOK
    <3>2. CASE mcall[t].counter = "nreads"
      <4>1. Append(received[PortOfCall(t)], mcall[t].buffer) \in Seq(Message)
        BY <2>1, <2>2, <3>2 DEF MInv, MailboxTypeOK
      <4>. QED  BY <1>6, <3>2, <4>1 DEF CountTransfer, MInv, MailboxTypeOK
    <3>. QED  BY <1>2, <3>1, <3>2
  <2>4. mailbox_counters' \in [Counter -> Nat] /\ returned' \in [Counter -> Nat]
    <3>1. /\ mailbox_counters[mcall[t].counter] + 1 \in Nat
          /\ returned[mcall[t].counter] + 1 \in Nat
      <4>1. mcall[t].counter \in Counter
        BY <1>2 DEF Counter
      <4>2. mailbox_counters \in [Counter -> Nat] /\ returned \in [Counter -> Nat]
        BY DEF MInv, MailboxTypeOK
      <4>. QED  BY <4>1, <4>2
    <3>. QED  BY <1>6, <3>1 DEF CountTransfer, MInv, MailboxTypeOK
  <2>. QED  BY <1>4, <1>5, <1>6, <2>3, <2>4
            DEF MInv, MailboxTypeOK, SceneOK, WireOK, CountTransfer, kernelVars, processVars
<1>7. CASE MailboxError(t)
  BY <1>4, <1>5, <1>7
     DEF MInv, MailboxTypeOK, SceneOK, WireOK, MailboxError, OneFails, mailboxHistory
<1>. QED  BY <1>6, <1>7

\* A mailbox is made: a free id becomes the caller's.
LEMMA NewStep ==
    ASSUME MInv, NEW t \in Thread, NEW p \in MailboxPort, NEW k \in {"in", "out"},
           NEW r \in Makings, NewMailbox(t, k, p, r)
    PROVE  MInv'
<1>1. mcall \in [Thread -> MailboxCalls] /\ mcall[t] = Idle
  BY DEF MInv, MailboxTypeOK, CallsOK, Fits, NewMailbox, In
<1>2. PICK i \in scene.ids :
        /\ mailbox[i] = None
        /\ mailbox' = [mailbox EXCEPT ![i] = [kind |-> k, port |-> p]]
        /\ overtaken' = (overtaken \/ Leaving(i) # {})
        /\ Succeeds(t, r, i)
  BY DEF NewMailbox
<1>3. i \in MailboxId
  BY MailboxSceneAssumption DEF MInv, SceneOK
<1>. DEFINE c == [Idle EXCEPT !.at = "count", !.counter = r, !.id = i]
<1>4. c \in MailboxCalls /\ Fits(c) /\ c.counter = r /\ c.id = i
  BY <1>3 DEF MailboxCalls, MailboxPlaces, Fits, Makings, Transfers, Counter, Idle
<1>5. mcall' = [mcall EXCEPT ![t] = c]
  BY <1>2 DEF Succeeds
<1>. HIDE DEF c
<1>6. /\ mcall' \in [Thread -> MailboxCalls] /\ CallsOK'
      /\ mcall'[t] = c /\ \A u \in Thread \ {t} : mcall'[u] = mcall[u]
  BY <1>4, <1>5, CallMoves DEF MInv
<1>7. /\ mailbox' \in [MailboxId -> [kind : {"in", "out"}, port : MailboxPort] \cup {None}]
      /\ mailbox'[i] = [kind |-> k, port |-> p] /\ mailbox'[i] # None
      /\ \A j \in MailboxId \ {i} : mailbox'[j] = mailbox[j]
  <2>1. mailbox \in [MailboxId -> [kind : {"in", "out"}, port : MailboxPort] \cup {None}]
    BY DEF MInv, MailboxTypeOK
  <2>2. [kind |-> k, port |-> p] \in [kind : {"in", "out"}, port : MailboxPort]
    OBVIOUS
  <2>. QED  BY <1>2, <1>3, <2>1, <2>2, MailboxAssumption
<1>8. /\ Owns(t) = held[t] /\ Owns(t)' = held[t] \cup {i}
      /\ \A u \in Thread \ {t} : Owns(u)' = Owns(u)
      /\ \A u \in Thread : i \notin Owns(u)
  <2>1. held' = held
    BY DEF NewMailbox
  <2>2. \A u \in Thread : i \notin Owns(u)
    BY <1>2 DEF MInv, OwnsOK
  <2>. QED  BY <1>1, <1>4, <1>6, <2>1, <2>2, IdleCall DEF Owns
<1>9. OwnsOK'
  <2>1. \A u \in Thread : \A j \in Owns(u)' : mailbox'[j] # None
    <3>1. SUFFICES ASSUME NEW u \in Thread, NEW j \in Owns(u)', j # i PROVE mailbox'[j] # None
      BY <1>7
    <3>2. j \in Owns(u)
      BY <1>8, <3>1
    <3>3. mailbox[j] # None
      BY <3>2 DEF MInv, OwnsOK
    <3>4. j \in MailboxId
      BY <3>2, OwnedIds
    <3>. QED  BY <1>7, <3>1, <3>3, <3>4
  <2>2. \A u, v \in Thread : u # v => Owns(u)' \cap Owns(v)' = {}
    BY <1>8 DEF MInv, OwnsOK
  <2>3. \A u \in Thread : mcall'[u].counter \in Transfers => mcall'[u].id \in held'[u]
    BY <1>4, <1>6 DEF MInv, OwnsOK, NewMailbox, Makings, Transfers
  <2>. QED  BY <2>1, <2>2, <2>3 DEF OwnsOK
<1>10. FlagsOK'
  <2>1. SUFFICES ASSUME ~overtaken' PROVE FlagsOK'
    BY DEF FlagsOK
  <2>2. ~overtaken /\ \A u \in Thread : mcall[u].counter \in Removals => mcall[u].id # i
    BY <1>2, <2>1 DEF Leaving, Removals
  <2>3. \A u \in Thread : mcall'[u].counter \in Removals => mailbox'[mcall'[u].id] = None
    <3>1. SUFFICES ASSUME NEW u \in Thread, mcall'[u].counter \in Removals
                   PROVE  mailbox'[mcall'[u].id] = None
      OBVIOUS
    <3>2. u # t /\ mcall'[u] = mcall[u] /\ mcall[u].id # i
      BY <1>4, <1>6, <2>2, <3>1 DEF Makings, Removals
    <3>3. mcall[u].id \in MailboxId /\ mailbox[mcall[u].id] = None
      BY <2>2, <3>1, <3>2, IdleCall DEF MInv, CallsOK, Fits, FlagsOK
    <3>. QED  BY <1>7, <3>2, <3>3
  <2>. QED  BY <2>2, <2>3 DEF MInv, FlagsOK, NewMailbox
<1>11. overtaken' \in BOOLEAN
  BY <1>2 DEF MInv, MailboxTypeOK
<1>. QED  BY <1>6, <1>7, <1>9, <1>10, <1>11
          DEF MInv, MailboxTypeOK, SceneOK, WireOK, NewMailbox, processVars

\* A mailbox is given back.
LEMMA FreeStep ==
    ASSUME MInv, NEW t \in Thread, NEW i \in held[t], NEW r \in Removals, FreeMailbox(t, i, r)
    PROVE  MInv'
<1>1. mcall \in [Thread -> MailboxCalls] /\ mcall[t] = Idle /\ i \in MailboxId
  BY DEF MInv, MailboxTypeOK, CallsOK, Fits, FreeMailbox, In
<1>. DEFINE c == [Idle EXCEPT !.at = "count", !.counter = r, !.id = i]
<1>2. c \in MailboxCalls /\ Fits(c) /\ c.counter = r /\ c.id = i
  BY <1>1 DEF MailboxCalls, MailboxPlaces, Fits, Removals, Transfers, Counter, Idle
<1>3. mcall' = [mcall EXCEPT ![t] = c]
  BY DEF FreeMailbox, Succeeds
<1>. HIDE DEF c
<1>4. /\ mcall' \in [Thread -> MailboxCalls] /\ CallsOK'
      /\ mcall'[t] = c /\ \A u \in Thread \ {t} : mcall'[u] = mcall[u]
  BY <1>2, <1>3, CallMoves DEF MInv
<1>5. /\ mailbox' \in [MailboxId -> [kind : {"in", "out"}, port : MailboxPort] \cup {None}]
      /\ mailbox'[i] = None /\ \A j \in MailboxId \ {i} : mailbox'[j] = mailbox[j]
  BY <1>1 DEF MInv, MailboxTypeOK, FreeMailbox
<1>6. /\ held' \in [Thread -> SUBSET MailboxId] /\ held'[t] = held[t] \ {i}
      /\ \A u \in Thread \ {t} : held'[u] = held[u]
  BY DEF MInv, MailboxTypeOK, FreeMailbox
<1>7. /\ Owns(t)' = Owns(t) \ {i} /\ i \in Owns(t)
      /\ \A u \in Thread \ {t} : Owns(u)' = Owns(u) /\ i \notin Owns(u)
  <2>1. Owns(t) = held[t] /\ Owns(t)' = held[t] \ {i} /\ i \in Owns(t)
    BY <1>1, <1>2, <1>4, <1>6, IdleCall DEF Owns, Makings, Removals
  <2>. QED  BY <1>4, <1>6, <2>1 DEF Owns, MInv, OwnsOK
<1>8. OwnsOK'
  <2>1. \A u \in Thread : \A j \in Owns(u)' : j \in MailboxId \ {i} /\ mailbox[j] # None
    BY <1>7, OwnedIds DEF MInv, OwnsOK
  <2>2. \A u \in Thread : \A j \in Owns(u)' : mailbox'[j] # None
    BY <1>5, <2>1
  <2>3. \A u, v \in Thread : u # v => Owns(u)' \cap Owns(v)' = {}
    BY <1>7 DEF MInv, OwnsOK
  <2>4. \A u \in Thread : mcall'[u].counter \in Transfers => mcall'[u].id \in held'[u]
    BY <1>2, <1>4, <1>6 DEF MInv, OwnsOK, Removals, Transfers
  <2>. QED  BY <2>2, <2>3, <2>4 DEF OwnsOK
<1>9. FlagsOK'
  <2>1. SUFFICES ASSUME ~overtaken' PROVE FlagsOK'
    BY DEF FlagsOK
  <2>2. ~overtaken /\ user_mailboxes' = user_mailboxes
    BY <2>1 DEF FreeMailbox
  <2>3. \A u \in Thread : mcall'[u].counter \in Removals => mailbox'[mcall'[u].id] = None
    <3>1. SUFFICES ASSUME NEW u \in Thread \ {t}, mcall'[u].counter \in Removals
                   PROVE  mailbox'[mcall'[u].id] = None
      BY <1>2, <1>4, <1>5
    <3>2. mcall'[u] = mcall[u] /\ mcall[u].counter # None
      BY <1>4, <3>1, MailboxAssumption DEF Removals, Counter
    <3>3. mcall[u].id \in MailboxId /\ mailbox[mcall[u].id] = None
      BY <2>2, <3>1, <3>2, OwnedIds DEF MInv, FlagsOK
    <3>. QED  BY <1>5, <3>2, <3>3
  <2>4. \A u \in Thread : \A j \in held'[u] : user_mailboxes[j]
    BY <1>6, <2>2 DEF MInv, FlagsOK
  <2>. QED  BY <2>2, <2>3, <2>4 DEF FlagsOK
<1>. QED  BY <1>4, <1>5, <1>6, <1>8, <1>9
          DEF MInv, MailboxTypeOK, SceneOK, WireOK, FreeMailbox, processVars

\* The call of t counts.
LEMMA CountStep ==
    ASSUME MInv, NEW t \in Thread, CountMailbox(t)
    PROVE  MInv'
<1>. DEFINE c == [mcall[t] EXCEPT !.at = "flag"]
            r == mcall[t].counter
<1>1. mcall \in [Thread -> MailboxCalls] /\ mcall[t] \in MailboxCalls /\ Fits(mcall[t])
  BY DEF MInv, MailboxTypeOK, CallsOK
<1>2. mcall[t].at = "count" /\ r \in Counter \ Transfers
  BY <1>1 DEF CountMailbox, In, Fits, Transfers
<1>3. c \in MailboxCalls /\ Fits(c) /\ c.counter = r /\ c.id = mcall[t].id
  BY <1>1, <1>2 DEF MailboxCalls, MailboxPlaces, Fits
<1>4. mcall' = [mcall EXCEPT ![t] = c]
  BY <1>1 DEF CountMailbox
<1>. HIDE DEF c
<1>5. /\ mcall' \in [Thread -> MailboxCalls] /\ CallsOK'
      /\ mcall'[t] = c /\ \A u \in Thread \ {t} : mcall'[u] = mcall[u]
  BY <1>3, <1>4, CallMoves DEF MInv
<1>6. /\ \A u \in Thread : mcall'[u].counter = mcall[u].counter /\ mcall'[u].id = mcall[u].id
      /\ UNCHANGED <<mailbox, held, user_mailboxes, overtaken>>
  BY <1>3, <1>5 DEF CountMailbox, kernelVars, mailboxHistory
<1>7. \A u \in Thread : Owns(u)' = Owns(u)
  BY <1>6 DEF Owns
<1>8. OwnsOK' /\ FlagsOK'
  BY <1>6, <1>7 DEF MInv, OwnsOK, FlagsOK
<1>9. mailbox_counters' \in [Counter -> Nat]
  <2>1. mailbox_counters \in [Counter -> Nat] /\ mailbox_counters[r] + 1 \in Nat
    BY <1>2 DEF MInv, MailboxTypeOK
  <2>. QED  BY <2>1 DEF CountMailbox
<1>. QED  BY <1>5, <1>8, <1>9
          DEF MInv, MailboxTypeOK, SceneOK, WireOK, CountMailbox, processVars, kernelVars,
              mailboxHistory

\* The flag is assigned, and a mailbox that was made is in the caller's hands.
LEMMA FlagStep ==
    ASSUME MInv, NEW t \in Thread, FlagMailbox(t)
    PROVE  MInv'
<1>. DEFINE r == mcall[t].counter
            i == mcall[t].id
<1>1. mcall \in [Thread -> MailboxCalls] /\ mcall[t] \in MailboxCalls /\ Fits(mcall[t])
  BY DEF MInv, MailboxTypeOK, CallsOK
<1>2. r \in Makings \cup Removals /\ i \in MailboxId /\ r \in Counter
  BY <1>1 DEF FlagMailbox, In, Fits, Transfers, Makings, Removals, Counter
<1>3. Fits(Idle)
  BY IdleCall DEF Fits
<1>4. /\ mcall' \in [Thread -> MailboxCalls] /\ CallsOK'
      /\ mcall'[t] = Idle /\ \A u \in Thread \ {t} : mcall'[u] = mcall[u]
  BY <1>3, IdleCall, CallMoves DEF MInv, FlagMailbox
<1>5. /\ held' \in [Thread -> SUBSET MailboxId]
      /\ held'[t] = held[t] \cup (IF r \in Makings THEN {i} ELSE {})
      /\ \A u \in Thread \ {t} : held'[u] = held[u]
  <2>1. held \in [Thread -> SUBSET MailboxId]
    BY DEF MInv, MailboxTypeOK
  <2>. QED  BY <1>2, <2>1 DEF FlagMailbox, Makings
<1>6. \A u \in Thread : Owns(u)' = Owns(u)
  BY <1>4, <1>5, IdleCall DEF Owns
<1>7. OwnsOK'
  <2>1. mailbox' = mailbox
    BY DEF FlagMailbox, kernelVars
  <2>2. \A u \in Thread : mcall'[u].counter \in Transfers => mcall'[u].id \in held'[u]
    BY <1>4, <1>5, IdleCall DEF MInv, OwnsOK
  <2>. QED  BY <1>6, <2>1, <2>2 DEF MInv, OwnsOK
<1>8. /\ user_mailboxes' \in [MailboxId -> BOOLEAN]
      /\ user_mailboxes'[i] = (r \in Makings)
      /\ \A j \in MailboxId \ {i} : user_mailboxes'[j] = user_mailboxes[j]
  <2>1. user_mailboxes \in [MailboxId -> BOOLEAN] /\ InUse(r) = (r \in Makings)
    BY DEF MInv, MailboxTypeOK, InUse, Makings
  <2>2. user_mailboxes' = [user_mailboxes EXCEPT ![i] = InUse(r)]
    BY DEF FlagMailbox
  <2>. QED  BY <1>2, <2>1, <2>2
<1>9. FlagsOK'
  <2>1. SUFFICES ASSUME ~overtaken' PROVE FlagsOK'
    BY DEF FlagsOK
  <2>2. ~overtaken /\ mailbox' = mailbox
    BY <2>1 DEF FlagMailbox, kernelVars
  <2>3. \A u \in Thread : mcall'[u].counter \in Removals => mailbox'[mcall'[u].id] = None
    BY <1>4, <2>2, IdleCall DEF MInv, FlagsOK
  <2>4. \A u \in Thread : \A j \in held'[u] : user_mailboxes'[j]
    <3>1. SUFFICES ASSUME NEW u \in Thread, NEW j \in held'[u] PROVE user_mailboxes'[j]
      OBVIOUS
    <3>2. j \in MailboxId /\ j \in Owns(u)
      BY <1>5, <1>6 DEF Owns
    <3>3. CASE j = i /\ r \in Makings
      BY <1>8, <3>3
    <3>4. CASE j = i /\ r \in Removals
      BY <2>2, <3>2, <3>4 DEF MInv, OwnsOK, FlagsOK
    <3>5. CASE j # i
      <4>1. j \in held[u]
        BY <1>5, <3>5
      <4>. QED  BY <1>8, <2>2, <3>2, <3>5, <4>1 DEF MInv, FlagsOK
    <3>. QED  BY <1>2, <3>3, <3>4, <3>5
  <2>. QED  BY <2>2, <2>3, <2>4 DEF FlagsOK
<1>10. returned' \in [Counter -> Nat]
  <2>1. returned \in [Counter -> Nat] /\ returned[r] + 1 \in Nat
    BY <1>2 DEF MInv, MailboxTypeOK
  <2>. QED  BY <2>1 DEF FlagMailbox
<1>. QED  BY <1>4, <1>5, <1>7, <1>8, <1>9, <1>10
          DEF MInv, MailboxTypeOK, SceneOK, WireOK, FlagMailbox, processVars, kernelVars

-----------------------------------------------------------------------------
\* The threads between the counter c and their return.
Flagging(c) == {t \in Thread : In(t, "flag") /\ mcall[t].counter = c}

LEMMA FlaggingFinite ==
    ASSUME NEW c
    PROVE  /\ Unflagged(c) = Cardinality(Flagging(c)) /\ Unflagged(c)' = Cardinality(Flagging(c)')
           /\ IsFiniteSet(Flagging(c)) /\ Unflagged(c) \in Nat /\ Unflagged(c)' \in Nat
<1>1. Flagging(c) \in SUBSET Thread /\ Flagging(c)' \in SUBSET Thread
  BY DEF Flagging
<1>2. /\ IsFiniteSet(Flagging(c)) /\ Cardinality(Flagging(c)) \in Nat
      /\ IsFiniteSet(Flagging(c)') /\ Cardinality(Flagging(c)') \in Nat
  BY <1>1, ProcessAssumption, FS_Subset, FS_CardinalityType
<1>3. /\ Unflagged(c) = Cardinality(Flagging(c))
      /\ Unflagged(c)' = Cardinality(Flagging(c)')
  BY DEF Flagging, Unflagged
<1>. QED  BY <1>2, <1>3

\* What CountersTell says of one counter.
Tells(c) ==
    IF c \in Transfers
    THEN /\ mailbox_counters[c] <= returned[c]
         /\ ~overtaken => mailbox_counters[c] = returned[c]
    ELSE mailbox_counters[c] = returned[c] + Unflagged(c)

LEMMA CountersTells ==
    /\ CountersTell <=> \A c \in Counter : Tells(c)
    /\ CountersTell' <=> \A c \in Counter : Tells(c)'
  BY DEF CountersTell, Tells, Transfers

\* Most steps have to do with no counter.
LEMMA NoCount ==
    ASSUME MInv, CountersTell, NEW t \in Thread,
           UNCHANGED <<mailbox_counters, returned>>, overtaken => overtaken',
           mcall[t].at # "flag", mcall'[t].at # "flag",
           \A u \in Thread \ {t} : mcall'[u] = mcall[u]
    PROVE  CountersTell'
<1>1. ASSUME NEW c PROVE Unflagged(c)' = Unflagged(c)
  <2>1. Flagging(c)' = Flagging(c)
    BY DEF Flagging, In
  <2>. QED  BY <2>1, FlaggingFinite
<1>. QED  BY <1>1, CountersTells DEF Tells

LEMMA CountCounts ==
    ASSUME MInv, CountersTell, NEW t \in Thread, CountMailbox(t)
    PROVE  CountersTell'
<1>1. /\ mcall \in [Thread -> MailboxCalls] /\ mcall[t] \in MailboxCalls
      /\ mailbox_counters \in [Counter -> Nat] /\ returned \in [Counter -> Nat]
  BY DEF MInv, MailboxTypeOK
<1>2. PICK r \in Counter \ Transfers : mcall[t].at = "count" /\ mcall[t].counter = r
  BY <1>1 DEF MInv, CallsOK, CountMailbox, In, Fits, Transfers
<1>3. /\ mcall'[t].at = "flag" /\ mcall'[t].counter = r
      /\ \A u \in Thread \ {t} : mcall'[u] = mcall[u]
      /\ mailbox_counters' = [mailbox_counters EXCEPT ![r] = @ + 1]
      /\ returned' = returned /\ overtaken' = overtaken
  BY <1>1, <1>2 DEF CountMailbox, mailboxHistory, MailboxCalls
<1>4. Unflagged(r)' = Unflagged(r) + 1
  <2>1. Flagging(r)' = Flagging(r) \cup {t} /\ t \notin Flagging(r)
    BY <1>2, <1>3 DEF Flagging, In
  <2>. QED  BY <2>1, FlaggingFinite, FS_AddElement
<1>5. \A c \in Counter \ {r} : Unflagged(c)' = Unflagged(c)
  <2>1. SUFFICES ASSUME NEW c \in Counter \ {r} PROVE Unflagged(c)' = Unflagged(c)
    OBVIOUS
  <2>2. Flagging(c)' = Flagging(c)
    BY <1>2, <1>3 DEF Flagging, In
  <2>. QED  BY <2>2, FlaggingFinite
<1>6. SUFFICES ASSUME NEW c \in Counter
      PROVE  Tells(c)'
  BY CountersTells
<1>7. CASE c = r
  <2>1. mailbox_counters[c] = returned[c] + Unflagged(c) /\ returned[c] \in Nat
    BY <1>1, <1>2, <1>7, CountersTells DEF Tells
  <2>2. mailbox_counters'[c] = mailbox_counters[c] + 1
    BY <1>1, <1>3, <1>7
  <2>. QED  BY <1>2, <1>3, <1>4, <1>7, <2>1, <2>2, FlaggingFinite DEF Tells
<1>8. CASE c # r
  <2>1. mailbox_counters'[c] = mailbox_counters[c] /\ Unflagged(c)' = Unflagged(c)
    BY <1>1, <1>3, <1>5, <1>8
  <2>2. Tells(c) /\ overtaken' = overtaken
    BY <1>3, CountersTells
  <2>3. returned'[c] = returned[c] /\ mailbox_counters'[c] = mailbox_counters[c]
    BY <1>3, <2>1
  <2>. QED  BY <2>1, <2>2, <2>3 DEF Tells
<1>. QED  BY <1>7, <1>8

LEMMA FlagCounts ==
    ASSUME MInv, CountersTell, NEW t \in Thread, FlagMailbox(t)
    PROVE  CountersTell'
<1>1. /\ mcall \in [Thread -> MailboxCalls] /\ mcall[t] \in MailboxCalls
      /\ mailbox_counters \in [Counter -> Nat] /\ returned \in [Counter -> Nat]
  BY DEF MInv, MailboxTypeOK
<1>2. PICK r \in Counter \ Transfers : mcall[t].at = "flag" /\ mcall[t].counter = r
  BY <1>1 DEF MInv, CallsOK, FlagMailbox, In, Fits
<1>3. /\ mcall'[t].at = "idle" /\ \A u \in Thread \ {t} : mcall'[u] = mcall[u]
      /\ returned' = [returned EXCEPT ![r] = @ + 1]
      /\ mailbox_counters' = mailbox_counters /\ overtaken' = overtaken
  BY <1>1, <1>2, IdleCall DEF FlagMailbox
<1>4. Unflagged(r)' + 1 = Unflagged(r)
  <2>1. Flagging(r)' = Flagging(r) \ {t} /\ t \in Flagging(r)
    <3>1. t \in Flagging(r) /\ t \notin Flagging(r)'
      BY <1>2, <1>3 DEF Flagging, In
    <3>2. \A u \in Thread \ {t} : u \in Flagging(r)' <=> u \in Flagging(r)
      BY <1>3 DEF Flagging, In
    <3>3. Flagging(r) \subseteq Thread /\ Flagging(r)' \subseteq Thread
      BY DEF Flagging
    <3>. QED  BY <3>1, <3>2, <3>3
  <2>2. Unflagged(r)' = Unflagged(r) - 1
    BY <2>1, FlaggingFinite, FS_RemoveElement
  <2>. QED  BY <2>2, FlaggingFinite
<1>5. \A c \in Counter \ {r} : Unflagged(c)' = Unflagged(c)
  <2>1. SUFFICES ASSUME NEW c \in Counter \ {r} PROVE Unflagged(c)' = Unflagged(c)
    OBVIOUS
  <2>2. Flagging(c)' = Flagging(c)
    BY <1>2, <1>3 DEF Flagging, In
  <2>. QED  BY <2>2, FlaggingFinite
<1>6. SUFFICES ASSUME NEW c \in Counter
      PROVE  Tells(c)'
  BY CountersTells
<1>7. CASE c = r
  <2>1. mailbox_counters[c] = returned[c] + Unflagged(c) /\ returned[c] \in Nat
    BY <1>1, <1>2, <1>7, CountersTells DEF Tells
  <2>2. returned'[c] = returned[c] + 1
    BY <1>1, <1>3, <1>7
  <2>. QED  BY <1>2, <1>3, <1>4, <1>7, <2>1, <2>2, FlaggingFinite DEF Tells
<1>8. CASE c # r
  <2>1. returned'[c] = returned[c] /\ Unflagged(c)' = Unflagged(c)
    BY <1>1, <1>3, <1>5, <1>8
  <2>2. Tells(c) /\ overtaken' = overtaken
    BY <1>3, CountersTells
  <2>3. returned'[c] = returned[c] /\ mailbox_counters'[c] = mailbox_counters[c]
    BY <1>3, <2>1
  <2>. QED  BY <2>1, <2>2, <2>3 DEF Tells
<1>. QED  BY <1>7, <1>8

\* The flag is set, unless an id was given out too early.
LEMMA TransferCounts ==
    ASSUME MInv, CountersTell, NEW t \in Thread, CountTransfer(t)
    PROVE  CountersTell'
<1>1. /\ mcall \in [Thread -> MailboxCalls]
      /\ mailbox_counters \in [Counter -> Nat] /\ returned \in [Counter -> Nat]
  BY DEF MInv, MailboxTypeOK
<1>2. PICK r \in Counter : r \in Transfers /\ mcall[t].at = "count" /\ mcall[t].counter = r
  BY DEF CountTransfer, In, Transfers, Counter
<1>3. /\ mcall'[t].at = "idle" /\ \A u \in Thread \ {t} : mcall'[u] = mcall[u]
      /\ returned' = [returned EXCEPT ![r] = @ + 1] /\ overtaken' = overtaken
  BY <1>1, <1>2, IdleCall DEF CountTransfer
<1>4. /\ \/ mailbox_counters' = [mailbox_counters EXCEPT ![r] = @ + 1]
         \/ overtaken /\ mailbox_counters' = mailbox_counters
  BY <1>2, HasMailbox DEF MInv, FlagsOK, CountTransfer
<1>5. ASSUME NEW c \in Counter PROVE Unflagged(c)' = Unflagged(c)
  <2>1. Flagging(c)' = Flagging(c)
    BY <1>2, <1>3 DEF Flagging, In
  <2>. QED  BY <2>1, FlaggingFinite
<1>6. SUFFICES ASSUME NEW c \in Counter
      PROVE  Tells(c)'
  BY CountersTells
<1>7. CASE c = r
  <2>1. /\ mailbox_counters[c] <= returned[c]
        /\ ~overtaken => mailbox_counters[c] = returned[c]
        /\ mailbox_counters[c] \in Nat /\ returned[c] \in Nat
    BY <1>1, <1>2, <1>7, CountersTells DEF Tells
  <2>2. /\ returned'[c] = returned[c] + 1
        /\ \/ mailbox_counters'[c] = mailbox_counters[c] + 1
           \/ overtaken /\ mailbox_counters'[c] = mailbox_counters[c]
    BY <1>1, <1>3, <1>4, <1>7
  <2>3. c \in Transfers /\ overtaken' = overtaken
    BY <1>2, <1>3, <1>7
  <2>4. /\ mailbox_counters'[c] <= returned'[c]
        /\ ~overtaken' => mailbox_counters'[c] = returned'[c]
    BY <2>1, <2>2, <2>3
  <2>. QED  BY <2>3, <2>4 DEF Tells
<1>8. CASE c # r
  <2>1. returned'[c] = returned[c] /\ mailbox_counters'[c] = mailbox_counters[c]
    BY <1>1, <1>3, <1>4, <1>8
  <2>2. Tells(c) /\ overtaken' = overtaken /\ Unflagged(c)' = Unflagged(c)
    BY <1>3, <1>5, CountersTells
  <2>. QED  BY <2>1, <2>2 DEF Tells
<1>. QED  BY <1>7, <1>8

-----------------------------------------------------------------------------
\* What each step does to both.
LEMMA Steps ==
    ASSUME MInv, CountersTell, NEW t \in Thread,
           MailboxCall(t) \/ MailboxStep(t) \/ MailboxError(t)
    PROVE  MInv' /\ CountersTell'
<1>1. mcall \in [Thread -> MailboxCalls] /\ mcall[t] \in MailboxCalls
  BY DEF MInv, MailboxTypeOK
<1>2. ASSUME NEW p \in MailboxPort, kmailbox_create(t, p) \/ kmailbox_open(t, p)
      PROVE  MInv' /\ CountersTell'
  <2>1. PICK k \in {"in", "out"}, r \in Makings : NewMailbox(t, k, p, r)
    BY <1>2 DEF kmailbox_create, kmailbox_open, Makings
  <2>2. MInv'
    BY <2>1, NewStep
  <2>3. /\ mcall[t].at # "flag" /\ mcall'[t].at # "flag"
        /\ \A u \in Thread \ {t} : mcall'[u] = mcall[u]
    BY <1>1, <2>1, IdleCall DEF NewMailbox, Succeeds, In, Idle
  <2>4. UNCHANGED <<mailbox_counters, returned>> /\ (overtaken => overtaken')
    BY <2>1 DEF NewMailbox
  <2>. QED  BY <2>2, <2>3, <2>4, NoCount
<1>3. ASSUME NEW i \in held[t], kmailbox_unlink(t, i) \/ kmailbox_close(t, i)
      PROVE  MInv' /\ CountersTell'
  <2>1. PICK r \in Removals : FreeMailbox(t, i, r)
    BY <1>3 DEF kmailbox_unlink, kmailbox_close, Removals
  <2>2. MInv'
    BY <2>1, FreeStep
  <2>3. /\ mcall[t].at # "flag" /\ mcall'[t].at # "flag"
        /\ \A u \in Thread \ {t} : mcall'[u] = mcall[u]
    BY <1>1, <2>1 DEF FreeMailbox, Succeeds, In, Idle
  <2>4. UNCHANGED <<mailbox_counters, returned, overtaken>>
    BY <2>1 DEF FreeMailbox
  <2>. QED  BY <2>2, <2>3, <2>4, NoCount
<1>4. ASSUME (\E i \in held[t] : kmailbox_write(t, i)) \/ kmailbox_awrite(t) \/ WaitWritten(t)
      PROVE  MInv' /\ CountersTell'
  <2>1. MInv'
    BY <1>4, WriteSteps
  <2>2. /\ mcall[t].at # "flag" /\ mcall'[t].at # "flag"
        /\ \A u \in Thread \ {t} : mcall'[u] = mcall[u]
    BY <1>1, <1>4 DEF kmailbox_write, kmailbox_awrite, WaitWritten, In, MailboxCalls
  <2>3. UNCHANGED <<mailbox_counters, returned, overtaken>>
    BY <1>4 DEF kmailbox_write, kmailbox_awrite, WaitWritten, mailboxHistory
  <2>. QED  BY <2>1, <2>2, <2>3, NoCount
<1>5. ASSUME (\E i \in held[t] : kmailbox_read(t, i)) \/ kmailbox_aread(t) \/ WaitRead(t)
      PROVE  MInv' /\ CountersTell'
  <2>1. MInv'
    BY <1>5, ReadSteps
  <2>2. /\ mcall[t].at # "flag" /\ mcall'[t].at # "flag"
        /\ \A u \in Thread \ {t} : mcall'[u] = mcall[u]
    <3>1. CASE \E i \in held[t] : kmailbox_read(t, i)
      BY <1>1, <3>1 DEF kmailbox_read, In, Idle
    <3>2. CASE kmailbox_aread(t)
      BY <1>1, <3>2 DEF kmailbox_aread, In, MailboxCalls
    <3>3. CASE WaitRead(t)
      BY <1>1, <3>3 DEF WaitRead, AfterWait, In, MailboxCalls
    <3>. QED  BY <1>5, <3>1, <3>2, <3>3
  <2>3. UNCHANGED <<mailbox_counters, returned, overtaken>>
    BY <1>5 DEF kmailbox_read, kmailbox_aread, WaitRead, mailboxHistory
  <2>. QED  BY <2>1, <2>2, <2>3, NoCount
<1>6. ASSUME MailboxError(t)
      PROVE  MInv' /\ CountersTell'
  <2>1. /\ mcall[t].at # "flag" /\ mcall'[t].at # "flag"
        /\ \A u \in Thread \ {t} : mcall'[u] = mcall[u]
    BY <1>1, <1>6, IdleCall DEF MailboxError
  <2>2. UNCHANGED <<mailbox_counters, returned, overtaken>>
    BY <1>6 DEF MailboxError, mailboxHistory
  <2>. QED  BY <1>6, <2>1, <2>2, EndSteps, NoCount
<1>7. ASSUME CountMailbox(t) \/ FlagMailbox(t) \/ CountTransfer(t)
      PROVE  MInv' /\ CountersTell'
  BY <1>7, CountStep, FlagStep, EndSteps, CountCounts, FlagCounts, TransferCounts
<1>. QED  BY <1>2, <1>3, <1>4, <1>5, <1>6, <1>7 DEF MailboxCall, MailboxStep

LEMMA IInitial == MailboxInit => IInv
<1>. SUFFICES ASSUME MailboxInit PROVE CountersTell
  BY MInitial DEF IInv
<1>1. \A c \in Counter : Unflagged(c) = 0
  <2>1. \A c \in Counter : Flagging(c) = {}
    BY IdleCall DEF Flagging, In, MailboxInit
  <2>. QED  BY <2>1, FlaggingFinite, FS_EmptySet
<1>. QED  BY <1>1 DEF MailboxInit, CountersTell

LEMMA IStep == IInv /\ [MailboxNext]_<<processVars, mailboxVars>> => IInv'
<1>. SUFFICES ASSUME IInv, [MailboxNext]_<<processVars, mailboxVars>> PROVE IInv'
  OBVIOUS
<1>1. CASE MailboxNext
  <2>1. scene.who \subseteq Thread
    BY ProcessAssumption DEF IInv, MInv, SceneOK
  <2>. QED  BY <1>1, <2>1, Steps DEF IInv, MailboxNext
<1>2. CASE UNCHANGED <<processVars, mailboxVars>>
  <2>1. MInv'
    BY <1>2 DEF IInv, MInv, MailboxTypeOK, SceneOK, CallsOK, WireOK, OwnsOK, Owns, FlagsOK,
                processVars, mailboxVars, kernelVars, mailboxHistory
  <2>2. CountersTell'
    BY <1>2 DEF IInv, CountersTell, Unflagged, In, mailboxVars, mailboxHistory
  <2>. QED  BY <2>1, <2>2 DEF IInv
<1>. QED  BY <1>1, <1>2

LEMMA IInvariant == MailboxSpec => []IInv
  BY IInitial, IStep, PTL DEF MailboxSpec

-----------------------------------------------------------------------------
\* The types of the variables: no read or write uses a mailbox that its caller has
\* given back, and no read returns without a message.
THEOREM MailboxTypeCorrect == MailboxSpec => []MailboxTypeOK
<1>1. IInv => MailboxTypeOK
  BY DEF IInv, MInv
<1>. QED  BY <1>1, IInvariant, PTL

\* Every call that returns with success is in its counter, once, however the kernel
\* hands the ids around; reads and writes, as long as none was given out before the
\* thread that had removed it was done with the flag.
THEOREM CountersCorrect == MailboxSpec => []CountersTell
<1>1. IInv => CountersTell
  BY DEF IInv
<1>. QED  BY <1>1, IInvariant, PTL

\* A mailbox has one owner at a time: as long as its users keep to those that they
\* have got, who unlinks or closes one takes it from nobody else's call.
Exclusive ==
    \A t, u \in Thread :
        t # u /\ mcall[t].counter \in Transfers =>
            mailbox[mcall[t].id] # None /\ mcall[t].id \notin held[u]

THEOREM OwnersApart == MailboxSpec => []Exclusive
<1>1. IInv => Exclusive
  BY DEF IInv, MInv, OwnsOK, Owns, Exclusive
<1>. QED  BY <1>1, IInvariant, PTL

-----------------------------------------------------------------------------

PortalTypes ==
    /\ PortalTypeOK
    /\ delivered \in [Output -> Seq(Seq(Piece))]
    /\ scene \in Scenes /\ errors \in Nat

\* Where a thread is fits with what it does.
PortalFit(t) ==
    LET c == pcall[t] IN
    /\ c.at = "idle" => c = NoPortalCall
    /\ c.at \in WritePlaces => c.id = None
    /\ c.at \notin ReadPlaces => c.got = <<>> /\ c.met = None
    /\ c.at = "reset" => c.id \in PortalId \ reads[t]
    /\ c.at \in {"set"} \cup ReadPlaces => c.id \in reads[t]
    /\ c.at \in WritePlaces => c.out \in scene.writers[t] /\ c.part \in 1..scene.pieces
    /\ c.at \in WritePlaces => written[c.out] > 0
    /\ c.at \in ReadPlaces \ {"complete"} => Len(c.got) < scene.pieces
    /\ c.at = "complete" => Len(c.got) = scene.pieces
    /\ c.met # None => c.at = "await" /\ c.met.out = c.out

\* The portals that a thread has, or is about to get.
Uses(t) == reads[t] \cup (IF pcall[t].at = "reset" THEN {pcall[t].id} ELSE {})

\* They exist, and what the table says of them is about their port.
UsesFit(t) ==
    /\ \A i \in Uses(t) : inportal[i] # None
    /\ \A i \in reads[t] : kportal_allows[i] # None => inportal[i] = OutTo[kportal_allows[i]]

\* The table and the kernel agree as far as a call relies on it.
AllowsFit(t) ==
    LET c == pcall[t]  i == c.id IN
    /\ c.at = "reset" => allowed[i] = None
    /\ c.at = "set" => allowed[i] = c.out /\ c.out # None
    /\ c.at \in ReadPlaces => kportal_allows[i] = c.out
    /\ c.at \in ReadPlaces \ {"aread"} => c.out # None
    /\ c.at \in {"set again", "await"} => allowed[i] = c.out
    /\ c.at = "aread" => \/ allowed[i] = c.out
                         \/ allowed[i] = None /\ c.got = <<>> /\ i \in leftover
    /\ c.at = "again" => allowed[i] \in {None, c.out}
    /\ c.at = "complete" => allowed[i] = None

ThreadFit(t) == PortalFit(t) /\ UsesFit(t) /\ AllowsFit(t)

\* No two threads use the same portal.
UsesApart == \A t, u \in Thread : t # u => Uses(t) \cap Uses(u) = {}

\* A port has one portal, and the allow of a portal is for its port.
PortsApart == \A i, j \in PortalId : inportal[i] = inportal[j] /\ inportal[i] # None => i = j
StandFit == \A i \in PortalId : allowed[i] # None => inportal[i] = OutTo[allowed[i]]

\* The reader of a link waits for a piece that no other reader has met, and a link
\* carries pieces of its node.
LinksFit ==
    /\ \A n \in RemoteNode :
        /\ linkReader[n] # None =>
             LET c == pcall[linkReader[n]] IN
             c.at = "await" /\ c.met = None /\ OutNode[c.out] = n /\ keptPieces[c.out] = <<>>
        /\ link[n] # None => OutNode[link[n].out] = n
    /\ \A o \in Output : \A k \in 1..Len(keptPieces[o]) : keptPieces[o][k].out = o

-----------------------------------------------------------------------------
\* The pieces of an output, and the one that follows a piece.
PieceOf(o, k, j) == [out |-> o, msg |-> k, part |-> j]
NextPiece(m) ==
    IF m.part < scene.pieces THEN PieceOf(m.out, m.msg, m.part + 1)
    ELSE PieceOf(m.out, m.msg + 1, 1)

\* q is what lies between the pieces b and e, from b on and without e.
Chain(q, b, e) ==
    IF q = <<>> THEN b = e
    ELSE /\ q[1] = b /\ NextPiece(q[Len(q)]) = e
         /\ \A x \in 1..Len(q) - 1 : q[x + 1] = NextPiece(q[x])

\* What the reader of an output has got, what the kernel has given it and it does not
\* know yet, and what is on the link.
Reader(o) == CHOOSE t \in Thread : t \in ReadsFrom(o)
GotOf(o) == IF ReadsFrom(o) = {} THEN <<>> ELSE pcall[Reader(o)].got
MetOf(o) == IF ReadsFrom(o) = {} \/ pcall[Reader(o)].met = None THEN <<>> ELSE <<pcall[Reader(o)].met>>
LinkOf(o) ==
    IF link[OutNode[o]] # None /\ link[OutNode[o]].out = o THEN <<link[OutNode[o]]>> ELSE <<>>
InKernel(o) == keptPieces[o] \o LinkOf(o)
InFlight(o) == MetOf(o) \o InKernel(o)

\* The piece that the reader of an output is to get next, after the messages d and the
\* pieces g of one, and the one that its writer is to send next.
Expected(o, d, g) ==
    IF Len(g) = scene.pieces THEN PieceOf(o, Len(d) + 2, 1) ELSE PieceOf(o, Len(d) + 1, Len(g) + 1)
Writer(o) == CHOOSE t \in Thread : t \in WritesTo(o)
Cursor(o) ==
    IF WritesTo(o) = {} THEN PieceOf(o, written[o] + 1, 1)
    ELSE LET c == pcall[Writer(o)]  m == PieceOf(o, written[o], c.part) IN
         IF c.at = "awrite" THEN m ELSE NextPiece(m)

\* What thread t has to do with them.
GotBy(t, o) == IF t \in ReadsFrom(o) THEN pcall[t].got ELSE <<>>
MetBy(t, o) == IF t \in ReadsFrom(o) /\ pcall[t].met # None THEN <<pcall[t].met>> ELSE <<>>
SentBy(t, o) == IF t \in WritesTo(o) THEN <<pcall[t].at, pcall[t].part>> ELSE <<>>

\* After w calls of kportal_write, everything before c has been sent and is delivered
\* in d, with the reader in g, or in flight in q, in order.
StreamOf(o, w, d, g, q, c) ==
    /\ Len(d) <= w
    /\ \A k \in DOMAIN d : d[k] = Whole(o, k)
    /\ g # <<>> => Len(d) < w
    /\ \A j \in 1..Len(g) : g[j] = PieceOf(o, Len(d) + 1, j)
    /\ \A x \in 1..Len(q) : q[x].msg <= w
    /\ Chain(q, Expected(o, d, g), c)

Stream(o) == StreamOf(o, written[o], delivered[o], GotOf(o), InFlight(o), Cursor(o))

Streams == \A o \in Output \ broken : Stream(o)

StateFit ==
    /\ PortalTypes /\ \A t \in Thread : ThreadFit(t)
    /\ UsesApart /\ PortsApart /\ StandFit /\ LinksFit

PortalInv == StateFit /\ AllowsTell /\ Streams

-----------------------------------------------------------------------------
\* A call goes on to c, or returns.
LEMMA PortalMoves ==
    ASSUME PortalTypeOK, NEW t \in Thread, NEW c \in PortalCalls,
           pcall' = [pcall EXCEPT ![t] = c]
    PROVE  /\ pcall' \in [Thread -> PortalCalls]
           /\ pcall'[t] = c /\ \A u \in Thread \ {t} : pcall'[u] = pcall[u]
BY DEF PortalTypeOK

\* The fields of a call, one of which may change.
LEMMA CallFields ==
    ASSUME NEW c \in PortalCalls
    PROVE  /\ c.at \in {"idle", "reset", "set"} \cup ReadPlaces \cup WritePlaces
           /\ c.id \in PortalId \cup {None} /\ c.out \in Output \cup {None} /\ c.part \in Nat
           /\ c.got \in Seq(Piece) /\ c.met \in Piece \cup {None}
           /\ \A v \in {"idle", "reset", "set"} \cup ReadPlaces \cup WritePlaces :
                [c EXCEPT !.at = v] \in PortalCalls
           /\ \A v \in PortalId \cup {None} : [c EXCEPT !.id = v] \in PortalCalls
           /\ \A v \in Output \cup {None} : [c EXCEPT !.out = v] \in PortalCalls
           /\ \A v \in Nat : [c EXCEPT !.part = v] \in PortalCalls
           /\ \A v \in Seq(Piece) : [c EXCEPT !.got = v] \in PortalCalls
           /\ \A v \in Piece \cup {None} : [c EXCEPT !.met = v] \in PortalCalls
BY DEF PortalCalls

LEMMA IdlePortal ==
    /\ NoPortalCall \in PortalCalls
    /\ NoPortalCall.at = "idle" /\ NoPortalCall.id = None /\ NoPortalCall.out = None
    /\ NoPortalCall.part = 0 /\ NoPortalCall.got = <<>> /\ NoPortalCall.met = None
BY DEF NoPortalCall, PortalCalls

\* What the instances promise.
LEMMA SceneFits ==
    ASSUME scene \in Scenes
    PROVE  /\ scene.inportal \in [PortalId -> PortalPort \cup {None}]
           /\ \A i \in PortalId : \A j \in PortalId \ {i} :
                scene.inportal[i] = scene.inportal[j] => scene.inportal[i] = None
           /\ scene.reads \in [Thread -> SUBSET PortalId]
           /\ scene.writers \in [Thread -> SUBSET Output]
           /\ \A t \in Thread : \A u \in Thread \ {t} :
                scene.reads[t] \cap scene.reads[u] = {} /\ scene.writers[t] \cap scene.writers[u] = {}
           /\ \A t \in Thread : \A i \in scene.reads[t] : scene.inportal[i] # None
           /\ scene.opens \subseteq Output
           /\ scene.who \subseteq Thread
           /\ scene.portals \in Nat /\ scene.messages \in Nat /\ scene.pieces \in Nat \ {0}
BY PortalSceneAssumption, ProcessAssumption

LEMMA FitInitial == PortalInit => StateFit
<1>. SUFFICES ASSUME PortalInit PROVE StateFit
  OBVIOUS
<1>0. scene \in Scenes /\ errors \in Nat
  BY ProcessAssumption DEF PortalInit, ProcessInit
<1>1. PortalTypes
  <2>1. outportals \subseteq Output
    BY <1>0, SceneFits DEF PortalInit
  <2>2. pcall \in [Thread -> PortalCalls]
    BY IdlePortal DEF PortalInit
  <2>3. /\ inportal \in [PortalId -> PortalPort \cup {None}]
        /\ reads \in [Thread -> SUBSET PortalId]
    BY <1>0, SceneFits DEF PortalInit
  <2>4. /\ keptPieces \in [Output -> Seq(Piece)]
        /\ delivered \in [Output -> Seq(Seq(Piece))]
        /\ written \in [Output -> Nat] /\ broken \subseteq Output /\ leftover \subseteq PortalId
    BY DEF PortalInit
  <2>5. /\ allowed \in [PortalId -> Output \cup {None}]
        /\ link \in [RemoteNode -> Piece \cup {None}]
        /\ linkReader \in [RemoteNode -> Thread \cup {None}]
        /\ kportal_allows \in [PortalId -> Output \cup {None}]
    BY DEF PortalInit
  <2>. QED  BY <1>0, <2>1, <2>2, <2>3, <2>4, <2>5 DEF PortalTypes, PortalTypeOK
<1>2. \A t \in Thread : pcall[t] = NoPortalCall
  BY DEF PortalInit
<1>3. \A i \in PortalId : allowed[i] = None /\ kportal_allows[i] = None
  BY DEF PortalInit
<1>4. \A t \in Thread : Uses(t) = scene.reads[t] /\ reads[t] = scene.reads[t]
  BY <1>2, IdlePortal DEF PortalInit, Uses
<1>5. ASSUME NEW t \in Thread PROVE ThreadFit(t)
  <2>1. PortalFit(t)
    BY <1>2, IdlePortal DEF PortalFit, ReadPlaces, WritePlaces
  <2>2. UsesFit(t)
    BY <1>0, <1>3, <1>4, SceneFits DEF PortalInit, UsesFit
  <2>3. AllowsFit(t)
    BY <1>2, IdlePortal DEF AllowsFit, ReadPlaces
  <2>. QED  BY <2>1, <2>2, <2>3 DEF ThreadFit
<1>6. UsesApart /\ PortsApart
  BY <1>0, <1>4, SceneFits DEF PortalInit, UsesApart, PortsApart
<1>7. StandFit /\ LinksFit
  BY <1>3 DEF PortalInit, StandFit, LinksFit
<1>. QED  BY <1>1, <1>5, <1>6, <1>7 DEF StateFit

-----------------------------------------------------------------------------
(* What a step of thread t leaves to the other threads.                    *)

\* The step is about portal x, which no other thread uses.
About(t, x) ==
    /\ scene' = scene
    /\ \A u \in Thread \ {t} :
         pcall'[u] = pcall[u] /\ reads'[u] = reads[u] /\ x \notin Uses(u)
    /\ \A i \in PortalId \ {x} :
         /\ inportal'[i] = inportal[i] /\ allowed'[i] = allowed[i]
         /\ kportal_allows'[i] = kportal_allows[i] /\ (i \in leftover' <=> i \in leftover)
    /\ \A o \in Output : written'[o] >= written[o]

LEMMA WrittenStays ==
    ASSUME PortalTypeOK, written' = written
    PROVE  \A o \in Output : written'[o] >= written[o]
BY DEF PortalTypeOK

LEMMA OthersFit ==
    ASSUME StateFit, NEW t \in Thread, NEW x, About(t, x), NEW u \in Thread \ {t}, PortalTypes'
    PROVE  ThreadFit(u)' /\ Uses(u)' = Uses(u)
<1>0. /\ PortalFit(u) /\ UsesFit(u) /\ AllowsFit(u) /\ PortalTypeOK /\ PortalTypeOK'
      /\ scene' = scene /\ pcall'[u] = pcall[u] /\ reads'[u] = reads[u] /\ x \notin Uses(u)
  BY DEF StateFit, ThreadFit, PortalTypes, About
<1>1. Uses(u)' = Uses(u) /\ Uses(u) \subseteq PortalId
  BY <1>0, Zenon DEF Uses, PortalTypeOK, PortalFit
<1>2. PortalFit(u)'
  <2>1. pcall[u].out \in scene.writers[u] => written'[pcall[u].out] >= written[pcall[u].out]
    BY <1>0, SceneFits DEF About, StateFit, PortalTypes
  <2>2. pcall[u].out \in scene.writers[u] =>
            written'[pcall[u].out] \in Nat /\ written[pcall[u].out] \in Nat
    BY <1>0, SceneFits DEF StateFit, PortalTypes, PortalTypeOK
  <2>. QED  BY <1>0, <2>1, <2>2 DEF PortalFit, WritePlaces
<1>3. \A i \in Uses(u) : /\ inportal'[i] = inportal[i] /\ allowed'[i] = allowed[i]
                         /\ kportal_allows'[i] = kportal_allows[i]
                         /\ (i \in leftover' <=> i \in leftover)
  BY <1>0, <1>1 DEF About
<1>4. UsesFit(u)'
  BY <1>0, <1>1, <1>3 DEF UsesFit, Uses
<1>5. pcall[u].at \in {"reset", "set"} \cup ReadPlaces => pcall[u].id \in Uses(u)
  BY <1>0 DEF PortalFit, Uses
<1>6. AllowsFit(u)'
  BY <1>0, <1>3, <1>5 DEF AllowsFit, ReadPlaces
<1>. QED  BY <1>1, <1>2, <1>4, <1>6 DEF ThreadFit

\* So it is enough to look at t, and at what is not about a thread.
LEMMA StateKept ==
    ASSUME StateFit, NEW t \in Thread, NEW x, About(t, x), PortalTypes', ThreadFit(t)',
           Uses(t)' \subseteq Uses(t) \cup {x}, PortsApart', StandFit', LinksFit'
    PROVE  StateFit'
<1>1. \A u \in Thread : ThreadFit(u)'
  BY OthersFit
<1>2. \A u \in Thread \ {t} : Uses(u)' = Uses(u) /\ x \notin Uses(u)
  BY OthersFit DEF About
<1>3. UsesApart'
  BY <1>2 DEF StateFit, UsesApart
<1>. QED  BY <1>1, <1>3 DEF StateFit

\* A thread that does not wait for a link has nothing to do with it.
LEMMA LinksStay ==
    ASSUME StateFit, NEW t \in Thread, NEW x, About(t, x), UNCHANGED linkVars,
           pcall[t].at # "await" \/ pcall[t].met # None
    PROVE  LinksFit'
<1>1. /\ linkReader \in [RemoteNode -> Thread \cup {None}] /\ LinksFit
      /\ UNCHANGED <<link, linkReader, keptPieces>>
  BY DEF StateFit, PortalTypes, PortalTypeOK, linkVars
<1>2. \A n \in RemoteNode : linkReader[n] # None =>
        linkReader[n] \in Thread \ {t} /\ pcall'[linkReader[n]] = pcall[linkReader[n]]
  BY <1>1 DEF LinksFit, About
<1>. QED  BY <1>1, <1>2 DEF LinksFit

\* A thread that is not inside a call has no portal but those it may use.
LEMMA IdleThread ==
    ASSUME StateFit, NEW t \in Thread, InPortal(t, "idle")
    PROVE  pcall[t] = NoPortalCall /\ Uses(t) = reads[t]
BY DEF InPortal, StateFit, ThreadFit, PortalFit, Uses

\* Nothing is allowed to send to a portal that does not exist.
LEMMA FreePortal ==
    ASSUME StateFit, NEW i \in PortalId, inportal[i] = None
    PROVE  allowed[i] = None
BY PortalAssumption DEF StateFit, StandFit, PortalTypes, PortalTypeOK

\* The portals that a thread may use are its own.
LEMMA OwnPortal ==
    ASSUME StateFit, NEW t \in Thread, NEW i \in Uses(t)
    PROVE  i \in PortalId /\ inportal[i] # None /\ \A u \in Thread \ {t} : i \notin Uses(u)
<1>1. i \in PortalId
  BY CallFields DEF StateFit, PortalTypes, PortalTypeOK, Uses, ThreadFit, PortalFit
<1>. QED  BY <1>1 DEF StateFit, ThreadFit, UsesFit, UsesApart

-----------------------------------------------------------------------------
(* Creating, removing, allowing                                            *)

LEMMA CreateFits ==
    ASSUME StateFit, NEW t \in Thread, NEW p \in PortalPort, kportal_create(t, p)
    PROVE  StateFit' /\ About(t, pcall'[t].id)
<1>0. /\ PortalTypeOK /\ PortalTypes /\ UsesApart /\ PortsApart /\ StandFit
      /\ ThreadFit(t) /\ pcall[t] = NoPortalCall /\ Uses(t) = reads[t] /\ p # None
  BY IdleThread, PortalAssumption DEF kportal_create, StateFit, PortalTypes
<1>1. PICK i \in PortalId :
        /\ inportal[i] = None
        /\ inportal' = [inportal EXCEPT ![i] = p]
        /\ pcall' = [pcall EXCEPT ![t].at = "reset", ![t].id = i]
  BY DEF kportal_create
<1>2. /\ pcall'[t].at = "reset" /\ pcall'[t].id = i /\ pcall'[t].out = None
      /\ pcall'[t].got = <<>> /\ pcall'[t].met = None
      /\ \A u \in Thread \ {t} : pcall'[u] = pcall[u]
  BY <1>0, <1>1, IdlePortal DEF PortalTypeOK, PortalCalls
<1>3. pcall' \in [Thread -> PortalCalls]
  <2>1. PICK c : c = [pcall[t] EXCEPT !.at = "reset"]
    OBVIOUS
  <2>2. PICK d : d = [c EXCEPT !.id = i]
    OBVIOUS
  <2>3. c \in PortalCalls
    BY <1>0, <2>1, CallFields, IdlePortal
  <2>4. d \in PortalCalls
    BY <2>2, <2>3, CallFields
  <2>5. pcall' = [pcall EXCEPT ![t] = d]
    BY <1>0, <1>1, <2>1, <2>2 DEF PortalTypeOK
  <2>. QED  BY <1>0, <2>4, <2>5, PortalMoves
<1>4. /\ UNCHANGED <<scene, errors, outportals, allowed, kportal_allows, reads, written, delivered, broken, leftover>>
      /\ UNCHANGED linkVars
  BY DEF kportal_create, processVars
<1>5. PortalTypes'
  BY <1>0, <1>1, <1>3, <1>4 DEF PortalTypes, PortalTypeOK, linkVars
<1>6. About(t, i)
  <2>1. \A u \in Thread : i \notin Uses(u)
    BY <1>1 DEF StateFit, ThreadFit, UsesFit
  <2>. QED  BY <1>0, <1>1, <1>2, <1>4, <2>1 DEF About, PortalTypeOK
<1>7. ThreadFit(t)'
  <2>1. PortalFit(t)'
    BY <1>0, <1>1, <1>2, <1>4 DEF PortalFit, ReadPlaces, WritePlaces, ThreadFit, UsesFit, Uses
  <2>2. Uses(t)' = Uses(t) \cup {i}
    BY <1>0, <1>2, <1>4 DEF Uses
  <2>3. UsesFit(t)'
    BY <1>0, <1>1, <1>2, <1>4, <2>2 DEF ThreadFit, UsesFit, PortalTypeOK
  <2>4. allowed'[i] = None
    BY <1>0, <1>1, <1>4, FreePortal
  <2>5. AllowsFit(t)'
    BY <1>2, <2>4 DEF AllowsFit, ReadPlaces
  <2>. QED  BY <2>1, <2>3, <2>5 DEF ThreadFit
<1>8. Uses(t)' \subseteq Uses(t) \cup {i}
  BY <1>0, <1>2, <1>4 DEF Uses
<1>9. PortsApart' /\ StandFit'
  <2>1. \A j \in PortalId : inportal[j] # p
    BY <1>0 DEF kportal_create, InputPorts
  <2>2. PortsApart'
    BY <1>0, <1>1, <2>1 DEF PortsApart, PortalTypeOK
  <2>3. allowed[i] = None
    BY <1>1, FreePortal
  <2>4. StandFit'
    BY <1>0, <1>1, <1>4, <2>3 DEF StandFit, PortalTypeOK
  <2>. QED  BY <2>2, <2>4
<1>10. LinksFit'
  BY <1>0, <1>4, <1>6, LinksStay, IdlePortal
<1>. QED  BY <1>2, <1>5, <1>6, <1>7, <1>8, <1>9, <1>10, StateKept

LEMMA CreateResetFits ==
    ASSUME StateFit, NEW t \in Thread, CreateReset(t)
    PROVE  StateFit' /\ About(t, pcall[t].id)
<1>. DEFINE i == pcall[t].id
<1>0. /\ PortalTypeOK /\ PortalTypes /\ PortsApart /\ StandFit
      /\ ThreadFit(t) /\ pcall[t].at = "reset" /\ i \in PortalId /\ i \in Uses(t)
  BY DEF CreateReset, InPortal, StateFit, PortalTypes, ThreadFit, PortalFit, Uses
<1>1. /\ kportal_allows' = [kportal_allows EXCEPT ![i] = None]
      /\ reads' = [reads EXCEPT ![t] = @ \cup {i}]
      /\ leftover' = leftover \ {i}
      /\ pcall' = [pcall EXCEPT ![t] = NoPortalCall]
      /\ UNCHANGED <<scene, errors, outportals, allowed, inportal, written, delivered, broken>>
      /\ UNCHANGED linkVars
  BY DEF CreateReset, ResetAllows, processVars, portalKernelVars
<1>2. /\ pcall' \in [Thread -> PortalCalls]
      /\ pcall'[t] = NoPortalCall /\ \A u \in Thread \ {t} : pcall'[u] = pcall[u]
  BY <1>0, <1>1, PortalMoves, IdlePortal
<1>3. PortalTypes'
  BY <1>0, <1>1, <1>2 DEF PortalTypes, PortalTypeOK, linkVars
<1>4. About(t, i)
  BY <1>0, <1>1, <1>2, OwnPortal DEF About, PortalTypeOK
<1>5. ThreadFit(t)' /\ Uses(t)' \subseteq Uses(t)
  <2>1. reads'[t] = reads[t] \cup {i} /\ Uses(t) = reads'[t] /\ Uses(t)' = reads'[t]
    BY <1>0, <1>1, <1>2, IdlePortal DEF Uses, PortalTypeOK
  <2>2. PortalFit(t)'
    BY <1>2, IdlePortal DEF PortalFit, ReadPlaces, WritePlaces
  <2>3. UsesFit(t)'
    <3>1. \A j \in reads'[t] : j \in PortalId /\ inportal'[j] # None
      BY <1>1, <2>1, OwnPortal
    <3>2. \A j \in reads'[t] : j = i \/ (j \in reads[t] /\ kportal_allows'[j] = kportal_allows[j])
      BY <1>0, <1>1, <2>1, <3>1 DEF PortalTypeOK
    <3>3. kportal_allows'[i] = None
      BY <1>0, <1>1 DEF PortalTypeOK
    <3>. QED  BY <1>0, <1>1, <2>1, <3>1, <3>2, <3>3 DEF UsesFit, ThreadFit
  <2>4. AllowsFit(t)'
    BY <1>2, IdlePortal DEF AllowsFit, ReadPlaces
  <2>. QED  BY <2>1, <2>2, <2>3, <2>4 DEF ThreadFit
<1>6. PortsApart' /\ StandFit'
  BY <1>0, <1>1 DEF PortsApart, StandFit
<1>7. LinksFit'
  BY <1>0, <1>1, <1>4, LinksStay
<1>. QED  BY <1>3, <1>4, <1>5, <1>6, <1>7, StateKept

LEMMA UnlinkFits ==
    ASSUME StateFit, NEW t \in Thread, NEW i \in reads[t], kportal_unlink(t, i)
    PROVE  StateFit' /\ About(t, i)
<1>0. /\ PortalTypeOK /\ PortalTypes /\ PortsApart /\ StandFit
      /\ ThreadFit(t) /\ pcall[t] = NoPortalCall /\ Uses(t) = reads[t] /\ i \in PortalId
  BY IdleThread DEF kportal_unlink, StateFit, PortalTypes, PortalTypeOK
<1>1. /\ inportal' = [inportal EXCEPT ![i] = None]
      /\ allowed' = [allowed EXCEPT ![i] = None]
      /\ reads' = [reads EXCEPT ![t] = @ \ {i}]
      /\ UNCHANGED <<scene, errors, outportals, kportal_allows, pcall, written, delivered, broken,
                     leftover>>
      /\ UNCHANGED linkVars
  BY DEF kportal_unlink, processVars
<1>3. PortalTypes'
  BY <1>0, <1>1 DEF PortalTypes, PortalTypeOK, linkVars
<1>4. About(t, i)
  BY <1>0, <1>1, OwnPortal DEF About, PortalTypeOK
<1>5. ThreadFit(t)' /\ Uses(t)' \subseteq Uses(t)
  <2>1. reads'[t] = reads[t] \ {i} /\ Uses(t)' = reads'[t] /\ pcall'[t] = NoPortalCall
    BY <1>0, <1>1, IdlePortal DEF Uses, PortalTypeOK
  <2>2. PortalFit(t)'
    BY <2>1, IdlePortal DEF PortalFit, ReadPlaces, WritePlaces
  <2>3. UsesFit(t)'
    BY <1>0, <1>1, <2>1 DEF UsesFit, ThreadFit, PortalTypeOK
  <2>4. AllowsFit(t)'
    BY <2>1, IdlePortal DEF AllowsFit, ReadPlaces
  <2>. QED  BY <1>0, <2>1, <2>2, <2>3, <2>4 DEF ThreadFit
<1>6. PortsApart' /\ StandFit'
  BY <1>0, <1>1 DEF PortsApart, StandFit, PortalTypeOK
<1>7. LinksFit'
  BY <1>0, <1>1, <1>4, LinksStay, IdlePortal
<1>. QED  BY <1>3, <1>4, <1>5, <1>6, <1>7, StateKept

\* Opening and closing are about no input portal.
LEMMA OpenCloseFits ==
    ASSUME StateFit, NEW t \in Thread, NEW o \in Output, kportal_open(t, o) \/ kportal_close(t, o)
    PROVE  StateFit'
<1>1. /\ outportals' \in {outportals \cup {o}, outportals \ {o}}
      /\ UNCHANGED <<scene, errors, inportal, allowed, link, linkReader, keptPieces, kportal_allows,
                     pcall, reads, written, delivered, broken, leftover>>
  BY DEF kportal_open, kportal_close, processVars, linkVars, portalHistory
<1>2. PortalTypes'
  BY <1>1 DEF StateFit, PortalTypes, PortalTypeOK
<1>3. ASSUME NEW u \in Thread PROVE ThreadFit(u)' /\ Uses(u)' = Uses(u)
  <2>1. PortalFit(u) /\ UsesFit(u) /\ AllowsFit(u)
    BY DEF StateFit, ThreadFit
  <2>2. PortalFit(u)' /\ Uses(u)' = Uses(u)
    BY <1>1, <2>1 DEF PortalFit, Uses
  <2>3. UsesFit(u)'
    BY <1>1, <2>1, <2>2 DEF UsesFit
  <2>4. AllowsFit(u)'
    BY <1>1, <2>1 DEF AllowsFit
  <2>. QED  BY <2>2, <2>3, <2>4 DEF ThreadFit
<1>4. UsesApart'
  BY <1>3 DEF StateFit, UsesApart
<1>5. PortsApart' /\ StandFit' /\ LinksFit'
  BY <1>1 DEF StateFit, PortsApart, StandFit, LinksFit
<1>. QED  BY <1>2, <1>3, <1>4, <1>5 DEF StateFit

LEMMA AllowFits ==
    ASSUME StateFit, NEW t \in Thread, NEW i \in reads[t], NEW o \in Output, kportal_allow(t, i, o)
    PROVE  StateFit' /\ About(t, i)
<1>0. /\ PortalTypeOK /\ PortalTypes /\ PortsApart /\ StandFit
      /\ ThreadFit(t) /\ pcall[t] = NoPortalCall /\ Uses(t) = reads[t] /\ i \in PortalId
      /\ o # None
  BY IdleThread, PortalAssumption DEF kportal_allow, StateFit, PortalTypes, PortalTypeOK
<1>1. /\ allowed[i] = None /\ OutTo[o] = inportal[i]
      /\ allowed' = [allowed EXCEPT ![i] = o]
      /\ pcall' = [pcall EXCEPT ![t].at = "set", ![t].id = i, ![t].out = o]
      /\ UNCHANGED <<scene, errors, inportal, outportals, kportal_allows, reads, written,
                     delivered, broken, leftover>>
      /\ UNCHANGED linkVars
  BY DEF kportal_allow, processVars, portalHistory
<1>2. /\ pcall'[t].at = "set" /\ pcall'[t].id = i /\ pcall'[t].out = o
      /\ pcall'[t].got = <<>> /\ pcall'[t].met = None
      /\ \A u \in Thread \ {t} : pcall'[u] = pcall[u]
  BY <1>0, <1>1, IdlePortal DEF PortalTypeOK, PortalCalls
<1>3. pcall' \in [Thread -> PortalCalls]
  <2>1. PICK c : c = [pcall[t] EXCEPT !.at = "set"]
    OBVIOUS
  <2>2. PICK d : d = [c EXCEPT !.id = i]
    OBVIOUS
  <2>3. PICK e : e = [d EXCEPT !.out = o]
    OBVIOUS
  <2>4. c \in PortalCalls
    BY <1>0, <2>1, CallFields, IdlePortal
  <2>5. d \in PortalCalls
    BY <1>0, <2>2, <2>4, CallFields
  <2>6. e \in PortalCalls
    BY <2>3, <2>5, CallFields
  <2>7. pcall' = [pcall EXCEPT ![t] = e]
    BY <1>0, <1>1, <2>1, <2>2, <2>3 DEF PortalTypeOK
  <2>. QED  BY <1>0, <2>6, <2>7, PortalMoves
<1>4. PortalTypes'
  BY <1>0, <1>1, <1>3 DEF PortalTypes, PortalTypeOK, linkVars
<1>5. About(t, i)
  BY <1>0, <1>1, <1>2, OwnPortal DEF About, PortalTypeOK
<1>6. ThreadFit(t)' /\ Uses(t)' \subseteq Uses(t)
  <2>1. Uses(t)' = Uses(t)
    BY <1>0, <1>1, <1>2 DEF Uses
  <2>2. PortalFit(t)'
    BY <1>1, <1>2 DEF PortalFit, ReadPlaces, WritePlaces
  <2>3. UsesFit(t)'
    BY <1>0, <1>1, <2>1 DEF UsesFit, ThreadFit
  <2>4. AllowsFit(t)'
    BY <1>0, <1>1, <1>2 DEF AllowsFit, ReadPlaces, PortalTypeOK
  <2>. QED  BY <2>1, <2>2, <2>3, <2>4 DEF ThreadFit
<1>7. PortsApart' /\ StandFit'
  BY <1>0, <1>1 DEF PortsApart, StandFit, PortalTypeOK
<1>8. LinksFit'
  BY <1>0, <1>1, <1>5, LinksStay, IdlePortal
<1>. QED  BY <1>4, <1>5, <1>6, <1>7, <1>8, StateKept

LEMMA SetFits ==
    ASSUME StateFit, NEW t \in Thread, SetAllow(t)
    PROVE  StateFit' /\ About(t, pcall[t].id)
<1>. DEFINE i == pcall[t].id
            o == pcall[t].out
<1>0. /\ PortalTypeOK /\ PortalTypes /\ PortsApart /\ StandFit
      /\ ThreadFit(t) /\ pcall[t].at \in {"set", "set again"} /\ i \in PortalId /\ i \in reads[t]
      /\ i \in Uses(t) /\ o \in Output /\ allowed[i] = o /\ pcall[t] \in PortalCalls
      /\ inportal[i] = OutTo[o] /\ o # None
  <2>1. /\ PortalTypeOK /\ PortalTypes /\ PortsApart /\ StandFit
        /\ ThreadFit(t) /\ pcall[t].at \in {"set", "set again"} /\ pcall[t] \in PortalCalls
    BY DEF SetAllow, StateFit, PortalTypes, PortalTypeOK
  <2>2. i \in reads[t] /\ i \in PortalId /\ i \in Uses(t)
    BY <2>1 DEF ThreadFit, PortalFit, ReadPlaces, Uses, PortalTypeOK
  <2>3. o \in Output /\ allowed[i] = o /\ o # None
    BY <2>1, CallFields DEF ThreadFit, AllowsFit, ReadPlaces
  <2>. QED  BY <2>1, <2>2, <2>3 DEF StandFit
<1>1. /\ kportal_allows' = [kportal_allows EXCEPT ![i] = o]
      /\ pcall' = [pcall EXCEPT ![t] = IF @.at = "set" THEN NoPortalCall ELSE [@ EXCEPT !.at = "aread"]]
      /\ UNCHANGED <<scene, errors, inportal, outportals, allowed, reads, written,
                     delivered, broken, leftover>>
      /\ UNCHANGED linkVars
  BY DEF SetAllow, processVars, portalKernelVars, portalHistory
<1>2. PICK c : c = IF pcall[t].at = "set" THEN NoPortalCall ELSE [pcall[t] EXCEPT !.at = "aread"]
  OBVIOUS
<1>3. c \in PortalCalls
  BY <1>0, <1>2, IdlePortal, CallFields DEF ReadPlaces
<1>4. /\ pcall' \in [Thread -> PortalCalls]
      /\ pcall'[t] = c /\ \A u \in Thread \ {t} : pcall'[u] = pcall[u]
  BY <1>0, <1>1, <1>2, <1>3, PortalMoves DEF PortalTypeOK
<1>5. \/ c = NoPortalCall
      \/ /\ pcall[t].at = "set again" /\ c.at = "aread" /\ c.id = i /\ c.out = o
         /\ c.got = pcall[t].got /\ c.met = pcall[t].met
  BY <1>0, <1>2 DEF PortalCalls
<1>6. PortalTypes'
  BY <1>0, <1>1, <1>4 DEF PortalTypes, PortalTypeOK, linkVars
<1>7. About(t, i)
  <2>1. \A j \in PortalId \ {i} : kportal_allows'[j] = kportal_allows[j]
    BY <1>0, <1>1 DEF PortalTypeOK
  <2>2. \A u \in Thread \ {t} : i \notin Uses(u)
    BY <1>0, OwnPortal
  <2>3. \A n \in Output : written'[n] >= written[n]
    BY <1>0, <1>1, WrittenStays
  <2>. QED  BY <1>1, <1>4, <2>1, <2>2, <2>3 DEF About
<1>8. kportal_allows'[i] = o /\ allowed'[i] = o
  BY <1>0, <1>1 DEF PortalTypeOK
<1>9. ThreadFit(t)' /\ Uses(t)' \subseteq Uses(t)
  <2>1. Uses(t)' = Uses(t)
    BY <1>0, <1>1, <1>4, <1>5, IdlePortal DEF Uses
  <2>2. PortalFit(t)'
    <3>1. CASE c = NoPortalCall
      BY <3>1, <1>4, IdlePortal DEF PortalFit, ReadPlaces, WritePlaces
    <3>2. CASE c # NoPortalCall
      BY <3>2, <1>0, <1>1, <1>4, <1>5 DEF ThreadFit, PortalFit, ReadPlaces, WritePlaces
    <3>. QED  BY <3>1, <3>2
  <2>3. UsesFit(t)'
    <3>1. \A j \in reads[t] : j \in PortalId /\ (j # i => kportal_allows'[j] = kportal_allows[j])
      BY <1>0, <1>1 DEF PortalTypeOK
    <3>. QED  BY <1>0, <1>1, <1>8, <2>1, <3>1 DEF UsesFit, ThreadFit
  <2>4. AllowsFit(t)'
    BY <1>0, <1>4, <1>5, <1>8, IdlePortal DEF AllowsFit, ReadPlaces
  <2>. QED  BY <2>1, <2>2, <2>3, <2>4 DEF ThreadFit
<1>10. PortsApart' /\ StandFit'
  BY <1>0, <1>1 DEF PortsApart, StandFit
<1>11. LinksFit'
  BY <1>0, <1>1, <1>7, LinksStay
<1>. QED  BY <1>6, <1>7, <1>9, <1>10, <1>11, StateKept

-----------------------------------------------------------------------------
(* Writing                                                                 *)

LEMMA WriteFits ==
    ASSUME StateFit, NEW t \in Thread, NEW o \in scene.writers[t], kportal_write(t, o)
    PROVE  StateFit' /\ About(t, None)
<1>0. /\ PortalTypeOK /\ PortalTypes /\ PortsApart /\ StandFit
      /\ ThreadFit(t) /\ pcall[t] = NoPortalCall /\ Uses(t) = reads[t]
      /\ o \in Output /\ scene.pieces \in Nat \ {0} /\ written[o] \in Nat
  BY IdleThread, SceneFits DEF kportal_write, StateFit, PortalTypes, PortalTypeOK
<1>1. /\ written' = [written EXCEPT ![o] = @ + 1]
      /\ pcall' = [pcall EXCEPT ![t].at = "awrite", ![t].out = o, ![t].part = 1]
      /\ UNCHANGED <<scene, errors, inportal, outportals, allowed, kportal_allows, reads,
                     delivered, broken, leftover>>
      /\ UNCHANGED linkVars
  BY DEF kportal_write, processVars, portalKernelVars
<1>2. /\ pcall'[t].at = "awrite" /\ pcall'[t].id = None /\ pcall'[t].out = o
      /\ pcall'[t].part = 1 /\ pcall'[t].got = <<>> /\ pcall'[t].met = None
      /\ \A u \in Thread \ {t} : pcall'[u] = pcall[u]
  BY <1>0, <1>1, IdlePortal DEF PortalTypeOK, PortalCalls
<1>3. pcall' \in [Thread -> PortalCalls]
  <2>1. PICK c : c = [pcall[t] EXCEPT !.at = "awrite"]
    OBVIOUS
  <2>2. PICK d : d = [c EXCEPT !.out = o]
    OBVIOUS
  <2>3. PICK e : e = [d EXCEPT !.part = 1]
    OBVIOUS
  <2>4. c \in PortalCalls
    BY <1>0, <2>1, CallFields, IdlePortal DEF WritePlaces
  <2>5. d \in PortalCalls
    BY <1>0, <2>2, <2>4, CallFields
  <2>6. e \in PortalCalls
    BY <2>3, <2>5, CallFields
  <2>7. pcall' = [pcall EXCEPT ![t] = e]
    BY <1>0, <1>1, <2>1, <2>2, <2>3 DEF PortalTypeOK
  <2>. QED  BY <1>0, <2>6, <2>7, PortalMoves
<1>4. PortalTypes'
  BY <1>0, <1>1, <1>3 DEF PortalTypes, PortalTypeOK, linkVars
<1>5. About(t, None)
  <2>1. \A n \in Output : written'[n] >= written[n]
    BY <1>0, <1>1 DEF PortalTypeOK
  <2>2. \A u \in Thread : None \notin Uses(u)
    BY OwnPortal, ProcessAssumption DEF PortalId
  <2>. QED  BY <1>1, <1>2, <2>1, <2>2 DEF About
<1>6. ThreadFit(t)' /\ Uses(t)' \subseteq Uses(t)
  <2>1. Uses(t)' = Uses(t)
    BY <1>0, <1>1, <1>2 DEF Uses
  <2>2. written'[o] > 0
    BY <1>0, <1>1 DEF PortalTypeOK
  <2>3. PortalFit(t)'
    <3>1. scene' = scene /\ 1 \in 1..scene.pieces /\ o \in scene.writers[t]
      BY <1>0, <1>1
    <3>. QED  BY <1>2, <2>2, <3>1 DEF PortalFit, ReadPlaces, WritePlaces
  <2>4. UsesFit(t)'
    BY <1>0, <1>1, <2>1 DEF UsesFit, ThreadFit
  <2>5. AllowsFit(t)'
    BY <1>2 DEF AllowsFit, ReadPlaces
  <2>. QED  BY <2>1, <2>3, <2>4, <2>5 DEF ThreadFit
<1>7. PortsApart' /\ StandFit'
  BY <1>0, <1>1 DEF PortsApart, StandFit
<1>8. LinksFit'
  BY <1>0, <1>1, <1>5, LinksStay, IdlePortal
<1>. QED  BY <1>4, <1>5, <1>6, <1>7, <1>8, StateKept

LEMMA AwriteFits ==
    ASSUME StateFit, NEW t \in Thread, kportal_awrite(t)
    PROVE  StateFit' /\ About(t, None)
<1>. DEFINE o == pcall[t].out
            n == OutNode[o]
            m == [out |-> o, msg |-> written[o], part |-> pcall[t].part]
<1>0. /\ PortalTypeOK /\ PortalTypes /\ PortsApart /\ StandFit /\ LinksFit
      /\ ThreadFit(t) /\ pcall[t].at = "awrite" /\ pcall[t] \in PortalCalls
      /\ scene \in Scenes
  BY DEF kportal_awrite, InPortal, StateFit, PortalTypes, PortalTypeOK
<1>1. o \in scene.writers[t] /\ o \in Output /\ n \in RemoteNode /\ m \in Piece
  <2>1. o \in scene.writers[t] /\ o \in Output
    BY <1>0, SceneFits DEF ThreadFit, PortalFit, WritePlaces
  <2>2. written[o] \in Nat /\ pcall[t].part \in Nat
    BY <1>0, <2>1, CallFields DEF PortalTypeOK
  <2>. QED  BY <2>1, <2>2 DEF RemoteNode, Piece
<1>2. /\ link' = [link EXCEPT ![n] = m]
      /\ pcall' = [pcall EXCEPT ![t].at = "wait"]
      /\ UNCHANGED <<scene, errors, inportal, outportals, allowed, linkReader, keptPieces,
                     kportal_allows, reads, written, delivered, broken, leftover>>
  BY DEF kportal_awrite, processVars, portalHistory
<1>3. PICK c : c = [pcall[t] EXCEPT !.at = "wait"]
  OBVIOUS
<1>4. /\ c \in PortalCalls /\ c.at = "wait" /\ c.id = pcall[t].id /\ c.out = o
      /\ c.part = pcall[t].part /\ c.got = pcall[t].got /\ c.met = pcall[t].met
  BY <1>0, <1>3, CallFields DEF WritePlaces, PortalCalls
<1>5. /\ pcall' \in [Thread -> PortalCalls]
      /\ pcall'[t] = c /\ \A u \in Thread \ {t} : pcall'[u] = pcall[u]
  <2>1. pcall' = [pcall EXCEPT ![t] = c]
    BY <1>0, <1>2, <1>3 DEF PortalTypeOK
  <2>. QED  BY <1>0, <1>4, <2>1, PortalMoves
<1>6. PortalTypes'
  <2>1. link' \in [RemoteNode -> Piece \cup {None}]
    BY <1>0, <1>1, <1>2 DEF PortalTypeOK
  <2>. QED  BY <1>0, <1>2, <1>5, <2>1 DEF PortalTypes, PortalTypeOK
<1>7. About(t, None)
  <2>1. \A u \in Thread : None \notin Uses(u)
    BY OwnPortal, ProcessAssumption DEF PortalId
  <2>. QED  BY <1>0, <1>2, <1>5, <2>1, WrittenStays DEF About
<1>8. ThreadFit(t)' /\ Uses(t)' \subseteq Uses(t)
  <2>1. Uses(t)' = Uses(t)
    BY <1>0, <1>2, <1>4, <1>5 DEF Uses
  <2>2. PortalFit(t)'
    BY <1>0, <1>2, <1>4, <1>5 DEF ThreadFit, PortalFit, ReadPlaces, WritePlaces
  <2>3. UsesFit(t)'
    BY <1>0, <1>2, <2>1 DEF UsesFit, ThreadFit
  <2>4. AllowsFit(t)'
    BY <1>4, <1>5 DEF AllowsFit, ReadPlaces
  <2>. QED  BY <2>1, <2>2, <2>3, <2>4 DEF ThreadFit
<1>9. PortsApart' /\ StandFit'
  BY <1>0, <1>2 DEF PortsApart, StandFit
<1>10. LinksFit'
  <2>1. \A k \in RemoteNode : linkReader[k] # None =>
          linkReader[k] \in Thread \ {t} /\ pcall'[linkReader[k]] = pcall[linkReader[k]]
    BY <1>0, <1>5 DEF LinksFit, PortalTypeOK
  <2>2. \A k \in RemoteNode : link'[k] # None => OutNode[link'[k].out] = k
    BY <1>0, <1>1, <1>2 DEF LinksFit, PortalTypeOK
  <2>. QED  BY <1>0, <1>2, <2>1, <2>2 DEF LinksFit
<1>. QED  BY <1>6, <1>7, <1>8, <1>9, <1>10, StateKept

LEMMA SentFits ==
    ASSUME StateFit, NEW t \in Thread, WaitPieceSent(t)
    PROVE  StateFit' /\ About(t, None)
<1>0. /\ PortalTypeOK /\ PortalTypes /\ PortsApart /\ StandFit
      /\ ThreadFit(t) /\ PortalFit(t) /\ pcall[t].at = "wait" /\ pcall[t] \in PortalCalls
      /\ scene \in Scenes
  BY DEF WaitPieceSent, InPortal, StateFit, PortalTypes, PortalTypeOK, ThreadFit
<1>1. /\ IF pcall[t].part < scene.pieces
         THEN pcall' = [pcall EXCEPT ![t].at = "awrite", ![t].part = @ + 1]
         ELSE pcall' = [pcall EXCEPT ![t] = NoPortalCall]
      /\ UNCHANGED <<scene, errors, inportal, outportals, allowed, kportal_allows, reads, written,
                     delivered, broken, leftover>>
      /\ UNCHANGED linkVars
  BY DEF WaitPieceSent, processVars, portalKernelVars, portalHistory
<1>2. PICK b : b = [pcall[t] EXCEPT !.at = "awrite"]
  OBVIOUS
<1>3. PICK c : c = IF pcall[t].part < scene.pieces THEN [b EXCEPT !.part = pcall[t].part + 1] ELSE NoPortalCall
  OBVIOUS
<1>4. pcall[t].part \in Nat /\ pcall[t].part + 1 \in Nat /\ scene.pieces \in Nat
  BY <1>0, CallFields, SceneFits
<1>5. b \in PortalCalls /\ b.part = pcall[t].part
  BY <1>0, <1>2, CallFields DEF WritePlaces, PortalCalls
<1>6. c \in PortalCalls
  BY <1>3, <1>4, <1>5, CallFields, IdlePortal
<1>7. /\ pcall' \in [Thread -> PortalCalls]
      /\ pcall'[t] = c /\ \A u \in Thread \ {t} : pcall'[u] = pcall[u]
  <2>1. pcall \in [Thread -> PortalCalls]
    BY <1>0 DEF PortalTypeOK
  <2>2. ASSUME pcall[t].part < scene.pieces PROVE pcall' = [pcall EXCEPT ![t] = c]
    <3>1. pcall' = [pcall EXCEPT ![t].at = "awrite", ![t].part = @ + 1]
      BY <1>1, <2>2
    <3>2. c = [b EXCEPT !.part = pcall[t].part + 1]
      BY <1>3, <2>2
    <3>. QED  BY <1>0, <1>2, <2>1, <3>1, <3>2 DEF PortalCalls
  <2>3. ASSUME ~(pcall[t].part < scene.pieces) PROVE pcall' = [pcall EXCEPT ![t] = c]
    BY <1>1, <1>3, <2>3
  <2>4. pcall' = [pcall EXCEPT ![t] = c]
    BY <2>2, <2>3
  <2>. QED  BY <1>0, <1>6, <2>4, PortalMoves
<1>8. \/ c = NoPortalCall
      \/ /\ c.at = "awrite" /\ c.id = pcall[t].id /\ c.out = pcall[t].out
         /\ c.part \in 1..scene.pieces /\ c.got = pcall[t].got /\ c.met = pcall[t].met
  <2>1. CASE pcall[t].part < scene.pieces
    <3>1. c = [b EXCEPT !.part = pcall[t].part + 1]
      BY <1>3, <2>1
    <3>2. b.at = "awrite" /\ b.id = pcall[t].id /\ b.out = pcall[t].out
          /\ b.got = pcall[t].got /\ b.met = pcall[t].met
      BY <1>0, <1>2 DEF PortalCalls
    <3>3. c.part = pcall[t].part + 1 /\ c.at = b.at /\ c.id = b.id /\ c.out = b.out
          /\ c.got = b.got /\ c.met = b.met
      BY <1>5, <3>1 DEF PortalCalls
    <3>4. c.part \in 1..scene.pieces
      BY <1>4, <2>1, <3>3
    <3>. QED  BY <3>2, <3>3, <3>4
  <2>2. CASE ~(pcall[t].part < scene.pieces)
    BY <1>3, <2>2
  <2>. QED  BY <2>1, <2>2
<1>9. PortalTypes'
  BY <1>0, <1>1, <1>7 DEF PortalTypes, PortalTypeOK, linkVars
<1>10. About(t, None)
  <2>1. \A u \in Thread : None \notin Uses(u)
    BY OwnPortal, ProcessAssumption DEF PortalId
  <2>2. written' = written /\ scene' = scene
    BY <1>1
  <2>. QED  BY <1>0, <1>1, <1>7, <2>1, <2>2, WrittenStays DEF About
<1>11. ThreadFit(t)' /\ Uses(t)' \subseteq Uses(t)
  <2>1. Uses(t)' = Uses(t)
    BY <1>0, <1>1, <1>7, <1>8, IdlePortal DEF Uses
  <2>2. PortalFit(t)'
    <3>0. scene' = scene /\ written' = written /\ reads' = reads
      BY <1>1
    <3>1. CASE c = NoPortalCall
      BY <3>1, <1>7, IdlePortal DEF PortalFit, ReadPlaces, WritePlaces
    <3>2. CASE c # NoPortalCall
      <4>1. c.at = "awrite" /\ c.id = None /\ c.out \in scene.writers[t] /\ written[c.out] > 0
            /\ c.part \in 1..scene.pieces /\ c.got = <<>> /\ c.met = None
        BY <3>2, <1>0, <1>8 DEF PortalFit, ReadPlaces, WritePlaces
      <4>. QED  BY <3>0, <4>1, <1>7 DEF PortalFit, ReadPlaces, WritePlaces
    <3>. QED  BY <3>1, <3>2
  <2>3. UsesFit(t)'
    BY <1>0, <1>1, <2>1 DEF UsesFit, ThreadFit
  <2>4. AllowsFit(t)'
    BY <1>7, <1>8, IdlePortal DEF AllowsFit, ReadPlaces
  <2>. QED  BY <2>1, <2>2, <2>3, <2>4 DEF ThreadFit
<1>12. PortsApart' /\ StandFit'
  BY <1>0, <1>1 DEF PortsApart, StandFit
<1>13. LinksFit'
  BY <1>0, <1>1, <1>10, LinksStay
<1>. QED  BY <1>9, <1>10, <1>11, <1>12, <1>13, StateKept

\* A call that returns leaves its thread with the portals it has.
LEMMA ReturnFits ==
    ASSUME StateFit, NEW t \in Thread, pcall[t].at # "reset",
           pcall' = [pcall EXCEPT ![t] = NoPortalCall],
           UNCHANGED <<scene, inportal, reads>>,
           \A i \in reads[t] : kportal_allows'[i] \in {kportal_allows[i], None}
    PROVE  /\ pcall' \in [Thread -> PortalCalls] /\ \A u \in Thread \ {t} : pcall'[u] = pcall[u]
           /\ pcall'[t] = NoPortalCall
           /\ ThreadFit(t)' /\ Uses(t)' = Uses(t)
<1>0. PortalTypeOK /\ ThreadFit(t)
  BY DEF StateFit, PortalTypes
<1>1. /\ pcall' \in [Thread -> PortalCalls]
      /\ pcall'[t] = NoPortalCall /\ \A u \in Thread \ {t} : pcall'[u] = pcall[u]
  BY <1>0, PortalMoves, IdlePortal
<1>2. Uses(t)' = Uses(t)
  BY <1>1, IdlePortal DEF Uses
<1>3. PortalFit(t)'
  BY <1>1, IdlePortal DEF PortalFit, ReadPlaces, WritePlaces
<1>4. UsesFit(t)'
  BY <1>0, <1>2 DEF UsesFit, ThreadFit
<1>5. AllowsFit(t)'
  BY <1>1, IdlePortal DEF AllowsFit, ReadPlaces
<1>. QED  BY <1>1, <1>2, <1>3, <1>4, <1>5 DEF ThreadFit

LEMMA WriteErrorFits ==
    ASSUME StateFit, NEW t \in Thread, WriteError(t)
    PROVE  StateFit' /\ About(t, None)
<1>0. /\ PortalTypeOK /\ PortalTypes /\ PortsApart /\ StandFit /\ pcall[t] \in PortalCalls
      /\ pcall[t].at \in {"awrite", "wait"} /\ pcall[t].out \in Output
      /\ scene \in Scenes
  <2>1. /\ PortalTypeOK /\ PortalTypes /\ PortsApart /\ StandFit /\ pcall[t] \in PortalCalls
        /\ scene \in Scenes
        /\ pcall[t].at \in {"awrite", "wait"} /\ ThreadFit(t)
    BY DEF WriteError, StateFit, PortalTypes, PortalTypeOK
  <2>. QED  BY <2>1, SceneFits DEF ThreadFit, PortalFit, WritePlaces
<1>1. /\ pcall' = [pcall EXCEPT ![t] = NoPortalCall]
      /\ errors > 0 /\ errors' = errors - 1
      /\ broken' = broken \cup {pcall[t].out}
      /\ UNCHANGED <<scene, inportal, outportals, allowed, kportal_allows, reads, written,
                     delivered, leftover>>
      /\ UNCHANGED linkVars
  BY DEF WriteError, OneFails, portalKernelVars
<1>2. /\ pcall' \in [Thread -> PortalCalls] /\ \A u \in Thread \ {t} : pcall'[u] = pcall[u]
      /\ ThreadFit(t)' /\ Uses(t)' = Uses(t)
  BY <1>0, <1>1, ReturnFits
<1>3. PortalTypes'
  BY <1>0, <1>1, <1>2 DEF PortalTypes, PortalTypeOK, linkVars
<1>4. About(t, None)
  <2>1. \A u \in Thread : None \notin Uses(u)
    BY OwnPortal, ProcessAssumption DEF PortalId
  <2>. QED  BY <1>0, <1>1, <1>2, <2>1, WrittenStays DEF About
<1>5. PortsApart' /\ StandFit'
  BY <1>0, <1>1 DEF PortsApart, StandFit
<1>6. LinksFit'
  BY <1>0, <1>1, <1>4, LinksStay
<1>. QED  BY <1>2, <1>3, <1>4, <1>5, <1>6, StateKept

-----------------------------------------------------------------------------
(* Reading                                                                 *)

\* The portal of a read is the thread's own, and the allow, if any, is for it.
LEMMA ReadFacts ==
    ASSUME StateFit, NEW t \in Thread, pcall[t].at \in ReadPlaces
    PROVE  /\ PortalTypeOK /\ PortalTypes /\ PortsApart /\ StandFit /\ LinksFit
           /\ ThreadFit(t) /\ PortalFit(t) /\ AllowsFit(t) /\ UsesFit(t)
           /\ pcall[t] \in PortalCalls
           /\ pcall[t].id \in reads[t] /\ pcall[t].id \in Uses(t) /\ pcall[t].id \in PortalId
           /\ pcall[t].out \in Output \cup {None}
           /\ kportal_allows[pcall[t].id] = pcall[t].out
           /\ From(t) \in {None, pcall[t].out}
           /\ pcall[t].out # None =>
                pcall[t].out \in Output /\ inportal[pcall[t].id] = OutTo[pcall[t].out]
           /\ \A u \in Thread \ {t} : pcall[t].id \notin Uses(u)
<1>1. /\ PortalTypeOK /\ PortalTypes /\ PortsApart /\ StandFit /\ LinksFit
      /\ ThreadFit(t) /\ PortalFit(t) /\ AllowsFit(t) /\ UsesFit(t)
      /\ pcall[t] \in PortalCalls
  BY DEF StateFit, PortalTypes, PortalTypeOK, ThreadFit
<1>2. pcall[t].id \in reads[t] /\ pcall[t].id \in Uses(t)
  BY <1>1 DEF PortalFit, Uses
<1>3. pcall[t].id \in PortalId /\ \A u \in Thread \ {t} : pcall[t].id \notin Uses(u)
  BY <1>2, OwnPortal
<1>4. pcall[t].out \in Output \cup {None} /\ kportal_allows[pcall[t].id] = pcall[t].out
  BY <1>1, CallFields DEF AllowsFit
<1>5. From(t) \in {None, pcall[t].out}
  BY <1>1 DEF AllowsFit, From, ReadPlaces
<1>6. pcall[t].out # None =>
        pcall[t].out \in Output /\ inportal[pcall[t].id] = OutTo[pcall[t].out]
  BY <1>1, <1>2, <1>4 DEF UsesFit
<1>. QED  BY <1>1, <1>2, <1>3, <1>4, <1>5, <1>6

LEMMA ReadFits ==
    ASSUME StateFit, AllowsTell, NEW t \in Thread, NEW i \in reads[t], kportal_read(t, i)
    PROVE  StateFit' /\ About(t, i)
<1>0. /\ PortalTypeOK /\ PortalTypes /\ PortsApart /\ StandFit
      /\ ThreadFit(t) /\ pcall[t] = NoPortalCall /\ Uses(t) = reads[t] /\ i \in PortalId
      /\ kportal_allows[i] \in Output \cup {None} /\ scene.pieces \in Nat \ {0}
  BY IdleThread, SceneFits DEF kportal_read, StateFit, PortalTypes, PortalTypeOK
<1>1. /\ pcall' = [pcall EXCEPT ![t] = [NoPortalCall EXCEPT !.at = "aread", !.id = i,
                                                           !.out = kportal_allows[i]]]
      /\ UNCHANGED <<scene, errors, inportal, outportals, allowed, kportal_allows, reads, written,
                     delivered, broken, leftover>>
      /\ UNCHANGED linkVars
  BY DEF kportal_read, processVars, portalKernelVars, portalHistory
<1>2. PICK c : c = [NoPortalCall EXCEPT !.at = "aread", !.id = i, !.out = kportal_allows[i]]
  OBVIOUS
<1>3. /\ c.at = "aread" /\ c.id = i /\ c.out = kportal_allows[i] /\ c.part = 0
      /\ c.got = <<>> /\ c.met = None /\ c \in PortalCalls
  <2>1. PICK a : a = [NoPortalCall EXCEPT !.at = "aread"]
    OBVIOUS
  <2>2. PICK b : b = [a EXCEPT !.id = i]
    OBVIOUS
  <2>3. c = [b EXCEPT !.out = kportal_allows[i]]
    BY <1>2, <2>1, <2>2
  <2>4. a \in PortalCalls
    BY <2>1, IdlePortal, CallFields DEF ReadPlaces
  <2>5. b \in PortalCalls
    BY <1>0, <2>2, <2>4, CallFields
  <2>6. c \in PortalCalls
    BY <1>0, <2>3, <2>5, CallFields
  <2>7. /\ a.at = "aread" /\ a.part = 0 /\ a.got = <<>> /\ a.met = None
    BY <2>1, IdlePortal DEF PortalCalls
  <2>8. /\ b.at = "aread" /\ b.id = i /\ b.part = 0 /\ b.got = <<>> /\ b.met = None
    BY <2>2, <2>4, <2>7 DEF PortalCalls
  <2>. QED  BY <2>3, <2>5, <2>6, <2>8 DEF PortalCalls
<1>4. /\ pcall' \in [Thread -> PortalCalls]
      /\ pcall'[t] = c /\ \A u \in Thread \ {t} : pcall'[u] = pcall[u]
  BY <1>0, <1>1, <1>2, <1>3, PortalMoves
<1>5. PortalTypes'
  BY <1>0, <1>1, <1>4 DEF PortalTypes, PortalTypeOK, linkVars
<1>6. About(t, i)
  <2>1. \A u \in Thread \ {t} : i \notin Uses(u)
    BY <1>0, OwnPortal
  <2>. QED  BY <1>0, <1>1, <1>4, <2>1, WrittenStays DEF About
<1>7. allowed[i] = kportal_allows[i] \/ (allowed[i] = None /\ i \in leftover)
  <2>1. inportal[i] # None
    BY <1>0, OwnPortal
  <2>2. ASSUME NEW u \in Thread PROVE pcall[u].id # i
    <3>1. CASE u = t
      BY <1>0, <3>1, IdlePortal, ProcessAssumption DEF PortalId
    <3>2. CASE u # t
      <4>1. i \notin Uses(u) /\ PortalFit(u) /\ pcall[u] \in PortalCalls
        BY <1>0, <3>2, OwnPortal DEF StateFit, ThreadFit, PortalTypeOK
      <4>2. i # None
        BY <1>0, ProcessAssumption DEF PortalId
      <4>. QED  BY <4>1, <4>2, CallFields, IdlePortal DEF PortalFit, Uses
    <3>. QED  BY <3>1, <3>2
  <2>3. kportal_allows[i] = allowed[i] \/ (allowed[i] = None /\ i \in leftover)
    <3>1. i \in PortalId /\ \A u \in Thread : pcall[u].id # i
      BY <1>0, <2>2
    <3>. QED  BY <2>1, <3>1 DEF AllowsTell
  <2>. QED  BY <2>3
<1>8. ThreadFit(t)' /\ Uses(t)' \subseteq Uses(t)
  <2>1. Uses(t)' = Uses(t)
    BY <1>0, <1>1, <1>3, <1>4 DEF Uses
  <2>2. PortalFit(t)'
    <3>1. reads' = reads /\ scene' = scene /\ 0 < scene.pieces
      BY <1>0, <1>1
    <3>. QED  BY <1>3, <1>4, <3>1 DEF PortalFit, ReadPlaces, WritePlaces
  <2>3. UsesFit(t)'
    BY <1>0, <1>1, <2>1 DEF UsesFit, ThreadFit
  <2>4. AllowsFit(t)'
    <3>1. allowed' = allowed /\ kportal_allows' = kportal_allows /\ leftover' = leftover
      BY <1>1
    <3>. QED  BY <1>3, <1>4, <1>7, <3>1 DEF AllowsFit, ReadPlaces
  <2>. QED  BY <2>1, <2>2, <2>3, <2>4 DEF ThreadFit
<1>9. PortsApart' /\ StandFit'
  BY <1>0, <1>1 DEF PortsApart, StandFit
<1>10. LinksFit'
  BY <1>0, <1>1, <1>6, LinksStay, IdlePortal
<1>. QED  BY <1>5, <1>6, <1>8, <1>9, <1>10, StateKept

LEMMA AgainFits ==
    ASSUME StateFit, NEW t \in Thread, AllowAgain(t)
    PROVE  StateFit' /\ About(t, pcall[t].id)
<1>. DEFINE i == pcall[t].id
            o == pcall[t].out
<1>0. /\ PortalTypeOK /\ PortalTypes /\ PortsApart /\ StandFit /\ PortalFit(t) /\ UsesFit(t)
      /\ pcall[t].at = "again" /\ pcall[t] \in PortalCalls /\ i \in PortalId /\ i \in reads[t]
      /\ o # None /\ o \in Output /\ inportal[i] = OutTo[o] /\ kportal_allows[i] = o
      /\ allowed[i] \in {None, o} /\ \A u \in Thread \ {t} : i \notin Uses(u)
  <2>1. pcall[t].at = "again" /\ pcall[t].at \in ReadPlaces
    BY DEF AllowAgain, InPortal, ReadPlaces
  <2>. QED  BY <2>1, ReadFacts DEF AllowsFit, ReadPlaces
<1>1. PICK v \in {"set again", "aread"} :
        /\ pcall' = [pcall EXCEPT ![t].at = v]
        /\ IF v = "set again" THEN allowed' = [allowed EXCEPT ![i] = o]
           ELSE allowed' = allowed /\ allowed[i] = o
  <2>1. CASE o # None /\ allowed[i] = None
    BY <2>1 DEF AllowAgain
  <2>2. CASE ~(o # None /\ allowed[i] = None)
    BY <1>0, <2>2 DEF AllowAgain
  <2>. QED  BY <2>1, <2>2
<1>2. /\ UNCHANGED <<scene, errors, inportal, outportals, kportal_allows, reads, written,
                     delivered, broken, leftover>>
      /\ UNCHANGED linkVars
  BY DEF AllowAgain, processVars, portalHistory
<1>3. PICK c : c = [pcall[t] EXCEPT !.at = v]
  OBVIOUS
<1>4. /\ c \in PortalCalls /\ c.at = v /\ c.id = i /\ c.out = o
      /\ c.got = pcall[t].got /\ c.met = pcall[t].met
  BY <1>0, <1>3, CallFields, ZenonT(60) DEF ReadPlaces, PortalCalls
<1>5. /\ pcall' \in [Thread -> PortalCalls]
      /\ pcall'[t] = c /\ \A u \in Thread \ {t} : pcall'[u] = pcall[u]
  <2>1. pcall' = [pcall EXCEPT ![t] = c]
    BY <1>0, <1>1, <1>3 DEF PortalTypeOK
  <2>. QED  BY <1>0, <1>4, <2>1, PortalMoves
<1>6. /\ allowed' \in [PortalId -> Output \cup {None}] /\ allowed'[i] = o
      /\ \A j \in PortalId \ {i} : allowed'[j] = allowed[j]
  BY <1>0, <1>1 DEF PortalTypeOK
<1>7. PortalTypes'
  BY <1>0, <1>2, <1>5, <1>6 DEF PortalTypes, PortalTypeOK, linkVars
<1>8. About(t, i)
  BY <1>0, <1>2, <1>5, <1>6, WrittenStays DEF About
<1>9. ThreadFit(t)' /\ Uses(t)' \subseteq Uses(t)
  <2>0. reads' = reads /\ scene' = scene /\ written' = written /\ leftover' = leftover
        /\ kportal_allows' = kportal_allows /\ inportal' = inportal
    BY <1>2
  <2>1. Uses(t)' = Uses(t)
    BY <1>0, <1>4, <1>5, <2>0 DEF Uses
  <2>2. PortalFit(t)'
    <3>1. c.met = None /\ Len(c.got) < scene.pieces
      BY <1>0, <1>4 DEF PortalFit, ReadPlaces
    <3>. QED  BY <1>0, <1>4, <1>5, <2>0, <3>1 DEF PortalFit, ReadPlaces, WritePlaces
  <2>3. UsesFit(t)'
    BY <1>0, <2>0, <2>1 DEF UsesFit
  <2>4. AllowsFit(t)'
    BY <1>0, <1>4, <1>5, <1>6, <2>0 DEF AllowsFit, ReadPlaces
  <2>. QED  BY <2>1, <2>2, <2>3, <2>4 DEF ThreadFit
<1>10. PortsApart' /\ StandFit'
  <2>1. inportal' = inportal
    BY <1>2
  <2>. QED  BY <1>0, <1>6, <2>1 DEF PortsApart, StandFit
<1>11. LinksFit'
  BY <1>0, <1>2, <1>8, LinksStay
<1>. QED  BY <1>7, <1>8, <1>9, <1>10, <1>11, StateKept

LEMMA AreadFits ==
    ASSUME StateFit, NEW t \in Thread, kportal_aread(t)
    PROVE  StateFit' /\ About(t, pcall[t].id)
<1>. DEFINE i == pcall[t].id
            o == pcall[t].out
            n == OutNode[o]
<1>0. /\ PortalTypeOK /\ PortalTypes /\ PortsApart /\ StandFit /\ LinksFit /\ PortalFit(t)
      /\ UsesFit(t) /\ AllowsFit(t)
      /\ pcall[t].at = "aread" /\ pcall[t] \in PortalCalls /\ i \in PortalId /\ i \in reads[t]
      /\ o # None /\ o \in Output /\ inportal[i] = OutTo[o] /\ kportal_allows[i] = o
      /\ From(t) = o /\ allowed[i] = o /\ \A u \in Thread \ {t} : i \notin Uses(u)
      /\ n \in RemoteNode /\ pcall[t].met = None
  <2>1. pcall[t].at = "aread" /\ pcall[t].at \in ReadPlaces /\ From(t) # None
    BY DEF kportal_aread, InPortal, ReadPlaces
  <2>2. From(t) = o /\ o # None /\ pcall[t].met = None /\ allowed[i] = o
    BY <2>1, ReadFacts DEF PortalFit, From
  <2>3. o \in Output /\ n \in RemoteNode
    BY <2>1, <2>2, ReadFacts DEF RemoteNode
  <2>. QED  BY <2>1, <2>2, <2>3, ReadFacts
<1>1. PICK m \in Piece \cup {None} :
        /\ \/ /\ m # None /\ keptPieces[o] # <<>> /\ m = Head(keptPieces[o])
              /\ keptPieces' = [keptPieces EXCEPT ![o] = Tail(@)]
              /\ pcall' = [pcall EXCEPT ![t].at = "await", ![t].met = m]
              /\ linkReader' = linkReader
           \/ /\ m = None /\ keptPieces[o] = <<>> /\ linkReader[n] = None
              /\ linkReader' = [linkReader EXCEPT ![n] = t]
              /\ pcall' = [pcall EXCEPT ![t].at = "await"]
              /\ keptPieces' = keptPieces
  <2>1. CASE keptPieces[o] # <<>>
    <3>1. Head(keptPieces[o]) \in Piece
      BY <1>0, <2>1 DEF PortalTypeOK
    <3>2. Head(keptPieces[o]) # None
      BY <3>1, PortalAssumption
    <3>. QED  BY <1>0, <2>1, <3>1, <3>2 DEF kportal_aread
  <2>2. CASE keptPieces[o] = <<>>
    BY <1>0, <2>2 DEF kportal_aread
  <2>. QED  BY <2>1, <2>2
<1>2. /\ UNCHANGED <<scene, errors, inportal, outportals, allowed, link, kportal_allows, reads,
                     written, delivered, broken, leftover>>
  BY DEF kportal_aread, processVars, portalHistory
<1>3. PICK b : b = [pcall[t] EXCEPT !.at = "await"]
  OBVIOUS
<1>4. PICK c : c = [b EXCEPT !.met = m]
  OBVIOUS
<1>5. /\ b \in PortalCalls /\ b.at = "await" /\ b.id = i /\ b.out = o
      /\ b.got = pcall[t].got /\ b.met = None
  <2>1. b \in PortalCalls
    BY <1>0, <1>3, CallFields DEF ReadPlaces
  <2>. QED  BY <1>0, <1>3, <2>1 DEF PortalCalls
<1>6. /\ c \in PortalCalls /\ c.at = "await" /\ c.id = i /\ c.out = o
      /\ c.got = pcall[t].got /\ c.met = m
  <2>1. c \in PortalCalls
    BY <1>4, <1>5, CallFields
  <2>. QED  BY <1>4, <1>5, <2>1 DEF PortalCalls
<1>7. /\ pcall' \in [Thread -> PortalCalls]
      /\ pcall'[t] = c /\ \A u \in Thread \ {t} : pcall'[u] = pcall[u]
  <2>1. ASSUME m = None PROVE c = b
    BY <1>4, <1>5, <2>1 DEF PortalCalls
  <2>2. pcall' = [pcall EXCEPT ![t] = c]
    <3>1. CASE m = None
      BY <1>0, <1>1, <1>3, <2>1, <3>1 DEF PortalTypeOK
    <3>2. CASE m # None
      BY <1>0, <1>1, <1>3, <1>4, <3>2 DEF PortalTypeOK
    <3>. QED  BY <3>1, <3>2
  <2>. QED  BY <1>0, <1>6, <2>2, PortalMoves
<1>8. m # None => m.out = o
  <2>1. ASSUME m # None PROVE m = keptPieces[o][1] /\ 1 \in 1..Len(keptPieces[o])
    BY <1>0, <1>1, <2>1 DEF PortalTypeOK
  <2>. QED  BY <1>0, <2>1 DEF LinksFit
<1>9. /\ keptPieces' \in [Output -> Seq(Piece)]
      /\ linkReader' \in [RemoteNode -> Thread \cup {None}]
      /\ \A k \in Output \ {o} : keptPieces'[k] = keptPieces[k]
      /\ keptPieces'[o] = <<>> \/ (keptPieces[o] # <<>> /\ keptPieces'[o] = Tail(keptPieces[o]))
  <2>1. CASE m = None
    <3>1. keptPieces' = keptPieces /\ keptPieces[o] = <<>> /\ linkReader' = [linkReader EXCEPT ![n] = t]
      BY <1>1, <2>1
    <3>2. keptPieces \in [Output -> Seq(Piece)] /\ linkReader \in [RemoteNode -> Thread \cup {None}]
      BY <1>0 DEF PortalTypeOK
    <3>3. linkReader' \in [RemoteNode -> Thread \cup {None}]
      BY <1>0, <3>1, <3>2
    <3>. QED  BY <3>1, <3>2, <3>3
  <2>2. CASE m # None
    <3>1. keptPieces[o] \in Seq(Piece) /\ keptPieces[o] # <<>>
      BY <1>0, <1>1, <2>2 DEF PortalTypeOK
    <3>2. Tail(keptPieces[o]) \in Seq(Piece)
      BY <3>1
    <3>. QED  BY <1>0, <1>1, <2>2, <3>1, <3>2, ZenonT(60) DEF PortalTypeOK
  <2>. QED  BY <2>1, <2>2
<1>10. PortalTypes'
  BY <1>0, <1>2, <1>7, <1>9 DEF PortalTypes, PortalTypeOK
<1>11. About(t, i)
  BY <1>0, <1>2, <1>7, WrittenStays DEF About
<1>12. ThreadFit(t)' /\ Uses(t)' \subseteq Uses(t)
  <2>0. reads' = reads /\ scene' = scene /\ written' = written /\ leftover' = leftover
        /\ kportal_allows' = kportal_allows /\ inportal' = inportal /\ allowed' = allowed
    BY <1>2
  <2>1. Uses(t)' = Uses(t)
    BY <1>0, <1>6, <1>7, <2>0 DEF Uses
  <2>2. PortalFit(t)'
    <3>1. Len(c.got) < scene.pieces
      BY <1>0, <1>6 DEF PortalFit, ReadPlaces
    <3>. QED  BY <1>0, <1>6, <1>7, <1>8, <2>0, <3>1 DEF PortalFit, ReadPlaces, WritePlaces
  <2>3. UsesFit(t)'
    BY <1>0, <2>0, <2>1 DEF UsesFit
  <2>4. AllowsFit(t)'
    BY <1>0, <1>6, <1>7, <2>0 DEF AllowsFit, ReadPlaces
  <2>. QED  BY <2>1, <2>2, <2>3, <2>4 DEF ThreadFit
<1>13. PortsApart' /\ StandFit'
  BY <1>0, <1>2 DEF PortsApart, StandFit
<1>14. LinksFit'
  <2>1. ASSUME NEW k \in RemoteNode, linkReader'[k] # None
        PROVE  LET d == pcall'[linkReader'[k]] IN
               d.at = "await" /\ d.met = None /\ OutNode[d.out] = k /\ keptPieces'[d.out] = <<>>
    <3>1. CASE linkReader'[k] = t
      <4>1. m = None /\ k = n
        BY <1>0, <1>1, <2>1, <3>1 DEF LinksFit, PortalTypeOK
      <4>. QED  BY <1>0, <1>1, <1>6, <1>7, <3>1, <4>1
    <3>2. CASE linkReader'[k] # t
      <4>1. linkReader'[k] = linkReader[k] /\ linkReader[k] \in Thread \ {t}
        BY <1>0, <1>1, <2>1, <3>2 DEF PortalTypeOK
      <4>2. pcall'[linkReader[k]] = pcall[linkReader[k]] /\ pcall[linkReader[k]] \in PortalCalls
        BY <1>0, <1>7, <4>1 DEF PortalTypeOK
      <4>3. /\ pcall[linkReader[k]].at = "await" /\ pcall[linkReader[k]].met = None
            /\ OutNode[pcall[linkReader[k]].out] = k /\ keptPieces[pcall[linkReader[k]].out] = <<>>
        BY <1>0, <2>1, <4>1 DEF LinksFit
      <4>4. pcall[linkReader[k]].out \in Output
        <5>1. pcall[linkReader[k]].at \in ReadPlaces \ {"aread"}
          BY <4>3 DEF ReadPlaces
        <5>. QED  BY <4>1, <5>1, ReadFacts DEF AllowsFit
      <4>5. keptPieces'[pcall[linkReader[k]].out] = <<>>
        BY <1>9, <4>3, <4>4
      <4>. QED  BY <4>1, <4>2, <4>3, <4>5
    <3>. QED  BY <3>1, <3>2
  <2>2. \A k \in Output : \A x \in 1..Len(keptPieces'[k]) : keptPieces'[k][x].out = k
    <3>1. ASSUME NEW k \in Output, NEW x \in 1..Len(keptPieces'[k])
          PROVE  \E y \in 1..Len(keptPieces[k]) : keptPieces'[k][x] = keptPieces[k][y]
      <4>1. keptPieces[k] \in Seq(Piece)
        BY <1>0 DEF PortalTypeOK
      <4>2. CASE keptPieces'[k] = keptPieces[k]
        BY <3>1, <4>2
      <4>3. CASE keptPieces'[k] = <<>>
        BY <3>1, <4>3
      <4>4. CASE keptPieces[k] # <<>> /\ keptPieces'[k] = Tail(keptPieces[k])
        <5>1. keptPieces'[k][x] = keptPieces[k][x + 1] /\ x + 1 \in 1..Len(keptPieces[k])
          BY <3>1, <4>1, <4>4
        <5>. QED  BY <5>1
      <4>. QED  BY <1>9, <4>2, <4>3, <4>4
    <3>2. ASSUME NEW k \in Output, NEW x \in 1..Len(keptPieces'[k])
          PROVE  keptPieces'[k][x].out = k
      <4>1. PICK y \in 1..Len(keptPieces[k]) : keptPieces'[k][x] = keptPieces[k][y]
        BY <3>1, <3>2
      <4>2. keptPieces[k][y].out = k
        BY <1>0 DEF LinksFit
      <4>. QED  BY <4>1, <4>2
    <3>. QED  BY <3>2
  <2>3. link' = link
    BY <1>2
  <2>. QED  BY <1>0, <2>1, <2>2, <2>3 DEF LinksFit
<1>. QED  BY <1>10, <1>11, <1>12, <1>13, <1>14, StateKept

\* What kportal_wait gives a read: the piece, and what the thread does next.
LEMMA MetFacts ==
    ASSUME StateFit, NEW t \in Thread, pcall[t].at = "await", NEW m \in Piece, Met(t, m)
    PROVE  LET c == pcall[t]  d == pcall'[t] IN
           /\ pcall' \in [Thread -> PortalCalls] /\ \A u \in Thread \ {t} : pcall'[u] = pcall[u]
           /\ d.id = c.id /\ d.out = c.out /\ d.met = None
           /\ allowed' \in [PortalId -> Output \cup {None}]
           /\ \A i \in PortalId \ {c.id} : allowed'[i] = allowed[i]
           /\ m.out = c.out => /\ d.got = Append(c.got, m) /\ allowed'[c.id] = None
                               /\ d.at = IF Len(c.got) + 1 = scene.pieces THEN "complete" ELSE "again"
           /\ m.out # c.out => /\ d.got = c.got /\ allowed' = allowed
                               /\ d.at = IF c.got = <<>> THEN "aread" ELSE "again"
<1>. DEFINE i == pcall[t].id
            o == pcall[t].out
<1>0. /\ PortalTypeOK /\ pcall[t] \in PortalCalls /\ From(t) = o /\ allowed[i] = o /\ i \in PortalId
      /\ pcall[t].got \in Seq(Piece)
  <2>1. pcall[t].at \in ReadPlaces \ {"aread"}
    BY DEF ReadPlaces
  <2>2. PortalTypeOK /\ pcall[t] \in PortalCalls /\ i \in PortalId /\ AllowsFit(t)
    BY <2>1, ReadFacts
  <2>3. pcall[t].got \in Seq(Piece)
    BY <2>2, CallFields
  <2>. QED  BY <2>1, <2>2, <2>3 DEF AllowsFit, From
<1>1. PICK a : a = AfterPiece(t, m)
  OBVIOUS
<1>2. PICK g : g = IF m.out = o THEN Append(pcall[t].got, m) ELSE pcall[t].got
  OBVIOUS
<1>3. a = IF m.out = o THEN (IF Len(pcall[t].got) + 1 = scene.pieces THEN "complete" ELSE "again")
          ELSE IF pcall[t].got = <<>> THEN "aread" ELSE "again"
  BY <1>0, <1>1 DEF AfterPiece, AfterOwn, Takes
<1>4. a \in ReadPlaces /\ g \in Seq(Piece)
  <2>1. Append(pcall[t].got, m) \in Seq(Piece)
    BY <1>0
  <2>. QED  BY <1>0, <1>2, <1>3, <2>1 DEF ReadPlaces
<1>5. PICK b : b = [pcall[t] EXCEPT !.at = a]
  OBVIOUS
<1>6. PICK c : c = [b EXCEPT !.met = None]
  OBVIOUS
<1>7. PICK d : d = [c EXCEPT !.got = g]
  OBVIOUS
<1>8. b \in PortalCalls /\ c \in PortalCalls /\ d \in PortalCalls
  <2>1. b \in PortalCalls
    BY <1>0, <1>4, <1>5, CallFields
  <2>2. c \in PortalCalls
    BY <1>6, <2>1, CallFields
  <2>. QED  BY <1>4, <1>7, <2>1, <2>2, CallFields
<1>9. b.id = i /\ b.out = o /\ b.got = pcall[t].got /\ b.at = a
  BY <1>0, <1>5 DEF PortalCalls
<1>10. c.id = i /\ c.out = o /\ c.got = pcall[t].got /\ c.at = a /\ c.met = None
  BY <1>6, <1>8, <1>9 DEF PortalCalls
<1>11. d.id = i /\ d.out = o /\ d.got = g /\ d.at = a /\ d.met = None
  BY <1>7, <1>8, <1>10 DEF PortalCalls
<1>12. pcall' = [pcall EXCEPT ![t] = d]
  <2>1. pcall \in [Thread -> PortalCalls]
    BY <1>0 DEF PortalTypeOK
  <2>2. CASE m.out = o
    <3>1. pcall' = [pcall EXCEPT ![t].at = a, ![t].met = None, ![t].got = Append(@, m)]
      BY <1>0, <1>1, <2>2 DEF Met, Takes
    <3>2. d = [c EXCEPT !.got = Append(@, m)]
      BY <1>2, <1>7, <1>10, <2>2
    <3>. QED  BY <1>5, <1>6, <2>1, <3>1, <3>2
  <2>3. CASE m.out # o
    <3>1. pcall' = [pcall EXCEPT ![t].at = a, ![t].met = None, ![t].got = @]
      BY <1>0, <1>1, <2>3 DEF Met, Takes
    <3>2. d = [c EXCEPT !.got = @]
      BY <1>2, <1>7, <1>10, <2>3
    <3>. QED  BY <1>5, <1>6, <2>1, <3>1, <3>2
  <2>. QED  BY <2>2, <2>3
<1>13. pcall' \in [Thread -> PortalCalls] /\ pcall'[t] = d /\ \A u \in Thread \ {t} : pcall'[u] = pcall[u]
  BY <1>0, <1>8, <1>12, PortalMoves
<1>14. allowed' = IF m.out = o THEN [allowed EXCEPT ![i] = None] ELSE allowed
  BY <1>0 DEF Met
<1>15. /\ allowed' \in [PortalId -> Output \cup {None}]
       /\ \A j \in PortalId \ {i} : allowed'[j] = allowed[j]
       /\ m.out = o => allowed'[i] = None
  BY <1>0, <1>14 DEF PortalTypeOK
<1>. QED  BY <1>2, <1>3, <1>11, <1>13, <1>14, <1>15

\* The two ways in which a piece comes: with the call of aread, or over the link.
LEMMA PieceFacts ==
    ASSUME StateFit, NEW t \in Thread, WaitPieceRead(t)
    PROVE  /\ pcall[t].at = "await" /\ pcall[t].out \in Output
           /\ UNCHANGED <<scene, errors, inportal, outportals, kportal_allows, reads, written,
                          delivered, leftover>>
           /\ \E m \in Piece :
                /\ Met(t, m)
                /\ \/ /\ m = pcall[t].met /\ m.out = pcall[t].out
                      /\ UNCHANGED <<link, linkReader, keptPieces, broken>>
                   \/ LET n == OutNode[pcall[t].out] IN
                      /\ n \in RemoteNode /\ linkReader[n] = t /\ m = link[n] /\ pcall[t].met = None
                      /\ OutNode[m.out] = n /\ m.out \in Output
                      /\ link' = [link EXCEPT ![n] = None]
                      /\ linkReader' = [linkReader EXCEPT ![n] = None]
                      /\ IF OutTo[m.out] \in InputPorts
                         THEN /\ keptPieces' = IF m.out = pcall[t].out THEN keptPieces
                                               ELSE [keptPieces EXCEPT ![m.out] = Append(@, m)]
                              /\ broken' = broken
                         ELSE keptPieces' = keptPieces /\ broken' = broken \cup {m.out}
<1>. DEFINE o == pcall[t].out
            n == OutNode[o]
<1>0. /\ PortalTypeOK /\ LinksFit /\ PortalFit(t) /\ pcall[t] \in PortalCalls /\ pcall[t].at = "await"
      /\ o \in Output /\ n \in RemoteNode /\ From(t) = o
  <2>1. pcall[t].at = "await" /\ pcall[t].at \in ReadPlaces \ {"aread"}
    BY DEF WaitPieceRead, InPortal, ReadPlaces
  <2>2. PortalTypeOK /\ LinksFit /\ PortalFit(t) /\ AllowsFit(t) /\ pcall[t] \in PortalCalls
    BY <2>1, ReadFacts
  <2>3. o \in Output /\ From(t) = o
    BY <2>1, <2>2, ReadFacts DEF AllowsFit, From
  <2>. QED  BY <2>1, <2>2, <2>3 DEF RemoteNode
<1>1. UNCHANGED <<scene, errors, inportal, outportals, kportal_allows, reads, written,
                  delivered, leftover>>
  BY DEF WaitPieceRead, processVars
<1>2. CASE /\ pcall[t].met # None
           /\ Met(t, pcall[t].met)
           /\ UNCHANGED <<linkVars, broken>>
  <2>1. pcall[t].met \in Piece /\ pcall[t].met.out = o
    BY <1>0, <1>2, CallFields DEF PortalFit
  <2>2. UNCHANGED <<link, linkReader, keptPieces, broken>>
    BY <1>2 DEF linkVars
  <2>. QED  BY <1>0, <1>1, <1>2, <2>1, <2>2
<1>3. CASE /\ linkReader[n] = t /\ link[n] # None
           /\ Met(t, link[n])
           /\ link' = [link EXCEPT ![n] = None]
           /\ linkReader' = [linkReader EXCEPT ![n] = None]
           /\ keptPieces' = IF link[n].out # o /\ OutTo[link[n].out] \in InputPorts
                            THEN [keptPieces EXCEPT ![link[n].out] = Append(@, link[n])] ELSE keptPieces
           /\ broken' = IF OutTo[link[n].out] \in InputPorts THEN broken
                        ELSE broken \cup {link[n].out}
  <2>0. link[n] # None /\ linkReader[n] = t
    BY <1>3
  <2>1. link[n] \in Piece /\ link[n].out \in Output /\ OutNode[link[n].out] = n
    <3>1. link[n] \in Piece
      BY <1>0, <2>0 DEF PortalTypeOK
    <3>2. link[n].out \in Output
      BY <3>1 DEF Piece
    <3>. QED  BY <1>0, <2>0, <3>1, <3>2 DEF LinksFit
  <2>2. pcall[t].met = None
    <3>1. t # None
      BY ProcessAssumption
    <3>. QED  BY <1>0, <2>0, <3>1 DEF LinksFit
  <2>3. IF OutTo[link[n].out] \in InputPorts
        THEN /\ keptPieces' = IF link[n].out = pcall[t].out THEN keptPieces
                              ELSE [keptPieces EXCEPT ![link[n].out] = Append(@, link[n])]
             /\ broken' = broken
        ELSE keptPieces' = keptPieces /\ broken' = broken \cup {link[n].out}
    BY <1>3
  <2>4. PICK m \in Piece : m = link[n]
    BY <2>1
  <2>. QED  BY <1>0, <1>1, <1>3, <2>1, <2>2, <2>3, <2>4, ZenonT(60)
<1>4. \/ /\ pcall[t].met # None
         /\ Met(t, pcall[t].met)
         /\ UNCHANGED <<linkVars, broken>>
      \/ /\ linkReader[n] = t /\ link[n] # None
         /\ Met(t, link[n])
         /\ link' = [link EXCEPT ![n] = None]
         /\ linkReader' = [linkReader EXCEPT ![n] = None]
         /\ keptPieces' = IF link[n].out # o /\ OutTo[link[n].out] \in InputPorts
                          THEN [keptPieces EXCEPT ![link[n].out] = Append(@, link[n])] ELSE keptPieces
         /\ broken' = IF OutTo[link[n].out] \in InputPorts THEN broken
                      ELSE broken \cup {link[n].out}
  BY <1>0 DEF WaitPieceRead
<1>. QED  BY <1>2, <1>3, <1>4

LEMMA PieceFits ==
    ASSUME StateFit, NEW t \in Thread, WaitPieceRead(t)
    PROVE  StateFit' /\ About(t, pcall[t].id)
<1>. DEFINE i == pcall[t].id
            o == pcall[t].out
            n == OutNode[o]
<1>0. /\ PortalTypeOK /\ PortalTypes /\ PortsApart /\ StandFit /\ LinksFit /\ PortalFit(t)
      /\ UsesFit(t) /\ AllowsFit(t)
      /\ pcall[t].at = "await" /\ pcall[t] \in PortalCalls /\ i \in PortalId /\ i \in reads[t]
      /\ o # None /\ o \in Output /\ inportal[i] = OutTo[o] /\ kportal_allows[i] = o
      /\ allowed[i] = o /\ \A u \in Thread \ {t} : i \notin Uses(u)
      /\ pcall[t].got \in Seq(Piece) /\ Len(pcall[t].got) < scene.pieces
  <2>1. pcall[t].at = "await" /\ pcall[t].at \in ReadPlaces \ {"aread"} /\ o \in Output
    BY PieceFacts DEF ReadPlaces
  <2>2. /\ PortalTypeOK /\ PortalTypes /\ PortsApart /\ StandFit /\ LinksFit /\ PortalFit(t)
        /\ UsesFit(t) /\ AllowsFit(t) /\ pcall[t] \in PortalCalls
    BY <2>1, ReadFacts
  <2>3. allowed[i] = o /\ o # None /\ Len(pcall[t].got) < scene.pieces
    BY <2>1, <2>2 DEF AllowsFit, PortalFit
  <2>4. pcall[t].got \in Seq(Piece)
    BY <2>2, CallFields
  <2>. QED  BY <2>1, <2>2, <2>3, <2>4, ReadFacts
<1>1. /\ scene' = scene /\ errors' = errors /\ inportal' = inportal /\ outportals' = outportals
      /\ kportal_allows' = kportal_allows /\ reads' = reads /\ written' = written
      /\ delivered' = delivered /\ leftover' = leftover
  BY PieceFacts
<1>2. PICK m \in Piece :
        /\ Met(t, m)
        /\ \/ /\ m = pcall[t].met /\ m.out = o
              /\ UNCHANGED <<link, linkReader, keptPieces, broken>>
           \/ /\ n \in RemoteNode /\ linkReader[n] = t /\ m = link[n] /\ pcall[t].met = None
              /\ OutNode[m.out] = n /\ m.out \in Output
              /\ link' = [link EXCEPT ![n] = None]
              /\ linkReader' = [linkReader EXCEPT ![n] = None]
              /\ IF OutTo[m.out] \in InputPorts
                 THEN /\ keptPieces' = IF m.out = o THEN keptPieces
                                       ELSE [keptPieces EXCEPT ![m.out] = Append(@, m)]
                      /\ broken' = broken
                 ELSE keptPieces' = keptPieces /\ broken' = broken \cup {m.out}
  BY PieceFacts
<1>3. /\ pcall' \in [Thread -> PortalCalls] /\ \A u \in Thread \ {t} : pcall'[u] = pcall[u]
      /\ pcall'[t].id = i /\ pcall'[t].out = o /\ pcall'[t].met = None
      /\ allowed' \in [PortalId -> Output \cup {None}]
      /\ \A j \in PortalId \ {i} : allowed'[j] = allowed[j]
      /\ m.out = o => /\ pcall'[t].got = Append(pcall[t].got, m) /\ allowed'[i] = None
                      /\ pcall'[t].at = IF Len(pcall[t].got) + 1 = scene.pieces THEN "complete" ELSE "again"
      /\ m.out # o => /\ pcall'[t].got = pcall[t].got /\ allowed' = allowed
                      /\ pcall'[t].at = IF pcall[t].got = <<>> THEN "aread" ELSE "again"
  BY <1>0, <1>2, MetFacts
<1>4. /\ link' \in [RemoteNode -> Piece \cup {None}]
      /\ linkReader' \in [RemoteNode -> Thread \cup {None}]
      /\ broken' \subseteq Output
      /\ \A k \in RemoteNode : linkReader'[k] # None =>
           linkReader'[k] = linkReader[k] /\ (linkReader[k] = t => pcall[t].met # None)
      /\ \A k \in RemoteNode : link'[k] # None => link'[k] = link[k]
  <2>0. /\ link \in [RemoteNode -> Piece \cup {None}]
        /\ linkReader \in [RemoteNode -> Thread \cup {None}]
        /\ broken \subseteq Output
    BY <1>0 DEF PortalTypeOK
  <2>1. CASE m = pcall[t].met /\ UNCHANGED <<link, linkReader, keptPieces, broken>>
    BY <1>2, <2>0, <2>1, PortalAssumption
  <2>2. CASE /\ n \in RemoteNode /\ linkReader[n] = t /\ m.out \in Output
             /\ link' = [link EXCEPT ![n] = None]
             /\ linkReader' = [linkReader EXCEPT ![n] = None]
             /\ broken' = broken \/ broken' = broken \cup {m.out}
    <3>1. \A k \in RemoteNode : linkReader[k] = t => k = n
      BY <1>0, <2>2, ProcessAssumption DEF LinksFit
    <3>2. broken' \subseteq Output
      BY <2>0, <2>2
    <3>. QED  BY <2>0, <2>2, <3>1, <3>2
  <2>. QED  BY <1>2, <2>1, <2>2
<1>5. /\ keptPieces' \in [Output -> Seq(Piece)]
      /\ \A k \in Output :
           \/ keptPieces'[k] = keptPieces[k]
           \/ k = m.out /\ keptPieces'[k] = Append(keptPieces[k], m) /\ OutNode[k] = n /\ linkReader[n] = t
  <2>0. keptPieces \in [Output -> Seq(Piece)]
    BY <1>0 DEF PortalTypeOK
  <2>1. CASE keptPieces' = keptPieces
    BY <2>0, <2>1
  <2>2. CASE /\ keptPieces' = [keptPieces EXCEPT ![m.out] = Append(@, m)]
             /\ m.out \in Output /\ OutNode[m.out] = n /\ linkReader[n] = t
    <3>1. Append(keptPieces[m.out], m) \in Seq(Piece)
      BY <2>0, <2>2
    <3>. QED  BY <2>0, <2>2, <3>1
  <2>. QED  BY <1>2, <2>1, <2>2
<1>6. PortalTypes'
  BY <1>0, <1>1, <1>3, <1>4, <1>5 DEF PortalTypes, PortalTypeOK
<1>7. About(t, i)
  BY <1>0, <1>1, <1>3, WrittenStays DEF About
<1>8. ThreadFit(t)' /\ Uses(t)' \subseteq Uses(t)
  <2>1. pcall'[t].at \in {"complete", "again", "aread"}
    BY <1>3
  <2>2. Uses(t)' = Uses(t)
    BY <1>0, <1>1, <2>1 DEF Uses
  <2>3. /\ pcall'[t].at # "complete" => Len(pcall'[t].got) < scene.pieces
        /\ pcall'[t].at = "complete" => Len(pcall'[t].got) = scene.pieces
    <3>1. Len(Append(pcall[t].got, m)) = Len(pcall[t].got) + 1 /\ Len(pcall[t].got) \in Nat
      BY <1>0
    <3>2. scene.pieces \in Nat
      BY <1>0, SceneFits DEF PortalTypes
    <3>. QED  BY <1>0, <1>3, <3>1, <3>2
  <2>4. PortalFit(t)'
    BY <1>0, <1>1, <1>3, <2>1, <2>3 DEF PortalFit, ReadPlaces, WritePlaces
  <2>5. UsesFit(t)'
    BY <1>0, <1>1, <2>2 DEF UsesFit
  <2>6. AllowsFit(t)'
    BY <1>0, <1>1, <1>3, <2>1 DEF AllowsFit, ReadPlaces
  <2>. QED  BY <2>2, <2>4, <2>5, <2>6 DEF ThreadFit
<1>9. PortsApart' /\ StandFit'
  BY <1>0, <1>1, <1>3 DEF PortsApart, StandFit
<1>10. LinksFit'
  <2>1. ASSUME NEW k \in RemoteNode, linkReader'[k] # None
        PROVE  LET d == pcall'[linkReader'[k]] IN
               d.at = "await" /\ d.met = None /\ OutNode[d.out] = k /\ keptPieces'[d.out] = <<>>
    <3>1. linkReader'[k] = linkReader[k] /\ linkReader[k] # None /\ linkReader[k] \in Thread
      BY <1>0, <1>4, <2>1 DEF PortalTypeOK
    <3>2. /\ pcall[linkReader[k]].at = "await" /\ pcall[linkReader[k]].met = None
          /\ OutNode[pcall[linkReader[k]].out] = k /\ keptPieces[pcall[linkReader[k]].out] = <<>>
      BY <1>0, <3>1 DEF LinksFit
    <3>3. linkReader[k] # t
      BY <1>4, <2>1, <3>2
    <3>4. pcall'[linkReader[k]] = pcall[linkReader[k]]
      BY <1>3, <3>1, <3>3
    <3>5. pcall[linkReader[k]].out \in Output
      <4>1. pcall[linkReader[k]].at \in ReadPlaces \ {"aread"}
        BY <3>2 DEF ReadPlaces
      <4>. QED  BY <3>1, <4>1, ReadFacts DEF AllowsFit
    <3>6. keptPieces'[pcall[linkReader[k]].out] = <<>>
      BY <1>5, <3>2, <3>3, <3>5
    <3>. QED  BY <3>1, <3>2, <3>4, <3>6
  <2>2. ASSUME NEW k \in Output, NEW x \in 1..Len(keptPieces'[k]) PROVE keptPieces'[k][x].out = k
    <3>0. keptPieces[k] \in Seq(Piece)
      BY <1>0 DEF PortalTypeOK
    <3>1. CASE keptPieces'[k] = keptPieces[k]
      BY <1>0, <2>2, <3>1 DEF LinksFit
    <3>2. CASE k = m.out /\ keptPieces'[k] = Append(keptPieces[k], m)
      <4>1. \/ x \in 1..Len(keptPieces[k]) /\ keptPieces'[k][x] = keptPieces[k][x]
            \/ keptPieces'[k][x] = m
        BY <2>2, <3>0, <3>2
      <4>. QED  BY <1>0, <3>2, <4>1 DEF LinksFit
    <3>. QED  BY <1>5, <3>1, <3>2
  <2>3. \A k \in RemoteNode : link'[k] # None => OutNode[link'[k].out] = k
    BY <1>0, <1>4 DEF LinksFit
  <2>. QED  BY <2>1, <2>2, <2>3 DEF LinksFit
<1>. QED  BY <1>6, <1>7, <1>8, <1>9, <1>10, StateKept

LEMMA CompleteFits ==
    ASSUME StateFit, NEW t \in Thread, CompleteRead(t)
    PROVE  StateFit' /\ About(t, pcall[t].id)
<1>. DEFINE i == pcall[t].id
            o == pcall[t].out
<1>0. /\ PortalTypeOK /\ PortalTypes /\ PortsApart /\ StandFit
      /\ pcall[t].at = "complete" /\ i \in PortalId /\ i \in reads[t] /\ o \in Output
      /\ \A u \in Thread \ {t} : i \notin Uses(u)
      /\ pcall[t].got \in Seq(Piece) /\ delivered \in [Output -> Seq(Seq(Piece))]
  <2>1. pcall[t].at = "complete" /\ pcall[t].at \in ReadPlaces \ {"aread"}
    BY DEF CompleteRead, InPortal, ReadPlaces
  <2>2. pcall[t].got \in Seq(Piece) /\ o \in Output
    BY <2>1, ReadFacts, CallFields DEF AllowsFit
  <2>. QED  BY <2>1, <2>2, ReadFacts DEF PortalTypes
<1>1. /\ kportal_allows' = [kportal_allows EXCEPT ![i] = None]
      /\ delivered' = [delivered EXCEPT ![o] = Append(@, pcall[t].got)]
      /\ leftover' = leftover \ {i}
      /\ pcall' = [pcall EXCEPT ![t] = NoPortalCall]
      /\ UNCHANGED <<scene, errors, inportal, outportals, allowed, reads, written, broken>>
      /\ UNCHANGED linkVars
  BY DEF CompleteRead, ResetAllows, processVars, portalKernelVars
<1>2. \A j \in PortalId : kportal_allows'[j] = IF j = i THEN None ELSE kportal_allows[j]
  BY <1>0, <1>1 DEF PortalTypeOK
<1>3. /\ pcall' \in [Thread -> PortalCalls] /\ \A u \in Thread \ {t} : pcall'[u] = pcall[u]
      /\ ThreadFit(t)' /\ Uses(t)' = Uses(t)
  <2>1. reads[t] \subseteq PortalId
    BY <1>0 DEF PortalTypeOK
  <2>2. \A j \in reads[t] : kportal_allows'[j] \in {kportal_allows[j], None}
    BY <1>2, <2>1
  <2>. QED  BY <1>0, <1>1, <2>2, ReturnFits
<1>4. delivered' \in [Output -> Seq(Seq(Piece))]
  <2>1. Append(delivered[o], pcall[t].got) \in Seq(Seq(Piece))
    BY <1>0
  <2>. QED  BY <1>0, <1>1, <2>1
<1>5. PortalTypes'
  BY <1>0, <1>1, <1>3, <1>4 DEF PortalTypes, PortalTypeOK, linkVars
<1>6. About(t, i)
  BY <1>0, <1>1, <1>2, <1>3, WrittenStays DEF About
<1>7. PortsApart' /\ StandFit'
  BY <1>0, <1>1 DEF PortsApart, StandFit
<1>8. LinksFit'
  BY <1>0, <1>1, <1>6, LinksStay
<1>. QED  BY <1>3, <1>5, <1>6, <1>7, <1>8, StateKept

\* A read that fails, which may take the allow with it.
LEMMA FailFits ==
    ASSUME StateFit, NEW t \in Thread, ReadRefused(t) \/ ReadError(t)
    PROVE  StateFit' /\ About(t, pcall[t].id)
<1>. DEFINE i == pcall[t].id
<1>0. /\ PortalTypeOK /\ PortalTypes /\ PortsApart /\ StandFit /\ LinksFit
      /\ pcall[t].at \in {"aread", "await"} /\ i \in PortalId /\ i \in reads[t]
      /\ \A u \in Thread \ {t} : i \notin Uses(u)
      /\ From(t) \in Output \cup {None}
  <2>1. pcall[t].at \in {"aread", "await"} /\ pcall[t].at \in ReadPlaces
    BY DEF ReadRefused, ReadError, InPortal, ReadPlaces
  <2>2. From(t) \in Output \cup {None}
    BY <2>1, ReadFacts DEF PortalTypeOK, From
  <2>. QED  BY <2>1, <2>2, ReadFacts
<1>1. /\ pcall' = [pcall EXCEPT ![t] = NoPortalCall]
      /\ leftover' = leftover \cup {i}
      /\ UNCHANGED <<scene, inportal, outportals, link, keptPieces, kportal_allows, reads, written,
                     delivered>>
      /\ errors' \in Nat
      /\ broken' \subseteq Output
  <2>1. /\ pcall' = [pcall EXCEPT ![t] = NoPortalCall]
        /\ leftover' = leftover \cup {i}
        /\ UNCHANGED <<inportal, outportals, link, keptPieces, kportal_allows, reads, written,
                       delivered>>
    BY DEF ReadRefused, ReadError, ReadFails
  <2>2. CASE ReadRefused(t)
    BY <1>0, <2>1, <2>2 DEF ReadRefused, processVars, PortalTypes, PortalTypeOK
  <2>3. CASE ReadError(t)
    BY <1>0, <2>1, <2>3 DEF ReadError, OneFails, PortalTypes, PortalTypeOK
  <2>. QED  BY <2>2, <2>3
<1>2. /\ allowed' \in [PortalId -> Output \cup {None}]
      /\ \A j \in PortalId : allowed'[j] = allowed[j] \/ (j = i /\ allowed'[j] = None)
  <2>1. allowed' = allowed \/ allowed' = [allowed EXCEPT ![i] = None]
    BY DEF ReadRefused, ReadError
  <2>. QED  BY <1>0, <2>1 DEF PortalTypeOK
<1>3. /\ linkReader' \in [RemoteNode -> Thread \cup {None}]
      /\ \A n \in RemoteNode : linkReader'[n] # None => linkReader'[n] = linkReader[n] /\ linkReader[n] # t
  <2>1. CASE ReadRefused(t)
    <3>1. pcall[t].at = "aread" /\ linkReader' = linkReader
      BY <2>1 DEF ReadRefused, InPortal
    <3>2. \A n \in RemoteNode : linkReader[n] # t
      BY <1>0, <3>1, ProcessAssumption DEF LinksFit
    <3>. QED  BY <1>0, <3>1, <3>2 DEF PortalTypeOK
  <2>2. CASE ReadError(t)
    BY <1>0, <2>2 DEF ReadError, PortalTypeOK
  <2>. QED  BY <2>1, <2>2
<1>4. /\ pcall' \in [Thread -> PortalCalls] /\ \A u \in Thread \ {t} : pcall'[u] = pcall[u]
      /\ ThreadFit(t)' /\ Uses(t)' = Uses(t)
  BY <1>0, <1>1, ReturnFits
<1>5. PortalTypes'
  BY <1>0, <1>1, <1>2, <1>3, <1>4 DEF PortalTypes, PortalTypeOK
<1>6. About(t, i)
  BY <1>0, <1>1, <1>2, <1>4, WrittenStays DEF About
<1>7. PortsApart' /\ StandFit'
  BY <1>0, <1>1, <1>2 DEF PortsApart, StandFit
<1>8. LinksFit'
  <2>1. ASSUME NEW n \in RemoteNode, linkReader'[n] # None
        PROVE  LET c == pcall'[linkReader'[n]] IN
               c.at = "await" /\ c.met = None /\ OutNode[c.out] = n /\ keptPieces'[c.out] = <<>>
    <3>1. linkReader'[n] = linkReader[n] /\ linkReader[n] \in Thread \ {t}
      BY <1>0, <1>3, <2>1 DEF PortalTypeOK
    <3>2. pcall'[linkReader[n]] = pcall[linkReader[n]] /\ linkReader[n] # None
      BY <1>4, <2>1, <3>1
    <3>3. keptPieces' = keptPieces
      BY <1>1
    <3>. QED  BY <1>0, <3>1, <3>2, <3>3 DEF LinksFit
  <2>2. link' = link /\ keptPieces' = keptPieces
    BY <1>1
  <2>. QED  BY <1>0, <2>1, <2>2 DEF LinksFit
<1>. QED  BY <1>4, <1>5, <1>6, <1>7, <1>8, StateKept

-----------------------------------------------------------------------------
(* What the table tells between calls                                      *)

\* It is enough to look at the portal that the step is about.
LEMMA TellsStays ==
    ASSUME StateFit, AllowsTell, NEW t \in Thread, NEW x, About(t, x), pcall[t].id \in {x, None},
           x \in PortalId => \/ pcall'[t].id = x \/ inportal'[x] = None
                             \/ kportal_allows'[x] = allowed'[x]
                             \/ allowed'[x] = None /\ x \in leftover'
    PROVE  AllowsTell'
<1>. SUFFICES ASSUME NEW i \in PortalId, inportal'[i] # None, \A u \in Thread : pcall'[u].id # i
              PROVE  \/ kportal_allows'[i] = allowed'[i]
                     \/ allowed'[i] = None /\ i \in leftover'
  BY DEF AllowsTell
<1>1. CASE i = x
  BY <1>1
<1>2. CASE i # x
  <2>1. /\ inportal'[i] = inportal[i] /\ allowed'[i] = allowed[i]
        /\ kportal_allows'[i] = kportal_allows[i] /\ (i \in leftover' <=> i \in leftover)
    BY <1>2 DEF About
  <2>2. ASSUME NEW u \in Thread PROVE pcall[u].id # i
    <3>1. CASE u = t
      BY <1>2, <3>1, ProcessAssumption DEF PortalId
    <3>2. CASE u # t
      BY <3>2 DEF About
    <3>. QED  BY <3>1, <3>2
  <2>. QED  BY <2>1, <2>2 DEF AllowsTell
<1>. QED  BY <1>1, <1>2

LEMMA TellsInitial == PortalInit => AllowsTell
BY DEF PortalInit, AllowsTell

LEMMA CallTells ==
    ASSUME StateFit, AllowsTell, NEW t \in Thread, PortalCall(t)
    PROVE  StateFit' /\ AllowsTell'
<1>0. /\ PortalTypeOK /\ scene \in Scenes /\ scene.writers[t] \subseteq Output
      /\ reads[t] \subseteq PortalId
  BY SceneFits DEF StateFit, PortalTypes, PortalTypeOK
<1>1. CASE \E p \in PortalPort : kportal_create(t, p)
  <2>1. PICK p \in PortalPort : kportal_create(t, p)
    BY <1>1
  <2>2. StateFit' /\ About(t, pcall'[t].id)
    BY <2>1, CreateFits
  <2>3. pcall[t].id = None
    BY <2>1, IdleThread, IdlePortal DEF kportal_create
  <2>. QED  BY <2>2, <2>3, TellsStays
<1>2. CASE \E i \in reads[t] : kportal_unlink(t, i)
  <2>1. PICK i \in reads[t] : kportal_unlink(t, i)
    BY <1>2
  <2>2. StateFit' /\ About(t, i)
    BY <2>1, UnlinkFits
  <2>3. pcall[t].id = None
    BY <2>1, IdleThread, IdlePortal DEF kportal_unlink
  <2>4. inportal'[i] = None
    BY <1>0, <2>1 DEF kportal_unlink, PortalTypeOK
  <2>. QED  BY <2>2, <2>3, <2>4, TellsStays
<1>3. CASE \E i \in reads[t] : kportal_read(t, i)
  <2>1. PICK i \in reads[t] : kportal_read(t, i)
    BY <1>3
  <2>2. StateFit' /\ About(t, i)
    BY <2>1, ReadFits
  <2>3. pcall[t].id = None
    BY <2>1, IdleThread, IdlePortal DEF kportal_read
  <2>4. pcall'[t].id = i
    BY <1>0, <2>1 DEF kportal_read, PortalTypeOK, NoPortalCall
  <2>. QED  BY <2>2, <2>3, <2>4, TellsStays
<1>4. CASE \E i \in reads[t] : \E o \in Output : kportal_allow(t, i, o)
  <2>1. PICK i \in reads[t], o \in Output : kportal_allow(t, i, o)
    BY <1>4
  <2>2. StateFit' /\ About(t, i)
    BY <2>1, AllowFits
  <2>3. pcall[t].id = None
    BY <2>1, IdleThread, IdlePortal DEF kportal_allow
  <2>4. pcall'[t].id = i
    BY <1>0, <2>1 DEF kportal_allow, PortalTypeOK, PortalCalls
  <2>. QED  BY <2>2, <2>3, <2>4, TellsStays
<1>5. CASE \E o \in scene.writers[t] : kportal_write(t, o)
  <2>1. PICK o \in scene.writers[t] : kportal_write(t, o)
    BY <1>5
  <2>2. StateFit' /\ About(t, None)
    BY <2>1, WriteFits
  <2>3. pcall[t].id = None
    BY <2>1, IdleThread, IdlePortal DEF kportal_write
  <2>. QED  BY <2>2, <2>3, TellsStays, ProcessAssumption DEF PortalId
<1>6. CASE \E o \in scene.writers[t] \cap scene.opens : kportal_open(t, o) \/ kportal_close(t, o)
  <2>1. PICK o \in Output : kportal_open(t, o) \/ kportal_close(t, o)
    BY <1>0, <1>6
  <2>2. StateFit'
    BY <2>1, OpenCloseFits
  <2>3. UNCHANGED <<inportal, allowed, kportal_allows, pcall, leftover>>
    BY <2>1 DEF kportal_open, kportal_close, portalHistory
  <2>. QED  BY <2>2, <2>3 DEF AllowsTell
<1>. QED  BY <1>1, <1>2, <1>3, <1>4, <1>5, <1>6 DEF PortalCall

LEMMA StepTells ==
    ASSUME StateFit, AllowsTell, NEW t \in Thread, PortalStep(t) \/ ReadError(t) \/ WriteError(t)
    PROVE  StateFit' /\ AllowsTell'
<1>. DEFINE i == pcall[t].id
<1>0. PortalTypeOK /\ PortalTypeOK /\ PortalFit(t) /\ AllowsFit(t)
  BY DEF StateFit, PortalTypes, ThreadFit
<1>1. CASE CreateReset(t)
  <2>1. StateFit' /\ About(t, i)
    BY <1>1, CreateResetFits
  <2>2. i \in PortalId /\ allowed[i] = None
    BY <1>0, <1>1 DEF CreateReset, InPortal, PortalFit, AllowsFit
  <2>3. kportal_allows'[i] = allowed'[i]
    BY <1>0, <1>1, <2>2 DEF CreateReset, ResetAllows, portalKernelVars, PortalTypeOK
  <2>. QED  BY <2>1, <2>3, TellsStays
<1>2. CASE SetAllow(t)
  <2>1. StateFit' /\ About(t, i)
    BY <1>2, SetFits
  <2>2. i \in PortalId => allowed[i] = pcall[t].out
    BY <1>0, <1>2 DEF SetAllow, AllowsFit
  <2>3. i \in PortalId => kportal_allows'[i] = allowed'[i]
    BY <1>0, <1>2, <2>2 DEF SetAllow, portalKernelVars, PortalTypeOK
  <2>. QED  BY <2>1, <2>3, TellsStays
<1>3. CASE kportal_awrite(t) \/ WaitPieceSent(t) \/ WriteError(t)
  <2>1. StateFit' /\ About(t, None)
    BY <1>3, AwriteFits, SentFits, WriteErrorFits
  <2>2. pcall[t].at \in WritePlaces
    BY <1>3 DEF kportal_awrite, WaitPieceSent, WriteError, InPortal, WritePlaces
  <2>3. pcall[t].id = None
    BY <1>0, <2>2 DEF PortalFit
  <2>. QED  BY <2>1, <2>3, TellsStays, ProcessAssumption DEF PortalId
<1>4. CASE AllowAgain(t)
  <2>1. StateFit' /\ About(t, i)
    BY <1>4, AgainFits
  <2>2. pcall'[t].id = i
    BY <1>0, <1>4, ZenonT(60) DEF AllowAgain, PortalTypeOK, PortalCalls
  <2>. QED  BY <2>1, <2>2, TellsStays
<1>5. CASE kportal_aread(t)
  <2>1. StateFit' /\ About(t, i)
    BY <1>5, AreadFits
  <2>2. pcall'[t].id = i
    BY <1>0, <1>5 DEF kportal_aread, PortalTypeOK, PortalCalls
  <2>. QED  BY <2>1, <2>2, TellsStays
<1>6. CASE WaitPieceRead(t)
  <2>1. StateFit' /\ About(t, i)
    BY <1>6, PieceFits
  <2>2. pcall'[t].id = i
    <3>1. pcall[t].at = "await"
      BY <1>6 DEF WaitPieceRead, InPortal
    <3>2. PICK m \in Piece : Met(t, m)
      BY <1>6, PieceFacts
    <3>. QED  BY <3>1, <3>2, MetFacts
  <2>. QED  BY <2>1, <2>2, TellsStays
<1>7. CASE CompleteRead(t)
  <2>1. StateFit' /\ About(t, i)
    BY <1>7, CompleteFits
  <2>2. i \in PortalId => allowed[i] = None
    BY <1>0, <1>7 DEF CompleteRead, InPortal, AllowsFit
  <2>3. i \in PortalId => kportal_allows'[i] = allowed'[i]
    BY <1>0, <1>7, <2>2 DEF CompleteRead, ResetAllows, portalKernelVars, PortalTypeOK
  <2>. QED  BY <2>1, <2>3, TellsStays
<1>8. CASE ReadRefused(t) \/ ReadError(t)
  <2>1. StateFit' /\ About(t, i)
    BY <1>8, FailFits
  <2>2. pcall[t].at \in {"aread", "await"} /\ pcall[t].at \in ReadPlaces
    BY <1>8 DEF ReadRefused, ReadError, InPortal, ReadPlaces
  <2>3. i \in PortalId /\ kportal_allows[i] = pcall[t].out /\ From(t) \in {None, pcall[t].out}
        /\ allowed[i] = From(t)
    BY <2>2, ReadFacts DEF From
  <2>4. kportal_allows' = kportal_allows /\ i \in leftover'
    BY <1>8 DEF ReadRefused, ReadError, ReadFails
  <2>5. allowed'[i] \in {allowed[i], None}
    BY <1>0, <1>8, <2>3 DEF ReadRefused, ReadError, PortalTypeOK
  <2>6. kportal_allows'[i] = allowed'[i] \/ allowed'[i] = None
    BY <2>3, <2>4, <2>5
  <2>. QED  BY <2>1, <2>4, <2>6, TellsStays
<1>. QED  BY <1>1, <1>2, <1>3, <1>4, <1>5, <1>6, <1>7, <1>8 DEF PortalStep

-----------------------------------------------------------------------------
(* The stream of an output                                                 *)

LEMMA OneReader ==
    ASSUME StateFit, NEW o \in Output, NEW t \in ReadsFrom(o), NEW u \in ReadsFrom(o)
    PROVE  t = u
<1>0. t \in Thread /\ u \in Thread /\ pcall[t].at \in ReadPlaces /\ pcall[u].at \in ReadPlaces
      /\ pcall[t].out = o /\ pcall[u].out = o /\ o # None
  BY PortalAssumption DEF ReadsFrom
<1>1. /\ pcall[t].id \in PortalId /\ inportal[pcall[t].id] = OutTo[o] /\ pcall[t].id \in Uses(t)
  BY <1>0, ReadFacts
<1>2. /\ pcall[u].id \in PortalId /\ inportal[pcall[u].id] = OutTo[o] /\ pcall[u].id \in Uses(u)
  BY <1>0, ReadFacts
<1>3. inportal[pcall[t].id] # None
  BY <1>0, <1>1, OwnPortal
<1>4. pcall[t].id = pcall[u].id
  BY <1>1, <1>2, <1>3 DEF StateFit, PortsApart
<1>. QED  BY <1>0, <1>1, <1>2, <1>4 DEF StateFit, UsesApart

LEMMA OneWriter ==
    ASSUME StateFit, NEW o \in Output, NEW t \in WritesTo(o), NEW u \in WritesTo(o)
    PROVE  t = u
<1>1. t \in Thread /\ u \in Thread /\ PortalFit(t) /\ PortalFit(u) /\ scene \in Scenes
      /\ pcall[t].at \in WritePlaces /\ pcall[u].at \in WritePlaces /\ pcall[t].out = o /\ pcall[u].out = o
  BY DEF WritesTo, StateFit, ThreadFit, PortalTypes
<1>2. o \in scene.writers[t] /\ o \in scene.writers[u]
  BY <1>1 DEF PortalFit
<1>. QED  BY <1>1, <1>2, SceneFits

LEMMA ReaderKnown ==
    ASSUME StateFit, NEW o \in Output, NEW t \in ReadsFrom(o)
    PROVE  GotOf(o) = GotBy(t, o) /\ MetOf(o) = MetBy(t, o)
<1>1. Reader(o) \in ReadsFrom(o)
  BY DEF Reader, ReadsFrom
<1>2. Reader(o) = t
  BY <1>1, OneReader
<1>3. ReadsFrom(o) # {}
  OBVIOUS
<1>. QED  BY <1>2, <1>3, Zenon DEF GotOf, MetOf, GotBy, MetBy

LEMMA WriterKnown ==
    ASSUME StateFit, NEW o \in Output, NEW t \in WritesTo(o)
    PROVE  Cursor(o) = IF pcall[t].at = "awrite" THEN PieceOf(o, written[o], pcall[t].part)
                       ELSE NextPiece(PieceOf(o, written[o], pcall[t].part))
<1>1. Writer(o) \in WritesTo(o)
  BY DEF Writer, WritesTo
<1>2. Writer(o) = t
  BY <1>1, OneWriter
<1>3. WritesTo(o) # {}
  OBVIOUS
<1>. QED  BY <1>2, <1>3, Zenon DEF Cursor

LEMMA NobodyReads ==
    ASSUME NEW o, ReadsFrom(o) = {}
    PROVE  GotOf(o) = <<>> /\ MetOf(o) = <<>>
BY DEF GotOf, MetOf

LEMMA NobodyWrites ==
    ASSUME NEW o, WritesTo(o) = {}
    PROVE  Cursor(o) = PieceOf(o, written[o] + 1, 1)
BY DEF Cursor

\* What the reader, the writer or their absence says of the stream, now and after a step.
Known ==
    \A o \in Output :
        /\ \A t \in ReadsFrom(o) : GotOf(o) = GotBy(t, o) /\ MetOf(o) = MetBy(t, o)
        /\ \A t \in WritesTo(o) :
             Cursor(o) = IF pcall[t].at = "awrite" THEN PieceOf(o, written[o], pcall[t].part)
                         ELSE NextPiece(PieceOf(o, written[o], pcall[t].part))
        /\ ReadsFrom(o) = {} => GotOf(o) = <<>> /\ MetOf(o) = <<>>
        /\ WritesTo(o) = {} => Cursor(o) = PieceOf(o, written[o] + 1, 1)

LEMMA KnownNow == StateFit => Known
BY ReaderKnown, WriterKnown, NobodyReads, NobodyWrites DEF Known

LEMMA KnownAfter == StateFit' => Known'
<1>1. (StateFit => Known)'
  BY KnownNow, PTL
<1>. QED  BY <1>1

LEMMA OnlyOne ==
    StateFit => \A o \in Output : /\ \A t, u \in ReadsFrom(o) : t = u
                                  /\ \A t, u \in WritesTo(o) : t = u
BY OneReader, OneWriter

LEMMA OnlyOneAfter ==
    StateFit' => \A o \in Output : /\ \A t, u \in ReadsFrom(o)' : t = u
                                   /\ \A t, u \in WritesTo(o)' : t = u
<1>1. (StateFit => \A o \in Output : /\ \A t, u \in ReadsFrom(o) : t = u
                                     /\ \A t, u \in WritesTo(o) : t = u)'
  BY OnlyOne, PTL
<1>. QED  BY <1>1

\* A step of t leaves the stream's view of readers if it leaves the view that t gives.
LEMMA ReaderStays ==
    ASSUME StateFit, StateFit', NEW t \in Thread, \A u \in Thread \ {t} : pcall'[u] = pcall[u],
           NEW o \in Output, GotBy(t, o)' = GotBy(t, o), MetBy(t, o)' = MetBy(t, o)
    PROVE  GotOf(o)' = GotOf(o) /\ MetOf(o)' = MetOf(o)
<1>1. \A u \in Thread \ {t} : /\ u \in ReadsFrom(o) <=> u \in ReadsFrom(o)'
                              /\ GotBy(u, o)' = GotBy(u, o) /\ MetBy(u, o)' = MetBy(u, o)
  BY DEF ReadsFrom, GotBy, MetBy
<1>2. CASE \E u \in Thread \ {t} : u \in ReadsFrom(o)
  <2>1. PICK u \in Thread \ {t} : u \in ReadsFrom(o)
    BY <1>2
  <2>2. GotOf(o) = GotBy(u, o) /\ MetOf(o) = MetBy(u, o)
    BY <2>1, KnownNow DEF Known
  <2>3. GotOf(o)' = GotBy(u, o)' /\ MetOf(o)' = MetBy(u, o)'
    BY <1>1, <2>1, KnownAfter DEF Known
  <2>. QED  BY <1>1, <2>1, <2>2, <2>3
<1>3. CASE \A u \in Thread \ {t} : u \notin ReadsFrom(o)
  <2>1. ReadsFrom(o) \subseteq {t} /\ ReadsFrom(o)' \subseteq {t}
    BY <1>1, <1>3 DEF ReadsFrom
  <2>2. GotOf(o) = GotBy(t, o) /\ MetOf(o) = MetBy(t, o)
    <3>1. CASE t \in ReadsFrom(o)
      BY <3>1, KnownNow DEF Known
    <3>2. CASE t \notin ReadsFrom(o)
      <4>1. ReadsFrom(o) = {}
        BY <2>1, <3>2
      <4>. QED  BY <3>2, <4>1, KnownNow DEF Known, GotBy, MetBy
    <3>. QED  BY <3>1, <3>2
  <2>3. GotOf(o)' = GotBy(t, o)' /\ MetOf(o)' = MetBy(t, o)'
    <3>1. CASE t \in ReadsFrom(o)'
      BY <3>1, KnownAfter DEF Known
    <3>2. CASE t \notin ReadsFrom(o)'
      <4>1. ReadsFrom(o)' = {}
        BY <2>1, <3>2
      <4>2. GotBy(t, o)' = <<>> /\ MetBy(t, o)' = <<>>
        BY <3>2 DEF GotBy, MetBy
      <4>. QED  BY <4>1, <4>2, KnownAfter DEF Known
    <3>. QED  BY <3>1, <3>2
  <2>. QED  BY <2>2, <2>3
<1>. QED  BY <1>2, <1>3

LEMMA CursorStays ==
    ASSUME StateFit, StateFit', NEW t \in Thread, \A u \in Thread \ {t} : pcall'[u] = pcall[u],
           NEW o \in Output, SentBy(t, o)' = SentBy(t, o), written'[o] = written[o], scene' = scene
    PROVE  Cursor(o)' = Cursor(o)
<1>0. \A m : NextPiece(m)' = NextPiece(m)
  BY DEF NextPiece, PieceOf
<1>1. /\ WritesTo(o)' = WritesTo(o)
      /\ \A u \in WritesTo(o) : pcall'[u].at = pcall[u].at /\ pcall'[u].part = pcall[u].part
  BY DEF WritesTo, SentBy
<1>2. CASE WritesTo(o) = {}
  BY <1>1, <1>2, KnownNow, KnownAfter DEF Known
<1>3. CASE WritesTo(o) # {}
  <2>1. PICK u : u \in WritesTo(o)
    BY <1>3
  <2>2. u \in WritesTo(o)'
    BY <1>1, <2>1
  <2>3. Cursor(o) = IF pcall[u].at = "awrite" THEN PieceOf(o, written[o], pcall[u].part)
                    ELSE NextPiece(PieceOf(o, written[o], pcall[u].part))
    BY <2>1, KnownNow DEF Known
  <2>4. Cursor(o)' = IF pcall'[u].at = "awrite" THEN PieceOf(o, written'[o], pcall'[u].part)
                     ELSE NextPiece(PieceOf(o, written[o], pcall[u].part))'
    BY <2>2, KnownAfter DEF Known
  <2>. QED  BY <1>1, <2>1, <2>3, <2>4 DEF NextPiece, PieceOf
<1>. QED  BY <1>2, <1>3

LEMMA FlightTyped ==
    ASSUME StateFit, NEW o \in Output
    PROVE  /\ GotOf(o) \in Seq(Piece) /\ MetOf(o) \in Seq(Piece) /\ keptPieces[o] \in Seq(Piece)
           /\ LinkOf(o) \in Seq(Piece) /\ InKernel(o) \in Seq(Piece) /\ InFlight(o) \in Seq(Piece)
           /\ delivered[o] \in Seq(Seq(Piece)) /\ written[o] \in Nat /\ scene.pieces \in Nat \ {0}
<1>0. PortalTypeOK /\ PortalTypes
  BY DEF StateFit, PortalTypes
<1>1. GotOf(o) \in Seq(Piece) /\ MetOf(o) \in Seq(Piece)
  <2>1. CASE ReadsFrom(o) = {}
    <3>1. GotOf(o) = <<>> /\ MetOf(o) = <<>>
      BY <2>1, NobodyReads
    <3>. QED  BY <3>1
  <2>2. CASE ReadsFrom(o) # {}
    <3>1. PICK t : t \in ReadsFrom(o)
      BY <2>2
    <3>2. pcall[t] \in PortalCalls
      BY <1>0, <3>1 DEF ReadsFrom, PortalTypeOK
    <3>3. pcall[t].got \in Seq(Piece) /\ pcall[t].met \in Piece \cup {None}
      BY <3>2, CallFields
    <3>4. GotOf(o) = GotBy(t, o) /\ MetOf(o) = MetBy(t, o)
      BY <3>1, ReaderKnown
    <3>. QED  BY <3>1, <3>3, <3>4 DEF GotBy, MetBy
  <2>. QED  BY <2>1, <2>2
<1>2. keptPieces[o] \in Seq(Piece)
  BY <1>0 DEF PortalTypeOK
<1>3. LinkOf(o) \in Seq(Piece)
  <2>1. OutNode[o] \in RemoteNode
    BY DEF RemoteNode
  <2>2. link[OutNode[o]] \in Piece \cup {None}
    BY <1>0, <2>1 DEF PortalTypeOK
  <2>. QED  BY <2>2 DEF LinkOf
<1>4. InKernel(o) \in Seq(Piece) /\ InFlight(o) \in Seq(Piece)
  BY <1>1, <1>2, <1>3 DEF InFlight, InKernel
<1>. QED  BY <1>0, <1>1, <1>2, <1>3, <1>4, SceneFits DEF PortalTypes, PortalTypeOK

\* What appending to a queue and taking from one do.
LEMMA AppendFacts ==
    ASSUME NEW S, NEW q \in Seq(S), NEW e \in S
    PROVE  /\ Append(q, e) \in Seq(S) /\ Len(Append(q, e)) = Len(q) + 1
           /\ Append(q, e)[Len(q) + 1] = e /\ Append(q, e) # <<>> /\ Len(q) \in Nat
           /\ \A x \in 1..Len(q) : Append(q, e)[x] = q[x]
           /\ DOMAIN Append(q, e) = 1..Len(q) + 1 /\ DOMAIN q = 1..Len(q)
OBVIOUS

LEMMA TailFacts ==
    ASSUME NEW S, NEW q \in Seq(S), q # <<>>
    PROVE  /\ q[1] \in S /\ Len(q) \in Nat \ {0}
           /\ Tail(q) \in Seq(S) /\ Len(Tail(q)) = Len(q) - 1
           /\ \A x \in 1..Len(q) - 1 : Tail(q)[x] = q[x + 1]
OBVIOUS

\* A stream after a step is told by what the reader, the kernel and the writer have then.
LEMMA StreamAfter ==
    ASSUME NEW o, scene' = scene,
           StreamOf(o, written'[o], delivered'[o], GotOf(o)', InFlight(o)', Cursor(o)')
    PROVE  Stream(o)'
BY DEF Stream, StreamOf, Expected, Chain, NextPiece, PieceOf, Whole

\* A call of kportal_write.
LEMMA StreamWrites ==
    ASSUME NEW o, NEW w \in Nat, NEW v \in Nat, v >= w, NEW d \in Seq(Seq(Piece)),
           NEW g \in Seq(Piece), NEW q \in Seq(Piece), NEW c, StreamOf(o, w, d, g, q, c)
    PROVE  StreamOf(o, v, d, g, q, c)
<1>1. \A x \in 1..Len(q) : q[x].msg \in Nat
  <2>1. \A x \in 1..Len(q) : q[x] \in Piece
    OBVIOUS
  <2>. QED  BY <2>1 DEF Piece
<1>2. \A x \in 1..Len(q) : q[x].msg <= v
  BY <1>1 DEF StreamOf
<1>. QED  BY <1>2 DEF StreamOf

\* A piece is sent.
LEMMA StreamSends ==
    ASSUME NEW o, NEW w \in Nat, NEW d \in Seq(Seq(Piece)), NEW g \in Seq(Piece),
           NEW q \in Seq(Piece), NEW c \in Piece, StreamOf(o, w, d, g, q, c), c.msg <= w
    PROVE  StreamOf(o, w, d, g, Append(q, c), NextPiece(c))
<1>1. PICK b : b = Expected(o, d, g)
  OBVIOUS
<1>2. Chain(q, b, c)
  BY <1>1 DEF StreamOf
<1>3. PICK r : r = Append(q, c)
  OBVIOUS
<1>4. /\ r \in Seq(Piece) /\ Len(r) = Len(q) + 1 /\ r[Len(r)] = c /\ r # <<>>
      /\ \A x \in 1..Len(q) : r[x] = q[x]
      /\ Len(q) \in Nat /\ (q # <<>> => Len(q) > 0)
  <2>1. q # <<>> => Len(q) > 0
    OBVIOUS
  <2>2. r[Len(r)] = r[Len(q) + 1]
    BY <1>3, AppendFacts
  <2>. QED  BY <1>3, <2>1, <2>2, AppendFacts
<1>5. Chain(r, b, NextPiece(c))
  <2>1. CASE q = <<>>
    BY <1>2, <1>4, <2>1 DEF Chain
  <2>2. CASE q # <<>>
    <3>1. q[1] = b /\ NextPiece(q[Len(q)]) = c /\ \A x \in 1..Len(q) - 1 : q[x + 1] = NextPiece(q[x])
      BY <1>2, <2>2 DEF Chain
    <3>2. ASSUME NEW x \in 1..Len(r) - 1 PROVE r[x + 1] = NextPiece(r[x])
      <4>1. x \in 1..Len(q) /\ r[x] = q[x]
        BY <1>4
      <4>2. CASE x = Len(q)
        BY <1>4, <3>1, <4>1, <4>2
      <4>3. CASE x # Len(q)
        <5>1. x \in 1..Len(q) - 1 /\ x + 1 \in 1..Len(q)
          BY <1>4, <4>1, <4>3
        <5>2. r[x + 1] = q[x + 1] /\ q[x + 1] = NextPiece(q[x])
          BY <1>4, <3>1, <5>1
        <5>. QED  BY <4>1, <5>2
      <4>. QED  BY <4>2, <4>3
    <3>3. r[1] = b
      <4>1. 1 \in 1..Len(q)
        BY <1>4, <2>2
      <4>. QED  BY <1>4, <3>1, <4>1
    <3>. QED  BY <1>4, <3>2, <3>3 DEF Chain
  <2>. QED  BY <2>1, <2>2
<1>6. ASSUME NEW x \in 1..Len(r) PROVE r[x].msg <= w
  <2>1. CASE x = Len(r)
    BY <1>4, <2>1
  <2>2. CASE x # Len(r)
    <3>1. x \in 1..Len(q) /\ r[x] = q[x]
      BY <1>4, <2>2
    <3>. QED  BY <3>1 DEF StreamOf
  <2>. QED  BY <2>1, <2>2
<1>. QED  BY <1>1, <1>3, <1>5, <1>6 DEF StreamOf

\* The reader gets a piece.
LEMMA StreamGets ==
    ASSUME NEW o, NEW w \in Nat, NEW d \in Seq(Seq(Piece)), NEW g \in Seq(Piece),
           NEW q \in Seq(Piece), NEW c, StreamOf(o, w, d, g, q, c), q # <<>>,
           scene.pieces \in Nat, Len(g) < scene.pieces
    PROVE  StreamOf(o, w, d, Append(g, q[1]), Tail(q), c)
<1>1. PICK b : b = Expected(o, d, g)
  OBVIOUS
<1>2. Chain(q, b, c) /\ q[1].msg <= w
  BY <1>1, SMTT(30) DEF StreamOf
<1>3. /\ q[1] = b /\ b = PieceOf(o, Len(d) + 1, Len(g) + 1)
  BY <1>1, <1>2 DEF Chain, Expected
<1>4. PICK h : h = Append(g, q[1])
  OBVIOUS
<1>5. PICK r : r = Tail(q)
  OBVIOUS
<1>6. /\ h \in Seq(Piece) /\ Len(h) = Len(g) + 1 /\ h[Len(g) + 1] = q[1] /\ h # <<>>
      /\ \A j \in 1..Len(g) : h[j] = g[j]
  BY <1>4, TailFacts, AppendFacts
<1>7. /\ r \in Seq(Piece) /\ Len(r) = Len(q) - 1
      /\ \A x \in 1..Len(r) : r[x] = q[x + 1] /\ x + 1 \in 1..Len(q)
      /\ Len(q) \in Nat \ {0}
  BY <1>5, TailFacts
<1>8. NextPiece(b) = Expected(o, d, h)
  BY <1>3, <1>6 DEF NextPiece, Expected, PieceOf
<1>9. Chain(r, NextPiece(b), c)
  <2>1. CASE Len(q) = 1
    <3>1. r = <<>> /\ NextPiece(q[Len(q)]) = c
      BY <1>2, <1>7, <2>1 DEF Chain
    <3>. QED  BY <1>3, <2>1, <3>1 DEF Chain
  <2>2. CASE Len(q) # 1
    <3>1. /\ \A x \in 1..Len(q) - 1 : q[x + 1] = NextPiece(q[x])
          /\ NextPiece(q[Len(q)]) = c
      BY <1>2 DEF Chain
    <3>2. Len(q) > 1 /\ r # <<>> /\ r[1] = q[2] /\ r[Len(r)] = q[Len(q)]
      BY <1>7, <2>2
    <3>3. r[1] = NextPiece(b)
      BY <1>3, <3>1, <3>2
    <3>4. ASSUME NEW x \in 1..Len(r) - 1 PROVE r[x + 1] = NextPiece(r[x])
      <4>1. x \in 1..Len(r) /\ x + 1 \in 1..Len(r) /\ x + 1 \in 1..Len(q) - 1
        BY <1>7
      <4>2. r[x] = q[x + 1] /\ r[x + 1] = q[(x + 1) + 1]
        BY <1>7, <4>1
      <4>. QED  BY <3>1, <4>1, <4>2
    <3>. QED  BY <3>1, <3>2, <3>3, <3>4 DEF Chain
  <2>. QED  BY <2>1, <2>2
<1>10. ASSUME NEW x \in 1..Len(r) PROVE r[x].msg <= w
  <2>1. r[x] = q[x + 1] /\ x + 1 \in 1..Len(q)
    BY <1>7
  <2>. QED  BY <2>1 DEF StreamOf
<1>11. Len(d) < w
  BY <1>2, <1>3 DEF PieceOf
<1>12. ASSUME NEW j \in 1..Len(h) PROVE h[j] = PieceOf(o, Len(d) + 1, j)
  <2>1. CASE j = Len(g) + 1
    BY <1>3, <1>6, <2>1
  <2>2. CASE j # Len(g) + 1
    <3>1. j \in 1..Len(g) /\ h[j] = g[j]
      BY <1>6, <2>2
    <3>. QED  BY <3>1 DEF StreamOf
  <2>. QED  BY <2>1, <2>2
<1>. QED  BY <1>4, <1>5, <1>8, <1>9, <1>10, <1>11, <1>12 DEF StreamOf

\* The read returns a message.
LEMMA StreamDelivers ==
    ASSUME NEW o, NEW w \in Nat, NEW d \in Seq(Seq(Piece)), NEW g \in Seq(Piece),
           NEW q \in Seq(Piece), NEW c, StreamOf(o, w, d, g, q, c),
           scene.pieces \in Nat \ {0}, Len(g) = scene.pieces
    PROVE  StreamOf(o, w, Append(d, g), <<>>, q, c)
<1>1. PICK e : e = Append(d, g)
  OBVIOUS
<1>2. /\ Len(e) = Len(d) + 1 /\ e[Len(d) + 1] = g /\ DOMAIN e = 1..Len(d) + 1
      /\ \A k \in 1..Len(d) : e[k] = d[k]
      /\ Len(d) \in Nat /\ DOMAIN d = 1..Len(d)
  BY <1>1, AppendFacts
<1>3. g = Whole(o, Len(d) + 1)
  <2>1. /\ g = [j \in 1..scene.pieces |-> g[j]]
    OBVIOUS
  <2>2. \A j \in 1..scene.pieces : g[j] = PieceOf(o, Len(d) + 1, j)
    BY DEF StreamOf
  <2>. QED  BY <2>1, <2>2 DEF Whole, PieceOf
<1>4. ASSUME NEW k \in DOMAIN e PROVE e[k] = Whole(o, k)
  <2>1. CASE k = Len(d) + 1
    BY <1>2, <1>3, <2>1
  <2>2. CASE k # Len(d) + 1
    <3>1. k \in DOMAIN d /\ e[k] = d[k]
      BY <1>2, <2>2
    <3>. QED  BY <3>1 DEF StreamOf
  <2>. QED  BY <2>1, <2>2
<1>5. Len(d) < w /\ Len(e) <= w
  BY <1>2 DEF StreamOf
<1>6. Expected(o, e, <<>>) = Expected(o, d, g)
  BY <1>2 DEF Expected
<1>. QED  BY <1>1, <1>4, <1>5, <1>6 DEF StreamOf

\* A step that changes nothing of a stream but the number of writes.
LEMMA StreamStays ==
    ASSUME StateFit, StateFit', NEW t \in Thread, scene' = scene,
           \A u \in Thread \ {t} : pcall'[u] = pcall[u],
           NEW o \in Output, Stream(o), written'[o] >= written[o], delivered'[o] = delivered[o],
           GotBy(t, o)' = GotBy(t, o), MetBy(t, o)' = MetBy(t, o), InKernel(o)' = InKernel(o),
           Cursor(o)' = Cursor(o)
    PROVE  Stream(o)'
<1>0. /\ InFlight(o) \in Seq(Piece) /\ delivered[o] \in Seq(Seq(Piece)) /\ written[o] \in Nat
      /\ GotOf(o) \in Seq(Piece)
  BY FlightTyped
<1>1. written'[o] \in Nat
  BY DEF StateFit, PortalTypes, PortalTypeOK
<1>2. GotOf(o)' = GotOf(o) /\ InFlight(o)' = InFlight(o)
  BY ReaderStays DEF InFlight
<1>3. StreamOf(o, written'[o], delivered[o], GotOf(o), InFlight(o), Cursor(o))
  BY <1>0, <1>1, StreamWrites DEF Stream
<1>. QED  BY <1>2, <1>3, StreamAfter

\* A step that leaves what lies in the kernel.
LEMMA Quiet ==
    ASSUME StateFit, StateFit', Streams, NEW t \in Thread, scene' = scene,
           \A u \in Thread \ {t} : pcall'[u] = pcall[u],
           UNCHANGED <<delivered, link, keptPieces>>,
           \A o \in Output : written'[o] >= written[o],
           broken \subseteq broken',
           \A o \in Output \ broken' :
              GotBy(t, o)' = GotBy(t, o) /\ MetBy(t, o)' = MetBy(t, o) /\ Cursor(o)' = Cursor(o)
    PROVE  Streams'
<1>. SUFFICES ASSUME NEW o \in Output, o \notin broken' PROVE Stream(o)'
  BY DEF Streams
<1>1. Stream(o)
  BY DEF Streams
<1>2. InKernel(o)' = InKernel(o)
  BY DEF InKernel, LinkOf
<1>. QED  BY <1>1, <1>2, StreamStays

\* A thread that does not read, or has got nothing yet, or reads something else.
LEMMA EmptyRead ==
    ASSUME NEW t \in Thread, NEW o \in Output,
           \/ pcall[t].at \notin ReadPlaces \/ pcall[t].out # o
           \/ pcall[t].got = <<>> /\ pcall[t].met = None
    PROVE  GotBy(t, o) = <<>> /\ MetBy(t, o) = <<>>
BY DEF GotBy, MetBy, ReadsFrom

LEMMA EmptyReadAfter ==
    ASSUME NEW t \in Thread, NEW o \in Output,
           \/ pcall'[t].at \notin ReadPlaces \/ pcall'[t].out # o
           \/ pcall'[t].got = <<>> /\ pcall'[t].met = None
    PROVE  GotBy(t, o)' = <<>> /\ MetBy(t, o)' = <<>>
BY DEF GotBy, MetBy, ReadsFrom

\* A read that goes on with what it has.
LEMMA SameRead ==
    ASSUME NEW t \in Thread, NEW o \in Output,
           pcall[t].at \in ReadPlaces, pcall'[t].at \in ReadPlaces, pcall'[t].out = pcall[t].out,
           pcall'[t].got = pcall[t].got, pcall'[t].met = pcall[t].met
    PROVE  GotBy(t, o)' = GotBy(t, o) /\ MetBy(t, o)' = MetBy(t, o)
BY DEF GotBy, MetBy, ReadsFrom

\* A thread that does not write, or writes something else.
LEMMA NothingSent ==
    ASSUME NEW t \in Thread, NEW o \in Output,
           pcall[t].at \notin WritePlaces \/ pcall[t].out # o,
           pcall'[t].at \notin WritePlaces \/ pcall'[t].out # o
    PROVE  SentBy(t, o)' = SentBy(t, o)
BY DEF SentBy, WritesTo

\* A call begins with nothing.
LEMMA CallStreams ==
    ASSUME StateFit, StateFit', Streams, NEW t \in Thread, PortalCall(t)
    PROVE  Streams'
<1>0. /\ PortalTypeOK /\ scene \in Scenes /\ scene.writers[t] \subseteq Output /\ PortalTypeOK'
  BY SceneFits DEF StateFit, PortalTypes
<1>1. pcall[t] = NoPortalCall
  BY IdleThread DEF PortalCall, kportal_create, kportal_unlink, kportal_read, kportal_allow,
     kportal_write, kportal_open, kportal_close
<1>2. /\ scene' = scene /\ \A u \in Thread \ {t} : pcall'[u] = pcall[u]
      /\ UNCHANGED <<delivered, link, keptPieces>> /\ broken' = broken
  <2>1. /\ scene' = scene
        /\ UNCHANGED <<delivered, link, keptPieces>> /\ broken' = broken
    BY DEF PortalCall, kportal_create, kportal_unlink, kportal_read, kportal_allow,
       kportal_write, kportal_open, kportal_close, processVars, linkVars, portalKernelVars, portalHistory
  <2>2. \A u \in Thread \ {t} : pcall'[u] = pcall[u]
    BY <1>0, ZenonT(60) DEF PortalCall, kportal_create, kportal_unlink, kportal_read, kportal_allow,
       kportal_write, kportal_open, kportal_close, PortalTypeOK
  <2>. QED  BY <2>1, <2>2
<1>3. /\ pcall'[t].got = <<>> /\ pcall'[t].met = None
      /\ \/ pcall'[t].at \in {"idle", "reset", "set", "aread"}
         \/ \E w \in scene.writers[t] : kportal_write(t, w)
  <2>0. pcall[t] \in PortalCalls /\ pcall[t].got = <<>> /\ pcall[t].met = None /\ pcall[t].at = "idle"
    BY <1>0, <1>1, IdlePortal
  <2>1. CASE \E p \in PortalPort : kportal_create(t, p)
    <3>1. PICK i \in PortalId : pcall' = [pcall EXCEPT ![t].at = "reset", ![t].id = i]
      BY <2>1 DEF kportal_create
    <3>. QED  BY <1>0, <2>0, <3>1 DEF PortalTypeOK, PortalCalls
  <2>2. CASE \E i \in reads[t] : kportal_read(t, i)
    <3>1. PICK i \in reads[t] :
            pcall' = [pcall EXCEPT ![t] = [NoPortalCall EXCEPT !.at = "aread", !.id = i,
                                                               !.out = kportal_allows[i]]]
      BY <2>2 DEF kportal_read
    <3>2. pcall'[t] = [NoPortalCall EXCEPT !.at = "aread", !.id = i, !.out = kportal_allows[i]]
      BY <1>0, <3>1 DEF PortalTypeOK
    <3>. QED  BY <3>2 DEF NoPortalCall
  <2>3. CASE \E i \in reads[t] : \E o \in Output : kportal_allow(t, i, o)
    <3>1. PICK i \in reads[t], o \in Output :
            pcall' = [pcall EXCEPT ![t].at = "set", ![t].id = i, ![t].out = o]
      BY <2>3 DEF kportal_allow
    <3>. QED  BY <1>0, <2>0, <3>1 DEF PortalTypeOK, PortalCalls
  <2>4. CASE \E w \in scene.writers[t] : kportal_write(t, w)
    <3>1. PICK w \in scene.writers[t] :
            pcall' = [pcall EXCEPT ![t].at = "awrite", ![t].out = w, ![t].part = 1]
      BY <2>4 DEF kportal_write
    <3>. QED  BY <1>0, <2>0, <2>4, <3>1 DEF PortalTypeOK, PortalCalls
  <2>5. CASE \/ \E i \in reads[t] : kportal_unlink(t, i)
             \/ \E o \in scene.writers[t] \cap scene.opens : kportal_open(t, o) \/ kportal_close(t, o)
    <3>1. pcall' = pcall
      BY <2>5 DEF kportal_unlink, kportal_open, kportal_close
    <3>. QED  BY <2>0, <3>1
  <2>. QED  BY <2>1, <2>2, <2>3, <2>4, <2>5 DEF PortalCall
<1>4. \A o \in Output : /\ GotBy(t, o)' = GotBy(t, o) /\ MetBy(t, o)' = MetBy(t, o)
                        /\ SentBy(t, o) = <<>>
  <2>1. \A o \in Output : GotBy(t, o) = <<>> /\ MetBy(t, o) = <<>>
    BY <1>1, IdlePortal, EmptyRead
  <2>2. \A o \in Output : GotBy(t, o)' = <<>> /\ MetBy(t, o)' = <<>>
    BY <1>3, EmptyReadAfter
  <2>3. \A o \in Output : SentBy(t, o) = <<>>
    BY <1>1, IdlePortal DEF SentBy, WritesTo, WritePlaces
  <2>. QED  BY <2>1, <2>2, <2>3
<1>5. CASE \E w \in scene.writers[t] : kportal_write(t, w)
  <2>1. PICK w \in Output : w \in scene.writers[t] /\ kportal_write(t, w)
    BY <1>0, <1>5
  <2>2. /\ written' = [written EXCEPT ![w] = @ + 1]
        /\ pcall' = [pcall EXCEPT ![t].at = "awrite", ![t].out = w, ![t].part = 1]
    BY <2>1 DEF kportal_write
  <2>3. pcall'[t].at = "awrite" /\ pcall'[t].out = w /\ pcall'[t].part = 1
    BY <1>0, <2>2 DEF PortalTypeOK, PortalCalls
  <2>4. \A o \in Output : written'[o] >= written[o] /\ (o # w => written'[o] = written[o])
    BY <1>0, <2>2 DEF PortalTypeOK
  <2>5. ASSUME NEW o \in Output, o # w PROVE Cursor(o)' = Cursor(o)
    <3>1. SentBy(t, o)' = SentBy(t, o)
      BY <1>1, <2>3, <2>5, IdlePortal, NothingSent DEF WritePlaces
    <3>. QED  BY <1>2, <2>4, <2>5, <3>1, CursorStays
  <2>6. Cursor(w)' = Cursor(w)
    <3>1. WritesTo(w) = {}
      <4>1. ASSUME NEW u \in WritesTo(w) PROVE FALSE
        <5>1. u \in Thread /\ pcall[u].at \in WritePlaces /\ pcall[u].out = w
          BY DEF WritesTo
        <5>2. w \in scene.writers[u]
          BY <5>1 DEF StateFit, ThreadFit, PortalFit
        <5>3. u # t
          BY <1>1, <5>1, IdlePortal DEF WritePlaces
        <5>. QED  BY <1>0, <2>1, <5>1, <5>2, <5>3, SceneFits
      <4>. QED  BY <4>1
    <3>2. t \in WritesTo(w)'
      BY <2>3 DEF WritesTo, WritePlaces
    <3>3. Cursor(w) = PieceOf(w, written[w] + 1, 1)
      BY <3>1, KnownNow DEF Known
    <3>4. Cursor(w)' = PieceOf(w, written'[w], 1)
      BY <2>3, <3>2, KnownAfter DEF Known
    <3>5. written'[w] = written[w] + 1
      BY <1>0, <2>2 DEF PortalTypeOK
    <3>. QED  BY <3>3, <3>4, <3>5
  <2>. QED  BY <1>2, <1>4, <2>4, <2>5, <2>6, Quiet
<1>6. CASE ~\E w \in scene.writers[t] : kportal_write(t, w)
  <2>1. written' = written /\ pcall'[t].at \notin WritePlaces
    <3>1. written' = written
      BY <1>6 DEF PortalCall, kportal_create, kportal_unlink, kportal_read, kportal_allow,
         kportal_open, kportal_close, portalHistory
    <3>2. pcall'[t].at \in {"idle", "reset", "set", "aread"}
      BY <1>3, <1>6
    <3>. QED  BY <3>1, <3>2 DEF WritePlaces
  <2>2. \A o \in Output : written'[o] >= written[o]
    BY <1>0, <2>1, WrittenStays
  <2>3. ASSUME NEW o \in Output PROVE Cursor(o)' = Cursor(o)
    <3>1. SentBy(t, o)' = SentBy(t, o)
      BY <1>1, <2>1, IdlePortal, NothingSent DEF WritePlaces
    <3>. QED  BY <1>2, <2>1, <3>1, CursorStays
  <2>. QED  BY <1>2, <1>4, <2>2, <2>3, Quiet
<1>. QED  BY <1>5, <1>6

\* A step that is no transfer of a piece leaves what everybody has.
LEMMA StillStreams ==
    ASSUME StateFit, StateFit', Streams, NEW t \in Thread,
           scene' = scene, \A u \in Thread \ {t} : pcall'[u] = pcall[u],
           UNCHANGED <<written, delivered, link, keptPieces>>, broken \subseteq broken',
           \A o \in Output \ broken' :
              /\ GotBy(t, o)' = GotBy(t, o) /\ MetBy(t, o)' = MetBy(t, o)
              /\ SentBy(t, o)' = SentBy(t, o)
    PROVE  Streams'
<1>1. \A o \in Output : written'[o] >= written[o]
  BY WrittenStays DEF StateFit, PortalTypes
<1>2. \A o \in Output \ broken' : Cursor(o)' = Cursor(o)
  BY CursorStays
<1>. QED  BY <1>1, <1>2, Quiet

LEMMA TableStreams ==
    ASSUME StateFit, StateFit', Streams, NEW t \in Thread,
           CreateReset(t) \/ SetAllow(t) \/ AllowAgain(t)
    PROVE  Streams'
<1>0. PortalTypeOK /\ pcall[t] \in PortalCalls
  BY DEF StateFit, PortalTypes, PortalTypeOK
<1>1. /\ scene' = scene /\ \A u \in Thread \ {t} : pcall'[u] = pcall[u]
      /\ UNCHANGED <<written, delivered, link, keptPieces>> /\ broken' = broken
  <2>1. scene' = scene /\ UNCHANGED <<written, delivered, link, keptPieces>> /\ broken' = broken
    BY DEF CreateReset, SetAllow, AllowAgain, processVars, portalKernelVars, linkVars, portalHistory
  <2>2. \A u \in Thread \ {t} : pcall'[u] = pcall[u]
    BY <1>0 DEF CreateReset, SetAllow, AllowAgain, PortalTypeOK
  <2>. QED  BY <2>1, <2>2
<1>2. \/ pcall[t].at \in {"reset", "set"} /\ pcall'[t] = NoPortalCall
      \/ /\ pcall[t].at \in {"set again", "again"} /\ pcall'[t].at \in {"set again", "aread"}
         /\ pcall'[t].out = pcall[t].out /\ pcall'[t].got = pcall[t].got
         /\ pcall'[t].met = pcall[t].met
  <2>1. CASE CreateReset(t)
    BY <1>0, <2>1 DEF CreateReset, InPortal, PortalTypeOK
  <2>2. CASE SetAllow(t)
    BY <1>0, <2>2 DEF SetAllow, PortalTypeOK, PortalCalls
  <2>3. CASE AllowAgain(t)
    <3>1. pcall[t].at = "again"
      BY <2>3 DEF AllowAgain, InPortal
    <3>2. PICK v \in {"set again", "aread"} : pcall' = [pcall EXCEPT ![t].at = v]
      <4>1. CASE pcall[t].out # None /\ allowed[pcall[t].id] = None
        BY <2>3, <4>1 DEF AllowAgain
      <4>2. CASE ~(pcall[t].out # None /\ allowed[pcall[t].id] = None)
        BY <2>3, <4>2 DEF AllowAgain
      <4>. QED  BY <4>1, <4>2
    <3>. QED  BY <1>0, <3>1, <3>2 DEF PortalTypeOK, PortalCalls
  <2>. QED  BY <2>1, <2>2, <2>3
<1>3. ASSUME NEW o \in Output
      PROVE  /\ GotBy(t, o)' = GotBy(t, o) /\ MetBy(t, o)' = MetBy(t, o)
             /\ SentBy(t, o)' = SentBy(t, o)
  <2>1. CASE pcall[t].at \in {"reset", "set"} /\ pcall'[t] = NoPortalCall
    <3>1. /\ pcall[t].at \notin ReadPlaces /\ pcall'[t].at \notin ReadPlaces
          /\ pcall[t].at \notin WritePlaces /\ pcall'[t].at \notin WritePlaces
      BY <2>1, IdlePortal DEF ReadPlaces, WritePlaces
    <3>. QED  BY <3>1, EmptyRead, EmptyReadAfter, NothingSent
  <2>2. CASE /\ pcall[t].at \in {"set again", "again"} /\ pcall'[t].at \in {"set again", "aread"}
             /\ pcall'[t].out = pcall[t].out /\ pcall'[t].got = pcall[t].got
             /\ pcall'[t].met = pcall[t].met
    <3>1. /\ pcall[t].at \in ReadPlaces /\ pcall'[t].at \in ReadPlaces
          /\ pcall[t].at \notin WritePlaces /\ pcall'[t].at \notin WritePlaces
      BY <2>2 DEF ReadPlaces, WritePlaces
    <3>. QED  BY <2>2, <3>1, SameRead, NothingSent
  <2>. QED  BY <1>2, <2>1, <2>2
<1>. QED  BY <1>1, <1>3, StillStreams

\* A transfer that fails spoils its output, and a read that is refused has nothing.
LEMMA FailStreams ==
    ASSUME StateFit, StateFit', Streams, NEW t \in Thread,
           ReadRefused(t) \/ ReadError(t) \/ WriteError(t)
    PROVE  Streams'
<1>0. PortalTypeOK /\ pcall[t] \in PortalCalls /\ AllowsFit(t) /\ PortalFit(t)
  BY DEF StateFit, PortalTypes, PortalTypeOK, ThreadFit
<1>1. /\ scene' = scene /\ \A u \in Thread \ {t} : pcall'[u] = pcall[u]
      /\ UNCHANGED <<written, delivered, link, keptPieces>> /\ broken \subseteq broken'
      /\ pcall'[t] = NoPortalCall
  <2>1. pcall' = [pcall EXCEPT ![t] = NoPortalCall]
    BY DEF ReadRefused, ReadError, ReadFails, WriteError
  <2>2. scene' = scene /\ UNCHANGED <<written, delivered, link, keptPieces>> /\ broken \subseteq broken'
    BY DEF ReadRefused, ReadError, ReadFails, WriteError, OneFails, processVars, portalKernelVars, linkVars
  <2>. QED  BY <1>0, <2>1, <2>2 DEF PortalTypeOK
<1>2. ASSUME NEW o \in Output \ broken'
      PROVE  /\ pcall[t].at \in ReadPlaces /\ pcall[t].out = o => pcall[t].got = <<>> /\ pcall[t].met = None
             /\ pcall[t].at \notin WritePlaces \/ pcall[t].out # o
  <2>0. o # None
    BY PortalAssumption
  <2>1. CASE ReadRefused(t)
    <3>1. pcall[t].at = "aread" /\ allowed[pcall[t].id] = None
      BY <2>1 DEF ReadRefused, InPortal, From
    <3>. QED  BY <1>0, <2>0, <3>1 DEF AllowsFit, PortalFit, ReadPlaces, WritePlaces
  <2>2. CASE ReadError(t)
    <3>1. pcall[t].at \in {"aread", "await"} /\ pcall[t].at \in ReadPlaces /\ From(t) # None
          /\ broken' = broken \cup {From(t)}
      BY <2>2 DEF ReadError, ReadPlaces
    <3>2. From(t) = pcall[t].out
      BY <3>1, ReadFacts
    <3>3. pcall[t].out # o
      BY <3>1, <3>2
    <3>. QED  BY <3>3
  <2>3. CASE WriteError(t)
    <3>1. pcall[t].at \in {"awrite", "wait"} /\ broken' = broken \cup {pcall[t].out}
      BY <2>3 DEF WriteError
    <3>2. pcall[t].out # o
      BY <3>1
    <3>. QED  BY <3>2
  <2>. QED  BY <2>1, <2>2, <2>3
<1>3. pcall'[t].at \notin ReadPlaces /\ pcall'[t].at \notin WritePlaces
  BY <1>1, IdlePortal DEF ReadPlaces, WritePlaces
<1>4. ASSUME NEW o \in Output \ broken'
      PROVE  /\ GotBy(t, o)' = GotBy(t, o) /\ MetBy(t, o)' = MetBy(t, o)
             /\ SentBy(t, o)' = SentBy(t, o)
  BY <1>2, <1>3, EmptyRead, EmptyReadAfter, NothingSent
<1>. QED  BY <1>1, <1>4, StillStreams

\* Between two pieces, the writer is to send the next one.
LEMMA SentStreams ==
    ASSUME StateFit, StateFit', Streams, NEW t \in Thread, WaitPieceSent(t)
    PROVE  Streams'
<1>0. /\ PortalTypeOK /\ pcall[t] \in PortalCalls /\ PortalFit(t) /\ scene \in Scenes
      /\ pcall[t].at = "wait"
  BY DEF WaitPieceSent, InPortal, StateFit, PortalTypes, PortalTypeOK, ThreadFit
<1>. PICK w \in Output : w = pcall[t].out
  BY <1>0, SceneFits DEF PortalFit, WritePlaces
<1>1. /\ scene' = scene /\ \A u \in Thread \ {t} : pcall'[u] = pcall[u]
      /\ UNCHANGED <<written, delivered, link, keptPieces>> /\ broken' = broken
  <2>1. scene' = scene /\ UNCHANGED <<written, delivered, link, keptPieces>> /\ broken' = broken
    BY DEF WaitPieceSent, processVars, portalKernelVars, linkVars, portalHistory
  <2>2. \A u \in Thread \ {t} : pcall'[u] = pcall[u]
    BY <1>0 DEF WaitPieceSent, PortalTypeOK
  <2>. QED  BY <2>1, <2>2
<1>2. \/ /\ pcall[t].part < scene.pieces
         /\ pcall'[t].at = "awrite" /\ pcall'[t].out = w /\ pcall'[t].part = pcall[t].part + 1
      \/ ~(pcall[t].part < scene.pieces) /\ pcall'[t] = NoPortalCall
  BY <1>0 DEF WaitPieceSent, PortalTypeOK, PortalCalls
<1>3. \A o \in Output : GotBy(t, o)' = GotBy(t, o) /\ MetBy(t, o)' = MetBy(t, o)
  <2>1. pcall[t].at \notin ReadPlaces /\ pcall'[t].at \notin ReadPlaces
    BY <1>0, <1>2, IdlePortal DEF ReadPlaces
  <2>. QED  BY <2>1, EmptyRead, EmptyReadAfter
<1>4. ASSUME NEW o \in Output, o # w PROVE Cursor(o)' = Cursor(o)
  <2>1. pcall'[t].at \notin WritePlaces \/ pcall'[t].out # o
    BY <1>2, <1>4, IdlePortal DEF WritePlaces
  <2>2. SentBy(t, o)' = SentBy(t, o)
    BY <1>4, <2>1, NothingSent
  <2>. QED  BY <1>1, <2>2, CursorStays
<1>5. w \in Output /\ pcall[t].part \in 1..scene.pieces /\ scene.pieces \in Nat \ {0}
      /\ written[w] \in Nat
  <2>1. w \in Output /\ pcall[t].part \in 1..scene.pieces
    BY <1>0, SceneFits DEF PortalFit, WritePlaces
  <2>. QED  BY <1>0, <2>1, SceneFits DEF PortalTypeOK
<1>6. Cursor(w)' = Cursor(w)
  <2>0. t \in WritesTo(w)
    BY <1>0 DEF WritesTo, WritePlaces
  <2>1. Cursor(w) = NextPiece(PieceOf(w, written[w], pcall[t].part))
    BY <1>0, <1>5, <2>0, KnownNow DEF Known
  <2>2. CASE /\ pcall[t].part < scene.pieces
             /\ pcall'[t].at = "awrite" /\ pcall'[t].out = w /\ pcall'[t].part = pcall[t].part + 1
    <3>1. t \in WritesTo(w)'
      BY <2>2 DEF WritesTo, WritePlaces
    <3>2. Cursor(w)' = PieceOf(w, written'[w], pcall'[t].part)
      BY <1>5, <2>2, <3>1, KnownAfter DEF Known
    <3>. QED  BY <1>1, <2>1, <2>2, <3>2 DEF NextPiece, PieceOf
  <2>3. CASE ~(pcall[t].part < scene.pieces) /\ pcall'[t] = NoPortalCall
    <3>1. WritesTo(w)' = {}
      <4>1. ASSUME NEW u \in WritesTo(w)' PROVE FALSE
        <5>1. u \in Thread /\ pcall'[u].at \in WritePlaces /\ pcall'[u].out = w
          BY DEF WritesTo
        <5>2. u # t
          BY <2>3, <5>1, IdlePortal DEF WritePlaces
        <5>3. u \in WritesTo(w)
          BY <1>1, <5>1, <5>2 DEF WritesTo
        <5>. QED  BY <1>5, <2>0, <5>2, <5>3, OnlyOne
      <4>. QED  BY <4>1
    <3>2. Cursor(w)' = PieceOf(w, written'[w] + 1, 1)
      BY <1>5, <3>1, KnownAfter DEF Known
    <3>. QED  BY <1>1, <2>1, <2>3, <3>2 DEF NextPiece, PieceOf
  <2>. QED  BY <1>2, <2>2, <2>3
<1>7. \A o \in Output : written'[o] >= written[o]
  BY <1>0, <1>1, WrittenStays
<1>8. \A o \in Output : Cursor(o)' = Cursor(o)
  BY <1>4, <1>6
<1>. QED  BY <1>1, <1>3, <1>7, <1>8, Quiet

\* Moving a piece along the parts of what is in flight.
LEMMA FlightEnds ==
    ASSUME NEW p \in Seq(Piece), NEW k \in Seq(Piece), NEW m \in Piece
    PROVE  p \o (k \o <<m>>) = Append(p \o (k \o <<>>), m)
OBVIOUS

LEMMA FlightMoves ==
    ASSUME NEW S, NEW k \in Seq(S), k # <<>>, NEW l \in Seq(S)
    PROVE  <<>> \o (k \o l) = <<Head(k)>> \o (Tail(k) \o l)
OBVIOUS

LEMMA FlightBegins ==
    ASSUME NEW S, NEW k \in Seq(S), NEW m \in S
    PROVE  Tail(<<m>> \o k) = <<>> \o k /\ (<<m>> \o k)[1] = m /\ <<m>> \o k # <<>>
OBVIOUS

LEMMA FlightKeeps ==
    ASSUME NEW S, NEW k \in Seq(S), NEW m \in S
    PROVE  Append(k, m) \o <<>> = k \o <<m>>
OBVIOUS

\* Nobody reads an output but the thread that did.
LEMMA OwnAfter ==
    ASSUME StateFit, StateFit', NEW t \in Thread, \A u \in Thread \ {t} : pcall'[u] = pcall[u],
           NEW o \in Output, t \in ReadsFrom(o)
    PROVE  GotOf(o)' = GotBy(t, o)' /\ MetOf(o)' = MetBy(t, o)'
<1>1. ReadsFrom(o)' \subseteq {t}
  <2>1. ASSUME NEW u \in ReadsFrom(o)', u # t PROVE FALSE
    <3>1. u \in ReadsFrom(o)
      BY <2>1 DEF ReadsFrom
    <3>. QED  BY <2>1, <3>1, OnlyOne
  <2>. QED  BY <2>1
<1>2. CASE t \in ReadsFrom(o)'
  BY <1>2, KnownAfter DEF Known
<1>3. CASE t \notin ReadsFrom(o)'
  <2>1. ReadsFrom(o)' = {}
    BY <1>1, <1>3
  <2>2. GotBy(t, o)' = <<>> /\ MetBy(t, o)' = <<>>
    BY <1>3 DEF GotBy, MetBy
  <2>. QED  BY <2>1, <2>2, KnownAfter DEF Known
<1>. QED  BY <1>2, <1>3

\* The piece that the writer was to send is the last one in flight.
LEMMA AwriteStreams ==
    ASSUME StateFit, StateFit', Streams, NEW t \in Thread, kportal_awrite(t)
    PROVE  Streams'
<1>0. /\ PortalTypeOK /\ pcall[t] \in PortalCalls /\ PortalFit(t) /\ scene \in Scenes
      /\ pcall[t].at = "awrite"
  BY DEF kportal_awrite, InPortal, StateFit, PortalTypes, PortalTypeOK, ThreadFit
<1>. PICK w \in Output : w = pcall[t].out
  BY <1>0, SceneFits DEF PortalFit, WritePlaces
<1>. PICK n \in RemoteNode : n = OutNode[w]
  BY DEF RemoteNode
<1>. PICK m : m = PieceOf(w, written[w], pcall[t].part)
  OBVIOUS
<1>1. /\ link[n] = None /\ link' = [link EXCEPT ![n] = m]
      /\ pcall' = [pcall EXCEPT ![t].at = "wait"]
      /\ scene' = scene /\ UNCHANGED <<written, delivered, keptPieces>> /\ broken' = broken
  BY DEF kportal_awrite, processVars, portalHistory, PieceOf
<1>2. /\ \A u \in Thread \ {t} : pcall'[u] = pcall[u]
      /\ pcall'[t].at = "wait" /\ pcall'[t].out = w /\ pcall'[t].part = pcall[t].part
  BY <1>0, <1>1 DEF PortalTypeOK, PortalCalls
<1>3. m \in Piece /\ m.out = w /\ m.msg = written[w] /\ m # None
  <2>1. written[w] \in Nat /\ pcall[t].part \in Nat
    BY <1>0, CallFields DEF PortalTypeOK
  <2>. QED  BY <2>1, PortalAssumption DEF PieceOf, Piece
<1>4. \A o \in Output : GotBy(t, o)' = GotBy(t, o) /\ MetBy(t, o)' = MetBy(t, o)
  <2>1. pcall[t].at \notin ReadPlaces /\ pcall'[t].at \notin ReadPlaces
    BY <1>0, <1>2 DEF ReadPlaces
  <2>. QED  BY <2>1, EmptyRead, EmptyReadAfter
<1>5. link \in [RemoteNode -> Piece \cup {None}]
  BY <1>0 DEF PortalTypeOK
<1>6. ASSUME NEW o \in Output, o \notin broken', o # w PROVE Stream(o)'
  <2>1. SentBy(t, o)' = SentBy(t, o)
    BY <1>2, <1>6, NothingSent
  <2>2. Cursor(o)' = Cursor(o)
    BY <1>1, <1>2, <2>1, CursorStays
  <2>3. LinkOf(o)' = LinkOf(o)
    <3>1. OutNode[o] \in RemoteNode
      BY DEF RemoteNode
    <3>2. CASE OutNode[o] = n
      BY <1>1, <1>3, <1>5, <1>6, <3>1, <3>2 DEF LinkOf
    <3>3. CASE OutNode[o] # n
      BY <1>1, <1>5, <3>1, <3>3 DEF LinkOf
    <3>. QED  BY <3>2, <3>3
  <2>4. InKernel(o)' = InKernel(o)
    BY <1>1, <2>3 DEF InKernel
  <2>5. Stream(o)
    BY <1>1, <1>6 DEF Streams
  <2>6. written'[o] >= written[o]
    BY <1>0, <1>1, WrittenStays
  <2>7. delivered'[o] = delivered[o]
    BY <1>1
  <2>. QED  BY <1>1, <1>2, <1>4, <2>2, <2>4, <2>5, <2>6, <2>7, StreamStays
<1>7. ASSUME w \notin broken' PROVE Stream(w)'
  <2>1. StreamOf(w, written[w], delivered[w], GotOf(w), InFlight(w), Cursor(w))
    BY <1>1, <1>7 DEF Streams, Stream
  <2>2. t \in WritesTo(w) /\ t \in WritesTo(w)'
    BY <1>0, <1>2 DEF WritesTo, WritePlaces
  <2>3. Cursor(w) = m
    BY <1>0, <2>2, KnownNow DEF Known
  <2>4. Cursor(w)' = NextPiece(m)
    <3>1. Cursor(w)' = NextPiece(PieceOf(w, written[w], pcall[t].part))'
      BY <1>2, <2>2, KnownAfter DEF Known
    <3>. QED  BY <1>1, <1>2, <3>1 DEF NextPiece, PieceOf
  <2>5. GotOf(w)' = GotOf(w) /\ MetOf(w)' = MetOf(w)
    BY <1>2, <1>4, ReaderStays, SMTT(30)
  <2>6. LinkOf(w) = <<>> /\ LinkOf(w)' = <<m>>
    BY <1>1, <1>3, <1>5 DEF LinkOf
  <2>7. InFlight(w)' = Append(InFlight(w), m)
    <3>1. MetOf(w) \in Seq(Piece) /\ keptPieces[w] \in Seq(Piece)
      BY FlightTyped
    <3>2. InFlight(w)' = MetOf(w) \o (keptPieces[w] \o <<m>>)
      BY <1>1, <2>5, <2>6 DEF InFlight, InKernel
    <3>3. InFlight(w) = MetOf(w) \o (keptPieces[w] \o <<>>)
      BY <2>6 DEF InFlight, InKernel
    <3>4. MetOf(w) \o (keptPieces[w] \o <<m>>) = Append(MetOf(w) \o (keptPieces[w] \o <<>>), m)
      <4>1. m \in Piece
        BY <1>3
      <4>. QED  BY <3>1, <4>1, FlightEnds
    <3>. QED  BY <3>2, <3>3, <3>4
  <2>8. StreamOf(w, written[w], delivered[w], GotOf(w), Append(InFlight(w), m), NextPiece(m))
    <3>1. /\ GotOf(w) \in Seq(Piece) /\ InFlight(w) \in Seq(Piece)
          /\ delivered[w] \in Seq(Seq(Piece)) /\ written[w] \in Nat
      BY FlightTyped
    <3>. QED  BY <1>3, <2>1, <2>3, <3>1, StreamSends
  <2>9. StreamOf(w, written'[w], delivered'[w], GotOf(w)', InFlight(w)', Cursor(w)')
    BY <1>1, <2>4, <2>5, <2>7, <2>8
  <2>. QED  BY <1>1, <2>9, StreamAfter
<1>. QED  BY <1>6, <1>7 DEF Streams

\* A piece that was kept becomes known to the kernel call, and stays in flight.
LEMMA AreadStreams ==
    ASSUME StateFit, StateFit', Streams, NEW t \in Thread, kportal_aread(t)
    PROVE  Streams'
<1>0. /\ PortalTypeOK /\ pcall[t] \in PortalCalls /\ PortalFit(t)
      /\ pcall[t].at = "aread" /\ pcall[t].met = None /\ From(t) = pcall[t].out /\ From(t) # None
      /\ pcall[t].out \in Output
  <2>1. pcall[t].at = "aread" /\ pcall[t].at \in ReadPlaces /\ From(t) # None
    BY DEF kportal_aread, InPortal, ReadPlaces
  <2>. QED  BY <2>1, ReadFacts DEF PortalFit
<1>. PICK o \in Output : o = pcall[t].out
  BY <1>0
<1>1. /\ scene' = scene /\ UNCHANGED <<written, delivered, link>> /\ broken' = broken
  BY DEF kportal_aread, processVars, portalHistory
<1>2. CASE keptPieces[o] = <<>>
  <2>1. keptPieces' = keptPieces /\ pcall' = [pcall EXCEPT ![t].at = "await"]
    BY <1>0, <1>2 DEF kportal_aread
  <2>2. /\ \A u \in Thread \ {t} : pcall'[u] = pcall[u]
        /\ pcall'[t].at = "await" /\ pcall'[t].out = pcall[t].out /\ pcall'[t].got = pcall[t].got
        /\ pcall'[t].met = pcall[t].met
    BY <1>0, <2>1 DEF PortalTypeOK, PortalCalls
  <2>3. /\ pcall[t].at \in ReadPlaces /\ pcall'[t].at \in ReadPlaces
        /\ pcall[t].at \notin WritePlaces /\ pcall'[t].at \notin WritePlaces
    BY <1>0, <2>2 DEF ReadPlaces, WritePlaces
  <2>4. \A k \in Output : /\ GotBy(t, k)' = GotBy(t, k) /\ MetBy(t, k)' = MetBy(t, k)
                          /\ SentBy(t, k)' = SentBy(t, k)
    BY <2>2, <2>3, SameRead, NothingSent
  <2>. QED  BY <1>1, <2>1, <2>2, <2>4, StillStreams
<1>3. CASE keptPieces[o] # <<>>
  <2>0. keptPieces \in [Output -> Seq(Piece)] /\ Head(keptPieces[o]) \in Piece
    BY <1>0, <1>3 DEF PortalTypeOK
  <2>. PICK m \in Piece : m = Head(keptPieces[o])
    BY <2>0
  <2>1. /\ keptPieces' = [keptPieces EXCEPT ![o] = Tail(@)]
        /\ pcall' = [pcall EXCEPT ![t].at = "await", ![t].met = m]
    BY <1>0, <1>3 DEF kportal_aread
  <2>2. /\ \A u \in Thread \ {t} : pcall'[u] = pcall[u]
        /\ pcall'[t].at = "await" /\ pcall'[t].out = o /\ pcall'[t].got = pcall[t].got
        /\ pcall'[t].met = m /\ m # None
    BY <1>0, <2>1, PortalAssumption DEF PortalTypeOK, PortalCalls
  <2>3. \A k \in Output : Cursor(k)' = Cursor(k)
    <3>1. pcall[t].at \notin WritePlaces /\ pcall'[t].at \notin WritePlaces
      BY <1>0, <2>2 DEF WritePlaces
    <3>2. \A k \in Output : SentBy(t, k)' = SentBy(t, k)
      BY <3>1, NothingSent
    <3>. QED  BY <1>1, <2>2, <3>2, CursorStays
  <2>4. ASSUME NEW k \in Output, k \notin broken', k # o PROVE Stream(k)'
    <3>1. GotBy(t, k)' = GotBy(t, k) /\ MetBy(t, k)' = MetBy(t, k)
      BY <2>2, <2>4, EmptyRead, EmptyReadAfter
    <3>2. InKernel(k)' = InKernel(k)
      BY <1>1, <2>0, <2>1, <2>4 DEF InKernel, LinkOf
    <3>3. Stream(k) /\ written'[k] >= written[k] /\ delivered'[k] = delivered[k]
      BY <1>0, <1>1, <2>4, WrittenStays DEF Streams
    <3>. QED  BY <1>1, <2>2, <2>3, <3>1, <3>2, <3>3, StreamStays
  <2>5. ASSUME o \notin broken' PROVE Stream(o)'
    <3>1. StreamOf(o, written[o], delivered[o], GotOf(o), InFlight(o), Cursor(o))
      BY <1>1, <2>5 DEF Streams, Stream
    <3>2. t \in ReadsFrom(o) /\ t \in ReadsFrom(o)'
      BY <1>0, <2>2 DEF ReadsFrom, ReadPlaces
    <3>3. GotOf(o) = pcall[t].got /\ MetOf(o) = <<>>
      BY <1>0, <3>2, KnownNow DEF Known, GotBy, MetBy
    <3>4. GotOf(o)' = pcall'[t].got /\ MetOf(o)' = <<m>>
      BY <2>2, <3>2, KnownAfter DEF Known, GotBy, MetBy
    <3>5. InFlight(o)' = InFlight(o)
      <4>1. LinkOf(o)' = LinkOf(o) /\ LinkOf(o) \in Seq(Piece)
        BY <1>1, FlightTyped DEF LinkOf
      <4>2. keptPieces'[o] = Tail(keptPieces[o])
        BY <2>0, <2>1
      <4>3. InFlight(o)' = <<m>> \o (Tail(keptPieces[o]) \o LinkOf(o))
        BY <3>4, <4>1, <4>2 DEF InFlight, InKernel
      <4>4. InFlight(o) = <<>> \o (keptPieces[o] \o LinkOf(o))
        BY <3>3 DEF InFlight, InKernel
      <4>5. keptPieces[o] \in Seq(Piece)
        BY <2>0
      <4>6. <<>> \o (keptPieces[o] \o LinkOf(o))
              = <<Head(keptPieces[o])>> \o (Tail(keptPieces[o]) \o LinkOf(o))
        BY <1>3, <4>1, <4>5, FlightMoves
      <4>. QED  BY <4>3, <4>4, <4>6
    <3>6. StreamOf(o, written'[o], delivered'[o], GotOf(o)', InFlight(o)', Cursor(o)')
      BY <1>1, <2>2, <2>3, <3>1, <3>3, <3>4, <3>5
    <3>. QED  BY <1>1, <3>6, StreamAfter
  <2>. QED  BY <2>4, <2>5 DEF Streams
<1>. QED  BY <1>2, <1>3

\* The reader gets the first piece in flight, or the kernel keeps one for another portal.
LEMMA PieceStreams ==
    ASSUME StateFit, StateFit', Streams, NEW t \in Thread, WaitPieceRead(t)
    PROVE  Streams'
<1>0. /\ PortalTypeOK /\ pcall[t] \in PortalCalls /\ PortalFit(t) /\ LinksFit
      /\ pcall[t].at = "await" /\ pcall[t].out \in Output /\ pcall[t].at \in ReadPlaces
      /\ pcall[t].got \in Seq(Piece) /\ Len(pcall[t].got) < scene.pieces
  <2>1. pcall[t].at = "await" /\ pcall[t].out \in Output
    BY PieceFacts
  <2>2. PortalTypeOK /\ pcall[t] \in PortalCalls /\ PortalFit(t) /\ LinksFit
    BY DEF StateFit, PortalTypes, PortalTypeOK, ThreadFit
  <2>. QED  BY <2>1, <2>2, CallFields DEF PortalFit, ReadPlaces
<1>. PICK o \in Output : o = pcall[t].out
  BY <1>0
<1>. PICK n : n = OutNode[o]
  OBVIOUS
<1>1. scene' = scene /\ written' = written /\ delivered' = delivered
  BY PieceFacts
<1>2. PICK m \in Piece :
        /\ Met(t, m)
        /\ \/ /\ m = pcall[t].met /\ m.out = o
              /\ UNCHANGED <<link, linkReader, keptPieces, broken>>
           \/ /\ n \in RemoteNode /\ linkReader[n] = t /\ m = link[n] /\ pcall[t].met = None
              /\ OutNode[m.out] = n /\ m.out \in Output
              /\ link' = [link EXCEPT ![n] = None]
              /\ linkReader' = [linkReader EXCEPT ![n] = None]
              /\ IF OutTo[m.out] \in InputPorts
                 THEN /\ keptPieces' = IF m.out = o THEN keptPieces
                                       ELSE [keptPieces EXCEPT ![m.out] = Append(@, m)]
                      /\ broken' = broken
                 ELSE keptPieces' = keptPieces /\ broken' = broken \cup {m.out}
  BY PieceFacts
<1>3. /\ \A u \in Thread \ {t} : pcall'[u] = pcall[u]
      /\ pcall'[t].out = o /\ pcall'[t].met = None
      /\ pcall'[t].at \in {"complete", "again", "aread"}
      /\ m.out = o => pcall'[t].got = Append(pcall[t].got, m)
      /\ m.out # o => pcall'[t].got = pcall[t].got
  BY <1>0, <1>2, MetFacts
<1>4. pcall'[t].at \in ReadPlaces /\ pcall[t].at \notin WritePlaces /\ pcall'[t].at \notin WritePlaces
  BY <1>0, <1>3 DEF ReadPlaces, WritePlaces
<1>5. \A k \in Output : Cursor(k)' = Cursor(k)
  <2>1. \A k \in Output : SentBy(t, k)' = SentBy(t, k)
    BY <1>4, NothingSent
  <2>. QED  BY <1>1, <1>3, <2>1, CursorStays
<1>6. /\ keptPieces \in [Output -> Seq(Piece)] /\ link \in [RemoteNode -> Piece \cup {None}]
      /\ broken \subseteq broken' /\ m # None
  BY <1>0, <1>2, PortalAssumption DEF PortalTypeOK
<1>7. ASSUME NEW k \in Output, k \notin broken', k # o \/ m.out # o PROVE Stream(k)'
  <2>1. GotBy(t, k)' = GotBy(t, k) /\ MetBy(t, k)' = MetBy(t, k)
    <3>1. CASE k # o
      BY <1>3, <3>1, EmptyRead, EmptyReadAfter
    <3>2. CASE m.out # o
      <4>1. pcall[t].met = None
        BY <1>2, <3>2
      <4>. QED  BY <1>0, <1>3, <1>4, <3>2, <4>1, SameRead
    <3>. QED  BY <1>7, <3>1, <3>2
  <2>2. InKernel(k)' = InKernel(k)
    <3>1. CASE UNCHANGED <<link, linkReader, keptPieces, broken>>
      BY <3>1 DEF InKernel, LinkOf
    <3>2. CASE /\ n \in RemoteNode /\ m = link[n] /\ link' = [link EXCEPT ![n] = None]
               /\ OutNode[m.out] = n /\ m.out \in Output
               /\ IF OutTo[m.out] \in InputPorts
                  THEN keptPieces' = IF m.out = o THEN keptPieces
                                     ELSE [keptPieces EXCEPT ![m.out] = Append(@, m)]
                  ELSE keptPieces' = keptPieces /\ broken' = broken \cup {m.out}
      <4>1. CASE k = m.out
        <5>1. k # o /\ OutTo[m.out] \in InputPorts
          BY <1>7, <3>2, <4>1, ZenonT(60)
        <5>2. keptPieces'[k] = Append(keptPieces[k], m)
          BY <1>6, <3>2, <4>1, <5>1, ZenonT(60)
        <5>3. LinkOf(k) = <<m>>
          BY <1>6, <3>2, <4>1, ZenonT(60) DEF LinkOf
        <5>4. LinkOf(k)' = <<>>
          BY <1>6, <3>2, <4>1 DEF LinkOf
        <5>5. keptPieces[k] \in Seq(Piece)
          BY <1>6
        <5>6. Append(keptPieces[k], m) \o <<>> = keptPieces[k] \o <<m>>
          BY <5>5, FlightKeeps
        <5>. QED  BY <5>2, <5>3, <5>4, <5>6 DEF InKernel
      <4>2. CASE k # m.out
        <5>1. keptPieces'[k] = keptPieces[k]
          BY <1>6, <3>2, <4>2
        <5>2. LinkOf(k)' = LinkOf(k)
          <6>1. OutNode[k] \in RemoteNode
            BY DEF RemoteNode
          <6>2. CASE OutNode[k] = n
            <7>1. link[OutNode[k]].out # k /\ link'[OutNode[k]] = None
              BY <1>6, <3>2, <4>2, <6>2
            <7>. QED  BY <7>1 DEF LinkOf
          <6>3. CASE OutNode[k] # n
            <7>1. link'[OutNode[k]] = link[OutNode[k]]
              BY <1>6, <3>2, <6>1, <6>3
            <7>. QED  BY <7>1 DEF LinkOf
          <6>. QED  BY <6>2, <6>3
        <5>. QED  BY <5>1, <5>2 DEF InKernel
      <4>. QED  BY <4>1, <4>2
    <3>. QED  BY <1>2, <3>1, <3>2
  <2>3. Stream(k) /\ written'[k] >= written[k] /\ delivered'[k] = delivered[k]
    BY <1>0, <1>1, <1>6, <1>7, WrittenStays DEF Streams
  <2>. QED  BY <1>1, <1>3, <1>5, <2>1, <2>2, <2>3, StreamStays
<1>8. ASSUME o \notin broken', m.out = o PROVE Stream(o)'
  <2>1. StreamOf(o, written[o], delivered[o], GotOf(o), InFlight(o), Cursor(o))
    BY <1>6, <1>8 DEF Streams, Stream
  <2>2. t \in ReadsFrom(o) /\ t \in ReadsFrom(o)'
    BY <1>0, <1>3, <1>4 DEF ReadsFrom
  <2>3. GotOf(o) = pcall[t].got /\ MetOf(o) = IF pcall[t].met = None THEN <<>> ELSE <<pcall[t].met>>
    BY <2>2, KnownNow DEF Known, GotBy, MetBy
  <2>4. GotOf(o)' = Append(pcall[t].got, m) /\ MetOf(o)' = <<>>
    BY <1>3, <1>8, <2>2, KnownAfter DEF Known, GotBy, MetBy
  <2>5. InFlight(o) # <<>> /\ InFlight(o)[1] = m /\ InFlight(o)' = Tail(InFlight(o))
    <3>1. CASE m = pcall[t].met /\ UNCHANGED <<link, linkReader, keptPieces, broken>>
      <4>1. InKernel(o)' = InKernel(o) /\ InKernel(o) \in Seq(Piece)
        BY <3>1, FlightTyped DEF InKernel, LinkOf
      <4>2. InFlight(o) = <<m>> \o InKernel(o) /\ InFlight(o)' = <<>> \o InKernel(o)
        BY <1>6, <2>3, <2>4, <3>1, <4>1 DEF InFlight
      <4>. QED  BY <4>1, <4>2, FlightBegins
    <3>2. CASE /\ n \in RemoteNode /\ linkReader[n] = t /\ m = link[n] /\ pcall[t].met = None
               /\ link' = [link EXCEPT ![n] = None] /\ keptPieces' = keptPieces
      <4>1. keptPieces[o] = <<>>
        <5>1. t # None
          BY ProcessAssumption
        <5>. QED  BY <1>0, <3>2, <5>1 DEF LinksFit
      <4>2. LinkOf(o) = <<m>> /\ LinkOf(o)' = <<>>
        BY <1>6, <1>8, <3>2 DEF LinkOf
      <4>3. InFlight(o) = <<>> \o (<<>> \o <<m>>) /\ InFlight(o)' = <<>> \o (<<>> \o <<>>)
        BY <2>3, <2>4, <3>2, <4>1, <4>2 DEF InFlight, InKernel
      <4>4. <<>> \o (<<>> \o <<m>>) = <<m>> /\ <<>> \o (<<>> \o <<>>) = <<>>
        OBVIOUS
      <4>. QED  BY <4>3, <4>4
    <3>. QED  BY <1>2, <1>8, <3>1, <3>2
  <2>6. StreamOf(o, written[o], delivered[o], Append(GotOf(o), m), Tail(InFlight(o)), Cursor(o))
    <3>1. /\ GotOf(o) \in Seq(Piece) /\ InFlight(o) \in Seq(Piece) /\ scene.pieces \in Nat
          /\ delivered[o] \in Seq(Seq(Piece)) /\ written[o] \in Nat
      BY FlightTyped
    <3>2. Len(GotOf(o)) < scene.pieces
      BY <1>0, <2>3
    <3>3. StreamOf(o, written[o], delivered[o], Append(GotOf(o), InFlight(o)[1]), Tail(InFlight(o)),
                   Cursor(o))
      BY <2>1, <2>5, <3>1, <3>2, StreamGets
    <3>. QED  BY <2>5, <3>3
  <2>7. StreamOf(o, written'[o], delivered'[o], GotOf(o)', InFlight(o)', Cursor(o)')
    BY <1>1, <1>5, <2>3, <2>4, <2>5, <2>6
  <2>. QED  BY <1>1, <2>7, StreamAfter
<1>. QED  BY <1>7, <1>8 DEF Streams

\* The read returns what it has got.
LEMMA CompleteStreams ==
    ASSUME StateFit, StateFit', Streams, NEW t \in Thread, CompleteRead(t)
    PROVE  Streams'
<1>0. /\ PortalTypeOK /\ pcall[t] \in PortalCalls /\ PortalFit(t)
      /\ pcall[t].at = "complete" /\ pcall[t].out \in Output /\ pcall[t].met = None
      /\ Len(pcall[t].got) = scene.pieces /\ delivered \in [Output -> Seq(Seq(Piece))]
  <2>1. pcall[t].at = "complete" /\ pcall[t].at \in ReadPlaces \ {"aread"}
    BY DEF CompleteRead, InPortal, ReadPlaces
  <2>2. PortalTypeOK /\ pcall[t] \in PortalCalls /\ PortalFit(t)
        /\ delivered \in [Output -> Seq(Seq(Piece))]
    BY DEF StateFit, PortalTypes, PortalTypeOK, ThreadFit
  <2>3. pcall[t].out \in Output
    BY <2>1, ReadFacts DEF AllowsFit
  <2>. QED  BY <2>1, <2>2, <2>3 DEF PortalFit, ReadPlaces
<1>. PICK o \in Output : o = pcall[t].out
  BY <1>0
<1>1. /\ scene' = scene /\ UNCHANGED <<written, link, keptPieces>> /\ broken' = broken
      /\ delivered' = [delivered EXCEPT ![o] = Append(@, pcall[t].got)]
      /\ pcall' = [pcall EXCEPT ![t] = NoPortalCall]
  BY DEF CompleteRead, processVars, portalKernelVars, linkVars
<1>2. pcall'[t] = NoPortalCall /\ \A u \in Thread \ {t} : pcall'[u] = pcall[u]
  BY <1>0, <1>1 DEF PortalTypeOK
<1>3. /\ pcall'[t].at \notin ReadPlaces /\ pcall'[t].at \notin WritePlaces
      /\ pcall[t].at \notin WritePlaces
  BY <1>0, <1>2, IdlePortal DEF ReadPlaces, WritePlaces
<1>4. \A k \in Output : Cursor(k)' = Cursor(k)
  <2>1. \A k \in Output : SentBy(t, k)' = SentBy(t, k)
    BY <1>3, NothingSent
  <2>. QED  BY <1>1, <1>2, <2>1, CursorStays
<1>5. \A k \in Output : InKernel(k)' = InKernel(k)
  BY <1>1 DEF InKernel, LinkOf
<1>6. ASSUME NEW k \in Output, k \notin broken', k # o PROVE Stream(k)'
  <2>1. GotBy(t, k)' = GotBy(t, k) /\ MetBy(t, k)' = MetBy(t, k)
    BY <1>3, <1>6, EmptyRead, EmptyReadAfter
  <2>2. delivered'[k] = delivered[k]
    BY <1>0, <1>1, <1>6
  <2>3. Stream(k) /\ written'[k] >= written[k]
    BY <1>0, <1>1, <1>6, WrittenStays DEF Streams
  <2>. QED  BY <1>1, <1>2, <1>4, <1>5, <2>1, <2>2, <2>3, StreamStays
<1>7. ASSUME o \notin broken' PROVE Stream(o)'
  <2>1. StreamOf(o, written[o], delivered[o], GotOf(o), InFlight(o), Cursor(o))
    BY <1>1, <1>7 DEF Streams, Stream
  <2>2. t \in ReadsFrom(o)
    BY <1>0 DEF ReadsFrom, ReadPlaces
  <2>3. GotOf(o) = pcall[t].got /\ MetOf(o) = <<>>
    BY <1>0, <2>2, KnownNow DEF Known, GotBy, MetBy
  <2>4. GotOf(o)' = <<>> /\ MetOf(o)' = <<>>
    <3>1. GotOf(o)' = GotBy(t, o)' /\ MetOf(o)' = MetBy(t, o)'
      BY <1>2, <2>2, OwnAfter
    <3>. QED  BY <1>3, <3>1, EmptyReadAfter
  <2>5. InFlight(o)' = InFlight(o)
    BY <1>5, <2>3, <2>4 DEF InFlight
  <2>6. delivered'[o] = Append(delivered[o], pcall[t].got)
    BY <1>0, <1>1
  <2>7. StreamOf(o, written[o], Append(delivered[o], GotOf(o)), <<>>, InFlight(o), Cursor(o))
    <3>1. /\ GotOf(o) \in Seq(Piece) /\ InFlight(o) \in Seq(Piece) /\ scene.pieces \in Nat \ {0}
          /\ delivered[o] \in Seq(Seq(Piece)) /\ written[o] \in Nat
      BY FlightTyped
    <3>. QED  BY <1>0, <2>1, <2>3, <3>1, StreamDelivers
  <2>8. StreamOf(o, written'[o], delivered'[o], GotOf(o)', InFlight(o)', Cursor(o)')
    BY <1>1, <1>4, <2>3, <2>4, <2>5, <2>6, <2>7
  <2>. QED  BY <1>1, <2>8, StreamAfter
<1>. QED  BY <1>6, <1>7 DEF Streams

LEMMA StreamsInitial == PortalInit => Streams
<1>. SUFFICES ASSUME PortalInit, NEW o \in Output PROVE Stream(o)
  BY DEF Streams
<1>1. \A t \in Thread : pcall[t].at = "idle"
  BY IdlePortal DEF PortalInit
<1>2. ReadsFrom(o) = {} /\ WritesTo(o) = {}
  BY <1>1 DEF ReadsFrom, WritesTo, ReadPlaces, WritePlaces
<1>3. GotOf(o) = <<>> /\ MetOf(o) = <<>> /\ Cursor(o) = PieceOf(o, written[o] + 1, 1)
  BY <1>2, NobodyReads, NobodyWrites
<1>4. keptPieces[o] = <<>> /\ LinkOf(o) = <<>> /\ written[o] = 0 /\ delivered[o] = <<>>
  BY DEF PortalInit, LinkOf, RemoteNode
<1>5. InFlight(o) = <<>>
  BY <1>3, <1>4 DEF InFlight, InKernel
<1>6. scene.pieces \in Nat \ {0}
  BY SceneFits DEF PortalInit, ProcessInit
<1>. QED  BY <1>3, <1>4, <1>5, <1>6 DEF Stream, StreamOf, Chain, Expected

-----------------------------------------------------------------------------
(* The theorems                                                            *)

LEMMA PortalRests ==
    ASSUME PortalInv, UNCHANGED portalVars, scene' = scene, errors' \in Nat
    PROVE  PortalInv'
<1>0. StateFit /\ AllowsTell /\ Streams
  BY DEF PortalInv
<1>1. /\ UNCHANGED <<scene, inportal, outportals, allowed, link, linkReader, keptPieces,
                     kportal_allows, pcall, reads, madePortals, written, delivered, broken, leftover>>
      /\ errors' \in Nat
  BY DEF portalVars, portalKernelVars, linkVars, portalHistory
<1>2. StateFit'
  <2>1. PortalTypes'
    BY <1>0, <1>1 DEF StateFit, PortalTypes, PortalTypeOK
  <2>2. ASSUME NEW u \in Thread PROVE ThreadFit(u)' /\ Uses(u)' = Uses(u)
    <3>1. PortalFit(u) /\ UsesFit(u) /\ AllowsFit(u)
      BY <1>0 DEF StateFit, ThreadFit
    <3>2. PortalFit(u)' /\ Uses(u)' = Uses(u)
      BY <1>1, <3>1 DEF PortalFit, Uses
    <3>3. UsesFit(u)'
      BY <1>1, <3>1, <3>2 DEF UsesFit
    <3>4. AllowsFit(u)'
      BY <1>1, <3>1 DEF AllowsFit
    <3>. QED  BY <3>2, <3>3, <3>4 DEF ThreadFit
  <2>3. UsesApart'
    BY <1>0, <2>2 DEF StateFit, UsesApart
  <2>4. PortsApart' /\ StandFit' /\ LinksFit'
    BY <1>0, <1>1 DEF StateFit, PortsApart, StandFit, LinksFit
  <2>. QED  BY <2>1, <2>2, <2>3, <2>4 DEF StateFit
<1>3. AllowsTell'
  BY <1>0, <1>1 DEF AllowsTell
<1>4. ASSUME NEW o \in Output, o \notin broken' PROVE Stream(o)'
  <2>1. GotOf(o)' = GotOf(o) /\ MetOf(o)' = MetOf(o)
    BY <1>1 DEF GotOf, MetOf, Reader, ReadsFrom
  <2>2. LinkOf(o)' = LinkOf(o) /\ keptPieces'[o] = keptPieces[o]
    BY <1>1 DEF LinkOf
  <2>3. InFlight(o)' = InFlight(o)
    BY <2>1, <2>2 DEF InFlight, InKernel
  <2>4. Cursor(o)' = Cursor(o)
    BY <1>1 DEF Cursor, Writer, WritesTo, NextPiece, PieceOf
  <2>5. StreamOf(o, written[o], delivered[o], GotOf(o), InFlight(o), Cursor(o))
    BY <1>0, <1>1, <1>4 DEF Streams, Stream
  <2>6. StreamOf(o, written'[o], delivered'[o], GotOf(o)', InFlight(o)', Cursor(o)')
    BY <1>1, <2>1, <2>3, <2>4, <2>5
  <2>. QED  BY <1>1, <2>6, StreamAfter
<1>5. Streams'
  BY <1>4 DEF Streams
<1>. QED  BY <1>2, <1>3, <1>5 DEF PortalInv

\* What one thread does in the portals.
PortalMove(t) == PortalCall(t) \/ PortalStep(t) \/ ReadError(t) \/ WriteError(t)

LEMMA PortalMoveKeeps ==
    ASSUME PortalInv, NEW t \in Thread, PortalMove(t)
    PROVE  PortalInv'
<1>0. StateFit /\ AllowsTell /\ Streams
  BY DEF PortalInv
<1>1. CASE PortalCall(t)
  BY <1>0, <1>1, CallTells, CallStreams DEF PortalInv
<1>2. CASE PortalStep(t) \/ ReadError(t) \/ WriteError(t)
  <2>1. StateFit' /\ AllowsTell'
    BY <1>0, <1>2, StepTells
  <2>2. Streams'
    BY <1>0, <1>2, <2>1, TableStreams, FailStreams, SentStreams, AwriteStreams, AreadStreams,
       PieceStreams, CompleteStreams DEF PortalStep
  <2>. QED  BY <2>1, <2>2 DEF PortalInv
<1>. QED  BY <1>1, <1>2 DEF PortalMove

LEMMA PortalKeeps ==
    ASSUME PortalInv, [PortalNext]_<<processVars, portalVars>>
    PROVE  PortalInv'
<1>0. scene \in Scenes /\ errors \in Nat
  BY DEF PortalInv, StateFit, PortalTypes
<1>1. CASE PortalNext
  <2>1. PICK t \in Thread : PortalMove(t)
    BY <1>0, <1>1, SceneFits DEF PortalNext, PortalMove
  <2>. QED  BY <2>1, PortalMoveKeeps
<1>2. CASE UNCHANGED <<processVars, portalVars>>
  <2>1. scene' = scene /\ errors' \in Nat /\ UNCHANGED portalVars
    BY <1>0, <1>2 DEF processVars
  <2>. QED  BY <2>1, PortalRests
<1>. QED  BY <1>1, <1>2

\* The invariant on which the properties of portals rest.
THEOREM PortalInductive == PortalSpec => []PortalInv
<1>1. PortalInit => PortalInv
  BY FitInitial, TellsInitial, StreamsInitial DEF PortalInv
<1>2. PortalInv /\ [PortalNext]_<<processVars, portalVars>> => PortalInv'
  BY PortalKeeps
<1>. QED  BY <1>1, <1>2, PTL DEF PortalSpec

\* The variables of the portals have their types.
THEOREM PortalTyped == PortalSpec => []PortalTypeOK
<1>1. PortalInv => PortalTypeOK
  BY DEF PortalInv, StateFit, PortalTypes
<1>. QED  BY <1>1, PortalInductive, PTL

\* kportal_read returns the messages written to the portal, whole and in order, as long
\* as no transfer between the two has failed.
THEOREM PortalReadsWhole == PortalSpec => []WholeMessages
<1>1. PortalInv => WholeMessages
  BY DEF PortalInv, Streams, Stream, StreamOf, WholeMessages
<1>. QED  BY <1>1, PortalInductive, PTL

\* Between calls kportal_allows has the allow that stands in the kernel, and one that no
\* longer stands only where the last read has failed.
THEOREM PortalAllowsTell == PortalSpec => []AllowsTell
<1>1. PortalInv => AllowsTell
  BY DEF PortalInv
<1>. QED  BY <1>1, PortalInductive, PTL

-----------------------------------------------------------------------------
(* The standard inputs and what is under them                              *)

\* What a thread has got, and what its entry is to name.
Own(t) == IF Mailboxes THEN held[t] ELSE reads[t]
OwnPort(i, t) ==
    IF Mailboxes THEN mailbox[i] = [kind |-> "in", port |-> StdPort(t)]
    ELSE inportal[i] = StdPort(t)

\* In one build nobody calls what only the other has.
OneSide ==
    \A t \in Thread : IF Mailboxes THEN pcall[t].at = "idle" ELSE mcall[t].at = "idle"

\* A thread in its setup creates what its entry is to name.
SetsUp(t) ==
    setup[t] =>
        /\ t \in scene.std /\ stdin[Entry(t)] = None
        /\ IF Mailboxes THEN mcall[t].counter = "ncreates" /\ OwnPort(mcall[t].id, t)
           ELSE pcall[t].at = "reset" /\ OwnPort(pcall[t].id, t)

\* A thread that has set up has its input, unless it has set up again.
Stands(t) ==
    t \in standing =>
        /\ t \in scene.std /\ stdin[Entry(t)] # None
        /\ ~again => stdin[Entry(t)] \in Own(t) /\ OwnPort(stdin[Entry(t)], t)

\* Its entry is set from its first setup on.
Entered(t) ==
    t \in scene.std /\ stdin[Entry(t)] # None /\ t \notin cleaned => t \in standing

StdTypes ==
    /\ stdin \in [0..THREAD_MAX -> MailboxId \cup PortalId \cup {None}]
    /\ setup \in [Thread -> BOOLEAN]
    /\ standing \subseteq Thread /\ cleaned \subseteq Thread /\ again \in BOOLEAN

StdFit == StdTypes /\ OneSide /\ \A t \in Thread : SetsUp(t) /\ Stands(t) /\ Entered(t)

StdInv == IInv /\ PortalInv /\ StdFit

-----------------------------------------------------------------------------
LEMMA EntriesApart ==
    /\ \A t \in Thread : Entry(t) \in 0..THREAD_MAX
    /\ \A t, u \in Thread : t # u => Entry(t) # Entry(u)
<1>1. \A t \in Thread : Tid[t] \in Nat
  BY TidAssumption
<1>2. ASSUME NEW t \in Thread PROVE Entry(t) \in 0..THREAD_MAX
  <2>1. stdinbox_get_port(t) <= THREAD_MAX /\ THREAD_MAX \in Nat /\ SYS_THREAD_MAX \in Nat
    BY TidAssumption
  <2>2. stdinbox_get_port(t) \in Nat
    BY <1>1, <2>1 DEF stdinbox_get_port
  <2>. QED  BY <2>1, <2>2 DEF Entry, StdPort
<1>3. \A t, u \in Thread : t # u => Entry(t) # Entry(u)
  BY TidAssumption DEF Entry, StdPort
<1>. QED  BY <1>2, <1>3

LEMMA StdSceneFits ==
    ASSUME scene \in Scenes
    PROVE  /\ scene.who \subseteq Thread /\ scene.std \subseteq Thread
           /\ scene.build \in {"mailbox", "portal"}
           /\ \A t \in scene.std :
                StdPort(t) \in (IF Mailboxes THEN MailboxPort ELSE PortalPort)
BY ProcessAssumption, StdSceneAssumption DEF StdPort, Mailboxes

\* What one thread does in the mailboxes.
MailboxMove(t) == MailboxCall(t) \/ MailboxStep(t) \/ MailboxError(t)

LEMMA MailboxScene ==
    ASSUME NEW t \in Thread, MailboxMove(t)
    PROVE  scene' = scene
<1>1. CASE MailboxCall(t)
  BY <1>1 DEF MailboxCall, kmailbox_create, kmailbox_open, kmailbox_unlink, kmailbox_close,
              kmailbox_write, kmailbox_read, NewMailbox, FreeMailbox, processVars
<1>2. CASE MailboxStep(t)
  BY <1>2 DEF MailboxStep, CountMailbox, FlagMailbox, kmailbox_awrite, WaitWritten,
              kmailbox_aread, WaitRead, CountTransfer, processVars
<1>3. CASE MailboxError(t)
  BY <1>3 DEF MailboxError, OneFails
<1>. QED  BY <1>1, <1>2, <1>3 DEF MailboxMove

LEMMA PortalScene ==
    ASSUME NEW t \in Thread, PortalMove(t)
    PROVE  scene' = scene
<1>1. CASE PortalCall(t)
  BY <1>1, ZenonT(60) DEF PortalCall, kportal_create, kportal_unlink, kportal_read, kportal_allow,
              kportal_write, kportal_open, kportal_close, processVars
<1>2. CASE PortalStep(t)
  BY <1>2 DEF PortalStep, CreateReset, SetAllow, kportal_awrite, WaitPieceSent, AllowAgain,
              kportal_aread, WaitPieceRead, CompleteRead, ReadRefused, processVars
<1>3. CASE ReadError(t) \/ WriteError(t)
  BY <1>3 DEF ReadError, WriteError, OneFails
<1>. QED  BY <1>1, <1>2, <1>3 DEF PortalMove

-----------------------------------------------------------------------------
(* The mailboxes and the portals rest while the others move.               *)

LEMMA MailboxRests ==
    ASSUME IInv, UNCHANGED mailboxVars, scene' = scene, errors' \in Nat
    PROVE  IInv'
<1>1. MInv'
  BY DEF IInv, MInv, MailboxTypeOK, SceneOK, CallsOK, WireOK, OwnsOK, Owns, FlagsOK,
         mailboxVars, kernelVars, mailboxHistory
<1>2. CountersTell'
  BY DEF IInv, CountersTell, Unflagged, In, mailboxVars, mailboxHistory
<1>. QED  BY <1>1, <1>2 DEF IInv

\* A step of one of them, or of neither.
LEMMA MailboxKeepsBoth ==
    ASSUME IInv, PortalInv, NEW t \in Thread, MailboxMove(t), UNCHANGED portalVars
    PROVE  IInv' /\ PortalInv' /\ scene' = scene
<1>1. IInv'
  BY Steps DEF IInv, MailboxMove
<1>2. scene' = scene
  BY MailboxScene
<1>3. errors' \in Nat
  BY <1>1 DEF IInv, MInv, SceneOK
<1>. QED  BY <1>1, <1>2, <1>3, PortalRests

LEMMA PortalKeepsBoth ==
    ASSUME IInv, PortalInv, NEW t \in Thread, PortalMove(t), UNCHANGED mailboxVars
    PROVE  IInv' /\ PortalInv' /\ scene' = scene
<1>1. PortalInv'
  BY PortalMoveKeeps
<1>2. scene' = scene
  BY PortalScene
<1>3. errors' \in Nat
  BY <1>1 DEF PortalInv, StateFit, PortalTypes
<1>. QED  BY <1>1, <1>2, <1>3, MailboxRests

-----------------------------------------------------------------------------
\* What the moves of one thread leave to the others, and to itself.
LEMMA MailboxFrames ==
    ASSUME IInv, NEW t \in Thread, MailboxMove(t)
    PROVE  /\ \A u \in Thread \ {t} : mcall'[u] = mcall[u] /\ held'[u] = held[u]
           /\ \A i \in MailboxId \ held[t] : mailbox[i] # None => mailbox'[i] = mailbox[i]
<1>0. /\ mcall \in [Thread -> MailboxCalls] /\ held \in [Thread -> SUBSET MailboxId]
      /\ mailbox \in [MailboxId -> [kind : {"in", "out"}, port : MailboxPort] \cup {None}]
  BY DEF IInv, MInv, MailboxTypeOK
<1>1. ASSUME NEW p \in MailboxPort, kmailbox_create(t, p) \/ kmailbox_open(t, p)
      PROVE  /\ \A u \in Thread \ {t} : mcall'[u] = mcall[u] /\ held'[u] = held[u]
             /\ \A i \in MailboxId : mailbox[i] # None => mailbox'[i] = mailbox[i]
  <2>1. PICK k, c : NewMailbox(t, k, p, c)
    BY <1>1 DEF kmailbox_create, kmailbox_open
  <2>2. PICK i : /\ mailbox[i] = None /\ mailbox' = [mailbox EXCEPT ![i] = [kind |-> k, port |-> p]]
                 /\ Succeeds(t, c, i) /\ held' = held
    BY <2>1 DEF NewMailbox
  <2>. QED  BY <1>0, <2>2 DEF Succeeds
<1>2. ASSUME NEW i \in held[t], kmailbox_unlink(t, i) \/ kmailbox_close(t, i)
      PROVE  /\ \A u \in Thread \ {t} : mcall'[u] = mcall[u] /\ held'[u] = held[u]
             /\ \A j \in MailboxId \ held[t] : mailbox'[j] = mailbox[j]
  <2>1. PICK c : FreeMailbox(t, i, c)
    BY <1>2 DEF kmailbox_unlink, kmailbox_close
  <2>. QED  BY <1>0, <2>1 DEF FreeMailbox, Succeeds
<1>3. ASSUME NEW i \in held[t], kmailbox_write(t, i) \/ kmailbox_read(t, i)
      PROVE  /\ \A u \in Thread \ {t} : mcall'[u] = mcall[u] /\ held'[u] = held[u]
             /\ mailbox' = mailbox
  BY <1>0, <1>3 DEF kmailbox_write, kmailbox_read, kernelVars, mailboxHistory
<1>4. ASSUME CountMailbox(t) \/ FlagMailbox(t) \/ CountTransfer(t) \/ MailboxError(t)
      PROVE  /\ \A u \in Thread \ {t} : mcall'[u] = mcall[u] /\ held'[u] = held[u]
             /\ mailbox' = mailbox
  <2>1. CASE FlagMailbox(t)
    BY <1>0, <2>1 DEF FlagMailbox, kernelVars
  <2>2. CASE CountMailbox(t) \/ CountTransfer(t) \/ MailboxError(t)
    BY <1>0, <2>2 DEF CountMailbox, CountTransfer, MailboxError, kernelVars, mailboxHistory
  <2>. QED  BY <1>4, <2>1, <2>2
<1>5. ASSUME kmailbox_awrite(t) \/ WaitWritten(t) \/ kmailbox_aread(t)
      PROVE  /\ \A u \in Thread \ {t} : mcall'[u] = mcall[u] /\ held'[u] = held[u]
             /\ mailbox' = mailbox
  BY <1>0, <1>5 DEF kmailbox_awrite, WaitWritten, kmailbox_aread, kernelVars, mailboxHistory
<1>6. ASSUME WaitRead(t)
      PROVE  /\ \A u \in Thread \ {t} : mcall'[u] = mcall[u] /\ held'[u] = held[u]
             /\ mailbox' = mailbox
  BY <1>0, <1>6 DEF WaitRead, mailboxHistory
<1>. QED  BY <1>1, <1>2, <1>3, <1>4, <1>5, <1>6 DEF MailboxMove, MailboxCall, MailboxStep

LEMMA MailboxInside ==
    ASSUME IInv, NEW t \in Thread, MailboxStep(t) \/ MailboxError(t)
    PROVE  /\ mailbox' = mailbox /\ held[t] \subseteq held'[t]
           /\ mcall[t].counter = "ncreates" /\ ~In(t, "flag") =>
                mcall'[t].counter = "ncreates" /\ mcall'[t].id = mcall[t].id
<1>0. /\ mcall \in [Thread -> MailboxCalls] /\ held \in [Thread -> SUBSET MailboxId]
      /\ mcall[t] \in MailboxCalls /\ Fits(mcall[t])
  BY DEF IInv, MInv, MailboxTypeOK, CallsOK
<1>1. CASE CountMailbox(t)
  BY <1>0, <1>1 DEF CountMailbox, kernelVars, mailboxHistory, MailboxCalls
<1>2. CASE FlagMailbox(t)
  BY <1>0, <1>2 DEF FlagMailbox, kernelVars, In
<1>3. CASE kmailbox_awrite(t) \/ WaitWritten(t) \/ kmailbox_aread(t) \/ WaitRead(t)
  <2>1. mailbox' = mailbox /\ held' = held
    BY <1>3 DEF kmailbox_awrite, WaitWritten, kmailbox_aread, WaitRead, kernelVars, mailboxHistory
  <2>2. mcall[t].at \in {"awrite", "wait", "aread", "await"}
    BY <1>3 DEF kmailbox_awrite, WaitWritten, kmailbox_aread, WaitRead, In
  <2>. QED  BY <1>0, <2>1, <2>2 DEF Fits
<1>4. CASE CountTransfer(t) \/ MailboxError(t)
  <2>1. mailbox' = mailbox /\ held' = held
    BY <1>4 DEF CountTransfer, MailboxError, kernelVars, mailboxHistory
  <2>2. mcall[t].counter # "ncreates"
    BY <1>0, <1>4 DEF CountTransfer, MailboxError, Fits
  <2>. QED  BY <2>1, <2>2
<1>. QED  BY <1>1, <1>2, <1>3, <1>4 DEF MailboxStep

LEMMA PortalFrames ==
    ASSUME PortalInv, NEW t \in Thread, PortalMove(t)
    PROVE  /\ \A u \in Thread \ {t} : pcall'[u] = pcall[u] /\ reads'[u] = reads[u]
           /\ \A i \in PortalId \ reads[t] : inportal[i] # None => inportal'[i] = inportal[i]
<1>0. /\ pcall \in [Thread -> PortalCalls] /\ reads \in [Thread -> SUBSET PortalId]
      /\ inportal \in [PortalId -> PortalPort \cup {None}]
  BY DEF PortalInv, StateFit, PortalTypes, PortalTypeOK
<1>1. ASSUME NEW p \in PortalPort, kportal_create(t, p)
      PROVE  /\ \A u \in Thread \ {t} : pcall'[u] = pcall[u] /\ reads'[u] = reads[u]
             /\ \A i \in PortalId : inportal[i] # None => inportal'[i] = inportal[i]
  BY <1>0, <1>1 DEF kportal_create
<1>2. ASSUME NEW i \in reads[t], kportal_unlink(t, i)
      PROVE  /\ \A u \in Thread \ {t} : pcall'[u] = pcall[u] /\ reads'[u] = reads[u]
             /\ \A j \in PortalId \ reads[t] : inportal'[j] = inportal[j]
  BY <1>0, <1>2 DEF kportal_unlink
<1>3. ASSUME NEW i, NEW o, kportal_read(t, i) \/ kportal_allow(t, i, o) \/ kportal_write(t, o)
             \/ kportal_open(t, o) \/ kportal_close(t, o)
      PROVE  /\ \A u \in Thread \ {t} : pcall'[u] = pcall[u] /\ reads'[u] = reads[u]
             /\ inportal' = inportal
  BY <1>0, <1>3 DEF kportal_read, kportal_allow, kportal_write, kportal_open, kportal_close,
                    portalKernelVars, portalHistory
<1>4. ASSUME CreateReset(t) \/ SetAllow(t)
      PROVE  /\ \A u \in Thread \ {t} : pcall'[u] = pcall[u] /\ reads'[u] = reads[u]
             /\ inportal' = inportal
  BY <1>0, <1>4 DEF CreateReset, SetAllow, portalKernelVars, portalHistory
<1>5. ASSUME kportal_awrite(t) \/ WaitPieceSent(t) \/ AllowAgain(t) \/ kportal_aread(t)
      PROVE  /\ \A u \in Thread \ {t} : pcall'[u] = pcall[u] /\ reads'[u] = reads[u]
             /\ inportal' = inportal
  BY <1>0, <1>5, ZenonT(60) DEF kportal_awrite, WaitPieceSent, AllowAgain, kportal_aread, portalKernelVars,
                    portalHistory
<1>6. ASSUME WaitPieceRead(t)
      PROVE  /\ \A u \in Thread \ {t} : pcall'[u] = pcall[u] /\ reads'[u] = reads[u]
             /\ inportal' = inportal
  BY <1>0, <1>6 DEF WaitPieceRead, Met
<1>7. ASSUME CompleteRead(t) \/ ReadRefused(t) \/ ReadError(t) \/ WriteError(t)
      PROVE  /\ \A u \in Thread \ {t} : pcall'[u] = pcall[u] /\ reads'[u] = reads[u]
             /\ inportal' = inportal
  BY <1>0, <1>7 DEF CompleteRead, ReadRefused, ReadError, WriteError, ReadFails, portalKernelVars
<1>. QED  BY <1>1, <1>2, <1>3, <1>4, <1>5, <1>6, <1>7 DEF PortalMove, PortalCall, PortalStep

LEMMA PortalInside ==
    ASSUME PortalInv, NEW t \in Thread, PortalStep(t) \/ ReadError(t) \/ WriteError(t)
    PROVE  /\ inportal' = inportal /\ reads[t] \subseteq reads'[t]
           /\ pcall[t].at = "reset" => CreateReset(t)
<1>0. reads \in [Thread -> SUBSET PortalId]
  BY DEF PortalInv, StateFit, PortalTypes, PortalTypeOK
<1>1. CASE CreateReset(t)
  BY <1>0, <1>1 DEF CreateReset, portalKernelVars
<1>2. CASE SetAllow(t) \/ kportal_awrite(t) \/ WaitPieceSent(t)
  BY <1>2 DEF SetAllow, kportal_awrite, WaitPieceSent, InPortal, portalKernelVars, portalHistory
<1>3. CASE AllowAgain(t) \/ kportal_aread(t) \/ WaitPieceRead(t)
  BY <1>3 DEF AllowAgain, kportal_aread, WaitPieceRead, InPortal, portalHistory
<1>4. CASE CompleteRead(t) \/ ReadRefused(t) \/ ReadError(t) \/ WriteError(t)
  BY <1>4 DEF CompleteRead, ReadRefused, ReadError, WriteError, ReadFails, InPortal,
              portalKernelVars
<1>. QED  BY <1>1, <1>2, <1>3, <1>4 DEF PortalStep

-----------------------------------------------------------------------------
(* The standard inputs                                                     *)

\* What a thread has is nobody else's.
LEMMA OwnApart ==
    ASSUME IInv, PortalInv, NEW t \in Thread, NEW u \in Thread \ {t}
    PROVE  /\ \A i \in held[u] : i \in MailboxId \ held[t]
           /\ mcall[u].counter = "ncreates" => mcall[u].id \in MailboxId \ held[t]
           /\ \A i \in reads[u] : i \in PortalId \ reads[t]
           /\ pcall[u].at = "reset" => pcall[u].id \in PortalId \ reads[t]
<1>1. Owns(u) \cap Owns(t) = {} /\ Owns(u) \subseteq MailboxId
  BY OwnedIds DEF IInv, MInv, OwnsOK
<1>2. Uses(u) \cap Uses(t) = {} /\ PortalFit(u) /\ reads[u] \subseteq PortalId
  BY DEF PortalInv, StateFit, PortalTypes, PortalTypeOK, UsesApart, ThreadFit
<1>3. pcall[u].at = "reset" => pcall[u].id \in PortalId
  BY <1>2 DEF PortalFit
<1>4. held[t] \subseteq Owns(t) /\ held[u] \subseteq Owns(u)
        /\ (mcall[u].counter = "ncreates" => mcall[u].id \in Owns(u))
  BY DEF Owns, Makings
<1>5. reads[t] \subseteq Uses(t) /\ reads[u] \subseteq Uses(u)
        /\ (pcall[u].at = "reset" => pcall[u].id \in Uses(u))
  BY DEF Uses
<1>. QED  BY <1>1, <1>2, <1>3, <1>4, <1>5

\* A step of t leaves the inputs of the others alone.
LEMMA OthersStand ==
    ASSUME StdInv, NEW t \in Thread, NEW u \in Thread \ {t}, scene' = scene,
           mcall'[u] = mcall[u], held'[u] = held[u], pcall'[u] = pcall[u], reads'[u] = reads[u],
           \A i \in MailboxId \ held[t] : mailbox[i] # None => mailbox'[i] = mailbox[i],
           \A i \in PortalId \ reads[t] : inportal[i] # None => inportal'[i] = inportal[i],
           stdin'[Entry(u)] = stdin[Entry(u)], setup'[u] = setup[u],
           u \in standing' <=> u \in standing, u \in cleaned' <=> u \in cleaned,
           again => again'
    PROVE  SetsUp(u)' /\ Stands(u)' /\ Entered(u)'
<1>0. IInv /\ PortalInv /\ SetsUp(u) /\ Stands(u) /\ Entered(u)
  BY DEF StdInv, StdFit
<1>1. Mailboxes' = Mailboxes /\ scene'.std = scene.std
  BY DEF Mailboxes
<1>2. ASSUME NEW i, OwnPort(i, u),
             IF Mailboxes THEN i \in MailboxId \ held[t] ELSE i \in PortalId \ reads[t],
             u \in scene.std
      PROVE  OwnPort(i, u)'
  <2>1. CASE Mailboxes
    <3>1. StdPort(u) \in MailboxPort
      BY <1>0, <1>2, <2>1, StdSceneFits DEF IInv, MInv, SceneOK
    <3>2. mailbox[i] # None
      BY <1>2, <2>1, <3>1, MailboxAssumption DEF OwnPort
    <3>. QED  BY <1>1, <1>2, <2>1, <3>2 DEF OwnPort
  <2>2. CASE ~Mailboxes
    <3>1. StdPort(u) \in PortalPort
      BY <1>0, <1>2, <2>2, StdSceneFits DEF IInv, MInv, SceneOK
    <3>2. inportal[i] # None
      BY <1>2, <2>2, <3>1, PortalAssumption DEF OwnPort
    <3>. QED  BY <1>1, <1>2, <2>2, <3>2 DEF OwnPort
  <2>. QED  BY <2>1, <2>2
<1>3. SetsUp(u)'
  <2>. HIDE DEF OwnPort
  <2>1. CASE setup[u] /\ Mailboxes
    <3>1. PICK i : i = mcall[u].id
      OBVIOUS
    <3>2. OwnPort(i, u)' /\ i = mcall'[u].id
      BY <1>0, <1>2, <2>1, <3>1, OwnApart DEF SetsUp
    <3>. QED  BY <1>0, <1>1, <2>1, <3>2 DEF SetsUp, OwnPort, Entry, StdPort
  <2>2. CASE setup[u] /\ ~Mailboxes
    <3>1. PICK i : i = pcall[u].id
      OBVIOUS
    <3>2. OwnPort(i, u)' /\ i = pcall'[u].id
      BY <1>0, <1>2, <2>2, <3>1, OwnApart DEF SetsUp
    <3>. QED  BY <1>0, <1>1, <2>2, <3>2 DEF SetsUp, OwnPort, Entry, StdPort
  <2>3. CASE ~setup[u]
    BY <2>3 DEF SetsUp
  <2>. QED  BY <2>1, <2>2, <2>3
<1>4. Stands(u)'
  <2>1. CASE u \in standing /\ ~again
    <3>1. PICK i : i = stdin[Entry(u)]
      OBVIOUS
    <3>2. i \in Own(u) /\ OwnPort(i, u) /\ u \in scene.std /\ i # None
      BY <1>0, <2>1, <3>1 DEF Stands
    <3>3. IF Mailboxes THEN i \in MailboxId \ held[t] ELSE i \in PortalId \ reads[t]
      BY <1>0, <3>2, OwnApart DEF Own
    <3>4. OwnPort(i, u)'
      BY <1>2, <3>2, <3>3
    <3>5. Own(u)' = Own(u) /\ Entry(u)' = Entry(u) /\ stdin'[Entry(u)] = i
      BY <1>1, <3>1 DEF Own, Entry, StdPort
    <3>. QED  BY <1>1, <3>2, <3>4, <3>5 DEF Stands, OwnPort
  <2>2. CASE u \in standing /\ again
    <3>1. Entry(u)' = Entry(u)
      BY DEF Entry, StdPort
    <3>. QED  BY <1>0, <1>1, <2>2, <3>1 DEF Stands
  <2>3. CASE u \notin standing
    BY <2>3 DEF Stands
  <2>. QED  BY <2>1, <2>2, <2>3
<1>5. Entered(u)'
  BY <1>0, <1>1 DEF Entered, Entry, StdPort
<1>. QED  BY <1>3, <1>4, <1>5

\* It is enough to look at the thread that moves.
LEMMA StdMoves ==
    ASSUME StdInv, NEW t \in Thread, scene' = scene, IInv', PortalInv',
           \A u \in Thread \ {t} :
               /\ mcall'[u] = mcall[u] /\ held'[u] = held[u]
               /\ pcall'[u] = pcall[u] /\ reads'[u] = reads[u]
               /\ setup'[u] = setup[u] /\ stdin'[Entry(u)] = stdin[Entry(u)]
               /\ u \in standing' <=> u \in standing
               /\ u \in cleaned' <=> u \in cleaned,
           \A i \in MailboxId \ held[t] : mailbox[i] # None => mailbox'[i] = mailbox[i],
           \A i \in PortalId \ reads[t] : inportal[i] # None => inportal'[i] = inportal[i],
           again => again', StdTypes',
           IF Mailboxes THEN pcall'[t].at = "idle" ELSE mcall'[t].at = "idle",
           SetsUp(t)' /\ Stands(t)' /\ Entered(t)'
    PROVE  StdInv'
<1>1. \A u \in Thread \ {t} : SetsUp(u)' /\ Stands(u)' /\ Entered(u)'
  BY OthersStand
<1>2. OneSide'
  BY DEF StdInv, StdFit, OneSide, Mailboxes
<1>. QED  BY <1>1, <1>2 DEF StdInv, StdFit

LEMMA MailboxMoveFrames ==
    ASSUME IInv, PortalInv, NEW t \in Thread, MailboxMove(t), UNCHANGED portalVars
    PROVE  /\ IInv' /\ PortalInv' /\ scene' = scene
           /\ UNCHANGED <<inportal, pcall, reads>>
           /\ \A u \in Thread \ {t} : mcall'[u] = mcall[u] /\ held'[u] = held[u]
           /\ \A i \in MailboxId \ held[t] : mailbox[i] # None => mailbox'[i] = mailbox[i]
BY MailboxKeepsBoth, MailboxFrames DEF portalVars, portalKernelVars, portalHistory

LEMMA PortalMoveFrames ==
    ASSUME IInv, PortalInv, NEW t \in Thread, PortalMove(t), UNCHANGED mailboxVars
    PROVE  /\ IInv' /\ PortalInv' /\ scene' = scene
           /\ UNCHANGED <<mailbox, mcall, held>>
           /\ \A u \in Thread \ {t} : pcall'[u] = pcall[u] /\ reads'[u] = reads[u]
           /\ \A i \in PortalId \ reads[t] : inportal[i] # None => inportal'[i] = inportal[i]
BY PortalKeepsBoth, PortalFrames DEF mailboxVars, kernelVars, mailboxHistory

LEMMA SetupKeeps ==
    ASSUME StdInv, NEW t \in Thread, t \in scene.std, Setup(t)
    PROVE  StdInv'
<1>0. /\ IInv /\ PortalInv /\ StdTypes /\ Stands(t) /\ t \notin standing
      /\ IF Mailboxes THEN pcall[t].at = "idle" ELSE mcall[t].at = "idle"
  BY DEF StdInv, StdFit, OneSide, Stands, Setup
<1>1. /\ StdPort(t) \in (IF Mailboxes THEN MailboxPort ELSE PortalPort)
  BY <1>0, StdSceneFits DEF IInv, MInv, SceneOK
<1>2. /\ stdin[Entry(t)] = None /\ setup' = [setup EXCEPT ![t] = TRUE]
      /\ UNCHANGED <<stdin, standing, cleaned, again>>
  BY DEF Setup
<1>3. StdTypes'
  BY <1>0, <1>2 DEF StdTypes
<1>4. /\ setup'[t] /\ \A u \in Thread \ {t} : setup'[u] = setup[u]
  BY <1>0, <1>2 DEF StdTypes
<1>5. Entry(t)' = Entry(t) /\ StdPort(t)' = StdPort(t)
  BY DEF Entry, StdPort
<1>6. Stands(t)' /\ Entered(t)'
  BY <1>0, <1>2, <1>5 DEF Stands, Entered
<1>7. CASE Mailboxes
  <2>1. kmailbox_create(t, StdPort(t)) /\ UNCHANGED portalVars
    BY <1>7 DEF Setup
  <2>2. MailboxMove(t)
    BY <1>1, <1>7, <2>1 DEF MailboxMove, MailboxCall
  <2>3. /\ IInv' /\ PortalInv' /\ scene' = scene /\ UNCHANGED <<inportal, pcall, reads>>
        /\ \A u \in Thread \ {t} : mcall'[u] = mcall[u] /\ held'[u] = held[u]
        /\ \A i \in MailboxId \ held[t] : mailbox[i] # None => mailbox'[i] = mailbox[i]
    BY <1>0, <2>1, <2>2, MailboxMoveFrames
  <2>4. PICK i \in scene.ids : /\ mailbox[i] = None
                               /\ mailbox' = [mailbox EXCEPT ![i] = [kind |-> "in", port |-> StdPort(t)]]
                               /\ Succeeds(t, "ncreates", i)
    BY <2>1 DEF kmailbox_create, NewMailbox
  <2>5. /\ i \in MailboxId /\ mcall \in [Thread -> MailboxCalls]
        /\ mailbox \in [MailboxId -> [kind : {"in", "out"}, port : MailboxPort] \cup {None}]
    BY <1>0, MailboxSceneAssumption DEF IInv, MInv, MailboxTypeOK, SceneOK
  <2>6. /\ mcall'[t].counter = "ncreates" /\ mcall'[t].id = i
        /\ mailbox'[i] = [kind |-> "in", port |-> StdPort(t)]
    BY <2>4, <2>5 DEF Succeeds, Idle
  <2>7. SetsUp(t)'
    BY <1>2, <1>5, <1>7, <2>3, <2>6 DEF SetsUp, OwnPort, Mailboxes
  <2>. QED  BY <1>0, <1>2, <1>3, <1>4, <1>6, <1>7, <2>3, <2>7, StdMoves
<1>8. CASE ~Mailboxes
  <2>1. kportal_create(t, StdPort(t)) /\ UNCHANGED mailboxVars
    BY <1>8 DEF Setup
  <2>2. PortalMove(t)
    BY <1>1, <1>8, <2>1 DEF PortalMove, PortalCall
  <2>3. /\ IInv' /\ PortalInv' /\ scene' = scene /\ UNCHANGED <<mailbox, mcall, held>>
        /\ \A u \in Thread \ {t} : pcall'[u] = pcall[u] /\ reads'[u] = reads[u]
        /\ \A i \in PortalId \ reads[t] : inportal[i] # None => inportal'[i] = inportal[i]
    BY <1>0, <2>1, <2>2, PortalMoveFrames
  <2>4. PICK i \in PortalId : /\ inportal' = [inportal EXCEPT ![i] = StdPort(t)]
                              /\ pcall' = [pcall EXCEPT ![t].at = "reset", ![t].id = i]
    BY <2>1 DEF kportal_create
  <2>5. /\ pcall \in [Thread -> PortalCalls] /\ pcall[t] \in PortalCalls
        /\ inportal \in [PortalId -> PortalPort \cup {None}]
    BY <1>0 DEF PortalInv, StateFit, PortalTypes, PortalTypeOK
  <2>6. /\ pcall'[t].at = "reset" /\ pcall'[t].id = i /\ inportal'[i] = StdPort(t)
    BY <2>4, <2>5 DEF PortalCalls
  <2>7. SetsUp(t)'
    BY <1>2, <1>5, <1>8, <2>3, <2>6 DEF SetsUp, OwnPort, Mailboxes
  <2>. QED  BY <1>0, <1>2, <1>3, <1>4, <1>6, <1>8, <2>3, <2>7, StdMoves
<1>. QED  BY <1>7, <1>8

LEMMA SetupReturnsKeeps ==
    ASSUME StdInv, NEW t \in Thread, SetupReturns(t)
    PROVE  StdInv'
<1>0. /\ IInv /\ PortalInv /\ StdTypes /\ SetsUp(t) /\ setup[t]
      /\ IF Mailboxes THEN pcall[t].at = "idle" ELSE mcall[t].at = "idle"
  BY DEF StdInv, StdFit, OneSide, SetupReturns
<1>1. PICK i : i = IF Mailboxes THEN mcall[t].id ELSE pcall[t].id
  OBVIOUS
<1>2. /\ stdin' = [stdin EXCEPT ![Entry(t)] = i] /\ setup' = [setup EXCEPT ![t] = FALSE]
      /\ standing' = standing \cup {t} /\ UNCHANGED <<cleaned, again>>
  BY <1>1 DEF SetupReturns
<1>3. t \in scene.std /\ OwnPort(i, t)
  BY <1>0, <1>1 DEF SetsUp
<1>4. mcall[t].counter # None => mcall[t].id \in MailboxId
  BY <1>0, OwnedIds DEF IInv
<1>5. i \in MailboxId \cup PortalId /\ i # None
  <2>1. CASE Mailboxes
    <3>1. mcall[t].counter # None
      BY <1>0, <2>1, MailboxAssumption DEF SetsUp, Counter
    <3>2. i \in MailboxId
      BY <1>1, <1>4, <2>1, <3>1
    <3>3. i \in Nat
      BY <3>2, MailboxAssumption DEF MailboxId
    <3>. QED  BY <3>2, <3>3, ProcessAssumption
  <2>2. CASE ~Mailboxes
    <3>1. pcall[t].id \in PortalId
      BY <1>0, <2>2 DEF SetsUp, PortalInv, StateFit, ThreadFit, PortalFit
    <3>. QED  BY <1>1, <2>2, <3>1, ProcessAssumption DEF PortalId
  <2>. QED  BY <2>1, <2>2
<1>6. StdTypes'
  BY <1>0, <1>2, <1>5, EntriesApart DEF StdTypes
<1>7. /\ ~setup'[t] /\ \A u \in Thread \ {t} : setup'[u] = setup[u]
      /\ stdin'[Entry(t)] = i /\ \A u \in Thread \ {t} : stdin'[Entry(u)] = stdin[Entry(u)]
      /\ t \in standing' /\ \A u \in Thread \ {t} : u \in standing' <=> u \in standing
  BY <1>0, <1>2, EntriesApart DEF StdTypes
<1>8. Entry(t)' = Entry(t) /\ StdPort(t)' = StdPort(t)
  BY DEF Entry, StdPort
<1>9. SetsUp(t)' /\ Entered(t)'
  BY <1>7 DEF SetsUp, Entered
<1>10. CASE Mailboxes
  <2>1. FlagMailbox(t) /\ UNCHANGED portalVars /\ mcall[t].counter = "ncreates" /\ i = mcall[t].id
    BY <1>0, <1>1, <1>10 DEF SetupReturns, SetsUp
  <2>2. MailboxMove(t)
    BY <2>1 DEF MailboxMove, MailboxStep
  <2>3. /\ IInv' /\ PortalInv' /\ scene' = scene /\ UNCHANGED <<inportal, pcall, reads>>
        /\ \A u \in Thread \ {t} : mcall'[u] = mcall[u] /\ held'[u] = held[u]
        /\ \A j \in MailboxId \ held[t] : mailbox[j] # None => mailbox'[j] = mailbox[j]
    BY <1>0, <2>1, <2>2, MailboxMoveFrames
  <2>4. held' = [held EXCEPT ![t] = @ \cup {i}] /\ mailbox' = mailbox
    BY <2>1 DEF FlagMailbox, kernelVars
  <2>5. i \in held'[t]
    BY <1>0, <2>4 DEF IInv, MInv, MailboxTypeOK
  <2>6. Stands(t)'
    <3>1. Own(t)' = held'[t] /\ OwnPort(i, t)'
      BY <1>3, <1>8, <1>10, <2>3, <2>4 DEF Own, OwnPort, Mailboxes
    <3>. QED  BY <1>3, <1>5, <1>7, <1>8, <2>3, <2>5, <3>1 DEF Stands, OwnPort
  <2>. QED  BY <1>0, <1>2, <1>6, <1>7, <1>9, <1>10, <2>3, <2>6, StdMoves
<1>11. CASE ~Mailboxes
  <2>1. CreateReset(t) /\ UNCHANGED mailboxVars /\ i = pcall[t].id
    BY <1>0, <1>1, <1>11 DEF SetupReturns
  <2>2. PortalMove(t)
    BY <2>1 DEF PortalMove, PortalStep
  <2>3. /\ IInv' /\ PortalInv' /\ scene' = scene /\ UNCHANGED <<mailbox, mcall, held>>
        /\ \A u \in Thread \ {t} : pcall'[u] = pcall[u] /\ reads'[u] = reads[u]
        /\ \A j \in PortalId \ reads[t] : inportal[j] # None => inportal'[j] = inportal[j]
    BY <1>0, <2>1, <2>2, PortalMoveFrames
  <2>4. reads' = [reads EXCEPT ![t] = @ \cup {i}] /\ inportal' = inportal
    BY <2>1 DEF CreateReset, portalKernelVars
  <2>5. i \in reads'[t]
    BY <1>0, <2>4 DEF PortalInv, StateFit, PortalTypes, PortalTypeOK
  <2>6. Stands(t)'
    <3>1. Own(t)' = reads'[t] /\ OwnPort(i, t)'
      BY <1>3, <1>8, <1>11, <2>3, <2>4 DEF Own, OwnPort, Mailboxes
    <3>. QED  BY <1>3, <1>5, <1>7, <1>8, <2>3, <2>5, <3>1 DEF Stands, OwnPort
  <2>. QED  BY <1>0, <1>2, <1>6, <1>7, <1>9, <1>11, <2>3, <2>6, StdMoves
<1>. QED  BY <1>10, <1>11

LEMMA CleanupKeeps ==
    ASSUME StdInv, NEW t \in Thread, Cleanup(t)
    PROVE  StdInv'
<1>0. /\ IInv /\ PortalInv /\ StdTypes /\ SetsUp(t) /\ Stands(t)
      /\ pcall[t].at = "idle" /\ mcall[t].at = "idle"
  BY DEF StdInv, StdFit, Cleanup, Resting
<1>1. PICK i : i = stdin[Entry(t)] /\ i \in Own(t)
  BY <1>0 DEF Cleanup, Stands
<1>2. /\ standing' = standing \ {t} /\ cleaned' = cleaned \cup {t}
      /\ UNCHANGED <<stdin, setup, again>>
  BY DEF Cleanup
<1>3. StdTypes'
  BY <1>0, <1>2 DEF StdTypes
<1>4. ~setup[t]
  <2>1. Idle.counter = None /\ "ncreates" # None
    BY MailboxAssumption DEF Idle, Counter
  <2>2. mcall[t] = Idle
    BY <1>0 DEF IInv, MInv, CallsOK, Fits
  <2>. QED  BY <1>0, <2>1, <2>2 DEF SetsUp
<1>5. SetsUp(t)' /\ Stands(t)' /\ Entered(t)'
  BY <1>2, <1>4 DEF SetsUp, Stands, Entered, Entry, StdPort
<1>6. CASE Mailboxes
  <2>1. MailboxMove(t) /\ UNCHANGED portalVars
    BY <1>1, <1>6 DEF Cleanup, Own, MailboxMove, MailboxCall
  <2>2. /\ IInv' /\ PortalInv' /\ scene' = scene /\ UNCHANGED <<inportal, pcall, reads>>
        /\ \A u \in Thread \ {t} : mcall'[u] = mcall[u] /\ held'[u] = held[u]
        /\ \A j \in MailboxId \ held[t] : mailbox[j] # None => mailbox'[j] = mailbox[j]
    BY <1>0, <2>1, MailboxMoveFrames
  <2>. QED  BY <1>0, <1>2, <1>3, <1>5, <1>6, <2>2, StdMoves
<1>7. CASE ~Mailboxes
  <2>1. PortalMove(t) /\ UNCHANGED mailboxVars
    BY <1>1, <1>7 DEF Cleanup, Own, PortalMove, PortalCall
  <2>2. /\ IInv' /\ PortalInv' /\ scene' = scene /\ UNCHANGED <<mailbox, mcall, held>>
        /\ \A u \in Thread \ {t} : pcall'[u] = pcall[u] /\ reads'[u] = reads[u]
        /\ \A j \in PortalId \ reads[t] : inportal[j] # None => inportal'[j] = inportal[j]
    BY <1>0, <2>1, PortalMoveFrames
  <2>. QED  BY <1>0, <1>2, <1>3, <1>5, <1>7, <2>2, StdMoves
<1>. QED  BY <1>6, <1>7

LEMMA SetupAgainKeeps ==
    ASSUME StdInv, NEW t \in Thread, t \in scene.std, SetupAgain(t)
    PROVE  StdInv'
<1>0. /\ IInv /\ PortalInv /\ StdTypes /\ SetsUp(t) /\ Stands(t) /\ Entered(t)
      /\ pcall[t].at = "idle" /\ mcall[t].at = "idle" /\ stdin[Entry(t)] # None
  BY DEF StdInv, StdFit, SetupAgain, Resting
<1>1. /\ UNCHANGED <<scene, errors, mailboxVars, portalVars, stdin, setup, cleaned>>
      /\ standing' = standing \cup {t} /\ again' = (again \/ t \in cleaned)
  BY DEF SetupAgain, processVars
<1>2. IInv' /\ PortalInv'
  BY <1>0, <1>1, MailboxRests, PortalRests DEF IInv, MInv, SceneOK
<1>3. UNCHANGED <<mailbox, mcall, held, inportal, pcall, reads>>
  BY <1>1 DEF mailboxVars, kernelVars, mailboxHistory, portalVars, portalKernelVars, portalHistory
<1>4. StdTypes'
  BY <1>0, <1>1 DEF StdTypes
<1>5. Entry(t)' = Entry(t) /\ Own(t)' = Own(t)
  BY <1>1, <1>3 DEF Entry, StdPort, Own, Mailboxes
<1>6. ~setup[t]
  BY <1>0 DEF SetsUp
<1>7. SetsUp(t)' /\ Entered(t)'
  BY <1>1, <1>6 DEF SetsUp, Entered
<1>8. Stands(t)'
  <2>1. CASE again'
    BY <1>0, <1>1, <1>5, <2>1 DEF Stands
  <2>2. CASE ~again'
    <3>1. t \in standing /\ ~again
      BY <1>0, <1>1, <2>2 DEF Entered
    <3>. QED  BY <1>0, <1>1, <1>3, <1>5, <3>1 DEF Stands, OwnPort, Mailboxes, StdPort
  <2>. QED  BY <2>1, <2>2
<1>. QED  BY <1>0, <1>1, <1>2, <1>3, <1>4, <1>7, <1>8, StdMoves

\* Nothing moves, but perhaps a kernel call fails.
LEMMA NothingMoves ==
    ASSUME StdInv, scene' = scene, errors' \in Nat,
           UNCHANGED <<mailboxVars, portalVars, stdVars>>
    PROVE  StdInv'
<1>1. IInv' /\ PortalInv'
  BY MailboxRests, PortalRests DEF StdInv
<1>2. UNCHANGED <<mailbox, mcall, held, inportal, pcall, reads, stdin, setup, standing, cleaned, again>>
  BY DEF mailboxVars, kernelVars, mailboxHistory, portalVars, portalKernelVars, portalHistory,
         stdVars
<1>3. StdTypes' /\ OneSide'
  BY <1>2 DEF StdInv, StdFit, StdTypes, OneSide, Mailboxes
<1>4. ASSUME NEW t \in Thread PROVE SetsUp(t)' /\ Stands(t)' /\ Entered(t)'
  <2>1. SetsUp(t) /\ Stands(t) /\ Entered(t)
    BY DEF StdInv, StdFit
  <2>2. Entry(t)' = Entry(t) /\ Own(t)' = Own(t)
    BY <1>2 DEF Entry, StdPort, Own, Mailboxes
  <2>3. SetsUp(t)'
    BY <1>2, <2>1, <2>2 DEF SetsUp, OwnPort, Mailboxes, StdPort
  <2>4. Stands(t)'
    BY <1>2, <2>1, <2>2 DEF Stands, OwnPort, Mailboxes, StdPort
  <2>5. Entered(t)'
    BY <1>2, <2>1, <2>2 DEF Entered
  <2>. QED  BY <2>3, <2>4, <2>5
<1>. QED  BY <1>1, <1>3, <1>4 DEF StdInv, StdFit

\* The steps of the mailboxes and of the portals that are no part of a setup.
LEMMA MailboxMoveStands ==
    ASSUME StdInv, NEW t \in Thread, Mailboxes,
           MailboxMove(t), UNCHANGED <<portalVars, stdVars>>,
           t \in scene.std => ~MailboxCall(t) /\ ~(setup[t] /\ In(t, "flag"))
    PROVE  StdInv'
<1>0. /\ IInv /\ PortalInv /\ StdTypes /\ SetsUp(t) /\ Stands(t) /\ Entered(t)
      /\ pcall[t].at = "idle"
  BY DEF StdInv, StdFit, OneSide
<1>1. /\ IInv' /\ PortalInv' /\ scene' = scene /\ UNCHANGED <<inportal, pcall, reads>>
      /\ \A u \in Thread \ {t} : mcall'[u] = mcall[u] /\ held'[u] = held[u]
      /\ \A i \in MailboxId \ held[t] : mailbox[i] # None => mailbox'[i] = mailbox[i]
  BY <1>0, MailboxMoveFrames
<1>2. UNCHANGED <<stdin, setup, standing, cleaned, again>>
  BY DEF stdVars
<1>3. StdTypes'
  BY <1>0, <1>2 DEF StdTypes
<1>4. Entry(t)' = Entry(t) /\ StdPort(t)' = StdPort(t) /\ Mailboxes'
  BY <1>1 DEF Entry, StdPort, Mailboxes
<1>5. SetsUp(t)' /\ Stands(t)' /\ Entered(t)'
  <2>1. CASE t \notin scene.std
    BY <1>0, <1>1, <1>2, <2>1 DEF SetsUp, Stands, Entered
  <2>2. CASE t \in scene.std
    <3>1. /\ mailbox' = mailbox /\ held[t] \subseteq held'[t]
          /\ mcall[t].counter = "ncreates" /\ ~In(t, "flag") =>
               mcall'[t].counter = "ncreates" /\ mcall'[t].id = mcall[t].id
      BY <1>0, <2>2, MailboxInside DEF MailboxMove
    <3>2. SetsUp(t)'
      <4>1. CASE setup[t]
        <5>1. mcall'[t].counter = "ncreates" /\ mcall'[t].id = mcall[t].id
          BY <1>0, <2>2, <3>1, <4>1 DEF SetsUp
        <5>2. OwnPort(mcall[t].id, t) /\ stdin[Entry(t)] = None
          BY <1>0, <4>1 DEF SetsUp
        <5>. QED  BY <1>1, <1>2, <1>4, <2>2, <3>1, <5>1, <5>2 DEF SetsUp, OwnPort
      <4>2. CASE ~setup[t]
        BY <1>2, <4>2 DEF SetsUp
      <4>. QED  BY <4>1, <4>2
    <3>3. Stands(t)'
      <4>1. CASE again
        BY <1>0, <1>1, <1>2, <1>4, <4>1 DEF Stands
      <4>2. CASE ~again /\ t \in standing
        <5>1. stdin[Entry(t)] \in held[t] /\ OwnPort(stdin[Entry(t)], t) /\ stdin[Entry(t)] # None
          BY <1>0, <4>2 DEF Stands, Own
        <5>. QED  BY <1>1, <1>2, <1>4, <2>2, <3>1, <5>1 DEF Stands, Own, OwnPort
      <4>3. CASE t \notin standing
        BY <1>2, <4>3 DEF Stands
      <4>. QED  BY <4>1, <4>2, <4>3
    <3>4. Entered(t)'
      BY <1>0, <1>1, <1>2, <1>4 DEF Entered
    <3>. QED  BY <3>2, <3>3, <3>4
  <2>. QED  BY <2>1, <2>2
<1>. QED  BY <1>0, <1>1, <1>2, <1>3, <1>5, StdMoves

LEMMA PortalMoveStands ==
    ASSUME StdInv, NEW t \in Thread, ~Mailboxes,
           PortalMove(t), UNCHANGED <<mailboxVars, stdVars>>,
           t \in scene.std => ~PortalCall(t) /\ ~(setup[t] /\ InPortal(t, "reset"))
    PROVE  StdInv'
<1>0. /\ IInv /\ PortalInv /\ StdTypes /\ SetsUp(t) /\ Stands(t) /\ Entered(t)
      /\ mcall[t].at = "idle"
  BY DEF StdInv, StdFit, OneSide
<1>1. /\ IInv' /\ PortalInv' /\ scene' = scene /\ UNCHANGED <<mailbox, mcall, held>>
      /\ \A u \in Thread \ {t} : pcall'[u] = pcall[u] /\ reads'[u] = reads[u]
      /\ \A i \in PortalId \ reads[t] : inportal[i] # None => inportal'[i] = inportal[i]
  BY <1>0, PortalMoveFrames
<1>2. UNCHANGED <<stdin, setup, standing, cleaned, again>>
  BY DEF stdVars
<1>3. StdTypes'
  BY <1>0, <1>2 DEF StdTypes
<1>4. Entry(t)' = Entry(t) /\ StdPort(t)' = StdPort(t) /\ ~Mailboxes'
  BY <1>1 DEF Entry, StdPort, Mailboxes
<1>5. SetsUp(t)' /\ Stands(t)' /\ Entered(t)'
  <2>1. CASE t \notin scene.std
    BY <1>0, <1>1, <1>2, <2>1 DEF SetsUp, Stands, Entered
  <2>2. CASE t \in scene.std
    <3>1. inportal' = inportal /\ reads[t] \subseteq reads'[t]
      BY <1>0, <2>2, PortalInside DEF PortalMove
    <3>2. ~setup[t]
      BY <1>0, <2>2 DEF SetsUp, InPortal
    <3>3. SetsUp(t)'
      BY <1>2, <3>2 DEF SetsUp
    <3>4. Stands(t)'
      <4>1. CASE again
        BY <1>0, <1>1, <1>2, <1>4, <4>1 DEF Stands
      <4>2. CASE ~again /\ t \in standing
        <5>1. stdin[Entry(t)] \in reads[t] /\ OwnPort(stdin[Entry(t)], t) /\ stdin[Entry(t)] # None
          BY <1>0, <4>2 DEF Stands, Own
        <5>. QED  BY <1>1, <1>2, <1>4, <2>2, <3>1, <5>1 DEF Stands, Own, OwnPort
      <4>3. CASE t \notin standing
        BY <1>2, <4>3 DEF Stands
      <4>. QED  BY <4>1, <4>2, <4>3
    <3>5. Entered(t)'
      BY <1>0, <1>1, <1>2, <1>4 DEF Entered
    <3>. QED  BY <3>3, <3>4, <3>5
  <2>. QED  BY <2>1, <2>2
<1>. QED  BY <1>0, <1>1, <1>2, <1>3, <1>5, StdMoves

LEMMA StdKeeps ==
    ASSUME StdInv, [Next]_vars
    PROVE  StdInv'
<1>0. /\ scene \in Scenes /\ errors \in Nat /\ StdTypes
      /\ \A t \in Thread : IF Mailboxes THEN pcall[t].at = "idle" ELSE mcall[t].at = "idle"
  BY DEF StdInv, StdFit, IInv, MInv, SceneOK, OneSide
<1>1. ASSUME NEW t \in Thread, Call(t) PROVE StdInv'
  <2>1. CASE t \in scene.std /\ (SetupAgain(t) \/ Setup(t) \/ Cleanup(t))
    BY <2>1, SetupAgainKeeps, SetupKeeps, CleanupKeeps
  <2>2. CASE SetupFails(t)
    <3>1. scene' = scene /\ errors' \in Nat /\ UNCHANGED <<mailboxVars, portalVars, stdVars>>
      BY <1>0, <2>2 DEF SetupFails, OneFails
    <3>. QED  BY <3>1, NothingMoves
  <2>3. CASE t \notin scene.std /\ Mailboxes /\ MailboxCall(t) /\ UNCHANGED <<portalVars, stdVars>>
    BY <2>3, MailboxMoveStands DEF MailboxMove
  <2>4. CASE t \notin scene.std /\ ~Mailboxes /\ PortalCall(t) /\ UNCHANGED <<mailboxVars, stdVars>>
    BY <2>4, PortalMoveStands DEF PortalMove
  <2>. QED  BY <1>1, <2>1, <2>2, <2>3, <2>4 DEF Call
<1>2. ASSUME NEW t \in Thread, Step(t) PROVE StdInv'
  <2>1. CASE SetupReturns(t)
    BY <2>1, SetupReturnsKeeps
  <2>2. CASE Mailboxes /\ ~ReturnsToSetup(t) /\ MailboxStep(t) /\ UNCHANGED <<portalVars, stdVars>>
    <3>1. ~MailboxCall(t)
      BY <2>2, ZenonT(60) DEF MailboxStep, CountMailbox, FlagMailbox, kmailbox_awrite, WaitWritten,
                  kmailbox_aread, WaitRead, CountTransfer, MailboxCall, kmailbox_create,
                  kmailbox_open, kmailbox_unlink, kmailbox_close, kmailbox_write, kmailbox_read,
                  NewMailbox, FreeMailbox, In
    <3>. QED  BY <2>2, <3>1, MailboxMoveStands DEF MailboxMove, ReturnsToSetup
  <2>3. CASE ~Mailboxes /\ ~ReturnsToSetup(t) /\ PortalStep(t) /\ UNCHANGED <<mailboxVars, stdVars>>
    <3>1. ~PortalCall(t)
      BY <2>3 DEF PortalStep, CreateReset, SetAllow, kportal_awrite, WaitPieceSent, AllowAgain,
                  kportal_aread, WaitPieceRead, CompleteRead, ReadRefused, PortalCall,
                  kportal_create, kportal_unlink, kportal_read, kportal_allow, kportal_write,
                  kportal_open, kportal_close, InPortal
    <3>. QED  BY <2>3, <3>1, PortalMoveStands DEF PortalMove, ReturnsToSetup
  <2>. QED  BY <1>2, <2>1, <2>2, <2>3 DEF Step
<1>3. ASSUME NEW t \in Thread, Fail(t) PROVE StdInv'
  <2>1. CASE MailboxError(t) /\ UNCHANGED <<portalVars, stdVars>>
    <3>1. Mailboxes /\ ~MailboxCall(t) /\ ~In(t, "flag")
      BY <1>0, <2>1 DEF MailboxError, MailboxCall, kmailbox_create, kmailbox_open,
                        kmailbox_unlink, kmailbox_close, kmailbox_write, kmailbox_read,
                        NewMailbox, FreeMailbox, In
    <3>. QED  BY <2>1, <3>1, MailboxMoveStands DEF MailboxMove
  <2>2. CASE (ReadError(t) \/ WriteError(t)) /\ UNCHANGED <<mailboxVars, stdVars>>
    <3>1. ~Mailboxes /\ ~PortalCall(t) /\ ~InPortal(t, "reset")
      BY <1>0, <2>2 DEF ReadError, WriteError, PortalCall, kportal_create, kportal_unlink,
                        kportal_read, kportal_allow, kportal_write, kportal_open, kportal_close,
                        InPortal
    <3>. QED  BY <2>2, <3>1, PortalMoveStands DEF PortalMove
  <2>. QED  BY <1>3, <2>1, <2>2 DEF Fail
<1>4. CASE UNCHANGED vars
  <2>1. scene' = scene /\ errors' \in Nat /\ UNCHANGED <<mailboxVars, portalVars, stdVars>>
    BY <1>0, <1>4 DEF vars, processVars
  <2>. QED  BY <2>1, NothingMoves
<1>5. CASE Next
  <2>1. PICK t \in Thread : Call(t) \/ Step(t) \/ Fail(t)
    BY <1>0, <1>5, StdSceneFits DEF Next
  <2>. QED  BY <1>1, <1>2, <1>3, <2>1
<1>. QED  BY <1>4, <1>5

LEMMA StdInitial == Init => StdInv
<1>. SUFFICES ASSUME Init PROVE StdInv
  OBVIOUS
<1>1. IInv /\ PortalInv
  BY IInitial, FitInitial, TellsInitial, StreamsInitial DEF Init, PortalInv
<1>2. StdTypes
  BY DEF Init, StdTypes
<1>3. OneSide
  BY DEF Init, MailboxInit, PortalInit, OneSide, Idle, NoPortalCall
<1>4. \A t \in Thread : SetsUp(t) /\ Stands(t) /\ Entered(t)
  BY EntriesApart DEF Init, SetsUp, Stands, Entered
<1>. QED  BY <1>1, <1>2, <1>3, <1>4 DEF StdInv, StdFit

LEMMA StdInductive == Spec => []StdInv
<1>1. StdInv /\ [Next]_vars => StdInv'
  BY StdKeeps
<1>. QED  BY <1>1, StdInitial, PTL DEF Spec

\* The variables of the whole have their types.
THEOREM StdTyped == Spec => []TypeOK
<1>1. StdInv => TypeOK
  BY DEF StdInv, StdFit, StdTypes, IInv, MInv, PortalInv, StateFit, PortalTypes, TypeOK
<1>. QED  BY <1>1, StdInductive, PTL

\* __stdmailbox_setup and __stdportal_setup give each thread its own input, although
\* the arrays keep the ids of inputs that are gone and others have been given.
THEOREM StdOwnInput == Spec => []OwnInput
<1>1. ASSUME StdInv, ~again, NEW t \in standing PROVE OwnPort(stdin[Entry(t)], t)
  <2>1. t \in Thread
    BY <1>1 DEF StdInv, StdFit, StdTypes
  <2>. QED  BY <1>1, <2>1 DEF StdInv, StdFit, Stands
<1>2. StdInv => OwnInput
  BY <1>1 DEF OwnPort, OwnInput
<1>. QED  BY <1>2, StdInductive, PTL

\* The mailboxes and the portals keep what they promise, under the standard ones too.
THEOREM StdKeepsBelow == Spec => [](CountersTell /\ WholeMessages /\ AllowsTell)
<1>1. StdInv => CountersTell /\ WholeMessages /\ AllowsTell
  BY DEF StdInv, IInv, PortalInv, Streams, Stream, StreamOf, WholeMessages
<1>. QED  BY <1>1, StdInductive, PTL

-----------------------------------------------------------------------------
(* The messages for a port in a queue                                      *)

LEMMA Elements ==
    ASSUME NEW S, NEW q \in Seq(S)
    PROVE  /\ Len(q) \in Nat /\ Len(q) \in 0..Len(q)
           /\ \A k \in 1..Len(q) : q[k] \in S
OBVIOUS

\* Concatenation, by a name that the provers do not look into.
Join(q, r) == q \o r

LEMMA NothingMore ==
    ASSUME NEW S, NEW q \in Seq(S)
    PROVE  Join(q, <<>>) = q /\ Join(<<>>, q) = q
BY DEF Join

LEMMA AppendLater ==
    ASSUME NEW S, NEW q \in Seq(S), NEW r \in Seq(S), NEW x \in S
    PROVE  Append(Join(q, r), x) = Join(q, Append(r, x))
BY DEF Join

LEMMA Joined ==
    ASSUME NEW S, NEW q \in Seq(S), NEW r \in Seq(S), NEW u \in Seq(S)
    PROVE  Join(q, r) \in Seq(S) /\ Join(Join(q, r), u) = Join(q, Join(r, u))
BY DEF Join

\* f[k] is what the first k messages of q hold for port p.
IsUpTo(f, q, p, n) ==
    f = [k \in 0..n |->
          IF k = 0 THEN <<>>
          ELSE IF q[k].port = p THEN Append(f[k - 1], q[k].msg) ELSE f[k - 1]]

MessagesIn(q, p) == (CHOOSE f : IsUpTo(f, q, p, Len(q)))[Len(q)]

LEMMA ArrivingIs ==
    ASSUME NEW p
    PROVE  Arriving(p) = MessagesIn(wire, p) /\ Arriving(p)' = MessagesIn(wire', p)
BY DEF Arriving, MessagesIn, IsUpTo

LEMMA UpToStep ==
    ASSUME NEW f, NEW q, NEW p, NEW n \in Nat, IsUpTo(f, q, p, n)
    PROVE  /\ f[0] = <<>>
           /\ \A k \in 0..n - 1 :
                f[k + 1] = IF q[k + 1].port = p THEN Append(f[k], q[k + 1].msg) ELSE f[k]
<1>1. f[0] = <<>>
  BY DEF IsUpTo
<1>2. ASSUME NEW k \in 0..n - 1
      PROVE  f[k + 1] = IF q[k + 1].port = p THEN Append(f[k], q[k + 1].msg) ELSE f[k]
  <2>1. k + 1 \in 0..n /\ k + 1 # 0 /\ (k + 1) - 1 = k
    OBVIOUS
  <2>. QED  BY <2>1 DEF IsUpTo
<1>. QED  BY <1>1, <1>2

LEMMA UpToExists ==
    ASSUME NEW q, NEW p
    PROVE  \A n \in Nat : \E f : IsUpTo(f, q, p, n)
<1>. DEFINE Good == {n \in Nat : \E f : IsUpTo(f, q, p, n)}
<1>1. 0 \in Good
  <2>1. PICK f : f = [k \in 0..0 |-> <<>>]
    OBVIOUS
  <2>2. f = [k \in 0..0 |-> IF k = 0 THEN <<>>
             ELSE IF q[k].port = p THEN Append(f[k - 1], q[k].msg) ELSE f[k - 1]]
    BY <2>1
  <2>3. IsUpTo(f, q, p, 0)
    BY <2>2 DEF IsUpTo
  <2>. QED  BY <2>3
<1>2. ASSUME NEW n \in Good PROVE n + 1 \in Good
  <2>1. PICK f : IsUpTo(f, q, p, n)
    OBVIOUS
  <2>2. PICK x : x = IF q[n + 1].port = p THEN Append(f[n], q[n + 1].msg) ELSE f[n]
    OBVIOUS
  <2>3. PICK g : g = [k \in 0..n + 1 |-> IF k <= n THEN f[k] ELSE x]
    OBVIOUS
  <2>4. ASSUME NEW k \in 0..n + 1, k # 0
        PROVE  g[k] = IF q[k].port = p THEN Append(g[k - 1], q[k].msg) ELSE g[k - 1]
    <3>1. k - 1 \in 0..n /\ g[k - 1] = f[k - 1]
      BY <2>3, <2>4
    <3>2. CASE k = n + 1
      BY <2>2, <2>3, <3>1, <3>2
    <3>3. CASE k <= n
      <4>1. k - 1 \in 0..n - 1 /\ (k - 1) + 1 = k /\ g[k] = f[k]
        BY <2>3, <2>4, <3>3
      <4>2. f[k] = IF q[k].port = p THEN Append(f[k - 1], q[k].msg) ELSE f[k - 1]
        <5>1. PICK j : j = k - 1
          OBVIOUS
        <5>2. j \in 0..n - 1 /\ j + 1 = k
          BY <4>1, <5>1
        <5>3. f[j + 1] = IF q[j + 1].port = p THEN Append(f[j], q[j + 1].msg) ELSE f[j]
          BY <2>1, <5>2, UpToStep
        <5>. QED  BY <5>1, <5>2, <5>3
      <4>. QED  BY <3>1, <4>1, <4>2
    <3>. QED  BY <2>4, <3>2, <3>3
  <2>5. g[0] = <<>>
    BY <2>1, <2>3, UpToStep
  <2>6. g = [k \in 0..n + 1 |->
              IF k = 0 THEN <<>>
              ELSE IF q[k].port = p THEN Append(g[k - 1], q[k].msg) ELSE g[k - 1]]
    <3>. DEFINE h == [k \in 0..n + 1 |->
              IF k = 0 THEN <<>>
              ELSE IF q[k].port = p THEN Append(g[k - 1], q[k].msg) ELSE g[k - 1]]
    <3>1. ASSUME NEW k \in 0..n + 1 PROVE g[k] = h[k]
      BY <2>4, <2>5
    <3>2. DOMAIN g = 0..n + 1 /\ g = [k \in 0..n + 1 |-> g[k]] /\ DOMAIN h = 0..n + 1
      BY <2>3
    <3>3. h = [k \in 0..n + 1 |-> h[k]]
      BY Zenon
    <3>. HIDE DEF h
    <3>4. g = h
      BY <3>1, <3>2, <3>3
    <3>. QED  BY <3>4 DEF h
  <2>7. IsUpTo(g, q, p, n + 1)
    BY <2>6 DEF IsUpTo
  <2>. QED  BY <2>7
<1>3. Good = Nat
  <2>. HIDE DEF Good
  <2>1. Good \in SUBSET Nat
    BY DEF Good
  <2>. QED  BY <1>1, <1>2, <2>1, NatSetInduction
<1>. QED  BY <1>3

LEMMA MessagesUpTo ==
    ASSUME NEW S, NEW q \in Seq(S), NEW p
    PROVE  \E f : IsUpTo(f, q, p, Len(q)) /\ MessagesIn(q, p) = f[Len(q)]
<1>1. Len(q) \in Nat
  OBVIOUS
<1>2. \E f : IsUpTo(f, q, p, Len(q))
  BY <1>1, UpToExists
<1>. QED  BY <1>2, Zenon DEF MessagesIn

\* The messages for one port, and those of two queues that begin alike.
LEMMA UpToTyped ==
    ASSUME NEW S, NEW M, NEW q \in Seq(S), \A s \in S : s.msg \in M, NEW p, NEW f,
           IsUpTo(f, q, p, Len(q))
    PROVE  \A k \in 0..Len(q) : f[k] \in Seq(M)
<1>. DEFINE Good == {k \in Nat : k <= Len(q) => f[k] \in Seq(M)}
<1>1. 0 \in Good
  <2>1. Len(q) \in Nat
    BY Elements
  <2>2. f[0] = <<>>
    BY <2>1, UpToStep
  <2>3. <<>> \in Seq(M)
    OBVIOUS
  <2>4. f[0] \in Seq(M)
    BY <2>2, <2>3
  <2>. QED  BY <2>4
<1>2. ASSUME NEW k \in Good PROVE k + 1 \in Good
  <2>1. SUFFICES ASSUME k + 1 <= Len(q) PROVE f[k + 1] \in Seq(M)
    OBVIOUS
  <2>2. k \in 0..Len(q) - 1 /\ f[k] \in Seq(M) /\ Len(q) \in Nat
    BY <2>1
  <2>3. f[k + 1] = IF q[k + 1].port = p THEN Append(f[k], q[k + 1].msg) ELSE f[k]
    BY <2>2, UpToStep
  <2>4. q[k + 1].msg \in M
    <3>1. k + 1 \in 1..Len(q)
      BY <2>2
    <3>2. q[k + 1] \in S
      BY <3>1, Elements
    <3>. QED  BY <3>2
  <2>5. Append(f[k], q[k + 1].msg) \in Seq(M)
    BY <2>2, <2>4
  <2>. QED  BY <2>2, <2>3, <2>5
<1>3. Good = Nat
  <2>. HIDE DEF Good
  <2>1. Good \in SUBSET Nat
    BY DEF Good
  <2>. QED  BY <1>1, <1>2, <2>1, NatSetInduction
<1>. QED  BY <1>3

LEMMA UpToAgree ==
    ASSUME NEW q, NEW r, NEW p, NEW f, NEW g, NEW n \in Nat, NEW m \in Nat,
           IsUpTo(f, q, p, n), IsUpTo(g, r, p, m), n <= m,
           \A k \in 1..n : q[k] = r[k]
    PROVE  \A k \in 0..n : f[k] = g[k]
<1>. DEFINE Good == {k \in Nat : k <= n => f[k] = g[k]}
<1>1. 0 \in Good
  BY UpToStep
<1>2. ASSUME NEW k \in Good PROVE k + 1 \in Good
  <2>1. SUFFICES ASSUME k + 1 <= n PROVE f[k + 1] = g[k + 1]
    OBVIOUS
  <2>2. k \in 0..n - 1 /\ k \in 0..m - 1 /\ k + 1 \in 1..n /\ f[k] = g[k]
    BY <2>1
  <2>3. /\ f[k + 1] = IF q[k + 1].port = p THEN Append(f[k], q[k + 1].msg) ELSE f[k]
        /\ g[k + 1] = IF r[k + 1].port = p THEN Append(g[k], r[k + 1].msg) ELSE g[k]
    BY <2>2, UpToStep
  <2>. QED  BY <2>2, <2>3
<1>3. Good = Nat
  <2>. HIDE DEF Good
  <2>1. Good \in SUBSET Nat
    BY DEF Good
  <2>. QED  BY <1>1, <1>2, <2>1, NatSetInduction
<1>. QED  BY <1>3

LEMMA MessagesTyped ==
    ASSUME NEW S, NEW M, NEW q \in Seq(S), \A s \in S : s.msg \in M, NEW p
    PROVE  MessagesIn(q, p) \in Seq(M)
<1>1. PICK f : IsUpTo(f, q, p, Len(q)) /\ MessagesIn(q, p) = f[Len(q)]
  BY MessagesUpTo
<1>2. Len(q) \in 0..Len(q)
  BY Elements
<1>3. \A k \in 0..Len(q) : f[k] \in Seq(M)
  BY <1>1, UpToTyped
<1>4. f[Len(q)] \in Seq(M)
  BY <1>2, <1>3, Zenon
<1>. QED  BY <1>1, <1>4

LEMMA MessagesEmpty == ASSUME NEW p PROVE MessagesIn(<<>>, p) = <<>>
<1>1. <<>> \in Seq({}) /\ Len(<<>>) = 0
  OBVIOUS
<1>2. PICK f : IsUpTo(f, <<>>, p, 0) /\ MessagesIn(<<>>, p) = f[0]
  BY <1>1, MessagesUpTo
<1>. QED  BY <1>2, UpToStep

LEMMA MessagesAppend ==
    ASSUME NEW S, NEW M, NEW q \in Seq(S), \A s \in S : s.msg \in M, NEW x \in S, NEW p
    PROVE  MessagesIn(Append(q, x), p) =
             IF x.port = p THEN Append(MessagesIn(q, p), x.msg) ELSE MessagesIn(q, p)
<1>1. PICK r : r = Append(q, x)
  OBVIOUS
<1>2. /\ r \in Seq(S) /\ Len(r) = Len(q) + 1 /\ Len(q) \in Nat
      /\ r[Len(q) + 1] = x /\ \A k \in 1..Len(q) : q[k] = r[k]
  BY <1>1
<1>3. PICK f : IsUpTo(f, q, p, Len(q)) /\ MessagesIn(q, p) = f[Len(q)]
  BY MessagesUpTo
<1>4. PICK g : IsUpTo(g, r, p, Len(r)) /\ MessagesIn(r, p) = g[Len(r)]
  BY <1>2, MessagesUpTo
<1>5. g[Len(q)] = f[Len(q)]
  <2>1. \A k \in 0..Len(q) : f[k] = g[k]
    <3>1. PICK n, m : n = Len(q) /\ m = Len(r)
      OBVIOUS
    <3>2. n \in Nat /\ m \in Nat /\ n <= m /\ \A k \in 1..n : q[k] = r[k]
      BY <1>2, <3>1
    <3>3. IsUpTo(f, q, p, n) /\ IsUpTo(g, r, p, m)
      BY <1>3, <1>4, <3>1
    <3>4. \A k \in 0..n : f[k] = g[k]
      BY <3>2, <3>3, UpToAgree
    <3>. QED  BY <3>1, <3>4
  <2>2. Len(q) \in 0..Len(q)
    BY <1>2
  <2>. QED  BY <2>1, <2>2, Zenon
<1>6. g[Len(q) + 1] = IF r[Len(q) + 1].port = p THEN Append(g[Len(q)], r[Len(q) + 1].msg)
                                                ELSE g[Len(q)]
  BY <1>2, <1>4, UpToStep
<1>. QED  BY <1>1, <1>2, <1>3, <1>4, <1>5, <1>6

LEMMA UpToShift ==
    ASSUME NEW M, NEW b \in Seq(M), NEW q, NEW r, NEW p, NEW f, NEW g, NEW n \in Nat,
           NEW m, m = n + 1,
           IsUpTo(f, q, p, m), IsUpTo(g, r, p, n), f[1] = b,
           \A k \in 1..n : r[k] = q[k + 1] /\ r[k].msg \in M,
           \A k \in 0..n : g[k] \in Seq(M)
    PROVE  f[m] = Join(b, g[n])
<1>. DEFINE Good == {k \in Nat : k <= n => f[k + 1] = Join(b, g[k])}
<1>1. 0 \in Good
  <2>1. g[0] = <<>> /\ Join(b, <<>>) = b
    BY UpToStep, NothingMore
  <2>. QED  BY <2>1
<1>2. ASSUME NEW k \in Good PROVE k + 1 \in Good
  <2>1. SUFFICES ASSUME k + 1 <= n PROVE f[(k + 1) + 1] = Join(b, g[k + 1])
    OBVIOUS
  <2>2. /\ k \in 0..n - 1 /\ k + 1 \in 0..m - 1 /\ k + 1 \in 1..n
        /\ f[k + 1] = Join(b, g[k]) /\ g[k] \in Seq(M)
    BY <2>1
  <2>3. f[(k + 1) + 1] = IF q[(k + 1) + 1].port = p THEN Append(f[k + 1], q[(k + 1) + 1].msg)
                                                    ELSE f[k + 1]
    <3>1. PICK j : j = k + 1
      OBVIOUS
    <3>2. f[j + 1] = IF q[j + 1].port = p THEN Append(f[j], q[j + 1].msg) ELSE f[j]
      BY <2>2, <3>1, UpToStep
    <3>. QED  BY <3>1, <3>2
  <2>4. g[k + 1] = IF r[k + 1].port = p THEN Append(g[k], r[k + 1].msg) ELSE g[k]
    BY <2>2, UpToStep
  <2>5. r[k + 1] = q[(k + 1) + 1] /\ r[k + 1].msg \in M
    BY <2>2
  <2>6. PICK c, x : c = g[k] /\ x = r[k + 1].msg
    OBVIOUS
  <2>7. Append(Join(b, c), x) = Join(b, Append(c, x))
    BY <2>2, <2>5, <2>6, AppendLater, SMTT(30)
  <2>. QED  BY <2>2, <2>3, <2>4, <2>5, <2>6, <2>7
<1>3. Good = Nat
  <2>. HIDE DEF Good
  <2>1. Good \in SUBSET Nat
    BY DEF Good
  <2>. QED  BY <1>1, <1>2, <2>1, NatSetInduction
<1>. QED  BY <1>3

LEMMA MessagesTail ==
    ASSUME NEW S, NEW M, NEW q \in Seq(S), \A s \in S : s.msg \in M, q # <<>>, NEW p
    PROVE  MessagesIn(q, p) = IF Head(q).port = p THEN Join(<<Head(q).msg>>, MessagesIn(Tail(q), p))
                                                  ELSE MessagesIn(Tail(q), p)
<1>1. PICK r : r = Tail(q)
  OBVIOUS
<1>2. /\ r \in Seq(S) /\ Len(q) = Len(r) + 1 /\ Len(r) \in Nat
      /\ q[1] = Head(q) /\ \A k \in 1..Len(r) : r[k] = q[k + 1]
  BY <1>1
<1>3. PICK f : IsUpTo(f, q, p, Len(q)) /\ MessagesIn(q, p) = f[Len(q)]
  BY MessagesUpTo
<1>4. PICK g : IsUpTo(g, r, p, Len(r)) /\ MessagesIn(r, p) = g[Len(r)]
  BY <1>2, MessagesUpTo
<1>5. PICK b : b = IF Head(q).port = p THEN <<Head(q).msg>> ELSE <<>>
  OBVIOUS
<1>6. Head(q) \in S /\ Head(q).msg \in M
  <2>1. 1 \in 1..Len(q)
    BY <1>2
  <2>2. q[1] \in S
    BY <2>1, Elements
  <2>. QED  BY <1>2, <2>2
<1>7. b \in Seq(M)
  BY <1>5, <1>6
<1>8. f[1] = b
  <2>1. /\ f[0] = <<>>
        /\ f[0 + 1] = IF q[0 + 1].port = p THEN Append(f[0], q[0 + 1].msg) ELSE f[0]
    BY <1>2, <1>3, UpToStep
  <2>. QED  BY <1>2, <1>5, <1>6, <2>1
<1>9. \A k \in 0..Len(r) : g[k] \in Seq(M)
  BY <1>2, <1>4, UpToTyped
<1>10. \A k \in 1..Len(r) : r[k] = q[k + 1] /\ r[k].msg \in M
  <2>1. ASSUME NEW k \in 1..Len(r) PROVE r[k].msg \in M
    <3>1. r[k] \in S
      BY <1>2, <2>1, Elements
    <3>. QED  BY <3>1
  <2>. QED  BY <1>2, <2>1
<1>11. PICK n : n = Len(r)
  OBVIOUS
<1>12. n \in Nat /\ Len(q) = n + 1 /\ IsUpTo(g, r, p, n)
  BY <1>2, <1>3, <1>4, <1>11
<1>13. f[Len(q)] = Join(b, g[Len(r)])
  <2>1. f[Len(q)] = Join(b, g[n])
    <3>1. /\ \A k \in 1..n : r[k] = q[k + 1] /\ r[k].msg \in M
          /\ \A k \in 0..n : g[k] \in Seq(M)
      BY <1>9, <1>10, <1>11, Zenon
    <3>. QED  BY <1>3, <1>7, <1>8, <1>12, <3>1, UpToShift
  <2>. QED  BY <1>2, <1>11, <2>1
<1>14. Join(<<>>, g[Len(r)]) = g[Len(r)]
  BY <1>2, <1>9, NothingMore
<1>. QED  BY <1>1, <1>3, <1>4, <1>5, <1>13, <1>14

-----------------------------------------------------------------------------
(* The mailboxes as channels                                               *)

\* Of a call that reads: its mailbox is for input, and no message is kept for the
\* reader of the wire.  Of a call that writes: nobody has sent its message.
ReaderFits(t) ==
    /\ mcall[t].counter = "nreads" => mailbox[mcall[t].id].kind = "in"
    /\ mcall[t].at = "aread" => mcall[t].buffer = None
    /\ wireReader = t =>
         mcall[t].at = "await" /\ mcall[t].buffer = None /\ kept[PortOfCall(t)] = <<>>

WriterFits(t) ==
    mcall[t].at = "awrite" =>
        /\ mcall[t].buffer <= calls /\ mcall[t].buffer \notin sent
        /\ \A u \in Thread \ {t} :
             mcall[u].at = "awrite" => mcall[u].buffer # mcall[t].buffer

\* A port has one input mailbox, and nothing is kept for a port without.
InputsFit ==
    /\ \A i, j \in MailboxId :
         mailbox[i] # None /\ mailbox[i].kind = "in" /\ mailbox[j] = mailbox[i] => i = j
    /\ \A p \in MailboxPort : p \notin Inputs => kept[p] = <<>>

ChanFit ==
    /\ \A t \in Thread : ReaderFits(t) /\ WriterFits(t)
    /\ InputsFit
    /\ \A m \in sent : m <= calls

LEMMA ReaderIs ==
    ASSUME MInv, ChanFit, NEW p, NEW t \in Readers(p)
    PROVE  /\ t \in Thread /\ mcall[t].counter = "nreads" /\ PortOfCall(t) = p
           /\ mcall[t].id \in held[t] /\ mcall[t].id \in MailboxId /\ p \in MailboxPort
           /\ mailbox[mcall[t].id] = [kind |-> "in", port |-> p] /\ p \in Inputs
           /\ \A u \in Readers(p) : u = t
<1>1. ASSUME NEW u \in Readers(p)
      PROVE  /\ u \in Thread /\ mcall[u].counter = "nreads" /\ PortOfCall(u) = p
             /\ mcall[u].id \in held[u] /\ mcall[u].id \in MailboxId /\ p \in MailboxPort
             /\ mailbox[mcall[u].id] = [kind |-> "in", port |-> p]
             /\ mailbox[mcall[u].id] # None
  <2>1. u \in Thread /\ mcall[u].counter = "nreads" /\ PortOfCall(u) = p
    BY DEF Readers
  <2>2. /\ mcall[u].id \in held[u] /\ mcall[u].id \in MailboxId /\ p \in MailboxPort
        /\ mailbox[mcall[u].id] # None
    BY <2>1, HasMailbox DEF Transfers
  <2>3. /\ mailbox[mcall[u].id] \in [kind : {"in", "out"}, port : MailboxPort]
        /\ mailbox[mcall[u].id].port = p /\ mailbox[mcall[u].id].kind = "in"
    BY <2>1, <2>2 DEF MInv, MailboxTypeOK, PortOfCall, ChanFit, ReaderFits
  <2>. QED  BY <2>1, <2>2, <2>3
<1>2. p \in Inputs
  BY <1>1 DEF Inputs
<1>3. ASSUME NEW u \in Readers(p), u # t PROVE FALSE
  <2>1. mailbox[mcall[t].id].kind = "in"
    BY <1>1
  <2>2. mcall[u].id = mcall[t].id
    BY <1>1, <2>1, Zenon DEF ChanFit, InputsFit
  <2>3. mcall[u].id \in Owns(u) /\ mcall[t].id \in Owns(t)
    BY <1>1 DEF Owns
  <2>. QED  BY <1>1, <1>3, <2>2, <2>3 DEF MInv, OwnsOK
<1>. QED  BY <1>1, <1>2, <1>3

\* The first part of what Content says of a port.
Buffered(p) ==
    IF InBuffer(p) = {} THEN <<>> ELSE <<CHOOSE m \in InBuffer(p) : TRUE>>

LEMMA ContentIs ==
    ASSUME NEW p
    PROVE  /\ Content(p) = Join(Join(Buffered(p), kept[p]), MessagesIn(wire, p))
           /\ Content(p)' = Join(Join(Buffered(p)', kept'[p]), MessagesIn(wire', p))
<1>1. Content(p) = Join(Join(Buffered(p), kept[p]), Arriving(p))
  BY Zenon DEF Content, Buffered, Join
<1>2. Content(p)' = Join(Join(Buffered(p)', kept'[p]), Arriving(p)')
  BY Zenon DEF Content, Buffered, Join
<1>3. Arriving(p) = MessagesIn(wire, p) /\ Arriving(p)' = MessagesIn(wire', p)
  BY ArrivingIs
<1>. QED  BY <1>1, <1>2, <1>3, Zenon

LEMMA BufferedIs ==
    MInv /\ ChanFit =>
        \A p : /\ Readers(p) = {} => Buffered(p) = <<>>
               /\ \A t \in Readers(p) :
                    /\ mcall[t].buffer = None => Buffered(p) = <<>>
                    /\ mcall[t].buffer # None => Buffered(p) = <<mcall[t].buffer>>
               /\ Buffered(p) \in Seq(Message)
<1>. SUFFICES ASSUME MInv, ChanFit, NEW p
              PROVE  /\ Readers(p) = {} => Buffered(p) = <<>>
                     /\ \A t \in Readers(p) :
                          /\ mcall[t].buffer = None => Buffered(p) = <<>>
                          /\ mcall[t].buffer # None => Buffered(p) = <<mcall[t].buffer>>
                     /\ Buffered(p) \in Seq(Message)
  OBVIOUS
<1>1. Readers(p) = {} => Buffered(p) = <<>>
  BY DEF Buffered, InBuffer
<1>2. ASSUME NEW t \in Readers(p)
      PROVE  /\ mcall[t].buffer = None => Buffered(p) = <<>>
             /\ mcall[t].buffer # None => Buffered(p) = <<mcall[t].buffer>>
             /\ mcall[t].buffer \in Message \cup {None}
  <2>1. /\ t \in Thread /\ \A u \in Readers(p) : u = t
        /\ mcall[t] \in MailboxCalls
    BY ReaderIs DEF MInv, MailboxTypeOK
  <2>2. mcall[t].buffer = None => InBuffer(p) = {}
    BY <2>1 DEF InBuffer
  <2>3. mcall[t].buffer # None => InBuffer(p) = {mcall[t].buffer}
    BY <2>1 DEF InBuffer
  <2>. QED  BY <2>1, <2>2, <2>3 DEF Buffered, MailboxCalls
<1>3. Buffered(p) \in Seq(Message)
  <2>1. CASE Readers(p) = {}
    BY <1>1, <2>1
  <2>2. CASE Readers(p) # {}
    <3>1. PICK t : t \in Readers(p)
      BY <2>2
    <3>2. PICK m : m = mcall[t].buffer
      OBVIOUS
    <3>3. Buffered(p) = <<>> \/ (m \in Message /\ Buffered(p) = <<m>>)
      BY <1>2, <3>1, <3>2
    <3>4. <<>> \in Seq(Message) /\ (m \in Message => <<m>> \in Seq(Message))
      OBVIOUS
    <3>. QED  BY <3>3, <3>4, Zenon
  <2>. QED  BY <2>1, <2>2
<1>. QED  BY <1>1, <1>2, <1>3

LEMMA ContentTyped ==
    ASSUME MInv, ChanFit, NEW p \in MailboxPort
    PROVE  /\ Buffered(p) \in Seq(Message) /\ kept[p] \in Seq(Message)
           /\ MessagesIn(wire, p) \in Seq(Message)
<1>1. kept[p] \in Seq(Message)
  BY DEF MInv, MailboxTypeOK
<1>2. MessagesIn(wire, p) \in Seq(Message)
  <2>. DEFINE S == [port : MailboxPort, msg : Message]
  <2>1. wire \in Seq(S) /\ \A s \in S : s.msg \in Message
    BY DEF MInv, MailboxTypeOK
  <2>. HIDE DEF S
  <2>. QED  BY <2>1, MessagesTyped
<1>. QED  BY <1>1, <1>2, BufferedIs

\* Who reads from port p, and what is in its buffer, when t does not read from it.
LEMMA BufferedStays ==
    ASSUME NEW t \in Thread, NEW p, t \notin Readers(p), t \notin Readers(p)',
           \A u \in Thread \ {t} :
               /\ mcall'[u] = mcall[u]
               /\ mcall[u].counter = "nreads" => mailbox'[mcall[u].id] = mailbox[mcall[u].id]
    PROVE  Readers(p)' = Readers(p) /\ Buffered(p)' = Buffered(p)
<1>1. ASSUME NEW u \in Thread
      PROVE  u \in Readers(p)' <=> u \in Readers(p)
  BY DEF Readers, PortOfCall
<1>2. Readers(p)' = Readers(p)
  BY <1>1 DEF Readers
<1>3. \A u \in Readers(p) : u \in Thread \ {t}
  BY DEF Readers
<1>4. InBuffer(p)' = InBuffer(p)
  BY <1>2, <1>3 DEF InBuffer
<1>. QED  BY <1>2, <1>4 DEF Buffered

LEMMA ContentMoves ==
    ASSUME NEW p \in MailboxPort, NEW s, Content(p)' = s,
           \A q \in MailboxPort \ {p} : Content(q)' = Content(q)
    PROVE  [q \in MailboxPort |-> Content(q)]' =
             [[q \in MailboxPort |-> Content(q)] EXCEPT ![p] = s]
OBVIOUS

LEMMA ContentRests ==
    ASSUME \A q \in MailboxPort : Content(q)' = Content(q)
    PROVE  [q \in MailboxPort |-> Content(q)]' = [q \in MailboxPort |-> Content(q)]
OBVIOUS

-----------------------------------------------------------------------------
(* Each step of a thread, for the channels                                 *)

\* What the other threads see of a step of t.
LEMMA OthersSee ==
    ASSUME IInv, NEW t \in Thread, MailboxMove(t)
    PROVE  \A u \in Thread \ {t} :
              /\ mcall'[u] = mcall[u]
              /\ mcall[u].counter = "nreads" => mailbox'[mcall[u].id] = mailbox[mcall[u].id]
<1>1. /\ \A u \in Thread \ {t} : mcall'[u] = mcall[u]
      /\ \A i \in MailboxId \ held[t] : mailbox[i] # None => mailbox'[i] = mailbox[i]
  BY MailboxFrames
<1>2. ASSUME NEW u \in Thread \ {t}, mcall[u].counter = "nreads"
      PROVE  mailbox'[mcall[u].id] = mailbox[mcall[u].id]
  <2>1. MInv
    BY DEF IInv
  <2>2. mcall[u].id \in held[u] /\ mcall[u].id \in MailboxId /\ mailbox[mcall[u].id] # None
    BY <1>2, <2>1, HasMailbox DEF Transfers
  <2>3. mcall[u].id \notin held[t]
    BY <2>1, <2>2 DEF MInv, OwnsOK, Owns
  <2>. QED  BY <1>1, <2>2, <2>3
<1>. QED  BY <1>1, <1>2

\* What fits for the others goes on to fit.
LEMMA OthersGoOn ==
    ASSUME ChanFit, NEW t \in Thread, NEW u \in Thread \ {t},
           mcall'[u] = mcall[u],
           mcall[u].counter = "nreads" => mailbox'[mcall[u].id] = mailbox[mcall[u].id],
           wireReader = u => mcall[u].counter = "nreads",
           wireReader' \in {wireReader, t, None}, None \notin Thread,
           wireReader = u /\ wireReader' = u => kept'[PortOfCall(u)] = <<>>
    PROVE  ReaderFits(u)'
<1>1. ReaderFits(u)
  BY DEF ChanFit
<1>2. wireReader' = u => wireReader = u /\ PortOfCall(u)' = PortOfCall(u)
  BY DEF PortOfCall
<1>3. ASSUME wireReader' = u PROVE kept'[PortOfCall(u)'] = <<>>
  BY <1>2, <1>3
<1>. QED  BY <1>1, <1>2, <1>3 DEF ReaderFits

\* The steps that neither write nor read.
Silent(t) ==
    /\ UNCHANGED <<mailbox, wire, kept, sent, received>>
    /\ mcall[t].counter # "nreads" /\ mcall'[t].counter # "nreads"
    /\ wireReader' = wireReader /\ wireReader # t

LEMMA SilentSteps ==
    ASSUME IInv, ChanFit, NEW t \in Thread, MailboxMove(t), Silent(t)
    PROVE  UNCHANGED <<Inputs, sent, received>> /\ \A p \in MailboxPort : Content(p)' = Content(p)
<1>1. Inputs' = Inputs
  BY DEF Silent, Inputs
<1>2. ASSUME NEW p \in MailboxPort PROVE Content(p)' = Content(p)
  <2>1. t \notin Readers(p) /\ t \notin Readers(p)'
    BY DEF Silent, Readers
  <2>2. Buffered(p)' = Buffered(p)
    BY <2>1, OthersSee, BufferedStays
  <2>. QED  BY <2>2, ContentIs DEF Silent
<1>. QED  BY <1>1, <1>2 DEF Silent

LEMMA FitMoves ==
    ASSUME IInv, ChanFit, NEW t \in Thread, MailboxMove(t),
           ReaderFits(t)', WriterFits(t)', InputsFit',
           wireReader' \in {wireReader, t, None},
           \A u \in Thread \ {t} :
               wireReader = u /\ wireReader' = u => kept'[PortOfCall(u)] = <<>>,
           calls <= calls',
           \A m \in sent' : m \in sent \/ (mcall[t].at = "awrite" /\ m = mcall[t].buffer)
    PROVE  ChanFit'
<1>0. /\ MInv /\ calls \in Nat /\ calls' \in Nat /\ sent \subseteq Message /\ sent' \subseteq Message
      /\ IInv' /\ None \notin Thread
  <2>1. IInv'
    BY Steps DEF IInv, MailboxMove
  <2>. QED  BY <2>1, ProcessAssumption DEF IInv, MInv, MailboxTypeOK
<1>1. /\ \A u \in Thread : ReaderFits(u) /\ WriterFits(u) /\ Fits(mcall[u])
      /\ \A m \in sent : m <= calls
  BY <1>0 DEF ChanFit, MInv, CallsOK
<1>2. \A u \in Thread \ {t} :
         /\ mcall'[u] = mcall[u]
         /\ mcall[u].counter = "nreads" => mailbox'[mcall[u].id] = mailbox[mcall[u].id]
  BY OthersSee
<1>3. ASSUME NEW u \in Thread \ {t} PROVE ReaderFits(u)'
  <2>1. wireReader = u => mcall[u].counter = "nreads"
    BY <1>1 DEF ReaderFits, Fits
  <2>. QED  BY <1>0, <1>2, <2>1, OthersGoOn
<1>4. ASSUME NEW u \in Thread \ {t}, mcall'[u].at = "awrite"
      PROVE  /\ mcall'[u].buffer <= calls' /\ mcall'[u].buffer \notin sent'
             /\ \A v \in Thread \ {u} :
                  mcall'[v].at = "awrite" => mcall'[v].buffer # mcall'[u].buffer
  <2>1. /\ mcall[u].at = "awrite" /\ mcall[u].buffer <= calls /\ mcall[u].buffer \notin sent
        /\ mcall[u].buffer \in Message /\ mcall'[u].buffer = mcall[u].buffer
        /\ mcall[t].at = "awrite" => mcall[t].buffer # mcall[u].buffer
    BY <1>1, <1>2, <1>4 DEF WriterFits, Fits
  <2>2. mcall[u].buffer <= calls'
    BY <1>0, <2>1 DEF Message
  <2>3. mcall[u].buffer \notin sent'
    BY <2>1
  <2>4. ASSUME NEW v \in Thread \ {u}, mcall'[v].at = "awrite"
        PROVE  mcall'[v].buffer # mcall'[u].buffer
    <3>1. CASE v = t
      BY <1>4, <2>4, <3>1 DEF WriterFits
    <3>2. CASE v # t
      BY <1>1, <1>2, <2>1, <2>4, <3>2 DEF WriterFits
    <3>. QED  BY <3>1, <3>2
  <2>. QED  BY <2>1, <2>2, <2>3, <2>4
<1>5. ASSUME NEW u \in Thread \ {t} PROVE WriterFits(u)'
  BY <1>4 DEF WriterFits
<1>6. ASSUME NEW m \in sent' PROVE m <= calls'
  <2>1. m \in Message /\ m <= calls
    BY <1>0, <1>1, <1>6 DEF WriterFits
  <2>. QED  BY <1>0, <2>1 DEF Message
<1>. QED  BY <1>3, <1>5, <1>6 DEF ChanFit

\* The call of the thread itself, when the step is neither for a reader nor for the
\* kernel's acceptance of a message.
LEMMA Uninvolved ==
    ASSUME IInv, ChanFit, NEW t \in Thread, MailboxMove(t),
           UNCHANGED <<mailbox, kept, calls, sent>>,
           mcall'[t].at \notin {"awrite", "aread"}, mcall'[t].counter # "nreads",
           wireReader' \in {wireReader, None}, wireReader' # t
    PROVE  ChanFit'
<1>1. ReaderFits(t)' /\ WriterFits(t)'
  BY DEF ReaderFits, WriterFits
<1>2. InputsFit'
  BY DEF ChanFit, InputsFit, Inputs
<1>3. \A u \in Thread \ {t} : wireReader = u => kept'[PortOfCall(u)] = <<>>
  BY DEF ChanFit, ReaderFits
<1>4. calls \in Nat /\ calls <= calls'
  BY DEF IInv, MInv, MailboxTypeOK
<1>. QED  BY <1>1, <1>2, <1>3, <1>4, FitMoves

\* A step of the channels, or none.
ChannelMoves == Channel!Next \/ UNCHANGED Channel!vars

LEMMA ChannelRests ==
    ASSUME UNCHANGED <<Inputs, sent, received>>, \A p \in MailboxPort : Content(p)' = Content(p)
    PROVE  ChannelMoves
<1>1. [q \in MailboxPort |-> Content(q)]' = [q \in MailboxPort |-> Content(q)]
  BY ContentRests
<1>. QED  BY <1>1 DEF ChannelMoves, Channel!vars

LEMMA SilentMoves ==
    ASSUME IInv, ChanFit, NEW t \in Thread, MailboxMove(t),
           \/ CountMailbox(t) \/ FlagMailbox(t) \/ WaitWritten(t)
           \/ mcall[t].counter = "nwrites" /\ (CountTransfer(t) \/ MailboxError(t))
    PROVE  ChanFit' /\ ChannelMoves
<1>0. /\ mcall \in [Thread -> MailboxCalls] /\ mcall[t] \in MailboxCalls
      /\ Fits(mcall[t]) /\ wireReader \in Thread \cup {None} /\ None \notin Thread
      /\ wireReader = t => mcall[t].at = "await"
  BY ProcessAssumption DEF IInv, MInv, MailboxTypeOK, CallsOK, ChanFit, ReaderFits
<1>1. wireReader # t
  BY <1>0 DEF CountMailbox, FlagMailbox, WaitWritten, CountTransfer, In, Fits
<1>2. UNCHANGED <<mailbox, wire, kept, wireReader, sent, received, calls>>
  <2>1. CASE CountMailbox(t) \/ FlagMailbox(t) \/ WaitWritten(t)
    BY <2>1 DEF CountMailbox, FlagMailbox, WaitWritten, kernelVars, mailboxHistory
  <2>2. CASE mcall[t].counter = "nwrites" /\ (CountTransfer(t) \/ MailboxError(t))
    BY <1>1, <2>2 DEF CountTransfer, MailboxError, kernelVars, mailboxHistory
  <2>. QED  BY <2>1, <2>2
<1>3. /\ mcall'[t].at \notin {"awrite", "aread"}
      /\ mcall[t].counter # "nreads" /\ mcall'[t].counter # "nreads"
  <2>1. CASE CountMailbox(t)
    BY <1>0, <2>1 DEF CountMailbox, MailboxCalls
  <2>2. CASE FlagMailbox(t)
    BY <1>0, <2>2, IdleCall DEF FlagMailbox, In, Fits, Transfers
  <2>3. CASE WaitWritten(t)
    BY <1>0, <2>3 DEF WaitWritten, In, Fits, MailboxCalls
  <2>4. CASE mcall[t].counter = "nwrites" /\ (CountTransfer(t) \/ MailboxError(t))
    <3>1. mcall'[t] = Idle
      BY <1>0, <2>4 DEF CountTransfer, MailboxError
    <3>. QED  BY <2>4, <3>1, IdleCall DEF Transfers
  <2>. QED  BY <2>1, <2>2, <2>3, <2>4
<1>4. ChanFit'
  BY <1>1, <1>2, <1>3, Uninvolved
<1>5. Silent(t)
  BY <1>1, <1>2, <1>3 DEF Silent
<1>6. ChannelMoves
  BY <1>5, SilentSteps, ChannelRests
<1>. QED  BY <1>4, <1>6

LEMMA WriteMoves ==
    ASSUME IInv, ChanFit, NEW t \in Thread, MailboxMove(t), NEW i \in held[t], kmailbox_write(t, i)
    PROVE  ChanFit' /\ ChannelMoves
<1>0. /\ mcall \in [Thread -> MailboxCalls] /\ Fits(mcall[t]) /\ calls \in Nat
      /\ wireReader \in Thread \cup {None} /\ sent \subseteq Message
      /\ wireReader = t => mcall[t].at = "await"
  BY DEF IInv, MInv, MailboxTypeOK, CallsOK, ChanFit, ReaderFits
<1>1. /\ UNCHANGED <<mailbox, wire, kept, wireReader, sent, received>> /\ calls' = calls + 1
      /\ mcall[t] = Idle /\ wireReader # t
      /\ mcall'[t] = [at |-> "awrite", counter |-> "nwrites", id |-> i, buffer |-> calls + 1]
  BY <1>0 DEF kmailbox_write, kernelVars, In, Fits
<1>2. Silent(t)
  BY <1>1, IdleCall DEF Silent, Transfers
<1>3. ReaderFits(t)'
  BY <1>1 DEF ReaderFits
<1>4. WriterFits(t)'
  <2>1. \A m \in sent : m <= calls
    BY DEF ChanFit
  <2>2. calls + 1 \notin sent
    BY <1>0, <2>1
  <2>3. ASSUME NEW u \in Thread \ {t}, mcall'[u].at = "awrite"
        PROVE  mcall'[u].buffer # calls + 1
    <3>1. mcall'[u] = mcall[u]
      BY OthersSee
    <3>2. mcall[u].buffer <= calls /\ mcall[u].buffer \in Message
      BY <2>3, <3>1 DEF ChanFit, WriterFits, IInv, MInv, CallsOK, Fits
    <3>. QED  BY <1>0, <3>1, <3>2 DEF Message
  <2>. QED  BY <1>0, <1>1, <2>2, <2>3 DEF WriterFits
<1>5. InputsFit'
  BY <1>1 DEF ChanFit, InputsFit, Inputs
<1>6. \A u \in Thread \ {t} : wireReader = u => kept'[PortOfCall(u)] = <<>>
  BY <1>1 DEF ChanFit, ReaderFits
<1>7. ChanFit'
  BY <1>0, <1>1, <1>3, <1>4, <1>5, <1>6, FitMoves
<1>8. ChannelMoves
  BY <1>2, SilentSteps, ChannelRests
<1>. QED  BY <1>7, <1>8

\* What the wire holds has a port and a message.
LEMMA WireAppend ==
    ASSUME MInv, NEW p, NEW q \in MailboxPort, NEW m \in Message,
           wire' = Append(wire, [port |-> q, msg |-> m])
    PROVE  MessagesIn(wire', p) = IF q = p THEN Append(MessagesIn(wire, p), m)
                                            ELSE MessagesIn(wire, p)
<1>. DEFINE S == [port : MailboxPort, msg : Message]
<1>1. wire \in Seq(S) /\ \A s \in S : s.msg \in Message
  BY DEF MInv, MailboxTypeOK
<1>2. PICK x \in S : x = [port |-> q, msg |-> m]
  OBVIOUS
<1>3. x.port = q /\ x.msg = m /\ wire' = Append(wire, x)
  BY <1>2
<1>. HIDE DEF S
<1>4. MessagesIn(Append(wire, x), p) =
        IF x.port = p THEN Append(MessagesIn(wire, p), x.msg) ELSE MessagesIn(wire, p)
  BY <1>1, MessagesAppend
<1>. QED  BY <1>3, <1>4

LEMMA WireTail ==
    ASSUME MInv, NEW p, wire # <<>>, wire' = Tail(wire)
    PROVE  /\ Head(wire).port \in MailboxPort /\ Head(wire).msg \in Message
           /\ Head(wire).port = p =>
                MessagesIn(wire, p) = Join(<<Head(wire).msg>>, MessagesIn(wire', p))
           /\ Head(wire).port # p => MessagesIn(wire, p) = MessagesIn(wire', p)
<1>. DEFINE S == [port : MailboxPort, msg : Message]
<1>1. wire \in Seq(S) /\ \A s \in S : s.msg \in Message /\ s.port \in MailboxPort
  BY DEF MInv, MailboxTypeOK
<1>. HIDE DEF S
<1>2. Head(wire) \in S
  BY <1>1
<1>3. MessagesIn(wire, p) =
        IF Head(wire).port = p THEN Join(<<Head(wire).msg>>, MessagesIn(Tail(wire), p))
                               ELSE MessagesIn(Tail(wire), p)
  BY <1>1, MessagesTail
<1>. QED  BY <1>1, <1>2, <1>3

LEMMA AwriteMoves ==
    ASSUME IInv, ChanFit, NEW t \in Thread, MailboxMove(t), kmailbox_awrite(t)
    PROVE  ChanFit' /\ ChannelMoves
<1>0. /\ MInv /\ mcall \in [Thread -> MailboxCalls] /\ mcall[t] \in MailboxCalls
      /\ Fits(mcall[t]) /\ WriterFits(t) /\ calls \in Nat /\ wireReader \in Thread \cup {None}
      /\ wireReader = t => mcall[t].at = "await"
  BY DEF IInv, MInv, MailboxTypeOK, CallsOK, ChanFit, ReaderFits
<1>1. PICK m, p : m = mcall[t].buffer /\ p = PortOfCall(t)
  OBVIOUS
<1>2. /\ mcall[t].at = "awrite" /\ mcall[t].counter = "nwrites" /\ m \in Message
      /\ m \notin sent /\ wireReader # t
  BY <1>0, <1>1 DEF kmailbox_awrite, In, Fits, WriterFits
<1>3. p \in MailboxPort
  BY <1>0, <1>1, <1>2, HasMailbox DEF Transfers
<1>4. /\ UNCHANGED <<mailbox, kept, wireReader, received, calls>> /\ sent' = sent \cup {m}
      /\ wire' = Append(wire, [port |-> p, msg |-> m])
      /\ mcall'[t].at = "wait" /\ mcall'[t].counter = "nwrites"
  BY <1>0, <1>1, <1>2 DEF kmailbox_awrite, PortOfCall, MailboxCalls
<1>5. ChanFit'
  <2>1. ReaderFits(t)' /\ WriterFits(t)'
    BY <1>2, <1>4 DEF ReaderFits, WriterFits
  <2>2. InputsFit'
    BY <1>4 DEF ChanFit, InputsFit, Inputs
  <2>3. \A u \in Thread \ {t} : wireReader = u => kept'[PortOfCall(u)] = <<>>
    BY <1>4 DEF ChanFit, ReaderFits
  <2>4. \A x \in sent' : x \in sent \/ (mcall[t].at = "awrite" /\ x = mcall[t].buffer)
    BY <1>1, <1>2, <1>4
  <2>5. calls <= calls'
    BY <1>0, <1>4
  <2>. QED  BY <1>4, <2>1, <2>2, <2>3, <2>4, <2>5, FitMoves
<1>6. ASSUME NEW q \in MailboxPort
      PROVE  Content(q)' = IF q = p THEN Append(Content(q), m) ELSE Content(q)
  <2>1. t \notin Readers(q) /\ t \notin Readers(q)'
    BY <1>2, <1>4 DEF Readers
  <2>2. Buffered(q)' = Buffered(q)
    BY <2>1, OthersSee, BufferedStays
  <2>3. MessagesIn(wire', q) = IF p = q THEN Append(MessagesIn(wire, q), m)
                                         ELSE MessagesIn(wire, q)
    BY <1>0, <1>2, <1>3, <1>4, WireAppend
  <2>4. PICK a, c : a = Join(Buffered(q), kept[q]) /\ c = MessagesIn(wire, q)
    OBVIOUS
  <2>5. a \in Seq(Message) /\ c \in Seq(Message)
    BY <1>0, <2>4, ContentTyped, Joined
  <2>6. Append(Join(a, c), m) = Join(a, Append(c, m))
    BY <1>2, <2>5, AppendLater
  <2>7. Content(q) = Join(a, c) /\ Content(q)' = Join(a, MessagesIn(wire', q))
    BY <1>4, <2>2, <2>4, ContentIs
  <2>. QED  BY <2>3, <2>4, <2>6, <2>7
<1>7. Channel!Send(p, m)
  <2>1. [q \in MailboxPort |-> Content(q)]' =
          [[q \in MailboxPort |-> Content(q)] EXCEPT ![p] = Append(Content(p), m)]
    BY <1>3, <1>6, ContentMoves
  <2>2. Inputs' = Inputs
    BY <1>4 DEF Inputs
  <2>. QED  BY <1>2, <1>3, <1>4, <2>1, <2>2 DEF Channel!Send
<1>. QED  BY <1>2, <1>3, <1>5, <1>7 DEF ChannelMoves, Channel!Next

\* Mailboxes come and go: no message moves.
LEMMA MessagesRest ==
    ASSUME IInv, ChanFit, NEW t \in Thread, MailboxMove(t),
           mcall[t] = Idle, mcall'[t].counter # "nreads", UNCHANGED <<wire, kept>>
    PROVE  \A p \in MailboxPort : Content(p)' = Content(p)
<1>. SUFFICES ASSUME NEW p \in MailboxPort PROVE Content(p)' = Content(p)
  OBVIOUS
<1>1. t \notin Readers(p) /\ t \notin Readers(p)'
  BY IdleCall DEF Readers, Transfers
<1>2. Buffered(p)' = Buffered(p)
  BY <1>1, OthersSee, BufferedStays
<1>. QED  BY <1>2, ContentIs

LEMMA ComeAndGo ==
    ASSUME IInv, ChanFit, NEW t \in Thread, MailboxMove(t),
           mcall[t] = Idle, mcall'[t].counter \in Makings \cup Removals, mcall'[t].at = "count",
           UNCHANGED <<wire, kept, wireReader, calls, sent>>, InputsFit'
    PROVE  ChanFit'
<1>1. wireReader \in Thread \cup {None} /\ (wireReader = t => mcall[t].at = "await") /\ calls \in Nat
  BY DEF IInv, MInv, MailboxTypeOK, ChanFit, ReaderFits
<1>2. wireReader # t
  BY <1>1, IdleCall
<1>3. ReaderFits(t)' /\ WriterFits(t)'
  BY <1>2 DEF ReaderFits, WriterFits, Makings, Removals
<1>4. \A u \in Thread \ {t} : wireReader = u => kept'[PortOfCall(u)] = <<>>
  BY DEF ChanFit, ReaderFits
<1>. QED  BY <1>1, <1>3, <1>4, FitMoves

LEMMA MakeMoves ==
    ASSUME IInv, ChanFit, NEW t \in Thread, MailboxMove(t),
           NEW p \in MailboxPort, kmailbox_create(t, p) \/ kmailbox_open(t, p)
    PROVE  ChanFit' /\ ChannelMoves
<1>0. /\ MInv /\ mcall \in [Thread -> MailboxCalls] /\ Fits(mcall[t])
      /\ mailbox \in [MailboxId -> [kind : {"in", "out"}, port : MailboxPort] \cup {None}]
      /\ scene.ids \subseteq MailboxId
  BY MailboxSceneAssumption DEF IInv, MInv, MailboxTypeOK, CallsOK, SceneOK
<1>1. PICK k \in {"in", "out"}, c \in Makings : NewMailbox(t, k, p, c) /\ (k = "in" => p \notin Inputs)
  BY DEF kmailbox_create, kmailbox_open, Makings
<1>2. PICK i \in MailboxId : /\ mailbox[i] = None /\ Succeeds(t, c, i)
                             /\ mailbox' = [mailbox EXCEPT ![i] = [kind |-> k, port |-> p]]
  BY <1>0, <1>1 DEF NewMailbox
<1>3. /\ mcall[t] = Idle /\ mcall'[t].counter = c /\ mcall'[t].at = "count"
      /\ UNCHANGED <<wire, kept, wireReader, calls, sent, received>>
  BY <1>0, <1>1, <1>2 DEF NewMailbox, Succeeds, In, Fits, Idle
<1>4. PICK x \in [kind : {"in", "out"}, port : MailboxPort] : x = [kind |-> k, port |-> p]
  OBVIOUS
<1>5. /\ x.kind = k /\ x.port = p /\ x # None
      /\ mailbox'[i] = x /\ \A j \in MailboxId \ {i} : mailbox'[j] = mailbox[j]
  BY <1>0, <1>2, <1>4, MailboxAssumption
<1>6. k = "in" => Inputs' = Inputs \cup {p}
  BY <1>2, <1>5 DEF Inputs
<1>7. k = "out" => Inputs' = Inputs
  BY <1>2, <1>5 DEF Inputs
<1>8. InputsFit'
  <2>1. ASSUME NEW j \in MailboxId, NEW l \in MailboxId,
               mailbox'[j] # None, mailbox'[j].kind = "in", mailbox'[l] = mailbox'[j]
        PROVE  j = l
    <3>1. CASE j = i /\ l # i
      <4>1. mailbox[l] = x /\ k = "in"
        BY <1>5, <2>1, <3>1
      <4>2. p \in Inputs
        BY <1>5, <2>1, <4>1 DEF Inputs
      <4>. QED  BY <1>1, <4>1, <4>2
    <3>2. CASE j # i /\ l = i
      <4>1. mailbox[j] = x /\ k = "in"
        BY <1>5, <2>1, <3>2
      <4>2. p \in Inputs
        BY <1>5, <2>1, <4>1 DEF Inputs
      <4>. QED  BY <1>1, <4>1, <4>2
    <3>3. CASE j # i /\ l # i
      BY <1>5, <2>1, <3>3 DEF ChanFit, InputsFit
    <3>. QED  BY <3>1, <3>2, <3>3
  <2>2. ASSUME NEW q \in MailboxPort, q \notin Inputs' PROVE kept'[q] = <<>>
    <3>1. q \notin Inputs
      BY <1>6, <1>7, <2>2
    <3>. QED  BY <1>3, <3>1 DEF ChanFit, InputsFit
  <2>. QED  BY <2>1, <2>2 DEF InputsFit
<1>9. ChanFit'
  BY <1>3, <1>8, ComeAndGo
<1>10. \A q \in MailboxPort : Content(q)' = Content(q)
  BY <1>3, MessagesRest DEF Makings
<1>11. CASE k = "in"
  <2>1. [q \in MailboxPort |-> Content(q)]' = [q \in MailboxPort |-> Content(q)]
    BY <1>10, ContentRests
  <2>2. Channel!Create(p)
    BY <1>1, <1>3, <1>6, <1>11, <2>1 DEF Channel!Create
  <2>. QED  BY <1>9, <2>2 DEF ChannelMoves, Channel!Next
<1>12. CASE k = "out"
  BY <1>3, <1>7, <1>9, <1>10, <1>12, ChannelRests
<1>. QED  BY <1>11, <1>12

LEMMA FreeMoves ==
    ASSUME IInv, ChanFit, NEW t \in Thread, MailboxMove(t),
           NEW i \in held[t], kmailbox_unlink(t, i) \/ kmailbox_close(t, i)
    PROVE  ChanFit' /\ ChannelMoves
<1>0. /\ MInv /\ mcall \in [Thread -> MailboxCalls] /\ Fits(mcall[t]) /\ i \in MailboxId
      /\ mailbox \in [MailboxId -> [kind : {"in", "out"}, port : MailboxPort] \cup {None}]
  BY DEF IInv, MInv, MailboxTypeOK, CallsOK
<1>1. PICK c \in Removals : FreeMailbox(t, i, c)
  BY DEF kmailbox_unlink, kmailbox_close, Removals
<1>2. /\ mcall[t] = Idle /\ mcall'[t].counter = c /\ mcall'[t].at = "count"
      /\ mailbox' = [mailbox EXCEPT ![i] = None]
      /\ UNCHANGED <<wire, kept, wireReader, calls, sent, received>>
  BY <1>0, <1>1 DEF FreeMailbox, Succeeds, In, Fits, Idle
<1>3. mailbox'[i] = None /\ \A j \in MailboxId \ {i} : mailbox'[j] = mailbox[j]
  BY <1>0, <1>2
<1>4. PICK x \in [kind : {"in", "out"}, port : MailboxPort] : x = mailbox[i]
  BY <1>0 DEF kmailbox_unlink, kmailbox_close
<1>5. x # None /\ x.port \in MailboxPort /\ (x.kind = "in" => kept[x.port] = <<>>)
  BY <1>4, MailboxAssumption DEF kmailbox_unlink, kmailbox_close
<1>6. x.kind = "in" => x.port \in Inputs /\ Inputs' = Inputs \ {x.port}
  <2>. SUFFICES ASSUME x.kind = "in" PROVE x.port \in Inputs /\ Inputs' = Inputs \ {x.port}
    OBVIOUS
  <2>1. x.port \in Inputs
    BY <1>0, <1>4, <1>5 DEF Inputs
  <2>2. ASSUME NEW j \in MailboxId \ {i}, mailbox[j] # None, mailbox[j].kind = "in"
        PROVE  mailbox[j].port # x.port
    <3>1. mailbox[j] \in [kind : {"in", "out"}, port : MailboxPort]
      BY <1>0, <2>2
    <3>2. mailbox[j].port = x.port => mailbox[j] = x
      BY <2>2, <3>1
    <3>3. mailbox[j] # x
      BY <1>0, <1>4, <1>5, <2>2 DEF ChanFit, InputsFit
    <3>. QED  BY <3>2, <3>3
  <2>3. Inputs' = Inputs \ {x.port}
    BY <1>0, <1>3, <1>4, <2>2 DEF Inputs
  <2>. QED  BY <2>1, <2>3
<1>7. x.kind = "out" => Inputs' = Inputs
  BY <1>0, <1>3, <1>4 DEF Inputs
<1>8. InputsFit'
  <2>1. ASSUME NEW j \in MailboxId, NEW l \in MailboxId,
               mailbox'[j] # None, mailbox'[j].kind = "in", mailbox'[l] = mailbox'[j]
        PROVE  j = l
    BY <1>3, <2>1 DEF ChanFit, InputsFit
  <2>2. ASSUME NEW q \in MailboxPort, q \notin Inputs' PROVE kept'[q] = <<>>
    BY <1>2, <1>5, <1>6, <1>7, <2>2 DEF ChanFit, InputsFit
  <2>. QED  BY <2>1, <2>2 DEF InputsFit
<1>9. ChanFit'
  BY <1>2, <1>8, ComeAndGo
<1>10. \A q \in MailboxPort : Content(q)' = Content(q)
  BY <1>2, MessagesRest DEF Removals
<1>11. CASE x.kind = "in"
  <2>1. [q \in MailboxPort |-> Content(q)]' = [q \in MailboxPort |-> Content(q)]
    BY <1>10, ContentRests
  <2>2. Channel!Remove(x.port)
    BY <1>2, <1>6, <1>11, <2>1 DEF Channel!Remove
  <2>. QED  BY <1>5, <1>9, <2>2 DEF ChannelMoves, Channel!Next
<1>12. CASE x.kind = "out"
  BY <1>2, <1>7, <1>9, <1>10, <1>12, ChannelRests
<1>. QED  BY <1>11, <1>12

\* The oldest message of a queue.
LEMMA Oldest ==
    ASSUME NEW S, NEW q \in Seq(S), q # <<>>
    PROVE  Head(q) \in S /\ Tail(q) \in Seq(S) /\ Join(<<Head(q)>>, Tail(q)) = q
BY DEF Join

LEMMA OneAhead ==
    ASSUME NEW S, NEW x \in S, NEW q \in Seq(S)
    PROVE  /\ Join(<<x>>, q) # <<>> /\ Head(Join(<<x>>, q)) = x /\ Tail(Join(<<x>>, q)) = q
           /\ <<x>> \in Seq(S)
BY DEF Join

LEMMA OneAcross ==
    ASSUME NEW S, NEW a \in Seq(S), NEW b \in Seq(S), NEW x \in S, NEW q \in Seq(S)
    PROVE  Join(Join(a, b), Join(<<x>>, q)) = Join(Join(a, Append(b, x)), q)
<1>1. /\ Join(a, b) \in Seq(S) /\ <<x>> \in Seq(S) /\ Append(b, x) \in Seq(S)
      /\ Join(b, <<x>>) = Append(b, x)
  BY Joined DEF Join
<1>2. PICK o \in Seq(S) : o = <<x>>
  BY <1>1
<1>3. Join(Join(a, b), Join(o, q)) = Join(Join(Join(a, b), o), q)
  BY <1>1, Joined
<1>4. Join(Join(a, b), o) = Join(a, Join(b, o))
  BY Joined
<1>. QED  BY <1>1, <1>2, <1>3, <1>4, Zenon

LEMMA NothingHeld == <<>> \in Seq(Message) /\ Join(<<>>, <<>>) = <<>>
BY DEF Join

\* What a reader of port p changes for the other ports: nothing.
LEMMA OtherPorts ==
    ASSUME IInv, NEW t \in Thread, MailboxMove(t), NEW q, t \notin Readers(q), t \notin Readers(q)',
           kept'[q] = kept[q], MessagesIn(wire', q) = MessagesIn(wire, q)
    PROVE  Content(q)' = Content(q) /\ Buffered(q)' = Buffered(q)
<1>1. Buffered(q)' = Buffered(q)
  BY OthersSee, BufferedStays
<1>. QED  BY <1>1, ContentIs

BufferedTells ==
    \A p : /\ Readers(p) = {} => Buffered(p) = <<>>
           /\ \A t \in Readers(p) :
                /\ mcall[t].buffer = None => Buffered(p) = <<>>
                /\ mcall[t].buffer # None => Buffered(p) = <<mcall[t].buffer>>

LEMMA BufferedNow == MInv /\ ChanFit => BufferedTells
BY BufferedIs DEF BufferedTells

LEMMA BufferedNext == (MInv /\ ChanFit => BufferedTells)'
BY BufferedNow, PTL

LEMMA ReadMoves ==
    ASSUME IInv, ChanFit, NEW t \in Thread, MailboxMove(t), NEW i \in held[t], kmailbox_read(t, i)
    PROVE  ChanFit' /\ ChannelMoves
<1>0. /\ MInv /\ IInv' /\ mcall \in [Thread -> MailboxCalls] /\ Fits(mcall[t]) /\ i \in MailboxId
      /\ mailbox \in [MailboxId -> [kind : {"in", "out"}, port : MailboxPort] \cup {None}]
      /\ wireReader \in Thread \cup {None} /\ (wireReader = t => mcall[t].at = "await")
      /\ calls \in Nat
  BY Steps DEF IInv, MInv, MailboxTypeOK, CallsOK, MailboxMove, ChanFit, ReaderFits
<1>1. /\ mcall[t] = Idle /\ mcall'[t].at = "aread" /\ mcall'[t].counter = "nreads"
      /\ mcall'[t].id = i /\ mcall'[t].buffer = None
      /\ UNCHANGED <<mailbox, wire, kept, wireReader, calls, sent, received>>
      /\ mailbox[i] # None /\ mailbox[i].kind = "in" /\ wireReader # t
  BY <1>0 DEF kmailbox_read, In, Fits, Idle, kernelVars, mailboxHistory
<1>2. ChanFit'
  <2>1. ReaderFits(t)' /\ WriterFits(t)'
    BY <1>1 DEF ReaderFits, WriterFits
  <2>2. InputsFit'
    BY <1>1 DEF ChanFit, InputsFit, Inputs
  <2>3. \A u \in Thread \ {t} : wireReader = u => kept'[PortOfCall(u)] = <<>>
    BY <1>1 DEF ChanFit, ReaderFits
  <2>4. calls <= calls'
    BY <1>0, <1>1
  <2>. QED  BY <1>1, <2>1, <2>2, <2>3, <2>4, FitMoves
<1>3. PICK p : p = mailbox[i].port
  OBVIOUS
<1>4. Readers(p) = {}
  <2>. SUFFICES ASSUME NEW u \in Readers(p) PROVE FALSE
    OBVIOUS
  <2>1. /\ u \in Thread /\ mcall[u].counter = "nreads" /\ mcall[u].id \in held[u]
        /\ mcall[u].id \in MailboxId /\ mailbox[mcall[u].id] = [kind |-> "in", port |-> p]
    BY <1>0, ReaderIs
  <2>2. mailbox[i] \in [kind : {"in", "out"}, port : MailboxPort]
    BY <1>0, <1>1
  <2>3. mailbox[i] = mailbox[mcall[u].id]
    BY <1>1, <1>3, <2>1, <2>2
  <2>4. i = mcall[u].id
    BY <1>0, <1>1, <2>1, <2>3 DEF ChanFit, InputsFit
  <2>5. u # t
    BY <1>1, <2>1, IdleCall DEF Transfers
  <2>. QED  BY <1>0, <2>1, <2>4, <2>5 DEF MInv, OwnsOK, Owns
<1>5. t \in Readers(p)' /\ \A q : t \notin Readers(q) /\ (q # p => t \notin Readers(q)')
  <2>1. mcall[t].counter # "nreads" /\ PortOfCall(t)' = p
    BY <1>1, <1>3, IdleCall DEF PortOfCall, Transfers
  <2>. QED  BY <1>1, <2>1 DEF Readers
<1>6. ASSUME NEW q \in MailboxPort PROVE Content(q)' = Content(q)
  <2>1. CASE q = p
    <3>1. Buffered(q) = <<>>
      BY <1>0, <1>4, <2>1, BufferedNow DEF BufferedTells
    <3>2. Buffered(q)' = <<>>
      BY <1>0, <1>1, <1>2, <1>5, <2>1, BufferedNext DEF BufferedTells, IInv
    <3>. QED  BY <1>1, <3>1, <3>2, ContentIs
  <2>2. CASE q # p
    BY <1>1, <1>5, <2>2, OtherPorts
  <2>. QED  BY <2>1, <2>2
<1>7. Inputs' = Inputs
  BY <1>1 DEF Inputs
<1>. QED  BY <1>1, <1>2, <1>6, <1>7, ChannelRests

\* A thread that reads, and goes on to.
LEMMA ReaderGoesOn ==
    ASSUME MInv, ChanFit, NEW t \in Thread, mcall[t].counter = "nreads", UNCHANGED mailbox,
           mcall'[t].counter = "nreads", mcall'[t].id = mcall[t].id
    PROVE  /\ PortOfCall(t) \in MailboxPort /\ PortOfCall(t)' = PortOfCall(t)
           /\ t \in Readers(PortOfCall(t)) /\ t \in Readers(PortOfCall(t))'
           /\ \A q : q # PortOfCall(t) => t \notin Readers(q) /\ t \notin Readers(q)'
           /\ PortOfCall(t) \in Inputs /\ Inputs' = Inputs
<1>1. PortOfCall(t)' = PortOfCall(t)
  BY DEF PortOfCall
<1>2. t \in Readers(PortOfCall(t))
  BY DEF Readers
<1>3. PortOfCall(t) \in MailboxPort /\ PortOfCall(t) \in Inputs
  BY <1>2, ReaderIs
<1>4. PICK p : p = PortOfCall(t)
  OBVIOUS
<1>5. t \in Readers(p)' /\ \A q : q # p => t \notin Readers(q) /\ t \notin Readers(q)'
  BY <1>1, <1>4 DEF Readers
<1>6. t \in Readers(PortOfCall(t))'
  BY <1>1 DEF Readers
<1>. QED  BY <1>1, <1>2, <1>3, <1>4, <1>5, <1>6 DEF Inputs

LEMMA NoMessage == None \notin Message
<1>1. \A m \in Message : m \in Nat
  BY DEF Message
<1>. QED  BY <1>1, ProcessAssumption

LEMMA AreadMoves ==
    ASSUME IInv, ChanFit, NEW t \in Thread, MailboxMove(t), kmailbox_aread(t)
    PROVE  ChanFit' /\ ChannelMoves
<1>0. /\ MInv /\ IInv' /\ mcall \in [Thread -> MailboxCalls] /\ mcall[t] \in MailboxCalls
      /\ Fits(mcall[t]) /\ kept \in [MailboxPort -> Seq(Message)] /\ calls \in Nat
      /\ wireReader \in Thread \cup {None} /\ (wireReader = t => mcall[t].at = "await")
      /\ None \notin Thread /\ None \notin Message
  BY Steps, ProcessAssumption, NoMessage
     DEF IInv, MInv, MailboxTypeOK, CallsOK, MailboxMove, ChanFit, ReaderFits
<1>1. PICK p : p = PortOfCall(t)
  OBVIOUS
<1>2. /\ mcall[t].at = "aread" /\ mcall[t].counter = "nreads" /\ mcall[t].buffer = None
      /\ UNCHANGED <<mailbox, wire, calls, sent, received>> /\ wireReader # t
  BY <1>0 DEF kmailbox_aread, In, Fits, ChanFit, ReaderFits, mailboxHistory
<1>3. /\ mcall'[t].at = "await" /\ mcall'[t].counter = "nreads" /\ mcall'[t].id = mcall[t].id
      /\ \/ /\ kept[p] # <<>> /\ mcall'[t].buffer = Head(kept[p])
            /\ kept' = [kept EXCEPT ![p] = Tail(kept[p])] /\ wireReader' = wireReader
         \/ /\ kept[p] = <<>> /\ mcall'[t].buffer = None
            /\ kept' = kept /\ wireReader' = t
  BY <1>0, <1>1, <1>2 DEF kmailbox_aread, MailboxCalls
<1>4. /\ p \in MailboxPort /\ PortOfCall(t)' = p /\ t \in Readers(p) /\ t \in Readers(p)'
      /\ \A q : q # p => t \notin Readers(q) /\ t \notin Readers(q)'
      /\ p \in Inputs /\ Inputs' = Inputs
  BY <1>0, <1>1, <1>2, <1>3, ReaderGoesOn
<1>5. \A q \in MailboxPort \ {p} : kept'[q] = kept[q]
  BY <1>0, <1>3
<1>6. ChanFit'
  <2>1. mailbox'[mcall'[t].id].kind = "in"
    BY <1>2, <1>3 DEF ChanFit, ReaderFits
  <2>2. ReaderFits(t)'
    BY <1>2, <1>3, <1>4, <2>1 DEF ReaderFits
  <2>3. WriterFits(t)'
    BY <1>3 DEF WriterFits
  <2>4. InputsFit'
    <3>1. ASSUME NEW q \in MailboxPort, q \notin Inputs PROVE kept'[q] = <<>>
      BY <1>4, <1>5, <3>1 DEF ChanFit, InputsFit
    <3>. QED  BY <1>2, <1>4, <3>1 DEF ChanFit, InputsFit
  <2>5. ASSUME NEW u \in Thread \ {t}, wireReader = u, wireReader' = u
        PROVE  kept'[PortOfCall(u)] = <<>>
    <3>1. mcall[u].counter = "nreads" /\ kept[PortOfCall(u)] = <<>>
      BY <1>0, <2>5 DEF ChanFit, ReaderFits, MInv, CallsOK, Fits
    <3>2. PortOfCall(u) \in MailboxPort
      BY <1>0, <3>1, HasMailbox DEF Transfers
    <3>. QED  BY <1>3, <1>5, <2>5, <3>1, <3>2
  <2>6. wireReader' \in {wireReader, t, None} /\ calls <= calls'
    BY <1>0, <1>2, <1>3
  <2>. QED  BY <1>2, <2>2, <2>3, <2>4, <2>5, <2>6, FitMoves
<1>7. Buffered(p) = <<>>
  BY <1>0, <1>2, <1>4, BufferedNow DEF BufferedTells
<1>8. Content(p)' = Content(p)
  <2>1. PICK k : k = kept[p]
    OBVIOUS
  <2>2. k \in Seq(Message)
    BY <1>0, <1>4, <2>1
  <2>3. CASE k = <<>>
    <3>1. Buffered(p)' = <<>>
      BY <1>0, <1>3, <1>4, <1>6, <2>1, <2>3, BufferedNext DEF BufferedTells, IInv
    <3>. QED  BY <1>2, <1>3, <1>7, <2>1, <2>3, <3>1, ContentIs
  <2>4. CASE k # <<>>
    <3>1. Head(k) \in Message /\ Join(<<Head(k)>>, Tail(k)) = k /\ Join(<<>>, k) = k
      BY <2>2, <2>4, Oldest, NothingMore
    <3>2. mcall'[t].buffer = Head(k) /\ kept'[p] = Tail(k)
      BY <1>0, <1>3, <1>4, <2>1, <2>4
    <3>3. Buffered(p)' = <<Head(k)>>
      BY <1>0, <1>4, <1>6, <3>1, <3>2, BufferedNext DEF BufferedTells, IInv
    <3>. QED  BY <1>2, <1>7, <2>1, <3>1, <3>2, <3>3, ContentIs
  <2>. QED  BY <2>3, <2>4
<1>9. \A q \in MailboxPort \ {p} : Content(q)' = Content(q)
  BY <1>2, <1>4, <1>5, OtherPorts
<1>. QED  BY <1>2, <1>4, <1>6, <1>8, <1>9, ChannelRests

\* kmailbox_wait of a reader whose message was kept for it.
LEMMA WaitKeptMoves ==
    ASSUME IInv, ChanFit, NEW t \in Thread, MailboxMove(t), WaitRead(t), mcall[t].buffer # None
    PROVE  ChanFit' /\ ChannelMoves
<1>0. /\ MInv /\ IInv' /\ mcall \in [Thread -> MailboxCalls] /\ mcall[t] \in MailboxCalls
      /\ Fits(mcall[t]) /\ calls \in Nat /\ wireReader \in Thread \cup {None}
      /\ ReaderFits(t) /\ None \notin Thread
  BY Steps, ProcessAssumption
     DEF IInv, MInv, MailboxTypeOK, CallsOK, MailboxMove, ChanFit
<1>1. PICK p : p = PortOfCall(t)
  OBVIOUS
<1>2. /\ mcall[t].at = "await" /\ mcall[t].counter = "nreads" /\ wireReader # t
      /\ UNCHANGED <<mailbox, wire, kept, wireReader, calls, sent, received>>
      /\ mcall'[t].at = "count" /\ mcall'[t].counter = "nreads" /\ mcall'[t].id = mcall[t].id
      /\ mcall'[t].buffer = mcall[t].buffer
  BY <1>0 DEF WaitRead, In, Fits, ReaderFits, MailboxCalls, mailboxHistory
<1>3. /\ p \in MailboxPort /\ PortOfCall(t)' = p /\ t \in Readers(p) /\ t \in Readers(p)'
      /\ \A q : q # p => t \notin Readers(q) /\ t \notin Readers(q)'
      /\ p \in Inputs /\ Inputs' = Inputs
  BY <1>0, <1>1, <1>2, ReaderGoesOn
<1>4. ChanFit'
  <2>1. ReaderFits(t)' /\ WriterFits(t)'
    BY <1>0, <1>2 DEF ReaderFits, WriterFits
  <2>2. InputsFit'
    BY <1>2, <1>3 DEF ChanFit, InputsFit
  <2>3. \A u \in Thread \ {t} : wireReader = u => kept'[PortOfCall(u)] = <<>>
    BY <1>2 DEF ChanFit, ReaderFits
  <2>4. calls <= calls'
    BY <1>0, <1>2
  <2>. QED  BY <1>2, <2>1, <2>2, <2>3, <2>4, FitMoves
<1>5. Buffered(p) = <<mcall[t].buffer>>
  BY <1>0, <1>3, BufferedNow DEF BufferedTells
<1>6. Buffered(p)' = <<mcall[t].buffer>>
  BY <1>0, <1>2, <1>3, <1>4, BufferedNext DEF BufferedTells, IInv
<1>7. Content(p)' = Content(p)
  BY <1>2, <1>5, <1>6, ContentIs
<1>8. \A q \in MailboxPort \ {p} : Content(q)' = Content(q)
  BY <1>2, <1>3, OtherPorts
<1>. QED  BY <1>2, <1>3, <1>4, <1>7, <1>8, ChannelRests

\* kmailbox_wait of the reader that takes the oldest message from the wire.
LEMMA WaitWireMoves ==
    ASSUME IInv, ChanFit, NEW t \in Thread, MailboxMove(t), WaitRead(t), mcall[t].buffer = None
    PROVE  ChanFit' /\ ChannelMoves
<1>0. /\ MInv /\ IInv' /\ mcall \in [Thread -> MailboxCalls] /\ mcall[t] \in MailboxCalls
      /\ Fits(mcall[t]) /\ calls \in Nat /\ kept \in [MailboxPort -> Seq(Message)]
      /\ ReaderFits(t) /\ None \notin Thread
  BY Steps, ProcessAssumption
     DEF IInv, MInv, MailboxTypeOK, CallsOK, MailboxMove, ChanFit
<1>1. PICK p, o, m : p = PortOfCall(t) /\ o = Head(wire).port /\ m = Head(wire).msg
  OBVIOUS
<1>2. /\ mcall[t].at = "await" /\ mcall[t].counter = "nreads" /\ wireReader = t /\ wire # <<>>
      /\ kept[p] = <<>>
      /\ UNCHANGED <<mailbox, calls, sent, received>> /\ wire' = Tail(wire) /\ wireReader' = None
  BY <1>0, <1>1 DEF WaitRead, In, Fits, ReaderFits, MInv, WireOK, mailboxHistory
<1>3. /\ mcall'[t].counter = "nreads" /\ mcall'[t].id = mcall[t].id
      /\ mcall'[t].at = IF o = p THEN "count" ELSE "aread"
      /\ mcall'[t].buffer = IF o = p THEN m ELSE None
      /\ kept' = IF o # p /\ o \in Inputs THEN [kept EXCEPT ![o] = Append(kept[o], m)] ELSE kept
  BY <1>0, <1>1, <1>2 DEF WaitRead, AfterWait, MailboxCalls
<1>4. /\ p \in MailboxPort /\ PortOfCall(t)' = p /\ t \in Readers(p) /\ t \in Readers(p)'
      /\ \A q : q # p => t \notin Readers(q) /\ t \notin Readers(q)'
      /\ p \in Inputs /\ Inputs' = Inputs
  BY <1>0, <1>1, <1>2, <1>3, ReaderGoesOn
<1>5. /\ o \in MailboxPort /\ m \in Message
      /\ \A q : IF q = o THEN MessagesIn(wire, q) = Join(<<m>>, MessagesIn(wire', q))
                ELSE MessagesIn(wire, q) = MessagesIn(wire', q)
  BY <1>0, <1>1, <1>2, WireTail
<1>6. ChanFit'
  <2>1. ReaderFits(t)' /\ WriterFits(t)'
    BY <1>0, <1>2, <1>3 DEF ReaderFits, WriterFits
  <2>2. InputsFit'
    <3>1. ASSUME NEW q \in MailboxPort, q \notin Inputs PROVE kept'[q] = <<>>
      BY <1>0, <1>3, <3>1 DEF ChanFit, InputsFit
    <3>. QED  BY <1>2, <1>4, <3>1 DEF ChanFit, InputsFit
  <2>3. calls <= calls'
    BY <1>0, <1>2
  <2>. QED  BY <1>0, <1>2, <2>1, <2>2, <2>3, FitMoves
<1>7. Buffered(p) = <<>>
  BY <1>0, <1>4, BufferedNow DEF BufferedTells
<1>8. ASSUME NEW q \in MailboxPort \ {p, o} PROVE Content(q)' = Content(q)
  <2>1. kept'[q] = kept[q]
    BY <1>0, <1>3
  <2>. QED  BY <1>4, <1>5, <2>1, OtherPorts
<1>9. CASE o = p
  <2>1. PICK c : c = MessagesIn(wire', p)
    OBVIOUS
  <2>2. Buffered(p)' = <<m>>
    BY <1>0, <1>3, <1>4, <1>5, <1>6, <1>9, NoMessage, BufferedNext DEF BufferedTells, IInv
  <2>3. <<m>> \in Seq(Message)
    BY <1>5
  <2>4. Join(<<m>>, <<>>) = <<m>> /\ Join(<<>>, <<>>) = <<>>
    BY <2>3, NothingMore, NothingHeld
  <2>5. c \in Seq(Message) /\ Join(<<m>>, c) \in Seq(Message)
    <3>1. MInv'
      BY <1>0 DEF IInv
    <3>2. c \in Seq(Message)
      <4>. DEFINE S == [port : MailboxPort, msg : Message]
      <4>1. wire' \in Seq(S) /\ \A s \in S : s.msg \in Message
        BY <3>1 DEF MInv, MailboxTypeOK
      <4>. HIDE DEF S
      <4>. QED  BY <2>1, <4>1, MessagesTyped
    <3>3. PICK x \in Seq(Message) : x = <<m>>
      BY <2>3
    <3>. QED  BY <3>2, <3>3, Joined, NothingHeld
  <2>6. Join(<<>>, Join(<<m>>, c)) = Join(<<m>>, c)
    BY <2>5, NothingMore
  <2>7. kept'[p] = <<>>
    BY <1>2, <1>3, <1>9
  <2>8. Content(p) = Join(Join(<<>>, <<>>), Join(<<m>>, c))
    BY <1>2, <1>5, <1>7, <1>9, <2>1, ContentIs
  <2>9. Content(p)' = Join(Join(<<m>>, <<>>), c)
    BY <2>1, <2>2, <2>7, ContentIs
  <2>10. Content(p)' = Content(p)
    BY <2>4, <2>6, <2>8, <2>9, Zenon
  <2>. QED  BY <1>2, <1>4, <1>6, <1>8, <1>9, <2>10, ChannelRests
<1>10. CASE o # p
  <2>0. PICK c, k : c = MessagesIn(wire', o) /\ k = kept[o]
    OBVIOUS
  <2>1. Buffered(p)' = <<>>
    BY <1>0, <1>3, <1>4, <1>6, <1>10, BufferedNext DEF BufferedTells, IInv
  <2>2. Content(p)' = Content(p)
    <3>1. kept'[p] = kept[p]
      BY <1>0, <1>3, <1>10
    <3>. QED  BY <1>5, <1>7, <1>10, <2>1, <3>1, ContentIs
  <2>3. Buffered(o)' = Buffered(o)
    BY <1>4, <1>10, OthersSee, BufferedStays
  <2>4. /\ k \in Seq(Message) /\ Buffered(o) \in Seq(Message) /\ c \in Seq(Message)
    <3>1. MInv'
      BY <1>0 DEF IInv
    <3>2. c \in Seq(Message)
      <4>. DEFINE S == [port : MailboxPort, msg : Message]
      <4>1. wire' \in Seq(S) /\ \A s \in S : s.msg \in Message
        BY <3>1 DEF MInv, MailboxTypeOK
      <4>. HIDE DEF S
      <4>. QED  BY <2>0, <4>1, MessagesTyped
    <3>. QED  BY <1>0, <1>5, <2>0, <3>2, ContentTyped
  <2>5. Content(o) = Join(Join(Buffered(o), k), Join(<<m>>, c))
    BY <1>5, <2>0, ContentIs
  <2>6. CASE o \in Inputs
    <3>1. kept'[o] = Append(k, m)
      BY <1>0, <1>3, <1>5, <1>10, <2>0, <2>6
    <3>2. Content(o)' = Join(Join(Buffered(o), Append(k, m)), c)
      BY <2>0, <2>3, <3>1, ContentIs
    <3>3. Content(o)' = Content(o)
      <4>1. PICK b \in Seq(Message) : b = Buffered(o)
        BY <2>4
      <4>2. Join(Join(b, k), Join(<<m>>, c)) = Join(Join(b, Append(k, m)), c)
        BY <1>5, <2>4, OneAcross
      <4>. QED  BY <2>5, <3>2, <4>1, <4>2, Zenon
    <3>. QED  BY <1>2, <1>4, <1>6, <1>8, <2>2, <3>3, ChannelRests
  <2>7. CASE o \notin Inputs
    <3>1. kept'[o] = k /\ k = <<>>
      BY <1>3, <1>5, <2>0, <2>7 DEF ChanFit, InputsFit
    <3>2. Buffered(o) = <<>>
      <4>1. Readers(o) = {}
        BY <1>0, <2>7, ReaderIs
      <4>. QED  BY <1>0, <4>1, BufferedNow DEF BufferedTells
    <3>3. /\ Content(o) = Join(Join(<<>>, <<>>), Join(<<m>>, c))
          /\ Content(o)' = Join(Join(<<>>, <<>>), c)
      BY <2>0, <2>3, <2>5, <3>1, <3>2, ContentIs
    <3>4. PICK x : x = Join(<<m>>, c)
      OBVIOUS
    <3>5. x \in Seq(Message) /\ x # <<>> /\ Tail(x) = c
      <4>1. <<m>> \in Seq(Message) /\ x # <<>> /\ Tail(x) = c
        BY <1>5, <2>4, <3>4, OneAhead
      <4>2. PICK y \in Seq(Message) : y = <<m>>
        BY <4>1
      <4>. QED  BY <2>4, <3>4, <4>1, <4>2, Joined, NothingHeld
    <3>6. Content(o) = x /\ Content(o)' = c
      <4>1. Join(<<>>, x) = x /\ Join(<<>>, c) = c /\ Join(<<>>, <<>>) = <<>>
        BY <2>4, <3>5, NothingMore, NothingHeld
      <4>. QED  BY <3>3, <3>4, <4>1, Zenon
    <3>7. [q \in MailboxPort |-> Content(q)]' =
            [[q \in MailboxPort |-> Content(q)] EXCEPT ![o] = Tail(Content(o))]
      <4>1. Content(o)' = Tail(Content(o))
        BY <3>5, <3>6
      <4>2. \A q \in MailboxPort \ {o} : Content(q)' = Content(q)
        BY <1>8, <2>2
      <4>. QED  BY <1>5, <4>1, <4>2, ContentMoves
    <3>8. Channel!Lose(o)
      <4>1. Content(o) # <<>>
        BY <3>5, <3>6
      <4>. QED  BY <1>2, <1>4, <1>5, <3>7, <4>1 DEF Channel!Lose
    <3>. QED  BY <1>5, <1>6, <3>8 DEF ChannelMoves, Channel!Next
  <2>. QED  BY <2>6, <2>7
<1>. QED  BY <1>9, <1>10

\* A reader returns: with its message, or with an error.
LEMMA ReaderReturns ==
    ASSUME IInv, ChanFit, NEW t \in Thread, MailboxMove(t),
           mcall[t].counter = "nreads", mcall'[t] = Idle,
           UNCHANGED <<mailbox, wire, kept, calls, sent>>,
           wireReader' \in {wireReader, None}, wireReader' # t,
           NEW p, NEW m, p = PortOfCall(t), m = mcall[t].buffer
    PROVE  /\ ChanFit' /\ Inputs' = Inputs /\ p \in MailboxPort /\ p \in Inputs
           /\ \A q \in MailboxPort \ {p} : Content(q)' = Content(q)
           /\ m = None => Content(p)' = Content(p)
           /\ m \in Message =>
                Content(p) # <<>> /\ Head(Content(p)) = m /\ Content(p)' = Tail(Content(p))
<1>0. MInv /\ IInv'
  BY Steps DEF IInv, MailboxMove
<1>2. /\ t \in Readers(p) /\ \A q : t \notin Readers(q)'
      /\ \A q : q # p => t \notin Readers(q)
  BY IdleCall DEF Readers, Transfers
<1>3. p \in MailboxPort /\ p \in Inputs /\ Inputs' = Inputs /\ \A u \in Readers(p) : u = t
  <2>1. p \in MailboxPort /\ p \in Inputs /\ \A u \in Readers(p) : u = t
    BY <1>0, <1>2, ReaderIs
  <2>2. Inputs' = Inputs
    BY DEF Inputs
  <2>. QED  BY <2>1, <2>2
<1>4. ChanFit'
  BY IdleCall, Uninvolved DEF Transfers
<1>5. ASSUME NEW q \in MailboxPort \ {p} PROVE Content(q)' = Content(q)
  BY <1>2, OtherPorts
<1>6. Buffered(p)' = <<>>
  <2>1. \A u \in Thread \ {t} : u \notin Readers(p)'
    <3>1. ASSUME NEW u \in Thread \ {t}, u \in Readers(p)' PROVE FALSE
      <4>1. mcall'[u] = mcall[u]
        BY OthersSee
      <4>2. u \in Readers(p)
        BY <3>1, <4>1 DEF Readers, PortOfCall
      <4>. QED  BY <1>3, <4>2
    <3>. QED  BY <3>1
  <2>2. Readers(p)' = {}
    BY <1>2, <2>1 DEF Readers
  <2>. QED  BY <1>0, <1>4, <2>2, BufferedNext DEF BufferedTells, IInv
<1>7. Content(p)' = Join(Join(<<>>, kept[p]), MessagesIn(wire, p))
  BY <1>6, ContentIs
<1>8. m = None => Content(p)' = Content(p)
  <2>. SUFFICES ASSUME m = None PROVE Content(p)' = Content(p)
    OBVIOUS
  <2>1. Buffered(p) = <<>>
    BY <1>0, <1>2, BufferedNow DEF BufferedTells
  <2>. QED  BY <1>7, <2>1, ContentIs
<1>9. m \in Message => Content(p) # <<>> /\ Head(Content(p)) = m /\ Content(p)' = Tail(Content(p))
  <2>. SUFFICES ASSUME m \in Message
                PROVE  Content(p) # <<>> /\ Head(Content(p)) = m /\ Content(p)' = Tail(Content(p))
    OBVIOUS
  <2>1. Buffered(p) = <<m>>
    BY <1>0, <1>2, NoMessage, BufferedNow DEF BufferedTells
  <2>2. PICK k, c : k = kept[p] /\ c = MessagesIn(wire, p)
    OBVIOUS
  <2>3. k \in Seq(Message) /\ c \in Seq(Message)
    BY <1>0, <1>3, <2>2, ContentTyped
  <2>4. PICK x \in Seq(Message) : x = Join(k, c)
    BY <2>3, Joined
  <2>5. PICK o \in Seq(Message) : o = <<m>>
    BY <2>3, OneAhead
  <2>6. Join(Join(o, k), c) = Join(o, x)
    BY <2>3, <2>4, Joined
  <2>7. Join(o, x) # <<>> /\ Head(Join(o, x)) = m /\ Tail(Join(o, x)) = x
    BY <2>5, OneAhead
  <2>8. Content(p) = Join(o, x)
    BY <2>1, <2>2, <2>5, <2>6, ContentIs
  <2>9. Content(p)' = x
    <3>1. Join(<<>>, k) = k
      BY <2>3, NothingMore
    <3>. QED  BY <1>7, <2>2, <2>4, <3>1, Zenon
  <2>. QED  BY <2>7, <2>8, <2>9
<1>. QED  BY <1>3, <1>4, <1>5, <1>8, <1>9

LEMMA TransferMoves ==
    ASSUME IInv, ChanFit, NEW t \in Thread, MailboxMove(t), CountTransfer(t),
           mcall[t].counter = "nreads"
    PROVE  ChanFit' /\ ChannelMoves
<1>0. /\ mcall \in [Thread -> MailboxCalls] /\ Fits(mcall[t])
      /\ wireReader \in Thread \cup {None} /\ ReaderFits(t)
  BY DEF IInv, MInv, MailboxTypeOK, CallsOK, ChanFit
<1>1. PICK p, m : p = PortOfCall(t) /\ m = mcall[t].buffer
  OBVIOUS
<1>2. /\ mcall[t].at = "count" /\ m \in Message /\ wireReader # t
      /\ UNCHANGED <<mailbox, wire, kept, wireReader, calls, sent>>
      /\ mcall'[t] = Idle /\ received' = [received EXCEPT ![p] = Append(received[p], m)]
  BY <1>0, <1>1 DEF CountTransfer, In, Fits, ReaderFits, kernelVars
<1>3. /\ ChanFit' /\ Inputs' = Inputs /\ p \in MailboxPort /\ p \in Inputs
      /\ \A q \in MailboxPort \ {p} : Content(q)' = Content(q)
      /\ Content(p) # <<>> /\ Head(Content(p)) = m /\ Content(p)' = Tail(Content(p))
  BY <1>1, <1>2, ReaderReturns
<1>4. [q \in MailboxPort |-> Content(q)]' =
        [[q \in MailboxPort |-> Content(q)] EXCEPT ![p] = Tail(Content(p))]
  BY <1>3, ContentMoves
<1>5. Channel!Receive(p)
  BY <1>2, <1>3, <1>4 DEF Channel!Receive
<1>. QED  BY <1>3, <1>5 DEF ChannelMoves, Channel!Next

LEMMA ErrorMoves ==
    ASSUME IInv, ChanFit, NEW t \in Thread, MailboxMove(t), MailboxError(t),
           mcall[t].counter = "nreads"
    PROVE  ChanFit' /\ ChannelMoves
<1>0. /\ mcall \in [Thread -> MailboxCalls] /\ mcall[t] \in MailboxCalls
      /\ wireReader \in Thread \cup {None} /\ None \notin Thread
  BY ProcessAssumption DEF IInv, MInv, MailboxTypeOK
<1>1. PICK p, m : p = PortOfCall(t) /\ m = mcall[t].buffer
  OBVIOUS
<1>2. /\ UNCHANGED <<mailbox, wire, kept, calls, sent, received>> /\ mcall'[t] = Idle
      /\ wireReader' \in {wireReader, None} /\ wireReader' # t /\ m \in Message \cup {None}
  BY <1>0, <1>1 DEF MailboxError, mailboxHistory, MailboxCalls
<1>3. /\ ChanFit' /\ Inputs' = Inputs /\ p \in MailboxPort /\ p \in Inputs
      /\ \A q \in MailboxPort \ {p} : Content(q)' = Content(q)
      /\ m = None => Content(p)' = Content(p)
      /\ m \in Message => Content(p) # <<>> /\ Content(p)' = Tail(Content(p))
  BY <1>1, <1>2, ReaderReturns
<1>4. CASE m = None
  BY <1>2, <1>3, <1>4, ChannelRests
<1>5. CASE m \in Message
  <2>1. [q \in MailboxPort |-> Content(q)]' =
          [[q \in MailboxPort |-> Content(q)] EXCEPT ![p] = Tail(Content(p))]
    BY <1>3, <1>5, ContentMoves
  <2>2. Channel!Lose(p)
    BY <1>2, <1>3, <1>5, <2>1 DEF Channel!Lose
  <2>. QED  BY <1>3, <2>2 DEF ChannelMoves, Channel!Next
<1>. QED  BY <1>2, <1>4, <1>5

\* Every step of a thread is one of the channels, or none.
LEMMA ThreadMoves ==
    ASSUME IInv, ChanFit, NEW t \in Thread, MailboxMove(t)
    PROVE  ChanFit' /\ ChannelMoves
<1>1. CASE MailboxCall(t)
  BY <1>1, MakeMoves, FreeMoves, WriteMoves, ReadMoves DEF MailboxCall
<1>2. CASE MailboxStep(t)
  <2>1. CASE CountTransfer(t)
    <3>1. mcall[t].counter \in {"nreads", "nwrites"}
      BY <2>1 DEF CountTransfer
    <3>. QED  BY <2>1, <3>1, SilentMoves, TransferMoves
  <2>. QED  BY <1>2, <2>1, SilentMoves, AwriteMoves, AreadMoves, WaitKeptMoves, WaitWireMoves
            DEF MailboxStep
<1>3. CASE MailboxError(t)
  <2>1. mcall[t].counter \in {"nreads", "nwrites"}
    BY <1>3 DEF MailboxError, IInv, MInv, CallsOK, Fits
  <2>. QED  BY <1>3, <2>1, SilentMoves, ErrorMoves
<1>. QED  BY <1>1, <1>2, <1>3 DEF MailboxMove

LEMMA NobodyMoves ==
    ASSUME ChanFit, UNCHANGED mailboxVars
    PROVE  ChanFit' /\ ChannelMoves
<1>1. UNCHANGED <<mailbox, wire, kept, wireReader, mcall, calls, sent, received>>
  BY DEF mailboxVars, kernelVars, mailboxHistory
<1>2. Inputs' = Inputs /\ \A t \in Thread : PortOfCall(t)' = PortOfCall(t)
  BY <1>1 DEF Inputs, PortOfCall
<1>3. ChanFit'
  <2>1. ASSUME NEW t \in Thread PROVE ReaderFits(t)' /\ WriterFits(t)'
    BY <1>1, <1>2 DEF ChanFit, ReaderFits, WriterFits
  <2>2. InputsFit' /\ \A m \in sent' : m <= calls'
    BY <1>1, <1>2 DEF ChanFit, InputsFit
  <2>. QED  BY <2>1, <2>2 DEF ChanFit
<1>4. ASSUME NEW q \in MailboxPort PROVE Content(q)' = Content(q)
  <2>1. Readers(q)' = Readers(q)
    BY <1>1, <1>2 DEF Readers
  <2>2. InBuffer(q)' = InBuffer(q)
    BY <1>1, <2>1 DEF InBuffer
  <2>3. Buffered(q)' = Buffered(q)
    BY <2>2 DEF Buffered
  <2>. QED  BY <1>1, <2>3, ContentIs
<1>. QED  BY <1>1, <1>2, <1>3, <1>4, ChannelRests

LEMMA ChannelBegins ==
    ASSUME MailboxInit
    PROVE  ChanFit /\ Channel!Init
<1>0. MInv /\ scene \in Scenes
  BY MInitial DEF MInv, SceneOK
<1>1. /\ mailbox = scene.mailbox /\ wire = <<>> /\ kept = [p \in MailboxPort |-> <<>>]
      /\ wireReader = None /\ sent = {} /\ received = [p \in MailboxPort |-> <<>>]
      /\ \A t \in Thread : mcall[t] = Idle /\ None \notin Thread
  BY ProcessAssumption DEF MailboxInit
<1>2. ChanFit
  <2>1. ASSUME NEW t \in Thread PROVE ReaderFits(t) /\ WriterFits(t)
    BY <1>1, IdleCall DEF ReaderFits, WriterFits, Transfers
  <2>2. ASSUME NEW i \in MailboxId, NEW j \in MailboxId, i # j,
               mailbox[i] # None, mailbox[i].kind = "in", mailbox[j] = mailbox[i]
        PROVE  FALSE
    <3>1. scene.mailbox[i] = scene.mailbox[j] /\ scene.mailbox[i] # None
      BY <1>1, <2>2
    <3>2. scene.mailbox[i].kind = "out"
      BY <1>0, <2>2, <3>1, MailboxSceneAssumption
    <3>. QED  BY <1>1, <2>2, <3>2
  <2>3. InputsFit
    BY <1>1, <2>2 DEF InputsFit
  <2>. QED  BY <1>1, <2>1, <2>3 DEF ChanFit
<1>3. ASSUME NEW p \in MailboxPort PROVE Content(p) = <<>> /\ (p \in Inputs => p \in MailboxPort)
  <2>1. Readers(p) = {}
    BY <1>1, IdleCall DEF Readers, Transfers
  <2>2. Buffered(p) = <<>>
    BY <1>0, <1>2, <2>1, BufferedNow DEF BufferedTells
  <2>3. Content(p) = Join(Join(<<>>, <<>>), <<>>)
    BY <1>1, <2>2, ContentIs, MessagesEmpty
  <2>. QED  BY <2>3, NothingHeld
<1>4. Inputs \subseteq MailboxPort
  <2>1. \A i \in MailboxId : mailbox[i] # None => mailbox[i].port \in MailboxPort
    BY <1>0 DEF MInv, MailboxTypeOK
  <2>. QED  BY <2>1 DEF Inputs
<1>5. [p \in MailboxPort |-> Content(p)] = [p \in MailboxPort |-> <<>>]
  BY <1>3
<1>. QED  BY <1>1, <1>2, <1>4, <1>5 DEF Channel!Init

LEMMA ChannelStep ==
    ASSUME IInv, ChanFit, [MailboxNext]_<<processVars, mailboxVars>>
    PROVE  ChanFit' /\ ChannelMoves
<1>1. scene.who \subseteq Thread
  BY ProcessAssumption DEF IInv, MInv, SceneOK
<1>. QED  BY <1>1, ThreadMoves, NobodyMoves DEF MailboxNext, MailboxMove

\* "Synchronously read": the mailboxes of a node are a queue for each port, for any
\* threads, ports, instance and number of ids: every message is read once, by the port
\* that it was written to, in order, although whoever reads takes from the wire what is
\* for others, reads fail, and mailboxes come and go.
THEOREM MailboxImplementsChannel == MailboxSpec => IsChannel
<1>1. MailboxInit => IInv /\ ChanFit /\ Channel!Init
  BY IInitial, ChannelBegins
<1>2. IInv /\ ChanFit /\ [MailboxNext]_<<processVars, mailboxVars>> =>
        IInv' /\ ChanFit' /\ [Channel!Next]_(Channel!vars)
  BY IStep, ChannelStep DEF ChannelMoves
<1>. QED  BY <1>1, <1>2, PTL DEF MailboxSpec, IsChannel, Channel!Spec

\* What a step of the whole does to the mailboxes.
LEMMA StdSides ==
    ASSUME StdInv, [Next]_vars
    PROVE  (\E t \in Thread : MailboxMove(t)) \/ UNCHANGED mailboxVars
<1>0. scene \in Scenes
  BY DEF StdInv, IInv, MInv, SceneOK
<1>1. CASE UNCHANGED vars
  BY <1>1 DEF vars
<1>2. CASE Next
  <2>1. PICK t \in scene.who : Call(t) \/ Step(t) \/ Fail(t)
    BY <1>2 DEF Next
  <2>2. t \in Thread
    BY <1>0, StdSceneFits
  <2>3. CASE Call(t)
    <3>1. CASE t \in scene.std /\ Setup(t)
      <4>1. Mailboxes => MailboxMove(t)
        BY <1>0, <3>1, StdSceneFits DEF Setup, MailboxMove, MailboxCall
      <4>2. ~Mailboxes => UNCHANGED mailboxVars
        BY <3>1 DEF Setup
      <4>. QED  BY <2>2, <4>1, <4>2
    <3>2. CASE t \in scene.std /\ Cleanup(t)
      <4>1. Mailboxes => MailboxMove(t)
        <5>1. Mailboxes => stdin[Entry(t)] \in held[t]
          BY <2>2, <3>2 DEF Cleanup, StdInv, StdFit, Stands, Own
        <5>. QED  BY <3>2, <5>1 DEF Cleanup, MailboxMove, MailboxCall
      <4>2. ~Mailboxes => UNCHANGED mailboxVars
        BY <3>2 DEF Cleanup
      <4>. QED  BY <2>2, <4>1, <4>2
    <3>3. CASE SetupAgain(t) \/ SetupFails(t)
      BY <3>3 DEF SetupAgain, SetupFails
    <3>. QED  BY <2>2, <2>3, <3>1, <3>2, <3>3 DEF Call, MailboxMove
  <2>4. CASE Step(t)
    <3>1. CASE SetupReturns(t)
      BY <2>2, <3>1 DEF SetupReturns, MailboxMove, MailboxStep
    <3>. QED  BY <2>2, <2>4, <3>1 DEF Step, MailboxMove
  <2>5. CASE Fail(t)
    BY <2>2, <2>5 DEF Fail, MailboxMove
  <2>. QED  BY <2>1, <2>3, <2>4, <2>5
<1>. QED  BY <1>1, <1>2

\* The same, for the mailboxes under the standard ones.
THEOREM StdImplementsChannel == Spec => IsChannel
<1>1. Init => StdInv /\ ChanFit /\ Channel!Init
  BY StdInitial, ChannelBegins DEF Init
<1>2. StdInv /\ ChanFit /\ [Next]_vars =>
        StdInv' /\ ChanFit' /\ [Channel!Next]_(Channel!vars)
  <2>. SUFFICES ASSUME StdInv, ChanFit, [Next]_vars
                PROVE  StdInv' /\ ChanFit' /\ [Channel!Next]_(Channel!vars)
    OBVIOUS
  <2>1. StdInv' /\ IInv
    BY StdKeeps DEF StdInv
  <2>2. ChanFit' /\ ChannelMoves
    BY <2>1, StdSides, ThreadMoves, NobodyMoves
  <2>. QED  BY <2>1, <2>2 DEF ChannelMoves
<1>. QED  BY <1>1, <1>2, PTL DEF Spec, IsChannel, Channel!Spec

=============================================================================
