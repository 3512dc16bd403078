------------------------------- MODULE Portal -------------------------------
(***************************************************************************)
(* The portals of a node by kernel calls, ikc/portal.c in a build without  *)
(* __NANVIX_IKC_USES_ONLY_MAILBOX.  A reader allows an output portal of    *)
(* another node to send to it; the kernel takes one piece for an allow, so *)
(* that the module remembers whom it has allowed and does so again for     *)
(* each further piece.  A kernel call that the code repeats is one that    *)
(* has no effect, and is not a step here.                                  *)
(*                                                                         *)
(* External: the kernel's portals, the allows that stand, and between each *)
(* other node and this one a link with room for a piece, which goes out    *)
(* when somebody reads from that node, whoever it is for.                  *)
(*                                                                         *)
(* A portal is used by one thread at a time.  kportal_lock is held over    *)
(* straight-line code only: each of its critical sections is one action.   *)
(***************************************************************************)
EXTENDS Process

CONSTANTS
    PortalPort,      \* the ports used
    Output,          \* the output portals of other nodes to this one
    OutNode, OutTo,  \* [output]: the node that it is on, the port that it leads to
    KPORTAL_MAX      \* external: input portals of the process

PortalId == 0 .. KPORTAL_MAX - 1
Piece == [out : Output, msg : Nat, part : Nat]

ASSUME PortalAssumption ==
    /\ None \notin PortalPort /\ None \notin Output /\ None \notin Piece /\ KPORTAL_MAX \in Nat
    /\ DOMAIN OutNode = Output /\ OutTo \in [Output -> PortalPort]

\* An instance has some input portals from the start and the threads that have got
\* them, the outputs that each thread writes to and those of them that are opened and
\* closed on the way, how many more portals are created, and how many messages are
\* written to each output, all of the same number of pieces.  A port has one portal, and
\* what a thread uses no other does.
ASSUME PortalSceneAssumption ==
    \A c \in Scenes :
        /\ c.inportal \in [PortalId -> PortalPort \cup {None}]
        /\ c.reads \in [Thread -> SUBSET PortalId] /\ c.writers \in [Thread -> SUBSET Output]
        /\ \A i \in PortalId : \A j \in PortalId \ {i} :
             c.inportal[i] = c.inportal[j] => c.inportal[i] = None
        /\ \A t \in Thread : \A u \in Thread \ {t} :
             c.reads[t] \cap c.reads[u] = {} /\ c.writers[t] \cap c.writers[u] = {}
        /\ \A t \in Thread : \A i \in c.reads[t] : c.inportal[i] # None
        /\ c.opens \subseteq Output /\ c.portals \in Nat /\ c.messages \in Nat /\ c.pieces \in Nat \ {0}

RemoteNode == {OutNode[o] : o \in Output}

VARIABLES
    inportal,        \* external [id]: the port of the input portal, or None
    outportals,      \* external: the output portals that are open
    allowed,         \* external [id]: the output that may send one piece, or None
    link,            \* external [node]: the piece on its way from there, or None
    linkReader,      \* external [node]: the thread whose read from there is under way
    keptPieces,      \* external [output]: pieces that readers of other ports have met
    kportal_allows,  \* [id]: remote and port, that is, an output, or None (-1)
    pcall,           \* [thread]: where it is in a call, and the locals of it
    reads,           \* history [thread]: the input portals it has got and may use
    madePortals,     \* history: how many have been created
    written,         \* history [output]: calls of kportal_write
    delivered,       \* history [output]: what the reads that ended well have read
    broken,          \* history: the outputs to which a transfer has failed
    leftover         \* history: the portals whose last read failed

linkVars == <<link, linkReader, keptPieces>>
portalKernelVars == <<inportal, outportals, allowed, linkVars>>
portalHistory == <<reads, madePortals, written, delivered, broken, leftover>>
portalVars == <<portalKernelVars, kportal_allows, pcall, portalHistory>>

NoPortalCall == [at |-> "idle", id |-> None, out |-> None, part |-> 0, got |-> <<>>, met |-> None]

\* kportal_init, and the calls that make some portals ready.
PortalInit ==
    /\ ProcessInit
    /\ inportal = scene.inportal
    /\ outportals = UNION {scene.writers[t] : t \in scene.who} \ scene.opens
    /\ allowed = [i \in PortalId |-> None]
    /\ link = [n \in RemoteNode |-> None]
    /\ linkReader = [n \in RemoteNode |-> None]
    /\ keptPieces = [o \in Output |-> <<>>]
    /\ kportal_allows = [i \in PortalId |-> None]
    /\ pcall = [t \in Thread |-> NoPortalCall]
    /\ reads = scene.reads
    /\ madePortals = 0
    /\ written = [o \in Output |-> 0]
    /\ delivered = [o \in Output |-> <<>>]
    /\ broken = {} /\ leftover = {}

InPortal(t, l) == pcall[t].at = l
InputPorts == {inportal[i] : i \in PortalId} \ {None}

-----------------------------------------------------------------------------
(* Creating, removing, allowing                                            *)

\* The kernel call of kportal_create.  The kernel gives out some id that is free.
kportal_create(t, p) ==
    /\ InPortal(t, "idle")
    /\ madePortals < scene.portals
    /\ p \notin InputPorts
    /\ \E i \in PortalId :
         /\ inportal[i] = None
         /\ inportal' = [inportal EXCEPT ![i] = p]
         /\ pcall' = [pcall EXCEPT ![t].at = "reset", ![t].id = i]
    /\ madePortals' = madePortals + 1
    /\ UNCHANGED <<processVars, outportals, allowed, linkVars, kportal_allows, reads, written,
                   delivered, broken, leftover>>

\* A seeded fault: what the last user of the id has left stays.
ResetNothing(i) == kportal_allows

\* Both fields are set to -1.
ResetAllows(i) == [kportal_allows EXCEPT ![i] = None]

\* The critical section of kportal_create, and the return.
CreateReset(t) ==
    LET i == pcall[t].id IN
    /\ InPortal(t, "reset")
    /\ kportal_allows' = ResetAllows(i)
    /\ reads' = [reads EXCEPT ![t] = @ \cup {i}]
    /\ leftover' = leftover \ {i}
    /\ pcall' = [pcall EXCEPT ![t] = NoPortalCall]
    /\ UNCHANGED <<processVars, portalKernelVars, madePortals, written, delivered, broken>>

\* EBUSY while pieces wait in it.  An allow that stands goes with it.
kportal_unlink(t, i) ==
    /\ InPortal(t, "idle")
    /\ inportal[i] # None
    /\ \A o \in Output : OutTo[o] = inportal[i] => keptPieces[o] = <<>>
    /\ inportal' = [inportal EXCEPT ![i] = None]
    /\ allowed' = [allowed EXCEPT ![i] = None]
    /\ reads' = [reads EXCEPT ![t] = @ \ {i}]
    /\ UNCHANGED <<processVars, outportals, linkVars, kportal_allows, pcall, madePortals,
                   written, delivered, broken, leftover>>

kportal_open(t, o) ==
    /\ InPortal(t, "idle")
    /\ outportals' = outportals \cup {o}
    /\ UNCHANGED <<processVars, inportal, allowed, linkVars, kportal_allows, pcall,
                   portalHistory>>

kportal_close(t, o) ==
    /\ InPortal(t, "idle")
    /\ outportals' = outportals \ {o}
    /\ UNCHANGED <<processVars, inportal, allowed, linkVars, kportal_allows, pcall,
                   portalHistory>>

\* The kernel call of kportal_allow: EBUSY while an allow stands.
kportal_allow(t, i, o) ==
    /\ InPortal(t, "idle")
    /\ allowed[i] = None /\ OutTo[o] = inportal[i]
    /\ allowed' = [allowed EXCEPT ![i] = o]
    /\ pcall' = [pcall EXCEPT ![t].at = "set", ![t].id = i, ![t].out = o]
    /\ UNCHANGED <<processVars, inportal, outportals, linkVars, kportal_allows, portalHistory>>

\* The critical section of kportal_allow, and the return to the user or to the read.
SetAllow(t) ==
    LET i == pcall[t].id  o == pcall[t].out IN
    /\ pcall[t].at \in {"set", "set again"}
    /\ kportal_allows' = [kportal_allows EXCEPT ![i] = o]
    /\ pcall' = [pcall EXCEPT ![t] = IF @.at = "set" THEN NoPortalCall ELSE [@ EXCEPT !.at = "aread"]]
    /\ UNCHANGED <<processVars, portalKernelVars, portalHistory>>

-----------------------------------------------------------------------------
(* Writing                                                                 *)

\* The checks with which kportal_write starts.  The pieces in the caller's buffer are
\* known by the output, the number of the call and their place in the message.
kportal_write(t, o) ==
    /\ InPortal(t, "idle")
    /\ o \in outportals
    /\ written[o] < scene.messages
    /\ written' = [written EXCEPT ![o] = @ + 1]
    /\ pcall' = [pcall EXCEPT ![t].at = "awrite", ![t].out = o, ![t].part = 1]
    /\ UNCHANGED <<processVars, portalKernelVars, kportal_allows, reads, madePortals, delivered,
                   broken, leftover>>

\* EACCES while nobody reads from the node, EBUSY while a piece is on its way: the
\* call is repeated.
kportal_awrite(t) ==
    LET o == pcall[t].out  n == OutNode[o] IN
    /\ InPortal(t, "awrite")
    /\ linkReader[n] # None /\ link[n] = None
    /\ link' = [link EXCEPT ![n] = [out |-> o, msg |-> written[o], part |-> pcall[t].part]]
    /\ pcall' = [pcall EXCEPT ![t].at = "wait"]
    /\ UNCHANGED <<processVars, inportal, outportals, allowed, linkReader, keptPieces,
                   kportal_allows, portalHistory>>

\* kportal_wait in kportal_write, and the next piece or the return.
WaitPieceSent(t) ==
    /\ InPortal(t, "wait")
    /\ IF pcall[t].part < scene.pieces
       THEN pcall' = [pcall EXCEPT ![t].at = "awrite", ![t].part = @ + 1]
       ELSE pcall' = [pcall EXCEPT ![t] = NoPortalCall]
    /\ UNCHANGED <<processVars, portalKernelVars, kportal_allows, portalHistory>>

-----------------------------------------------------------------------------
(* Reading                                                                 *)

\* The checks and the critical section with which kportal_read starts.
kportal_read(t, i) ==
    /\ InPortal(t, "idle")
    /\ pcall' = [pcall EXCEPT ![t] = [NoPortalCall EXCEPT !.at = "aread", !.id = i,
                                                          !.out = kportal_allows[i]]]
    /\ UNCHANGED <<processVars, portalKernelVars, kportal_allows, portalHistory>>

\* "Consecutive reads must be allowed": kportal_allow in kportal_read, which ignores
\* that it fails, with EBUSY, when the allow stands because the piece was for another
\* port.
AllowAgain(t) ==
    LET i == pcall[t].id  o == pcall[t].out IN
    /\ InPortal(t, "again")
    /\ IF o # None /\ allowed[i] = None
       THEN /\ allowed' = [allowed EXCEPT ![i] = o]
            /\ pcall' = [pcall EXCEPT ![t].at = "set again"]
       ELSE /\ pcall' = [pcall EXCEPT ![t].at = "aread"]
            /\ UNCHANGED allowed
    /\ UNCHANGED <<processVars, inportal, outportals, linkVars, kportal_allows, portalHistory>>

\* The output from which the kernel takes pieces for the read of t.
From(t) == allowed[pcall[t].id]

\* The kernel has a piece for this portal, or starts to read one from the node that
\* is allowed.  EBUSY while another read from there is under way: the call is repeated.
kportal_aread(t) ==
    LET o == From(t) IN
    /\ InPortal(t, "aread")
    /\ o # None
    /\ \/ /\ keptPieces[o] # <<>>
          /\ keptPieces' = [keptPieces EXCEPT ![o] = Tail(@)]
          /\ pcall' = [pcall EXCEPT ![t].at = "await", ![t].met = Head(keptPieces[o])]
          /\ UNCHANGED linkReader
       \/ /\ keptPieces[o] = <<>> /\ linkReader[OutNode[o]] = None
          /\ linkReader' = [linkReader EXCEPT ![OutNode[o]] = t]
          /\ pcall' = [pcall EXCEPT ![t].at = "await"]
          /\ UNCHANGED keptPieces
    /\ UNCHANGED <<processVars, inportal, outportals, allowed, link, kportal_allows,
                   portalHistory>>

\* A seeded fault: a piece for another port is taken for one of the message.
TakesAny(t, m) == TRUE

\* kportal_wait returns a positive number for a piece for another port.
Takes(t, m) == m.out = From(t)

AfterOwn(t) == IF Len(pcall[t].got) + 1 = scene.pieces THEN "complete" ELSE "again"

\* A seeded fault: only kportal_wait is repeated.
AfterPieceAlone(t, m) == IF Takes(t, m) THEN AfterOwn(t) ELSE "await"

\* "Repeat while reading valid messages for another ports": the allow is repeated
\* after the first piece only.
AfterPiece(t, m) ==
    IF Takes(t, m) THEN AfterOwn(t) ELSE IF pcall[t].got = <<>> THEN "aread" ELSE "again"

\* The kernel is done with a piece for the read of t, which takes its allow, or with
\* one for another portal.
Met(t, m) ==
    /\ pcall' = [pcall EXCEPT ![t].at = AfterPiece(t, m), ![t].met = None,
                              ![t].got = IF Takes(t, m) THEN Append(@, m) ELSE @]
    /\ allowed' = IF m.out = From(t) THEN [allowed EXCEPT ![pcall[t].id] = None] ELSE allowed

\* kportal_wait in kportal_read.  A piece for a port without a portal is lost.
WaitPieceRead(t) ==
    /\ InPortal(t, "await")
    /\ \/ /\ pcall[t].met # None
          /\ Met(t, pcall[t].met)
          /\ UNCHANGED <<linkVars, broken>>
       \/ LET n == OutNode[From(t)]  m == link[n] IN
          /\ linkReader[n] = t /\ m # None
          /\ Met(t, m)
          /\ link' = [link EXCEPT ![n] = None]
          /\ linkReader' = [linkReader EXCEPT ![n] = None]
          /\ keptPieces' = IF m.out # From(t) /\ OutTo[m.out] \in InputPorts
                           THEN [keptPieces EXCEPT ![m.out] = Append(@, m)] ELSE keptPieces
          /\ broken' = IF OutTo[m.out] \in InputPorts THEN broken ELSE broken \cup {m.out}
    /\ UNCHANGED <<processVars, inportal, outportals, kportal_allows, reads, madePortals, written,
                   delivered, leftover>>

\* The critical section that ends kportal_read, and the return.
CompleteRead(t) ==
    LET i == pcall[t].id  o == pcall[t].out IN
    /\ InPortal(t, "complete")
    /\ kportal_allows' = ResetAllows(i)
    /\ delivered' = [delivered EXCEPT ![o] = Append(@, pcall[t].got)]
    /\ leftover' = leftover \ {i}
    /\ pcall' = [pcall EXCEPT ![t] = NoPortalCall]
    /\ UNCHANGED <<processVars, portalKernelVars, reads, madePortals, written, broken>>

\* A read fails in the middle and leaves everything as it is.
ReadFails(t) ==
    /\ pcall' = [pcall EXCEPT ![t] = NoPortalCall]
    /\ leftover' = leftover \cup {pcall[t].id}
    /\ UNCHANGED <<inportal, outportals, link, keptPieces, kportal_allows, reads, madePortals,
                   written, delivered>>

\* aread finds no allow: EACCES.
ReadRefused(t) ==
    /\ InPortal(t, "aread") /\ From(t) = None
    /\ ReadFails(t)
    /\ UNCHANGED <<processVars, allowed, linkReader, broken>>

\* aread or wait fails with an error that is not repeated.  A piece that the kernel
\* has taken out for the reader is lost, and perhaps the allow with it.
ReadError(t) ==
    /\ pcall[t].at \in {"aread", "await"} /\ From(t) # None
    /\ OneFails
    /\ ReadFails(t)
    /\ linkReader' = [n \in RemoteNode |-> IF linkReader[n] = t THEN None ELSE linkReader[n]]
    /\ allowed' \in {allowed, [allowed EXCEPT ![pcall[t].id] = None]}
    /\ broken' = broken \cup {From(t)}

\* awrite or wait fails with an error that is not repeated: the rest of the message
\* is not sent.
WriteError(t) ==
    /\ pcall[t].at \in {"awrite", "wait"}
    /\ OneFails
    /\ broken' = broken \cup {pcall[t].out}
    /\ pcall' = [pcall EXCEPT ![t] = NoPortalCall]
    /\ UNCHANGED <<portalKernelVars, kportal_allows, reads, madePortals, written, delivered,
                   leftover>>

-----------------------------------------------------------------------------
\* What a thread does once it is inside a call.
PortalStep(t) ==
    \/ CreateReset(t) \/ SetAllow(t)
    \/ kportal_awrite(t) \/ WaitPieceSent(t)
    \/ AllowAgain(t) \/ kportal_aread(t) \/ WaitPieceRead(t) \/ CompleteRead(t) \/ ReadRefused(t)

\* Threads use the portals that they have got.
PortalCall(t) ==
    \/ \E p \in PortalPort : kportal_create(t, p)
    \/ \E i \in reads[t] :
         kportal_unlink(t, i) \/ kportal_read(t, i) \/ \E o \in Output : kportal_allow(t, i, o)
    \/ \E o \in scene.writers[t] : kportal_write(t, o)
    \/ \E o \in scene.writers[t] \cap scene.opens : kportal_open(t, o) \/ kportal_close(t, o)

PortalNext ==
    \E t \in scene.who : PortalCall(t) \/ PortalStep(t) \/ ReadError(t) \/ WriteError(t)

\* A thread inside a call keeps running: the kernel does not return for ever the
\* errors for which the code repeats a call that could succeed.
PortalFairness == \A t \in Thread : WF_<<processVars, portalVars>>(PortalStep(t))

PortalSpec == PortalInit /\ [][PortalNext]_<<processVars, portalVars>>
FairPortalSpec == PortalSpec /\ PortalFairness

-----------------------------------------------------------------------------
ReadPlaces == {"again", "set again", "aread", "await", "complete"}
WritePlaces == {"awrite", "wait"}
PortalCalls ==
    [at : {"idle", "reset", "set"} \cup ReadPlaces \cup WritePlaces,
     id : PortalId \cup {None}, out : Output \cup {None},
     part : Nat, got : Seq(Piece), met : Piece \cup {None}]

\* The types of the variables.
PortalTypeOK ==
    /\ inportal \in [PortalId -> PortalPort \cup {None}]
    /\ outportals \subseteq Output
    /\ allowed \in [PortalId -> Output \cup {None}]
    /\ link \in [RemoteNode -> Piece \cup {None}]
    /\ linkReader \in [RemoteNode -> Thread \cup {None}]
    /\ keptPieces \in [Output -> Seq(Piece)]
    /\ kportal_allows \in [PortalId -> Output \cup {None}]
    /\ pcall \in [Thread -> PortalCalls]
    /\ reads \in [Thread -> SUBSET PortalId]
    /\ written \in [Output -> Nat]
    /\ broken \subseteq Output /\ leftover \subseteq PortalId

\* The k-th message written to output o.
Whole(o, k) == [j \in 1..scene.pieces |-> [out |-> o, msg |-> k, part |-> j]]

\* "Synchronously read": the reads of a portal return the messages written to it,
\* whole and in order, as long as none of the transfers between the two has failed,
\* whatever happens to the messages for other ports that it meets.
WholeMessages ==
    \A o \in Output \ broken :
        /\ Len(delivered[o]) <= written[o]
        /\ \A k \in DOMAIN delivered[o] : delivered[o][k] = Whole(o, k)

\* "Store allows information": between calls, the portal that has an allow standing
\* in the kernel has it in the table, from which a read allows its further pieces; and
\* the table has one that no longer stands only when the last read has failed.
AllowsTell ==
    \A i \in PortalId :
        inportal[i] # None /\ (\A t \in Thread : pcall[t].id # i) =>
            \/ kportal_allows[i] = allowed[i]
            \/ allowed[i] = None /\ i \in leftover

\* A read and a write that wait for each other end: one of the two returns.
ReadsFrom(o) == {t \in Thread : pcall[t].at \in ReadPlaces /\ pcall[t].out = o}
WritesTo(o) == {t \in Thread : pcall[t].at \in WritePlaces /\ pcall[t].out = o}

TransfersEnd ==
    \A o \in Output :
        ReadsFrom(o) # {} /\ WritesTo(o) # {} ~> ReadsFrom(o) = {} \/ WritesTo(o) = {}

=============================================================================
