------------------------------- MODULE Mailbox -------------------------------
(***************************************************************************)
(* The mailboxes of a node, ikc/mailbox.c with __NANVIX_IKC_USES_ONLY_-    *)
(* MAILBOX: kernel calls, repeated for some of their errors, and around    *)
(* them the book-keeping of which mailboxes are in use and how often.  A   *)
(* kernel call that the code repeats is one that has no effect, and is not *)
(* a step here.                                                            *)
(*                                                                         *)
(* External: the kernel gives out the ids and takes them back.  It reads   *)
(* the messages of all ports of the node from one queue (wire), for one    *)
(* reader at a time, and keeps what is for another port than the reader's. *)
(* One process is modelled, which writes to itself.                        *)
(*                                                                         *)
(* global_lock is held over straight-line code only: each of its critical  *)
(* sections is one action.                                                 *)
(***************************************************************************)
EXTENDS Process

CONSTANTS
    MailboxPort,    \* the ports used, of 0 .. KMAILBOX_PORT_NR - 1
    KMAILBOX_MAX,   \* external: mailboxes of the process
    WireSlots,      \* external: messages that a node receives before any is read
    MaxWrites       \* bound: messages written

Counter == {"ncreates", "nunlinks", "nopens", "ncloses", "nreads", "nwrites"}

ASSUME MailboxAssumption ==
    /\ None \notin MailboxPort /\ None \notin Counter
    /\ None \notin [kind : {"in", "out"}, port : MailboxPort]
    /\ KMAILBOX_MAX \in Nat /\ WireSlots \in Nat /\ MaxWrites \in Nat

MailboxId == 0 .. KMAILBOX_MAX - 1
Message == 1 .. MaxWrites

\* An instance has some mailboxes that exist from the start, with their flags set,
\* the thread that has got each, how many more are created or opened with the ids
\* that the rest of the process leaves, and how many messages are written.  A port has
\* one input mailbox.
ASSUME MailboxSceneAssumption ==
    \A c \in Scenes :
        /\ c.mailbox \in [MailboxId -> [kind : {"in", "out"}, port : MailboxPort] \cup {None}]
        /\ c.held \in [Thread -> SUBSET MailboxId]
        /\ \A t \in Thread : \A i \in c.held[t] :
             c.mailbox[i] # None /\ \A u \in Thread \ {t} : i \notin c.held[u]
        /\ \A i \in MailboxId : \A j \in MailboxId \ {i} :
             c.mailbox[i] # None /\ c.mailbox[i] = c.mailbox[j] => c.mailbox[i].kind = "out"
        /\ c.mailboxes \in Nat /\ c.ids \subseteq MailboxId /\ c.writes \in 0..MaxWrites

VARIABLES
    mailbox,            \* external [id]: kind and port, or None
    wire,               \* external: the messages that have arrived, with their ports
    kept,               \* external [port]: those that readers of other ports have met
    wireReader,         \* external: the thread whose read is under way
    user_mailboxes,     \* [id]
    mailbox_counters,   \* [counter]
    mcall,              \* [thread]: where it is in a call, and the locals of it
    held,               \* history [thread]: the mailboxes it has got and may use
    returned,           \* history [counter]: calls that did what the counter counts
    overtaken,          \* history: an id was given out before its last user was done
    calls,              \* history: calls of kmailbox_write
    sent,               \* history: the messages that the kernel has accepted
    received            \* history [port]: the messages read, in order

kernelVars == <<mailbox, wire, kept, wireReader>>
mailboxHistory == <<held, returned, overtaken, calls, sent, received>>
mailboxVars == <<kernelVars, user_mailboxes, mailbox_counters, mcall, mailboxHistory>>

Idle == [at |-> "idle", counter |-> None, id |-> None, buffer |-> None]

\* kmailbox_init, and the calls that make some mailboxes ready.
MailboxInit ==
    /\ ProcessInit
    /\ mailbox = scene.mailbox
    /\ wire = <<>>
    /\ kept = [p \in MailboxPort |-> <<>>]
    /\ wireReader = None
    /\ user_mailboxes = [i \in MailboxId |-> scene.mailbox[i] # None]
    /\ mailbox_counters = [c \in Counter |-> 0]
    /\ mcall = [t \in Thread |-> Idle]
    /\ held = scene.held
    /\ returned = [c \in Counter |-> 0]
    /\ overtaken = FALSE
    /\ calls = 0
    /\ sent = {}
    /\ received = [p \in MailboxPort |-> <<>>]

In(t, l) == mcall[t].at = l
Inputs == {mailbox[i].port : i \in {j \in MailboxId : mailbox[j] # None /\ mailbox[j].kind = "in"}}

\* The call of t counts as c, after the kernel call about mailbox i.
Succeeds(t, c, i) ==
    mcall' = [mcall EXCEPT ![t] = [Idle EXCEPT !.at = "count", !.counter = c, !.id = i]]

-----------------------------------------------------------------------------
(* Creating and removing.  A kernel call that fails changes nothing.       *)

\* The threads that have removed mailbox i and not returned yet.
Leaving(i) ==
    {t \in Thread : mcall[t].id = i /\ mcall[t].counter \in {"nunlinks", "ncloses"}}

\* Mailboxes created and opened so far.
Made ==
    mailbox_counters["ncreates"] + mailbox_counters["nopens"]
      + Cardinality({t \in Thread : In(t, "count") /\ mcall[t].counter \in {"ncreates", "nopens"}})

\* The kernel gives out some id that is free.
NewMailbox(t, k, p, c) ==
    /\ In(t, "idle")
    /\ Made < scene.mailboxes
    /\ \E i \in scene.ids :
         /\ mailbox[i] = None
         /\ mailbox' = [mailbox EXCEPT ![i] = [kind |-> k, port |-> p]]
         /\ overtaken' = (overtaken \/ Leaving(i) # {})
         /\ Succeeds(t, c, i)
    /\ UNCHANGED <<processVars, wire, kept, wireReader, user_mailboxes, mailbox_counters,
                   held, returned, calls, sent, received>>

kmailbox_create(t, p) == p \notin Inputs /\ NewMailbox(t, "in", p, "ncreates")

kmailbox_open(t, p) == NewMailbox(t, "out", p, "nopens")

FreeMailbox(t, i, c) ==
    /\ In(t, "idle")
    /\ mailbox' = [mailbox EXCEPT ![i] = None]
    /\ held' = [held EXCEPT ![t] = @ \ {i}]
    /\ Succeeds(t, c, i)
    /\ UNCHANGED <<processVars, wire, kept, wireReader, user_mailboxes, mailbox_counters,
                   returned, overtaken, calls, sent, received>>

\* EBUSY while messages wait in it.
kmailbox_unlink(t, i) ==
    /\ mailbox[i] # None /\ mailbox[i].kind = "in"
    /\ kept[mailbox[i].port] = <<>>
    /\ FreeMailbox(t, i, "nunlinks")

kmailbox_close(t, i) ==
    /\ mailbox[i] # None /\ mailbox[i].kind = "out"
    /\ FreeMailbox(t, i, "ncloses")

\* The critical section that ends create, open, unlink and close: the counter.
CountMailbox(t) ==
    LET c == mcall[t].counter IN
    /\ In(t, "count") /\ c \notin {"nreads", "nwrites"}
    /\ mailbox_counters' = [mailbox_counters EXCEPT ![c] = @ + 1]
    /\ mcall' = [mcall EXCEPT ![t].at = "flag"]
    /\ UNCHANGED <<processVars, kernelVars, user_mailboxes, mailboxHistory>>

\* A seeded fault: the flag of a mailbox that is opened is forgotten.
InUseForgets(c) == c = "ncreates"

\* What the flag of the mailbox becomes.
InUse(c) == c \in {"ncreates", "nopens"}

\* The flag, outside the lock, and the return.
FlagMailbox(t) ==
    LET c == mcall[t].counter  i == mcall[t].id IN
    /\ In(t, "flag")
    /\ user_mailboxes' = [user_mailboxes EXCEPT ![i] = InUse(c)]
    /\ held' = IF c \in {"ncreates", "nopens"} THEN [held EXCEPT ![t] = @ \cup {i}] ELSE held
    /\ returned' = [returned EXCEPT ![c] = @ + 1]
    /\ mcall' = [mcall EXCEPT ![t] = Idle]
    /\ UNCHANGED <<processVars, kernelVars, mailbox_counters, overtaken, calls, sent,
                   received>>

-----------------------------------------------------------------------------
(* Writing                                                                 *)

\* The checks with which kmailbox_write starts.  The message in the caller's buffer
\* is known by the number of the call.
kmailbox_write(t, i) ==
    /\ In(t, "idle")
    /\ mailbox[i] # None /\ mailbox[i].kind = "out"
    /\ calls < scene.writes
    /\ calls' = calls + 1
    /\ mcall' = [mcall EXCEPT ![t] = [at |-> "awrite", counter |-> "nwrites", id |-> i,
                                     buffer |-> calls + 1]]
    /\ UNCHANGED <<processVars, kernelVars, user_mailboxes, mailbox_counters, held,
                   returned, overtaken, sent, received>>

\* EAGAIN while the receiver has no room, EBUSY and ETIMEDOUT at any time: the call
\* is repeated.
kmailbox_awrite(t) ==
    LET m == mcall[t].buffer IN
    /\ In(t, "awrite")
    /\ Len(wire) < WireSlots
    /\ wire' = Append(wire, [port |-> mailbox[mcall[t].id].port, msg |-> m])
    /\ sent' = sent \cup {m}
    /\ mcall' = [mcall EXCEPT ![t].at = "wait"]
    /\ UNCHANGED <<processVars, mailbox, kept, wireReader, user_mailboxes,
                   mailbox_counters, held, returned, overtaken, calls, received>>

\* kmailbox_wait in kmailbox_write.
WaitWritten(t) ==
    /\ In(t, "wait")
    /\ mcall' = [mcall EXCEPT ![t].at = "count"]
    /\ UNCHANGED <<processVars, kernelVars, user_mailboxes, mailbox_counters,
                   mailboxHistory>>

-----------------------------------------------------------------------------
(* Reading                                                                 *)

kmailbox_read(t, i) ==
    /\ In(t, "idle")
    /\ mailbox[i] # None /\ mailbox[i].kind = "in"
    /\ mcall' = [mcall EXCEPT ![t] = [Idle EXCEPT !.at = "aread", !.counter = "nreads", !.id = i]]
    /\ UNCHANGED <<processVars, kernelVars, user_mailboxes, mailbox_counters,
                   mailboxHistory>>

PortOfCall(t) == mailbox[mcall[t].id].port

\* The kernel has a message for this port, or starts to read one for whatever port.
\* EBUSY while another read is under way, ENOMSG when nothing has arrived, and
\* ETIMEDOUT at any time: the call is repeated.
kmailbox_aread(t) ==
    LET p == PortOfCall(t) IN
    /\ In(t, "aread")
    /\ \/ /\ kept[p] # <<>>
          /\ mcall' = [mcall EXCEPT ![t].at = "await", ![t].buffer = Head(kept[p])]
          /\ kept' = [kept EXCEPT ![p] = Tail(@)]
          /\ UNCHANGED wireReader
       \/ /\ kept[p] = <<>> /\ wire # <<>> /\ wireReader = None
          /\ mcall' = [mcall EXCEPT ![t].at = "await"]
          /\ wireReader' = t
          /\ UNCHANGED kept
    /\ UNCHANGED <<processVars, mailbox, wire, user_mailboxes, mailbox_counters,
                   mailboxHistory>>

\* A seeded fault: what kmailbox_wait returns is taken for success.
AfterWaitAnyway(t, m) == "count"

\* A seeded fault: only kmailbox_wait is repeated.
AfterWaitAlone(t, m) == IF m.port = PortOfCall(t) THEN "count" ELSE "await"

\* "Repeat while reading valid messages for another ports": kmailbox_wait returns
\* a positive number for them.
AfterWait(t, m) == IF m.port = PortOfCall(t) THEN "count" ELSE "aread"

\* kmailbox_wait in kmailbox_read.
WaitRead(t) ==
    /\ In(t, "await")
    /\ \/ /\ mcall[t].buffer # None
          /\ mcall' = [mcall EXCEPT ![t].at = "count"]
          /\ UNCHANGED <<wire, kept, wireReader>>
       \/ /\ wireReader = t
          /\ LET m == Head(wire) IN
             /\ mcall' = [mcall EXCEPT ![t].at = AfterWait(t, m), ![t].buffer =
                             IF AfterWait(t, m) = "count" THEN m.msg ELSE None]
             /\ kept' = IF m.port # PortOfCall(t) /\ m.port \in Inputs
                        THEN [kept EXCEPT ![m.port] = Append(@, m.msg)] ELSE kept
          /\ wire' = Tail(wire)
          /\ wireReader' = None
    /\ UNCHANGED <<processVars, mailbox, user_mailboxes, mailbox_counters,
                   mailboxHistory>>

\* The critical section that ends kmailbox_read and kmailbox_write, and the return.
CountTransfer(t) ==
    LET c == mcall[t].counter  i == mcall[t].id  p == PortOfCall(t) IN
    /\ In(t, "count") /\ c \in {"nreads", "nwrites"}
    /\ mailbox_counters' =
         IF user_mailboxes[i] THEN [mailbox_counters EXCEPT ![c] = @ + 1] ELSE mailbox_counters
    /\ returned' = [returned EXCEPT ![c] = @ + 1]
    /\ received' = IF c = "nwrites" THEN received
                   ELSE [received EXCEPT ![p] = Append(@, mcall[t].buffer)]
    /\ mcall' = [mcall EXCEPT ![t] = Idle]
    /\ UNCHANGED <<processVars, kernelVars, user_mailboxes, held, overtaken, calls, sent>>

\* aread, awrite or wait fails with an error that is not repeated, and the caller
\* gets it.  A message that the kernel has accepted is on its way nevertheless;
\* one that it has taken out for the reader is lost.
MailboxError(t) ==
    /\ mcall[t].at \in {"awrite", "wait", "aread", "await"}
    /\ OneFails
    /\ wireReader' = IF wireReader = t THEN None ELSE wireReader
    /\ mcall' = [mcall EXCEPT ![t] = Idle]
    /\ UNCHANGED <<mailbox, wire, kept, user_mailboxes, mailbox_counters, mailboxHistory>>

-----------------------------------------------------------------------------
\* What a thread does once it is inside a call.
MailboxStep(t) ==
    \/ CountMailbox(t) \/ FlagMailbox(t)
    \/ kmailbox_awrite(t) \/ WaitWritten(t)
    \/ kmailbox_aread(t) \/ WaitRead(t) \/ CountTransfer(t)

\* Threads use the mailboxes that they have got.
MailboxCall(t) ==
    \/ \E p \in MailboxPort : kmailbox_create(t, p) \/ kmailbox_open(t, p)
    \/ \E i \in held[t] :
         kmailbox_unlink(t, i) \/ kmailbox_close(t, i) \/ kmailbox_write(t, i) \/ kmailbox_read(t, i)

MailboxNext == \E t \in scene.who : MailboxCall(t) \/ MailboxStep(t) \/ MailboxError(t)

\* A thread inside a call keeps running: the kernel does not return for ever the
\* errors for which the code repeats a call that could succeed.
MailboxFairness == \A t \in Thread : WF_<<processVars, mailboxVars>>(MailboxStep(t))

MailboxSpec == MailboxInit /\ [][MailboxNext]_<<processVars, mailboxVars>>
FairMailboxSpec == MailboxSpec /\ MailboxFairness

-----------------------------------------------------------------------------
MailboxPlaces == {"idle", "count", "flag", "awrite", "wait", "aread", "await"}
MailboxCalls ==
    [at : MailboxPlaces, counter : Counter \cup {None}, id : MailboxId \cup {None},
     buffer : Message \cup {None}]

\* The types of the variables.
MailboxTypeOK ==
    /\ mailbox \in [MailboxId -> [kind : {"in", "out"}, port : MailboxPort] \cup {None}]
    /\ wire \in Seq([port : MailboxPort, msg : Message])
    /\ kept \in [MailboxPort -> Seq(Message)]
    /\ wireReader \in Thread \cup {None}
    /\ user_mailboxes \in [MailboxId -> BOOLEAN]
    /\ mailbox_counters \in [Counter -> Nat]
    /\ mcall \in [Thread -> MailboxCalls]
    /\ held \in [Thread -> SUBSET MailboxId]
    /\ returned \in [Counter -> Nat]
    /\ overtaken \in BOOLEAN
    /\ calls \in Nat /\ sent \subseteq Message
    /\ received \in [MailboxPort -> Seq(Message)]

\* The threads that read from port p.
Readers(p) == {t \in Thread : mcall[t].counter = "nreads" /\ PortOfCall(t) = p}

\* The messages for port p that its reader has in its buffer, that wait for it in
\* the kernel, and that have arrived.
InBuffer(p) == {mcall[t].buffer : t \in Readers(p)} \ {None}
Arriving(p) ==
    LET upTo[k \in 0..Len(wire)] ==
          IF k = 0 THEN <<>>
          ELSE IF wire[k].port = p THEN Append(upTo[k - 1], wire[k].msg) ELSE upTo[k - 1]
    IN upTo[Len(wire)]
Content(p) ==
    (IF InBuffer(p) = {} THEN <<>> ELSE <<CHOOSE m \in InBuffer(p) : TRUE>>)
      \o kept[p] \o Arriving(p)

\* "Synchronously read": the messages for a port are read by its reader, each once
\* and in the order in which they were written, although whoever reads takes from
\* the wire what is for others, reads fail, and mailboxes come and go.
Channel == INSTANCE MailboxChannel WITH
    Port <- MailboxPort,
    inputs <- Inputs,
    content <- [p \in MailboxPort |-> Content(p)]

IsChannel == Channel!Spec

\* "Number of reads": a call that has returned with success is in its counter, once.
\* nreads and nwrites may miss some when an id was given out while the thread that
\* had removed it was still on its way to clear the flag.
Unflagged(c) == Cardinality({t \in Thread : In(t, "flag") /\ mcall[t].counter = c})

CountersTell ==
    \A c \in Counter :
        IF c \in {"nreads", "nwrites"}
        THEN /\ mailbox_counters[c] <= returned[c]
             /\ ~overtaken => mailbox_counters[c] = returned[c]
        ELSE mailbox_counters[c] = returned[c] + Unflagged(c)

\* A read returns when there is a message for it, even if another thread takes
\* that message from the wire.
ReadReturns ==
    \A p \in MailboxPort : Readers(p) # {} /\ Content(p) # <<>> ~> Readers(p) = {}

=============================================================================
