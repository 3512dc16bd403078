-------------------------------- MODULE Sync --------------------------------
(***************************************************************************)
(* The synchronization points of libnanvix over mailboxes, ikc/msync.c.    *)
(* Every node keeps a table of them and owns one input mailbox for all,    *)
(* which has no thread of its own: whoever waits reads it, in turn, and    *)
(* dispatches the signals it finds to whatever entry they are for.  An     *)
(* entry is identified by its type, master and list of nodes, so a Sync    *)
(* stands for its slot in the table of each of its nodes; a node is either *)
(* a sender or a receiver of it, so it has at most one entry for it.       *)
(*                                                                         *)
(* Each critical section of global_lock is an action.  wait_lock is held   *)
(* while the mailbox is read and signal_lock while signals are sent.       *)
(***************************************************************************)
EXTENDS Naturals, Sequences, FiniteSetsExt

CONSTANTS
    Node,          \* node numbers
    Thread,        \* the threads of all nodes
    NoThread,      \* nobody: a spin lock that is free
    NodeOf,        \* the node of each thread
    Sync,          \* the synchronization points
    NoSync,        \* the argument of a thread outside any call
    Kind,          \* SYNC_ONE_TO_ALL or SYNC_ALL_TO_ONE
    Master,        \* nodes[0]
    Members,       \* the nodes of the list
    KSYNC_MAX,     \* entries of a table
    InboxSlots,    \* external: messages that the kernel keeps for a mailbox
    Faults,        \* external: whether mailbox operations may fail
    MaxRefs,       \* bound: references to each entry
    Uses,          \* bound: the Syncs that each thread may use
    MaxSignals     \* bound: signals that a node sends for each Sync

ASSUME NodeAssumption ==
    /\ Node \subseteq Nat /\ IsFiniteSet(Node)
    /\ NoThread \notin Thread /\ NodeOf \in [Thread -> Node]
ASSUME SyncAssumption ==
    /\ NoSync \notin Sync /\ Kind \in [Sync -> {"one_to_all", "all_to_one"}]
    /\ Master \in [Sync -> Node] /\ Members \in [Sync -> SUBSET Node]
    /\ \A s \in Sync : Master[s] \in Members[s] /\ Members[s] # {Master[s]}
    /\ \A r, s \in Sync :
         Kind[r] = Kind[s] /\ Master[r] = Master[s] /\ Members[r] = Members[s] => r = s
ASSUME LimitAssumption ==
    /\ KSYNC_MAX \in Nat /\ InboxSlots \in Nat /\ Faults \in BOOLEAN
    /\ MaxRefs \in [Node -> [Sync -> Nat]] /\ MaxSignals \in [Sync -> [Node -> Nat]]
    /\ Uses \in [Thread -> SUBSET Sync]

\* Who signals and who waits: the test of ksync_nodelist_is_valid.
Senders(s) ==
    IF Kind[s] = "one_to_all" THEN {Master[s]} ELSE Members[s] \ {Master[s]}
Receivers(s) == Members[s] \ Senders(s)

VARIABLES
    refcount,      \* [node][sync]; an entry is used while it is not zero
    busy,          \* [node]: the entries that are busy
    barrier,       \* [node][sync]: hash.barrier of an input, as a set
    nreceived,     \* [node][sync][source]
    nbarriers,     \* [node][sync]
    inbox,         \* [node]: the messages in its mailbox
    waitLock, signalLock,
    pc,            \* where each thread is in the code
    arg,           \* the Sync that it passed
    targets,       \* where it still has to send its signal
    sent,          \* history [sync][source][node]: messages sent
    lost,          \* history [node][sync][source]: signals that were forgotten
    released       \* history [node][sync]: waits that a barrier released

tableVars == <<refcount, busy, barrier, nreceived, nbarriers>>
lockVars == <<waitLock, signalLock>>
callVars == <<pc, arg, targets>>
historyVars == <<sent, lost, released>>
vars == <<tableVars, inbox, lockVars, callVars, historyVars>>

\* ksync_init on every node, and the calls that leave each entry with refs[n][s]
\* references and nothing received.
InitWith(refs) ==
    /\ refcount = refs
    /\ busy = [n \in Node |-> {}]
    /\ barrier = [n \in Node |-> [s \in Sync |-> {}]]
    /\ nreceived = [n \in Node |-> [s \in Sync |-> [m \in Node |-> 0]]]
    /\ nbarriers = [n \in Node |-> [s \in Sync |-> 0]]
    /\ inbox = [n \in Node |-> <<>>]
    /\ waitLock = [n \in Node |-> NoThread]
    /\ signalLock = [n \in Node |-> NoThread]
    /\ pc = [t \in Thread |-> "idle"]
    /\ arg = [t \in Thread |-> NoSync]
    /\ targets = [t \in Thread |-> {}]
    /\ sent = [s \in Sync |-> [m \in Node |-> [n \in Node |-> 0]]]
    /\ lost = [n \in Node |-> [s \in Sync |-> [m \in Node |-> 0]]]
    /\ released = [n \in Node |-> [s \in Sync |-> 0]]

Init == InitWith([n \in Node |-> [s \in Sync |-> 0]])

Goto(t, l) == pc' = [pc EXCEPT ![t] = l]

-----------------------------------------------------------------------------
(* Creating and removing.  A failed call changes nothing.                  *)

\* A seeded fault: who finds the entry gets no reference of its own.
AllocShares(t, s) ==
    LET n == NodeOf[t] IN
    /\ pc[t] = "idle"
    /\ n \in Members[s]
    /\ refcount[n][s] < MaxRefs[n][s]
    /\ \/ /\ refcount[n][s] > 0
          /\ UNCHANGED <<refcount, barrier, nreceived, nbarriers>>
       \/ /\ refcount[n][s] = 0
          /\ Cardinality({r \in Sync : refcount[n][r] > 0}) < KSYNC_MAX
          /\ refcount' = [refcount EXCEPT ![n][s] = 1]
          /\ barrier' = [barrier EXCEPT ![n][s] = {}]
          /\ nreceived' = [nreceived EXCEPT ![n][s] = [m \in Node |-> 0]]
          /\ nbarriers' = [nbarriers EXCEPT ![n][s] = 0]
    /\ UNCHANGED <<busy, inbox, lockVars, callVars, historyVars>>

\* ksync_create on a receiver and ksync_open on a sender: the entry that exists
\* already gets one more reference, a new one starts from nothing.
Alloc(t, s) ==
    LET n == NodeOf[t] IN
    /\ pc[t] = "idle"
    /\ n \in Members[s]
    /\ refcount[n][s] < MaxRefs[n][s]
    /\ refcount' = [refcount EXCEPT ![n][s] = @ + 1]
    /\ \/ /\ refcount[n][s] > 0
          /\ UNCHANGED <<barrier, nreceived, nbarriers>>
       \/ /\ refcount[n][s] = 0
          /\ Cardinality({r \in Sync : refcount[n][r] > 0}) < KSYNC_MAX
          /\ barrier' = [barrier EXCEPT ![n][s] = {}]
          /\ nreceived' = [nreceived EXCEPT ![n][s] = [m \in Node |-> 0]]
          /\ nbarriers' = [nbarriers EXCEPT ![n][s] = 0]
    /\ UNCHANGED <<busy, inbox, lockVars, callVars, historyVars>>

\* A seeded fault: an entry is removed while a call is using it.
ReleaseBusy(t, s) ==
    LET n == NodeOf[t] IN
    /\ pc[t] = "idle"
    /\ refcount[n][s] > 0
    /\ refcount' = [refcount EXCEPT ![n][s] = @ - 1]
    /\ UNCHANGED <<busy, barrier, nreceived, nbarriers, inbox, lockVars, callVars, historyVars>>

\* ksync_unlink and ksync_close: EBUSY while a call is using the entry.  What
\* the entry has received is forgotten with it.
Release(t, s) ==
    LET n == NodeOf[t] IN
    /\ pc[t] = "idle"
    /\ refcount[n][s] > 0
    /\ s \notin busy[n]
    /\ refcount' = [refcount EXCEPT ![n][s] = @ - 1]
    /\ IF refcount[n][s] = 1
       THEN /\ barrier' = [barrier EXCEPT ![n][s] = {}]
            /\ lost' = [lost EXCEPT ![n][s] =
                 [m \in Node |-> @[m] + nreceived[n][s][m]
                                   + (IF m \in Senders(s) THEN nbarriers[n][s] ELSE 0)]]
       ELSE UNCHANGED <<barrier, lost>>
    /\ UNCHANGED <<busy, nreceived, nbarriers, inbox, lockVars, callVars, sent, released>>

\* The checks with which ksync_wait and ksync_signal start; the entry is marked
\* busy.  EBADF and EBUSY change nothing.
Begin(t, s, l) ==
    LET n == NodeOf[t] IN
    /\ pc[t] = "idle"
    /\ refcount[n][s] > 0
    /\ s \notin busy[n]
    /\ busy' = [busy EXCEPT ![n] = @ \cup {s}]
    /\ arg' = [arg EXCEPT ![t] = s]
    /\ Goto(t, l)

\* The end of both, whatever the result.
Finish(t) ==
    LET n == NodeOf[t] IN
    /\ pc[t] = "done"
    /\ busy' = [busy EXCEPT ![n] = @ \ {arg[t]}]
    /\ arg' = [arg EXCEPT ![t] = NoSync]
    /\ Goto(t, "idle")
    /\ UNCHANGED <<refcount, barrier, nreceived, nbarriers, inbox, lockVars, targets,
                   historyVars>>

-----------------------------------------------------------------------------
(* ksync_wait                                                              *)

Wait(t, s) ==
    /\ NodeOf[t] \in Receivers(s)
    /\ Begin(t, s, "consume")
    /\ UNCHANGED <<refcount, barrier, nreceived, nbarriers, inbox, lockVars, targets,
                   historyVars>>

\* ksync_barrier_consume, when a barrier is complete: the wait is over.
Consume(t) ==
    LET n == NodeOf[t]  s == arg[t] IN
    /\ nbarriers[n][s] > 0
    /\ nbarriers' = [nbarriers EXCEPT ![n][s] = @ - 1]
    /\ released' = [released EXCEPT ![n][s] = @ + 1]
    /\ Goto(t, "done")
    /\ UNCHANGED <<refcount, busy, barrier, nreceived, inbox, lockVars, arg, targets,
                   sent, lost>>

\* The first attempt, without wait_lock.
TryConsume(t) ==
    /\ pc[t] = "consume"
    /\ \/ Consume(t)
       \/ /\ nbarriers[NodeOf[t]][arg[t]] = 0
          /\ Goto(t, "lock")
          /\ UNCHANGED <<tableVars, inbox, lockVars, arg, targets, historyVars>>

\* The second one, with wait_lock: another reader may have completed the barrier
\* in between.  If not, the caller keeps the lock to read.
LockAndConsume(t) ==
    LET n == NodeOf[t] IN
    /\ pc[t] = "lock"
    /\ waitLock[n] = NoThread
    /\ \/ Consume(t)
       \/ /\ nbarriers[n][arg[t]] = 0
          /\ waitLock' = [waitLock EXCEPT ![n] = t]
          /\ Goto(t, "read")
          /\ UNCHANGED <<tableVars, inbox, signalLock, arg, targets, historyVars>>

\* ksync_barrier_reset consumes one signal of each sender; those that have sent
\* more stay in the barrier.
OneLess(bits, count) ==
    [m \in Node |-> IF m \in bits THEN count[m] - 1 ELSE count[m]]
StillAhead(bits, count) == {m \in bits : count[m] # 1}

\* A seeded fault: the barrier starts from nothing when it is complete, and the
\* signals that are ahead of it are forgotten.
ArriveAndForget(n, s, m) ==
    IF barrier[n][s] \cup {m} = Senders(s)
    THEN /\ barrier' = [barrier EXCEPT ![n][s] = {}]
         /\ nreceived' = [nreceived EXCEPT ![n][s] = [k \in Node |-> 0]]
         /\ nbarriers' = [nbarriers EXCEPT ![n][s] = @ + 1]
    ELSE /\ barrier' = [barrier EXCEPT ![n][s] = @ \cup {m}]
         /\ nreceived' = [nreceived EXCEPT ![n][s][m] = @ + 1]
         /\ UNCHANGED nbarriers

\* A seeded fault: the bits are all cleared when the barrier is complete, those of
\* the senders that are ahead too.
ArriveClears(n, s, m) ==
    LET bits  == barrier[n][s] \cup {m}
        count == [nreceived[n][s] EXCEPT ![m] = @ + 1]
    IN IF bits = Senders(s)
       THEN /\ barrier' = [barrier EXCEPT ![n][s] = {}]
            /\ nreceived' = [nreceived EXCEPT ![n][s] = OneLess(bits, count)]
            /\ nbarriers' = [nbarriers EXCEPT ![n][s] = @ + 1]
       ELSE /\ barrier' = [barrier EXCEPT ![n][s] = bits]
            /\ nreceived' = [nreceived EXCEPT ![n][s] = count]
            /\ UNCHANGED nbarriers

\* A seeded fault: the barrier is taken for complete with the first bit.
ArriveFirst(n, s, m) ==
    /\ nbarriers' = [nbarriers EXCEPT ![n][s] = @ + 1]
    /\ UNCHANGED <<barrier, nreceived>>

\* A signal from m arrives; when every sender has signalled, a barrier is complete.
Arrive(n, s, m) ==
    LET bits  == barrier[n][s] \cup {m}
        count == [nreceived[n][s] EXCEPT ![m] = @ + 1]
    IN IF bits = Senders(s)
       THEN /\ barrier' = [barrier EXCEPT ![n][s] = StillAhead(bits, count)]
            /\ nreceived' = [nreceived EXCEPT ![n][s] = OneLess(bits, count)]
            /\ nbarriers' = [nbarriers EXCEPT ![n][s] = @ + 1]
       ELSE /\ barrier' = [barrier EXCEPT ![n][s] = bits]
            /\ nreceived' = [nreceived EXCEPT ![n][s] = count]
            /\ UNCHANGED nbarriers

\* The mailbox is read and the signal dispatched to its entry, or ignored when
\* there is none; the reader tries again.
Read(t) ==
    LET n == NodeOf[t]
        m == Head(inbox[n])
    IN /\ pc[t] = "read"
       /\ inbox[n] # <<>>
       /\ inbox' = [inbox EXCEPT ![n] = Tail(@)]
       /\ IF refcount[n][m.sync] > 0
          THEN Arrive(n, m.sync, m.source) /\ UNCHANGED lost
          ELSE /\ lost' = [lost EXCEPT ![n][m.sync][m.source] = @ + 1]
               /\ UNCHANGED <<barrier, nreceived, nbarriers>>
       /\ waitLock' = [waitLock EXCEPT ![n] = NoThread]
       /\ Goto(t, "consume")
       /\ UNCHANGED <<refcount, busy, signalLock, arg, targets, sent, released>>

\* EAGAIN.
ReadError(t) ==
    /\ Faults
    /\ pc[t] = "read"
    /\ waitLock' = [waitLock EXCEPT ![NodeOf[t]] = NoThread]
    /\ Goto(t, "done")
    /\ UNCHANGED <<tableVars, inbox, signalLock, arg, targets, historyVars>>

-----------------------------------------------------------------------------
(* ksync_signal                                                            *)

Signal(t, s) ==
    /\ NodeOf[t] \in Senders(s)
    /\ \A n \in Node : sent[s][NodeOf[t]][n] < MaxSignals[s][NodeOf[t]]
    /\ Begin(t, s, "signal")
    /\ UNCHANGED <<refcount, barrier, nreceived, nbarriers, inbox, lockVars, targets,
                   historyVars>>

\* signal_lock is taken; the targets are those that the sender opened the entry
\* for, hash.barrier.
SignalLock(t) ==
    LET n == NodeOf[t] IN
    /\ pc[t] = "signal"
    /\ signalLock[n] = NoThread
    /\ signalLock' = [signalLock EXCEPT ![n] = t]
    /\ targets' = [targets EXCEPT ![t] = Receivers(arg[t])]
    /\ Goto(t, "send")
    /\ UNCHANGED <<tableVars, inbox, waitLock, arg, historyVars>>

\* A seeded fault: the loop ends after the first target.
SendFirstOnly(t) ==
    LET n == NodeOf[t]  s == arg[t]  k == Min(targets[t]) IN
    /\ pc[t] = "send"
    /\ Len(inbox[k]) < InboxSlots
    /\ inbox' = [inbox EXCEPT ![k] = Append(@, [sync |-> s, source |-> n])]
    /\ targets' = [targets EXCEPT ![t] = {}]
    /\ sent' = [sent EXCEPT ![s][n][k] = @ + 1]
    /\ signalLock' = [signalLock EXCEPT ![n] = NoThread]
    /\ Goto(t, "done")
    /\ UNCHANGED <<tableVars, waitLock, arg, lost, released>>

\* kmailbox_write to the next target, in the order of the node numbers; it is
\* repeated while the mailbox is full.  The last one ends with signal_lock released.
Send(t) ==
    LET n == NodeOf[t]  s == arg[t]  k == Min(targets[t]) IN
    /\ pc[t] = "send"
    /\ Len(inbox[k]) < InboxSlots
    /\ inbox' = [inbox EXCEPT ![k] = Append(@, [sync |-> s, source |-> n])]
    /\ targets' = [targets EXCEPT ![t] = @ \ {k}]
    /\ sent' = [sent EXCEPT ![s][n][k] = @ + 1]
    /\ IF targets[t] = {k}
       THEN signalLock' = [signalLock EXCEPT ![n] = NoThread] /\ Goto(t, "done")
       ELSE UNCHANGED <<signalLock, pc>>
    /\ UNCHANGED <<tableVars, waitLock, arg, lost, released>>

\* A write fails: the targets that are left get no signal.
SendError(t) ==
    /\ Faults
    /\ pc[t] = "send"
    /\ targets' = [targets EXCEPT ![t] = {}]
    /\ signalLock' = [signalLock EXCEPT ![NodeOf[t]] = NoThread]
    /\ Goto(t, "done")
    /\ UNCHANGED <<tableVars, inbox, waitLock, arg, historyVars>>

-----------------------------------------------------------------------------
\* What a thread does once it is inside a call.
Step(t) ==
    \/ TryConsume(t) \/ LockAndConsume(t) \/ Read(t)
    \/ SignalLock(t) \/ Send(t)
    \/ Finish(t)

Call(t, s) == Alloc(t, s) \/ Release(t, s) \/ Wait(t, s) \/ Signal(t, s)

Next ==
    \E t \in Thread :
        \/ \E s \in Uses[t] : Call(t, s)
        \/ Step(t) \/ ReadError(t) \/ SendError(t)

\* A thread inside a call keeps running; no client is obliged to call, and no
\* mailbox operation to fail.
Fairness == \A t \in Thread : WF_vars(Step(t))

Spec == Init /\ [][Next]_vars
FairSpec == Spec /\ Fairness

-----------------------------------------------------------------------------
PCs == {"idle", "consume", "lock", "read", "signal", "send", "done"}
Message == [sync : Sync, source : Node]

\* The types of the variables.
TypeOK ==
    /\ refcount \in [Node -> [Sync -> Nat]]
    /\ busy \in [Node -> SUBSET Sync]
    /\ barrier \in [Node -> [Sync -> SUBSET Node]]
    /\ nreceived \in [Node -> [Sync -> [Node -> Nat]]]
    /\ nbarriers \in [Node -> [Sync -> Nat]]
    /\ inbox \in [Node -> Seq(Message)]
    /\ waitLock \in [Node -> Thread \cup {NoThread}]
    /\ signalLock \in [Node -> Thread \cup {NoThread}]
    /\ pc \in [Thread -> PCs]
    /\ arg \in [Thread -> Sync \cup {NoSync}]
    /\ targets \in [Thread -> SUBSET Node]
    /\ sent \in [Sync -> [Node -> [Node -> Nat]]]
    /\ lost \in [Node -> [Sync -> [Node -> Nat]]]
    /\ released \in [Node -> [Sync -> Nat]]

\* The book-keeping of a used entry: barrier is the set of senders that are ahead,
\* a barrier that is complete is not left standing (its waiters would never
\* know), and nobody but a sender is ever counted.
BarrierCounts ==
    \A n \in Node, s \in Sync :
        refcount[n][s] > 0 /\ n \in Receivers(s) =>
            /\ barrier[n][s] = {m \in Node : nreceived[n][s][m] > 0}
            /\ barrier[n][s] \subseteq Senders(s)
            /\ barrier[n][s] # Senders(s)

\* No signal is counted twice or disappears: whatever node m sent to node n for s
\* is in the mailbox, counted as ahead, part of a complete barrier, part of one
\* that released a wait, or was forgotten when the entry did not exist.  So a
\* wait returns no more often than every sender has signalled, whoever read the
\* mailbox, however far ahead some senders are and however often the entry was
\* removed and created again.
InMail(n, s, m) ==
    Cardinality({i \in DOMAIN inbox[n] : inbox[n][i] = [sync |-> s, source |-> m]})

Counted(n, s, m) ==
    IF refcount[n][s] > 0 THEN nreceived[n][s][m] + nbarriers[n][s] ELSE 0

SignalsConserved ==
    \A s \in Sync : \A n \in Receivers(s), m \in Senders(s) :
        sent[s][m][n] =
            InMail(n, s, m) + Counted(n, s, m) + released[n][s] + lost[n][s][m]

\* An entry is not removed under a call that uses it, nor used by two calls: the
\* busy mark belongs to exactly one thread inside a call.
EntriesInUse ==
    \A n \in Node, s \in Sync :
        LET users == {t \in Thread : NodeOf[t] = n /\ arg[t] = s} IN
        /\ s \in busy[n] <=> users # {}
        /\ users # {} => refcount[n][s] > 0 /\ Cardinality(users) = 1

Waiting(t) == pc[t] \in {"consume", "lock", "read"}

\* "Is other core released me?": a wait whose barrier another reader of the
\* mailbox has completed returns.
Completed(t) == Waiting(t) /\ nbarriers[NodeOf[t]][arg[t]] > 0

WaitReturns == \A t \in Thread : Completed(t) ~> ~Waiting(t)

\* Even if no thread is passed over for ever in taking wait_lock.
StrongSpec == FairSpec /\ \A t \in Thread : SF_vars(LockAndConsume(t))

=============================================================================
