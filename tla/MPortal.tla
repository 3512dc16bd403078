------------------------------ MODULE MPortal -------------------------------
(***************************************************************************)
(* The portals of libnanvix over mailboxes, ikc/mportal.c.  A portal is a  *)
(* one-way channel between a port of a node and a port of another node, or *)
(* of the same one.  All portals from one node to another share one data   *)
(* mailbox.  A reader allows the other node to send a message, of which it *)
(* cannot tell for whom it will be: one for another port is put into       *)
(* buffers.  Between threads of one node all messages go through buffers.  *)
(*                                                                         *)
(* Each critical section of global_lock and buffer_lock is one action.     *)
(* local_lock, read_lock, write_lock and allow_lock are held while threads *)
(* wait, or over several such sections, and are variables.                 *)
(***************************************************************************)
EXTENDS PortalBuffers

CONSTANTS
    Node, Thread, NoThread, NodeOf,
    Port,          \* 0 .. KPORTAL_PORT_NR - 1
    KPORTAL_MAX,   \* portals of a node
    MailboxSlots,  \* external: messages that the kernel keeps for a mailbox
    Inputs,        \* bound: <<port, peer>> that each thread creates and reads
    Outputs,       \* bound: <<<<remote, local port>>, remote port>> that it opens
    Scenes         \* bound: the instances to be explored, one per behaviour

\* The other end of a portal: node and port.
Peer == Node \X Port

ASSUME ThreadAssumption ==
    /\ Node \subseteq Nat /\ NoThread \notin Thread /\ NodeOf \in [Thread -> Node]
    /\ Port \subseteq Nat /\ None \notin Port /\ None \notin Peer
ASSUME BoundAssumption ==
    /\ KPORTAL_MAX \in Nat /\ MailboxSlots \in Nat
    /\ Inputs \in [Thread -> SUBSET (Port \X Peer)]
    /\ Outputs \in [Thread -> SUBSET (Peer \X Port)]

\* An instance: the threads that take part, how many mailbox operations may fail,
\* the nodes whose portals exist from the start, the sizes of what is written and
\* read, the number of messages, and the threads that unlink and close portals.
ASSUME SceneAssumption ==
    \A s \in Scenes :
        /\ s.who \subseteq Thread /\ s.removes \subseteq Thread /\ s.ready \subseteq Node
        /\ s.faults \in Nat /\ s.sizes \subseteq Nat \ {0} /\ s.writes \in Nat

VARIABLES
    scene,         \* the instance that this behaviour explores
    created,       \* [node]: the ports with an input portal
    allowed,       \* [node][port]: config.remote and remote_port of that
    output,        \* [node][remote, local port]: remote port of an output portal
    mports,        \* [node]: <<remote, local port>> in use
    busyIn, busyOut,           \* [node]: portals in use by a call
    pool, age,     \* [node]: the message buffers, and mbuffer_next_age
    localLock, allowLock,      \* [node]: the thread holding it
    readLock, writeLock,       \* [node][remote]
    reading,       \* [node]: the remotes whose read_channels[] is busy
    isAllowed,     \* [node]: remote_is_allowed[], as a set
    allows,        \* [node]: mallow_in, the nodes that allow it to send
    channel,       \* [node][remote]: mdata_ins
    pc,            \* where each thread is in the code
    call,          \* [thread]: parameters and locals of its call
    log,           \* history: the messages written, in order
    delivered,     \* history [node][port]: the messages read
    short,         \* history: messages of which a read took only a part, or none
    stolen,        \* history: the nodes where one thread released another's lock
    missed,        \* history: the nodes where a reader that had its message went on
    broken         \* history: the nodes to which mailbox operations have failed

tableVars == <<created, allowed, output, mports, busyIn, busyOut>>
bufferVars == <<pool, age>>
readVars == <<readLock, reading>>
writeVars == <<writeLock, allowLock, isAllowed>>
mailboxVars == <<allows, channel>>
historyVars == <<log, delivered, short, stolen, missed, broken>>
vars == <<scene, tableVars, bufferVars, localLock, readVars, writeVars, mailboxVars,
          pc, call, historyVars>>

NoCall == [port |-> None, size |-> 0, left |-> 0, got |-> <<>>, buf |-> NoBuffer,
           valid |-> TRUE, buffering |-> FALSE, received |-> 0, header |-> None,
           from |-> None, ret |-> "ok", msg |-> 0]

\* The portals that threads of a node create and open.
On(n) == {t \in scene.who : NodeOf[t] = n}
Created(n) == IF n \in scene.ready THEN {i[1] : i \in UNION {Inputs[t] : t \in On(n)}} ELSE {}
Opened(n) == IF n \in scene.ready THEN UNION {Outputs[t] : t \in On(n)} ELSE {}

\* kportal_init on every node, and the calls that make some of them ready.
Init ==
    /\ scene \in Scenes
    /\ created = [n \in Node |-> Created(n)]
    /\ allowed = [n \in Node |-> [p \in Port |-> None]]
    /\ output = [n \in Node |-> [q \in Peer |->
                  IF \E p \in Port : <<q, p>> \in Opened(n)
                  THEN CHOOSE p \in Port : <<q, p>> \in Opened(n) ELSE None]]
    /\ mports = [n \in Node |-> {o[1] : o \in Opened(n)}]
    /\ busyIn = [n \in Node |-> {}]
    /\ busyOut = [n \in Node |-> {}]
    /\ pool = [n \in Node |-> [b \in Buffer |-> Unused]]
    /\ age = [n \in Node |-> 0]
    /\ localLock = [n \in Node |-> NoThread]
    /\ allowLock = [n \in Node |-> NoThread]
    /\ readLock = [n \in Node |-> [m \in Node |-> NoThread]]
    /\ writeLock = [n \in Node |-> [m \in Node |-> NoThread]]
    /\ reading = [n \in Node |-> {}]
    /\ isAllowed = [n \in Node |-> {}]
    /\ allows = [n \in Node |-> <<>>]
    /\ channel = [n \in Node |-> [m \in Node |-> <<>>]]
    /\ pc = [t \in Thread |-> "idle"]
    /\ call = [t \in Thread |-> NoCall]
    /\ log = <<>>
    /\ delivered = [n \in Node |-> [p \in Port |-> <<>>]]
    /\ short = {}
    /\ stolen = {}
    /\ missed = {}
    /\ broken = {}

\* What the calls on the table, a reader and a writer between nodes leave alone.
TableFrame == UNCHANGED <<bufferVars, localLock, readVars, writeVars, mailboxVars>>
ReadFrame == UNCHANGED <<tableVars, localLock, writeVars>>
WriteFrame == UNCHANGED <<tableVars, bufferVars, localLock, readVars>>

Goto(t, l) == pc' = [pc EXCEPT ![t] = l]

-----------------------------------------------------------------------------
(* The table of portals.  Calls that fail without an effect are left out.  *)

HasRoom(n) ==
    Cardinality(created[n]) + Cardinality({q \in Peer : output[n][q] # None}) < KPORTAL_MAX

\* kportal_create
Create(t, p) ==
    LET n == NodeOf[t] IN
    /\ pc[t] = "idle"
    /\ p \notin created[n] /\ HasRoom(n)
    /\ created' = [created EXCEPT ![n] = @ \cup {p}]
    /\ TableFrame
    /\ UNCHANGED <<allowed, output, mports, busyIn, busyOut, pc, call, historyVars>>

\* kportal_allow
Allow(t, p, q) ==
    LET n == NodeOf[t] IN
    /\ pc[t] = "idle"
    /\ p \in created[n] \ busyIn[n] /\ allowed[n][p] = None
    /\ allowed' = [allowed EXCEPT ![n][p] = q]
    /\ TableFrame
    /\ UNCHANGED <<created, output, mports, busyIn, busyOut, pc, call, historyVars>>

\* kportal_unlink: not while something for the port is found in the buffers.
Unlink(t, p) ==
    LET n == NodeOf[t] IN
    /\ pc[t] = "idle"
    /\ p \in created[n] \ busyIn[n]
    /\ ~HasMessage(pool[n], p, allowed[n][p])
    /\ created' = [created EXCEPT ![n] = @ \ {p}]
    /\ allowed' = [allowed EXCEPT ![n][p] = None]
    /\ TableFrame /\ UNCHANGED <<output, mports, busyIn, busyOut, pc, call, historyVars>>

\* kportal_open takes the first free port, kportal_port_alloc, and then a portal;
\* when none is left, it fails and the port is not given back.
FreePorts(n, m) == {l \in Port : <<m, l>> \notin mports[n]}

Open(t, m, p) ==
    LET n == NodeOf[t]
        new == <<m, Min(FreePorts(n, m))>> IN
    /\ pc[t] = "idle"
    /\ FreePorts(n, m) # {}
    /\ mports' = [mports EXCEPT ![n] = @ \cup {new}]
    /\ output' = IF HasRoom(n) THEN [output EXCEPT ![n][new] = p] ELSE output
    /\ TableFrame
    /\ UNCHANGED <<created, allowed, busyIn, busyOut, pc, call, historyVars>>

\* kportal_close gives the portal and its port back, kportal_port_release.
Close(t, q) ==
    LET n == NodeOf[t] IN
    /\ pc[t] = "idle"
    /\ output[n][q] # None /\ q \notin busyOut[n]
    /\ output' = [output EXCEPT ![n][q] = None]
    /\ mports' = [mports EXCEPT ![n] = @ \ {q}]
    /\ TableFrame
    /\ UNCHANGED <<created, allowed, busyIn, busyOut, pc, call, historyVars>>

-----------------------------------------------------------------------------
(* The frame of kportal_aread and kportal_awrite.                          *)

\* The checks; the portal is busy until the call returns.
ReadBegin(t, p, s) ==
    LET n == NodeOf[t] IN
    /\ pc[t] = "idle"
    /\ p \in created[n] \ busyIn[n] /\ allowed[n][p] # None
    /\ busyIn' = [busyIn EXCEPT ![n] = @ \cup {p}]
    /\ call' = [call EXCEPT ![t] = [NoCall EXCEPT !.port = p, !.size = s, !.left = s,
                                                  !.from = allowed[n][p]]]
    /\ Goto(t, IF allowed[n][p][1] = n THEN "read local" ELSE "again")
    /\ TableFrame /\ UNCHANGED <<created, allowed, output, mports, busyOut, historyVars>>

\* The end of kportal_aread: the permission is used up.
ReadEnd(t) ==
    LET n == NodeOf[t]
        p == call[t].port IN
    /\ pc[t] = "read end"
    /\ allowed' = [allowed EXCEPT ![n][p] = None]
    /\ busyIn' = [busyIn EXCEPT ![n] = @ \ {p}]
    /\ delivered' = IF call[t].ret = "ok"
                    THEN [delivered EXCEPT ![n][p] = Append(@, call[t].got)]
                    ELSE delivered
    /\ call' = [call EXCEPT ![t] = NoCall]
    /\ Goto(t, "idle")
    /\ TableFrame
    /\ UNCHANGED <<created, output, mports, busyOut, log, short, stolen, missed, broken>>

WriteBegin(t, q, s) ==
    LET n == NodeOf[t] IN
    /\ pc[t] = "idle"
    /\ output[n][q] # None /\ q \notin busyOut[n]
    /\ Len(log) < scene.writes
    /\ busyOut' = [busyOut EXCEPT ![n] = @ \cup {q}]
    /\ log' = Append(log, [from |-> <<n, q[2]>>, to |-> <<q[1], output[n][q]>>, size |-> s])
    /\ call' = [call EXCEPT ![t] = [NoCall EXCEPT !.port = q, !.size = s, !.left = s,
                                                  !.msg = Len(log) + 1]]
    /\ Goto(t, IF q[1] = n THEN "write local" ELSE "wait allow")
    /\ TableFrame
    /\ UNCHANGED <<created, allowed, output, mports, busyIn, delivered, short, stolen, missed, broken>>

WriteEnd(t) ==
    LET n == NodeOf[t] IN
    /\ pc[t] = "write end"
    /\ busyOut' = [busyOut EXCEPT ![n] = @ \ {call[t].port}]
    /\ call' = [call EXCEPT ![t] = NoCall]
    /\ Goto(t, "idle")
    /\ TableFrame /\ UNCHANGED <<created, allowed, output, mports, busyIn, historyVars>>

\* The message of a writer and its i-th unit of data.
Config(t) == log[call[t].msg]
Units(t, first, last) == [i \in 1 .. last - first + 1 |-> <<call[t].msg, first + i - 1>>]
Written(t) == call[t].size - call[t].left

-----------------------------------------------------------------------------
(* Between threads of one node: do_kportal_awrite_local, _aread_local.     *)

\* The next buffer is allocated and filled.
WriteLocal(t) ==
    LET n == NodeOf[t]
        k == Min({call[t].left, MPORTAL_BUFFER_SIZE}) IN
    /\ pc[t] = "write local"
    /\ localLock[n] \in {NoThread, t} /\ localLock' = [localLock EXCEPT ![n] = t]
    /\ FreeBuffers(pool[n]) # {}
    /\ pool' = [pool EXCEPT ![n] =
         BufferAlloc(@, call[t].buf, Config(t).from, Config(t).to[2], age[n],
                     Units(t, Written(t) + 1, Written(t) + k))]
    /\ age' = [age EXCEPT ![n] = @ + 1]
    /\ call' = [call EXCEPT ![t].buf = Min(FreeBuffers(pool[n])), ![t].left = @ - k]
    /\ Goto(t, IF call[t].left = k THEN "publish" ELSE "write local")
    /\ UNCHANGED <<tableVars, readVars, writeVars, mailboxVars, historyVars>>

\* Without a free buffer the lock is given up, and nothing else happens.
WriteLocalYield(t) ==
    LET n == NodeOf[t] IN
    /\ pc[t] = "write local"
    /\ localLock[n] = t /\ localLock' = [localLock EXCEPT ![n] = NoThread]
    /\ FreeBuffers(pool[n]) = {}
    /\ UNCHANGED <<tableVars, bufferVars, readVars, writeVars, mailboxVars, pc, call, historyVars>>

\* The last buffer becomes available, and the lock too.
Publish(t) ==
    LET n == NodeOf[t] IN
    /\ pc[t] = "publish"
    /\ pool' = [pool EXCEPT ![n] = SetAvailable(@, call[t].buf)]
    /\ localLock' = [localLock EXCEPT ![n] = NoThread]
    /\ Goto(t, "write end")
    /\ UNCHANGED <<tableVars, age, readVars, writeVars, mailboxVars, call, historyVars>>

\* What the reader takes out of the buffers.
Available(t) ==
    BufferRead(pool[NodeOf[t]], call[t].port, call[t].from, call[t].buf, call[t].left)

\* What kportal_buffer_read does on behalf of a reader that goes on at `l'.  A
\* message that it lets go of before its end is short.
TakeAvailable(t, r, l) ==
    LET n == NodeOf[t]
        got == call[t].got \o r.copied IN
    /\ pool' = [pool EXCEPT ![n] = r.pool]
    /\ call' = [call EXCEPT ![t].got = got, ![t].left = r.left, ![t].buf = r.previous,
                            ![t].ret = IF r.error THEN "invalid"
                                       ELSE IF r.left = 0 THEN "ok" ELSE "partial"]
    /\ short' = IF r.previous = NoBuffer /\ got # <<>> /\ Len(got) < log[got[1][1]].size
                THEN short \cup {got[1][1]} ELSE short
    /\ Goto(t, l)
    /\ UNCHANGED <<age, log, delivered, stolen, missed, broken>>

\* A turn of the reader's loop; one that finds nothing changes nothing.
ReadLocal(t) ==
    /\ pc[t] = "read local"
    /\ localLock[NodeOf[t]] = NoThread
    /\ \E r \in {Available(t)} :
         /\ r.error \/ r.copied # <<>>
         /\ TakeAvailable(t, r, IF r.error \/ r.left = 0 THEN "read end" ELSE "read local")
    /\ ReadFrame /\ UNCHANGED <<readVars, mailboxVars>>

-----------------------------------------------------------------------------
(* do_kportal_aread.  `remote' is the node that the port is allowed to read *)

Remote(t) == call[t].from[1]
Incoming(t) == channel[NodeOf[t]][Remote(t)]
Receive(t) == channel' = [channel EXCEPT ![NodeOf[t]][Remote(t)] = Tail(@)]

\* again: what is in the buffers needs no lock, but the way out releases it.
\* After a message for another port the reader starts afresh.
Again(t) ==
    /\ pc[t] = "again"
    /\ call[t].buffering
    /\ call' = [call EXCEPT ![t].buf = NoBuffer, ![t].valid = TRUE,
                            ![t].buffering = FALSE, ![t].left = call[t].size]
    /\ TableFrame /\ UNCHANGED <<tableVars, pc, historyVars>>

ReadBuffered(t) ==
    /\ pc[t] = "again" /\ ~call[t].buffering
    /\ \E r \in {Available(t)} :
         \/ /\ r.error \/ r.copied # <<>>
            /\ TakeAvailable(t, r, IF r.error \/ r.left = 0 THEN "exit" ELSE "again")
         \/ /\ ~r.error /\ r.copied = <<>> /\ r.previous = NoBuffer
            /\ Goto(t, "lock")
            /\ UNCHANGED <<bufferVars, call, historyVars>>
    /\ ReadFrame /\ UNCHANGED <<readVars, mailboxVars>>

\* again2: the buffers once more, now that nobody else can be filling them.
LockRead(t) ==
    LET n == NodeOf[t] IN
    /\ pc[t] = "lock"
    /\ readLock[n][Remote(t)] = NoThread
    /\ readLock' = [readLock EXCEPT ![n][Remote(t)] = t]
    /\ Goto(t, "locked")
    /\ ReadFrame /\ UNCHANGED <<bufferVars, reading, mailboxVars, call, historyVars>>

LockedRead(t) ==
    /\ pc[t] = "locked"
    /\ \E r \in {Available(t)} :
         \/ /\ r.error \/ r.copied # <<>>
            /\ TakeAvailable(t, r, "exit")
         \/ /\ ~r.error /\ r.copied = <<>>
            /\ Goto(t, "check")
            /\ UNCHANGED <<bufferVars, call, historyVars>>
    /\ ReadFrame /\ UNCHANGED <<readVars, mailboxVars>>

\* A seeded fault: the channel is taken in any case.
CheckChannelNot(t) ==
    /\ pc[t] = "check"
    /\ Goto(t, "set")
    /\ TableFrame /\ UNCHANGED <<tableVars, call, historyVars>>

\* Is the channel busy?
CheckChannel(t) ==
    LET n == NodeOf[t] IN
    /\ pc[t] = "check"
    /\ \/ /\ Remote(t) \in reading[n]
          /\ readLock' = [readLock EXCEPT ![n][Remote(t)] = NoThread]
          /\ Goto(t, "lock")
       \/ /\ Remote(t) \notin reading[n]
          /\ Goto(t, "set")
          /\ UNCHANGED readLock
    /\ ReadFrame /\ UNCHANGED <<bufferVars, reading, mailboxVars, call, historyVars>>

SetChannel(t) ==
    LET n == NodeOf[t] IN
    /\ pc[t] = "set"
    /\ reading' = [reading EXCEPT ![n] = @ \cup {Remote(t)}]
    /\ Goto(t, "allow")
    /\ ReadFrame /\ UNCHANGED <<bufferVars, readLock, mailboxVars, call, historyVars>>

\* kmailbox_write of the allow, and its failure.
SendAllow(t) ==
    /\ pc[t] = "allow"
    /\ Len(allows[Remote(t)]) < MailboxSlots
    /\ allows' = [allows EXCEPT ![Remote(t)] = Append(@, NodeOf[t])]
    /\ Goto(t, "header")
    /\ WriteFrame /\ UNCHANGED <<writeVars, channel, call, historyVars>>

\* A seeded fault: the channel stays busy.
ReadErrorKeepsChannel(t) ==
    /\ Cardinality(broken) < scene.faults
    /\ pc[t] \in {"allow", "header", "piece", "drop"}
    /\ call' = [call EXCEPT ![t].ret = IF pc[t] = "drop" THEN @ ELSE "error"]
    /\ broken' = broken \cup {NodeOf[t]}
    /\ Goto(t, "exit")
    /\ TableFrame /\ UNCHANGED <<tableVars, log, delivered, short, stolen, missed>>

\* A mailbox operation of a reader fails, of which do_aread_message_drop takes no
\* notice but to stop.
ReadError(t) ==
    /\ Cardinality(broken) < scene.faults
    /\ pc[t] \in {"allow", "header", "piece", "drop"}
    /\ call' = [call EXCEPT ![t].ret = IF pc[t] = "drop" THEN @ ELSE "error"]
    /\ broken' = broken \cup {NodeOf[t]}
    /\ Goto(t, "release")
    /\ TableFrame /\ UNCHANGED <<tableVars, log, delivered, short, stolen, missed>>

IsHeader(m) == "to" \in DOMAIN m

\* The header is read.  KASSERT(message.header || !message.eof) lets other pieces
\* pass, whose data could name any peer and port.
ReadHeader(t) ==
    /\ pc[t] = "header"
    /\ Incoming(t) # <<>> /\ Receive(t)
    /\ LET m == Head(Incoming(t)) IN
         IF ~IsHeader(m) /\ m.eof
         THEN Goto(t, "panic") /\ UNCHANGED call
         ELSE /\ \E h \in IF IsHeader(m) THEN {m} ELSE [from : Peer, to : Port] :
                   call' = [call EXCEPT ![t].header = h]
              /\ Goto(t, "validate")
    /\ WriteFrame /\ UNCHANGED <<writeVars, allows, historyVars>>

\* Is the message to an existing portal?  Is the message to the current port?
Validate(t) ==
    LET valid == call[t].header.to \in created[NodeOf[t]]
        buffering == call[t].header.from[2] # call[t].from[2] IN
    /\ pc[t] = "validate"
    /\ call' = [call EXCEPT ![t].valid = valid, ![t].received = 0,
                  ![t].buffering = IF valid THEN buffering ELSE @,
                  ![t].ret = IF valid THEN @ ELSE "partial"]
    /\ Goto(t, IF ~valid THEN "drop" ELSE IF buffering THEN "alloc" ELSE "piece")
    /\ TableFrame /\ UNCHANGED <<tableVars, historyVars>>

\* The first buffer of a message for another port; the lock is kept meanwhile.
AllocFirst(t) ==
    LET n == NodeOf[t] IN
    /\ pc[t] = "alloc"
    /\ FreeBuffers(pool[n]) # {}
    /\ pool' = [pool EXCEPT ![n] = BufferAlloc(@, NoBuffer, call[t].header.from,
                                               call[t].header.to, age[n], <<>>)]
    /\ age' = [age EXCEPT ![n] = @ + 1]
    /\ call' = [call EXCEPT ![t].buf = Min(FreeBuffers(pool[n]))]
    /\ Goto(t, "piece")
    /\ ReadFrame /\ UNCHANGED <<readVars, mailboxVars, historyVars>>

AfterPiece(m) == IF m.eof THEN "finish" ELSE "piece"

\* A piece for the reader itself: it is copied, or the rest is to be dropped.
ReadPiece(t) ==
    LET m == Head(Incoming(t)) IN
    /\ pc[t] = "piece" /\ ~call[t].buffering
    /\ Incoming(t) # <<>> /\ Receive(t)
    /\ IF IsHeader(m)
       THEN Goto(t, "panic") /\ UNCHANGED <<call, short>>
       ELSE IF call[t].received < call[t].size
       THEN /\ call' = [call EXCEPT ![t].got = Append(@, m.unit), ![t].received = @ + 1]
            /\ Goto(t, AfterPiece(m))
            /\ UNCHANGED short
       ELSE /\ call' = [call EXCEPT ![t].ret = "invalid"]
            /\ short' = short \cup {m.unit[1]}
            /\ Goto(t, "drop")
    /\ WriteFrame /\ UNCHANGED <<writeVars, allows, log, delivered, stolen, missed, broken>>

\* received + message.size is within MPORTAL_BUFFER_SIZE.  The buffer's size is a
\* multiple of that of a piece, which is never split.
HasSpace(n, b) == Len(pool[n][b].data) < MPORTAL_BUFFER_SIZE

\* A piece for another port goes into the buffer; when that is full, the lock is
\* released for as long as it takes to get another one.
KeepPiece(t) ==
    LET n == NodeOf[t]
        b == call[t].buf
        m == Head(Incoming(t)) IN
    /\ pc[t] = "piece" /\ call[t].buffering
    /\ Incoming(t) # <<>> /\ Receive(t)
    /\ IF IsHeader(m)
       THEN Goto(t, "panic") /\ UNCHANGED <<pool, readLock, call>>
       ELSE IF HasSpace(n, b)
       THEN /\ pool' = [pool EXCEPT ![n][b].data = Append(@, m.unit)]
            /\ Goto(t, AfterPiece(m))
            /\ UNCHANGED <<readLock, call>>
       ELSE /\ readLock' = [readLock EXCEPT ![n][Remote(t)] = NoThread]
            /\ call' = [call EXCEPT ![t].header = m]
            /\ Goto(t, "more")
            /\ UNCHANGED pool
    /\ ReadFrame /\ UNCHANGED <<age, reading, allows, historyVars>>

AllocNext(t) ==
    LET n == NodeOf[t]
        b == call[t].buf IN
    /\ pc[t] = "more"
    /\ FreeBuffers(pool[n]) # {}
    /\ pool' = [pool EXCEPT ![n] =
         BufferAlloc(@, b, @[b].from, @[b].to, age[n], <<call[t].header.unit>>)]
    /\ age' = [age EXCEPT ![n] = @ + 1]
    /\ call' = [call EXCEPT ![t].buf = Min(FreeBuffers(pool[n]))]
    /\ Goto(t, "relock")
    /\ ReadFrame /\ UNCHANGED <<readVars, mailboxVars, historyVars>>

Relock(t) ==
    LET n == NodeOf[t] IN
    /\ pc[t] = "relock"
    /\ readLock[n][Remote(t)] = NoThread
    /\ readLock' = [readLock EXCEPT ![n][Remote(t)] = t]
    /\ Goto(t, AfterPiece(call[t].header))
    /\ ReadFrame /\ UNCHANGED <<bufferVars, reading, mailboxVars, call, historyVars>>

\* do_aread_message_drop reads one piece, and goes on until it was the last one.
Drop(t) ==
    LET m == Head(Incoming(t)) IN
    /\ pc[t] = "drop"
    /\ Incoming(t) # <<>> /\ Receive(t)
    /\ Goto(t, IF ~IsHeader(m) /\ m.eof THEN "release" ELSE "drop")
    /\ short' = IF IsHeader(m) THEN short ELSE short \cup {m.unit[1]}
    /\ WriteFrame /\ UNCHANGED <<writeVars, allows, call, log, delivered, stolen, missed, broken>>

\* The message has come.
FinishRead(t) ==
    LET n == NodeOf[t] IN
    /\ pc[t] = "finish"
    /\ IF call[t].buffering
       THEN /\ pool' = [pool EXCEPT ![n] = SetAvailable(@, call[t].buf)]
            /\ call' = [call EXCEPT ![t].ret = "partial"]
            /\ UNCHANGED short
       ELSE IF call[t].received = call[t].size
       THEN /\ call' = [call EXCEPT ![t].ret = "ok"]
            /\ UNCHANGED <<pool, short>>
       ELSE /\ call' = [call EXCEPT ![t].ret = "invalid"]
            /\ short' = short \cup {call[t].got[1][1]}
            /\ UNCHANGED pool
    /\ Goto(t, "release")
    /\ ReadFrame
    /\ UNCHANGED <<age, readVars, mailboxVars, log, delivered, stolen, missed, broken>>

\* release:
ReleaseChannel(t) ==
    LET n == NodeOf[t] IN
    /\ pc[t] = "release"
    /\ reading' = [reading EXCEPT ![n] = @ \ {Remote(t)}]
    /\ Goto(t, "exit")
    /\ ReadFrame /\ UNCHANGED <<bufferVars, readLock, mailboxVars, call, historyVars>>

\* exit: the lock is released, whoever holds it; the reader goes on if it has not
\* got its message, or if it has got it from the buffers after it dropped one for a
\* missing port: `valid' is that of the last header.
Exit(t) ==
    LET n == NodeOf[t]
        c == call[t] IN
    /\ pc[t] = "exit"
    /\ readLock' = [readLock EXCEPT ![n][Remote(t)] = NoThread]
    /\ stolen' = IF readLock[n][Remote(t)] \in {NoThread, t} THEN stolen ELSE stolen \cup {n}
    /\ missed' = IF c.ret = "ok" /\ ~c.valid THEN missed \cup {n} ELSE missed
    /\ Goto(t, IF c.ret \in {"ok", "partial"} /\ (~c.valid \/ c.buffering \/ c.ret = "partial")
               THEN "again" ELSE "read end")
    /\ ReadFrame
    /\ UNCHANGED <<bufferVars, reading, mailboxVars, call, log, delivered, short, broken>>

-----------------------------------------------------------------------------
(* do_kportal_awrite.                                                      *)

Target(t) == call[t].port[1]

\* do_kportal_wait_allow: the remote node has been allowed already, maybe by an
\* allow that another thread has read,
TakeAllow(t) ==
    LET n == NodeOf[t] IN
    /\ pc[t] = "wait allow"
    /\ allowLock[n] = NoThread
    /\ Target(t) \in isAllowed[n]
    /\ isAllowed' = [isAllowed EXCEPT ![n] = @ \ {Target(t)}]
    /\ Goto(t, "lock write")
    /\ WriteFrame /\ UNCHANGED <<writeLock, allowLock, mailboxVars, call, historyVars>>

\* or the lock is kept while one is awaited.
LockAllow(t) ==
    LET n == NodeOf[t] IN
    /\ pc[t] = "wait allow"
    /\ allowLock[n] = NoThread
    /\ Target(t) \notin isAllowed[n]
    /\ allowLock' = [allowLock EXCEPT ![n] = t]
    /\ Goto(t, "read allow")
    /\ WriteFrame /\ UNCHANGED <<writeLock, isAllowed, mailboxVars, call, historyVars>>

\* kportal_receive_allow drops one from a node to which no portal is open.
ReceiveAllow(t) ==
    LET n == NodeOf[t]
        m == Head(allows[n])
        known == \E l \in Port : output[n][<<m, l>>] # None
        now == isAllowed[n] \cup (IF known THEN {m} ELSE {}) IN
    /\ pc[t] = "read allow"
    /\ allows[n] # <<>> /\ allows' = [allows EXCEPT ![n] = Tail(@)]
    /\ isAllowed' = [isAllowed EXCEPT ![n] = now \ {Target(t)}]
    /\ allowLock' = [allowLock EXCEPT ![n] = NoThread]
    /\ Goto(t, IF Target(t) \in now THEN "lock write" ELSE "wait allow")
    /\ WriteFrame /\ UNCHANGED <<writeLock, channel, call, historyVars>>

AllowError(t) ==
    LET n == NodeOf[t] IN
    /\ Cardinality(broken) < scene.faults
    /\ pc[t] = "read allow"
    /\ allowLock' = [allowLock EXCEPT ![n] = NoThread]
    /\ broken' = broken \cup {Target(t)}
    /\ Goto(t, "write end")
    /\ WriteFrame
    /\ UNCHANGED <<writeLock, isAllowed, mailboxVars, call, log, delivered, short, stolen, missed>>

LockWrite(t) ==
    LET n == NodeOf[t] IN
    /\ pc[t] = "lock write"
    /\ writeLock[n][Target(t)] = NoThread
    /\ writeLock' = [writeLock EXCEPT ![n][Target(t)] = t]
    /\ Goto(t, "send header")
    /\ WriteFrame /\ UNCHANGED <<allowLock, isAllowed, mailboxVars, call, historyVars>>

\* kmailbox_write of a message.
Send(t, m) ==
    /\ Len(channel[Target(t)][NodeOf[t]]) < MailboxSlots
    /\ channel' = [channel EXCEPT ![Target(t)][NodeOf[t]] = Append(@, m)]
    /\ UNCHANGED allows

SendHeader(t) ==
    /\ pc[t] = "send header"
    /\ Send(t, [from |-> Config(t).from, to |-> Config(t).to[2]])
    /\ Goto(t, "send")
    /\ WriteFrame /\ UNCHANGED <<writeVars, call, historyVars>>

\* A piece of data; the last one is marked, and ends the call.
SendPiece(t) ==
    LET n == NodeOf[t]
        last == call[t].left = 1 IN
    /\ pc[t] = "send"
    /\ Send(t, [unit |-> <<call[t].msg, Written(t) + 1>>, eof |-> last])
    /\ call' = [call EXCEPT ![t].left = @ - 1]
    /\ IF last
       THEN /\ writeLock' = [writeLock EXCEPT ![n][Target(t)] = NoThread]
            /\ Goto(t, "write end")
       ELSE UNCHANGED <<writeLock, pc>>
    /\ WriteFrame /\ UNCHANGED <<allowLock, isAllowed, historyVars>>

WriteError(t) ==
    LET n == NodeOf[t] IN
    /\ Cardinality(broken) < scene.faults
    /\ pc[t] \in {"send header", "send"}
    /\ writeLock' = [writeLock EXCEPT ![n][Target(t)] = NoThread]
    /\ broken' = broken \cup {Target(t)}
    /\ Goto(t, "write end")
    /\ WriteFrame
    /\ UNCHANGED <<allowLock, isAllowed, mailboxVars, call, log, delivered, short, stolen, missed>>

-----------------------------------------------------------------------------
\* What a thread does inside a call.
Step(t) ==
    \/ WriteLocal(t) \/ WriteLocalYield(t) \/ Publish(t) \/ ReadLocal(t)
    \/ Again(t) \/ ReadBuffered(t) \/ LockRead(t) \/ LockedRead(t)
    \/ CheckChannel(t) \/ SetChannel(t) \/ SendAllow(t) \/ ReadHeader(t) \/ Validate(t)
    \/ AllocFirst(t) \/ ReadPiece(t) \/ KeepPiece(t) \/ AllocNext(t) \/ Relock(t)
    \/ Drop(t) \/ FinishRead(t) \/ ReleaseChannel(t) \/ Exit(t) \/ ReadError(t)
    \/ TakeAllow(t) \/ LockAllow(t) \/ ReceiveAllow(t) \/ AllowError(t)
    \/ LockWrite(t) \/ SendHeader(t) \/ SendPiece(t) \/ WriteError(t)
    \/ ReadEnd(t) \/ WriteEnd(t)

\* The calls of a client, which opens its portals in the order that gives each
\* the local port which its reader allows.
Client(t) ==
    \/ \E i \in Inputs[t] : Create(t, i[1]) \/ Allow(t, i[1], i[2])
    \/ \E i \in Inputs[t], s \in scene.sizes : ReadBegin(t, i[1], s)
    \/ \E o \in Outputs[t] :
         /\ o[1] \notin mports[NodeOf[t]]
         /\ \A l \in FreePorts(NodeOf[t], o[1][1]) : o[1][2] <= l
         /\ Open(t, o[1][1], o[2])
    \/ \E o \in Outputs[t], s \in scene.sizes : WriteBegin(t, o[1], s)
    \/ /\ t \in scene.removes
       /\ \/ \E i \in Inputs[t] : Unlink(t, i[1])
          \/ \E o \in Outputs[t] : Close(t, o[1])

Next == (\E t \in scene.who : Client(t) \/ Step(t)) /\ UNCHANGED scene

Spec == Init /\ [][Next]_vars

-----------------------------------------------------------------------------
Reads(t) == call[t].from # None
Channels == {"allow", "header", "validate", "alloc", "piece", "more", "relock",
             "drop", "finish", "release"}
PCs == Channels \cup
    {"idle", "read local", "again", "lock", "locked", "check", "set", "exit",
     "read end", "write local", "publish", "wait allow", "read allow", "lock write",
     "send header", "send", "write end", "panic"}
Unit == Nat \X Nat
Header == [from : Peer, to : Port]
Piece == [unit : Unit, eof : BOOLEAN]

\* The types of the variables.
MPortalTypeOK ==
    /\ created \in [Node -> SUBSET Port] /\ busyIn \in [Node -> SUBSET Port]
    /\ allowed \in [Node -> [Port -> Peer \cup {None}]]
    /\ output \in [Node -> [Peer -> Port \cup {None}]]
    /\ mports \in [Node -> SUBSET Peer] /\ busyOut \in [Node -> SUBSET Peer]
    /\ pool \in [Node -> [Buffer -> {Unused} \cup
         [from : Peer, to : Port, busy : BOOLEAN, age : Nat, seq : Nat,
          next : Buffer \cup {NoBuffer}, data : Seq(Unit)]]]
    /\ \A n \in Node, b \in Buffer : Len(pool[n][b].data) <= MPORTAL_BUFFER_SIZE
    /\ age \in [Node -> Nat]
    /\ localLock \in [Node -> Thread \cup {NoThread}]
    /\ allowLock \in [Node -> Thread \cup {NoThread}]
    /\ readLock \in [Node -> [Node -> Thread \cup {NoThread}]]
    /\ writeLock \in [Node -> [Node -> Thread \cup {NoThread}]]
    /\ reading \in [Node -> SUBSET Node] /\ isAllowed \in [Node -> SUBSET Node]
    /\ allows \in [Node -> Seq(Node)]
    /\ channel \in [Node -> [Node -> Seq(Header \cup Piece)]]
    /\ pc \in [Thread -> PCs]

\* All is well for the readers of a node: no operation on the mailboxes from which
\* they read has failed, and none has released the lock of another.
Sound(n) == n \notin stolen \cup broken

\* When no call is in progress on a node, because all have returned, with success
\* or without, it holds no lock, no channel and no portal.
CallsLeaveNothing ==
    \A n \in Node : (\A t \in Thread : NodeOf[t] = n => pc[t] = "idle") =>
        /\ localLock[n] = NoThread /\ allowLock[n] = NoThread
        /\ \A m \in Node : readLock[n][m] = NoThread /\ writeLock[n][m] = NoThread
        /\ reading[n] = {} /\ busyIn[n] = {} /\ busyOut[n] = {}

\* What follows a buffer is in use, for the same two portals, holds the next part and
\* follows no other; whoever has taken and freed buffers since a reader was at it,
\* kportal_buffer_read goes on to (*previous)->next without a look at it.
ChainsIntact ==
    \A n \in Node, b \in Buffer : LET p == pool[n]
                                     next == p[b].next IN
        next # NoBuffer =>
            /\ ~p[b].busy /\ IsUsed(p, next)
            /\ p[next].from = p[b].from /\ p[next].to = p[b].to /\ p[next].seq = p[b].seq + 1
            /\ \A c \in Buffer : p[c].next = next => c = b

\* Every buffer is the first of a message, or the one before it is there too, or a
\* reader is at it: only a read that stops before the end of a message leaves some
\* behind, for ever.
Linked(n, b) == \E c \in Buffer : IsUsed(pool[n], c) /\ pool[n][c].next = b
IsReadAt(n, b) == \E t \in Thread : Reads(t) /\ NodeOf[t] = n /\ call[t].buf = b
OrphansOnlyOfShortReads ==
    \A n \in Node, b \in Buffer :
        IsUsed(pool[n], b) /\ pool[n][b].seq > 0 /\ ~Linked(n, b) /\ ~IsReadAt(n, b)
          => pool[n][b].data[1][1] \in short

\* Nor has one that had its message gone on reading, which it does where it has dropped
\* a message for a missing port before and then finds its own in the buffers.
Clean(n) == Sound(n) /\ n \notin missed

\* What a reader has got is the beginning of one message, from the peer that it
\* allowed to the port that it reads, and no more than it has room for, with other
\* readers keeping and dropping messages of the same channel, and but for the
\* exceptions of Clean.
ReadsOneMessage ==
    \A t \in Thread : call[t].got # <<>> /\ Clean(NodeOf[t]) =>
        LET c == call[t]
            m == c.got[1][1] IN
        /\ log[m].from = c.from /\ log[m].to = <<NodeOf[t], c.port>>
        /\ c.got = [i \in 1 .. Len(c.got) |-> <<m, i>>]
        /\ Len(c.got) <= c.size

\* The messages from one peer are read in order, each once, and none is left out
\* but those that a read of another size has lost, with the same exceptions.
InOrder ==
    \A n \in Node, p \in Port :
        LET d(i) == delivered[n][p][i][1][1]
            all == DOMAIN delivered[n][p]
            before(m) == {k \in 1 .. m - 1 : log[k].from = log[m].from /\ log[k].to = <<n, p>>}
        IN  \A i \in all : Clean(n) =>
              /\ \A j \in all : d(i) = d(j) => i = j
              /\ before(d(i)) \subseteq {d(j) : j \in {j \in all : j < i}} \cup short

\* Messages are asked for one at a time: an allow, on its way or noted, or a writer
\* that has taken it, answers to a reader that waits for the header.
Credits(n, m) ==
    Cardinality({i \in DOMAIN allows[m] : allows[m][i] = n})
      + (IF n \in isAllowed[m] THEN 1 ELSE 0)
      + Cardinality({t \in Thread : /\ NodeOf[t] = m
                                    /\ pc[t] \in {"lock write", "send header"}
                                    /\ Target(t) = n})
Holders(n, m) == {t \in Thread : /\ NodeOf[t] = n /\ pc[t] \in Channels
                                 /\ Reads(t) /\ Remote(t) = m}
OneAtATime ==
    \A n \in Node : \A m \in Node \ {n} : Sound(n) =>
        /\ Cardinality(Holders(n, m)) <= 1
        /\ Credits(n, m) <= Cardinality({t \in Holders(n, m) : pc[t] = "header"})

\* The assertions on what a reader finds in the channel hold: first a header,
\* KASSERT(message.header || !message.eof), then pieces, KASSERT(!message.header).
AssertionsHold == \A t \in Thread : pc[t] # "panic"

\* A message that is longer than all buffers together, of which there are more than
\* two, gets through as long as it is read, no earlier read has taken a part of it,
\* and nothing else takes the buffers: reader and writer make room for each other.
Feeds(u, t) ==
    /\ pc[u] = "write local" /\ pc[t] = "read local"
    /\ Config(u) = [from |-> call[t].from, to |-> <<NodeOf[t], call[t].port>>,
                    size |-> call[t].size]
    /\ call[t].got = <<>> \/ call[t].got[1][1] = call[u].msg
    /\ call[u].msg \notin short
OthersInBuffers(u) ==
    \E b \in Buffer : LET c == pool[NodeOf[u]][b] IN
        IsUsed(pool[NodeOf[u]], b) /\ (c.data = <<>> \/ c.data[1][1] # call[u].msg)
RoomForEachOther ==
    \A t, u \in Thread : Feeds(u, t) /\ ~OthersInBuffers(u) =>
        FreeBuffers(pool[NodeOf[u]]) # {} \/ Available(t).copied # <<>>

=============================================================================
