--------------------------- MODULE PortalBuffers ----------------------------
(***************************************************************************)
(* The message buffers of ikc/mportal.c, mpbuffers[], which keep what has  *)
(* arrived for a portal that does not read it yet and what threads of one  *)
(* node send to each other.  A long message is a chain of buffers: `seq'   *)
(* numbers them, `next' links them, and a buffer is busy as long as its    *)
(* writer may still change it.  Each operator is a critical section of     *)
(* buffer_lock, as a function of the buffers' contents, `pool'.            *)
(***************************************************************************)
EXTENDS Integers, FiniteSetsExt, SequencesExt

CONSTANTS
    MPORTAL_BUFFER_MAX,    \* the number of buffers
    MPORTAL_BUFFER_SIZE,   \* the units of data that one holds
    None                   \* no port, no peer

ASSUME BufferAssumption ==
    MPORTAL_BUFFER_MAX \in Nat \ {0} /\ MPORTAL_BUFFER_SIZE \in Nat \ {0}

Buffer == 1 .. MPORTAL_BUFFER_MAX
NoBuffer == 0

\* `from' and `to' are config.local and config.remote of the sender.
Unused == [from |-> None, to |-> None, busy |-> FALSE, age |-> 0, seq |-> 0,
           next |-> NoBuffer, data |-> <<>>]

IsUsed(pool, b) == pool[b].from # None

FreeBuffers(pool) == {b \in Buffer : ~IsUsed(pool, b)}

\* A seeded fault: the previous buffer is not linked.
BufferAllocUnlinked(pool, previous, from, to, age, data) ==
    LET b == Min(FreeBuffers(pool))
        linked == IF previous = NoBuffer THEN pool ELSE [pool EXCEPT ![previous].busy = FALSE]
    IN  [linked EXCEPT ![b] =
          [from |-> from, to |-> to, busy |-> TRUE, age |-> age,
           seq |-> IF previous = NoBuffer THEN 0 ELSE pool[previous].seq + 1,
           next |-> NoBuffer, data |-> data]]

\* A seeded fault: the previous buffer stays busy.
BufferAllocKeepsBusy(pool, previous, from, to, age, data) ==
    LET b == Min(FreeBuffers(pool))
        linked == IF previous = NoBuffer THEN pool ELSE [pool EXCEPT ![previous].next = b]
    IN  [linked EXCEPT ![b] =
          [from |-> from, to |-> to, busy |-> TRUE, age |-> age,
           seq |-> IF previous = NoBuffer THEN 0 ELSE pool[previous].seq + 1,
           next |-> NoBuffer, data |-> data]]

\* kportal_buffer_alloc takes the first free buffer and links it to the previous
\* one, which is complete by then.
BufferAlloc(pool, previous, from, to, age, data) ==
    LET b == Min(FreeBuffers(pool))
        linked == IF previous = NoBuffer THEN pool
                  ELSE [pool EXCEPT ![previous].next = b, ![previous].busy = FALSE]
    IN  [linked EXCEPT ![b] =
          [from |-> from, to |-> to, busy |-> TRUE, age |-> age,
           seq |-> IF previous = NoBuffer THEN 0 ELSE pool[previous].seq + 1,
           next |-> NoBuffer, data |-> data]]

\* kportal_buffer_set_available
SetAvailable(pool, b) == [pool EXCEPT ![b].busy = FALSE]

\* A seeded fault: the newest message.
FirstBufferNewest(pool, to, from) ==
    LET heads == {b \in Buffer : /\ pool[b].from = from /\ pool[b].to = to
                                 /\ pool[b].seq = 0 /\ ~pool[b].busy}
    IN  IF heads = {} THEN NoBuffer
        ELSE CHOOSE b \in heads : \A c \in heads : pool[b].age >= pool[c].age

\* A seeded fault: from any peer.
FirstBufferOfAnyone(pool, to, from) ==
    LET heads == {b \in Buffer : IsUsed(pool, b) /\ pool[b].to = to
                                 /\ pool[b].seq = 0 /\ ~pool[b].busy}
    IN  IF heads = {} THEN NoBuffer
        ELSE CHOOSE b \in heads : \A c \in heads : pool[b].age <= pool[c].age

\* do_kportal_buffer_search for a read: the oldest message from the peer that the
\* port is allowed to read, of which the first buffer is complete.
FirstBuffer(pool, to, from) ==
    LET heads == {b \in Buffer : /\ pool[b].from = from /\ pool[b].to = to
                                 /\ pool[b].seq = 0 /\ ~pool[b].busy}
    IN  IF heads = {} THEN NoBuffer
        ELSE CHOOSE b \in heads : \A c \in heads : pool[b].age <= pool[c].age

\* kportal_buffer_search for an unlink: is there anything for the port, or, if it is
\* allowed to read from a peer, a message from that one?
HasMessage(pool, to, from) ==
    IF from = None THEN \E b \in Buffer : IsUsed(pool, b) /\ pool[b].to = to
    ELSE FirstBuffer(pool, to, from) # NoBuffer

\* A seeded fault: the buffer before them is not released.
LeftBehindNotPrevious(path, n, previous) == {path[i] : i \in 0 .. n - 2}

\* The buffers that a reader of the first n on its path releases as it goes on, all
\* but the last of them.
LeftBehind(path, n, previous) ==
    IF n > 0 THEN {previous} \cup {path[i] : i \in 0 .. n - 2} ELSE {}

\* kportal_buffer_read: the complete buffers that follow `previous', or the first
\* message, are copied and all but the last one released; that one too when there
\* is no room left.  If the next one is too large, it and the one before it are
\* released, unless it is the first of its message.
BufferRead(pool, to, from, previous, remainder) ==
    LET path[i \in 0 .. MPORTAL_BUFFER_MAX] ==
            IF i = 0
            THEN IF previous = NoBuffer THEN FirstBuffer(pool, to, from)
                 ELSE pool[previous].next
            ELSE IF path[i-1] = NoBuffer THEN NoBuffer ELSE pool[path[i-1]].next
        ready == Min({i \in 0 .. MPORTAL_BUFFER_MAX :
                        path[i] = NoBuffer \/ pool[path[i]].busy})
        data(i) == FlattenSeq([j \in 1 .. i |-> pool[path[j-1]].data])
        n == Max({i \in 0 .. ready : Len(data(i)) <= remainder})
        last == IF n = 0 THEN previous ELSE path[n-1]
        left == remainder - Len(data(n))
        tooLarge == n < ready
        discard == tooLarge /\ pool[path[n]].seq > 0
        ends == discard \/ (~tooLarge /\ left = 0)
        released == LeftBehind(path, n, previous)
                      \cup (IF ends THEN {last} ELSE {})
                      \cup (IF discard THEN {path[n]} ELSE {})
    IN  [pool |-> [b \in Buffer |-> IF b \in released THEN Unused ELSE pool[b]],
         copied |-> data(n), left |-> left, error |-> tooLarge,
         previous |-> IF ends THEN NoBuffer ELSE last]

=============================================================================
