----------------------------- MODULE ThreadFifo -----------------------------
(***************************************************************************)
(* What the modules about waiting take the ring of tids to be: a sequence  *)
(* of distinct threads, which enters at the tail and leaves at the head.   *)
(***************************************************************************)
EXTENDS Sequences, Functions

CONSTANT Thread    \* the threads of the process

VARIABLE queue     \* the threads that wait, oldest first

Init == queue = <<>>

Enter(t) ==
    /\ t \notin Range(queue)
    /\ queue' = Append(queue, t)

Leave ==
    /\ queue # <<>>
    /\ queue' = Tail(queue)

Next == Leave \/ \E t \in Thread : Enter(t)

Spec == Init /\ [][Next]_queue

=============================================================================
