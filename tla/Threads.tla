------------------------------ MODULE Threads -------------------------------
(***************************************************************************)
(* The threads of a process, and the arrays in which mutex.c, semaphore.c  *)
(* and condvar.c keep those that wait.                                     *)
(***************************************************************************)
EXTENDS Naturals, FiniteSets

CONSTANTS
    Thread,        \* the threads of the process
    NoThread,      \* the tid -1
    THREAD_MAX     \* slots of tids[], as many as the kernel has threads

ASSUME ThreadAssumption == NoThread \notin Thread /\ IsFiniteSet(Thread)
ASSUME SlotsAssumption  == THREAD_MAX \in Nat /\ Cardinality(Thread) <= THREAD_MAX

=============================================================================
