------------------------------ MODULE MCMutex ------------------------------
(* Mutex on four threads, one mutex of each type. *)
EXTENDS Mutex

CONSTANTS t1, t2, t3, t4

MCThread == {t1, t2, t3, t4}
=============================================================================
