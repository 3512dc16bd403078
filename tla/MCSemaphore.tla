---------------------------- MODULE MCSemaphore -----------------------------
(* Semaphore on four threads. *)
EXTENDS Semaphore

CONSTANTS t1, t2, t3, t4

MCThread == {t1, t2, t3, t4}
MCMin == -100
=============================================================================
