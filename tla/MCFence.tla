------------------------------ MODULE MCFence -------------------------------
(* Fence on four threads. *)
EXTENDS Fence

CONSTANTS t1, t2, t3, t4

MCThread == {t1, t2, t3, t4}
=============================================================================
