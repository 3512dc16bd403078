----------------------------- MODULE MCTidRing ------------------------------
(* TidRing on as many threads as slots, so that it can be full. *)
EXTENDS TidRing

CONSTANTS t1, t2, t3, t4

MCThread == {t1, t2, t3, t4}
=============================================================================
