----------------------------- MODULE MCCondVar ------------------------------
(* Three threads, a normal mutex. *)
EXTENDS CondVar, TLC

CONSTANTS t1, t2, t3

MCThread == {t1, t2, t3}
=============================================================================
