--------------------------- MODULE MCCondVarBusy ----------------------------
(* Two threads that wait and one that signals. *)
EXTENDS CondVarBusy

CONSTANTS t1, t2, t3

MCThread == {t1, t2, t3}
=============================================================================
