---------------------------- MODULE MCTxCliEnds ----------------------------
(* Model-checking instance of TxCliEnds; liveness, so no symmetry. *)
EXTENDS TxCliEnds
============================================================================
