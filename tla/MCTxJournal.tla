---------------------------- MODULE MCTxJournal ----------------------------
(* Model-checking instance of TxJournal: symmetry of interchangeable values. *)
EXTENDS TxJournal

Symmetry == Permutations(Proc)
============================================================================
