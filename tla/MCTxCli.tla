------------------------------ MODULE MCTxCli ------------------------------
(* Model-checking instance of TxCli: symmetry of interchangeable values. *)
EXTENDS TxCli

Symmetry == Permutations(Proc) \cup Permutations(Resource)
============================================================================
