--------------------------- MODULE MCDesiredView ---------------------------
(* Model-checking instance of DesiredView: interchangeable ids and processes. *)
EXTENDS DesiredView

Symmetry == Permutations(Id) \cup Permutations(Proc) \cup Permutations(Resource)
============================================================================
