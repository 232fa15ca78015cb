----------------------------- MODULE MCAdapters -----------------------------
(* Model-checking instance of Adapters: three top-level names, which may be   *)
(* directories with one file in them.                                         *)
EXTENDS Adapters

SmallTree == {<<1>>, <<1, 1>>, <<2>>, <<2, 1>>, <<3>>, <<3, 1>>}
============================================================================
