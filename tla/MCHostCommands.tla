--------------------------- MODULE MCHostCommands ---------------------------
(* Model-checking instance of HostCommands. *)
EXTENDS HostCommands
=============================================================================
