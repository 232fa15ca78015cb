------------------------- MODULE MCFleetScheduler --------------------------
(* Model-checking instance of FleetScheduler. *)
EXTENDS FleetScheduler

AnyFault == FaultKinds
AllSupported == {[m \in Machine |-> "supported"]}
\* All alike, or the first machine of lower importance than the others.
SomeMixed == AllSupported \cup {[m \in Machine |-> IF m = 1 THEN "experimental" ELSE "supported"]}
============================================================================
