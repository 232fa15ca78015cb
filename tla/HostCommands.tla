---------------------------- MODULE HostCommands ----------------------------
(***************************************************************************)
(* The services of daedalus-host that keep state of their own: the         *)
(* controller, the table of nodes and the rescue commands.  They share     *)
(* neither files nor memory, so that each is looked at by itself: an       *)
(* initial choice says which one is at work, and the others rest.          *)
(***************************************************************************)
EXTENDS Controller, NodeRegistry, Rescue

VARIABLE service   \* controller | registry | rescue, chosen at the start

hostvars == <<cvars, nvars, rescuevars, service>>

\* A controller that is not at work has nothing to do.
NothingDesired == managed = {} /\ \A r \in Row : desired[r] = NoValue

HostInit ==
    /\ service \in {"controller", "registry", "rescue"}
    /\ CInit /\ (service # "controller" => NothingDesired)
    /\ NInit /\ RescueInit

ByController(A) ==
    service = "controller" /\ A /\ UNCHANGED <<nvars, rescuevars, service>>
ByRegistry == service = "registry" /\ NNext /\ UNCHANGED <<cvars, rescuevars, service>>
ByRescue == service = "rescue" /\ RescueNext /\ UNCHANGED <<cvars, nvars, service>>

HostNext == ByController(CNext) \/ ByRegistry \/ ByRescue

\* CFair of Controller.
HostSpec ==
    /\ HostInit /\ [][HostNext]_hostvars
    /\ WF_hostvars(ByController(Polling)) /\ WF_hostvars(ByController(Looping))
    /\ SF_hostvars(ByController(InformerEnds))
----------------------------------------------------------------------------
\* Every variable of the three has its type.
HostTypeOK == CTypeOK /\ NTypeOK /\ RescueTypeOK
=============================================================================
