---------------------------- MODULE SmallAdapters ----------------------------
(***************************************************************************)
(* The adapters container.set, on one rootless podman container, and        *)
(* policy.set, on the policy file.  podman is external.                     *)
(***************************************************************************)
EXTENDS Naturals, Sequences

CONSTANTS
    Policy,     \* contents of a policy file
    Sentinel,   \* the content that disables every service
    NoPolicy    \* no policy file

ASSUME PolicyAssumption == Sentinel \notin Policy /\ NoPolicy \notin Policy \cup {Sentinel}

Container == [exists : BOOLEAN, running : BOOLEAN]
ContainerArgs == {"present", "absent", "started", "stopped"}

\* A call on a container, or on the policy file.
Podman(op) == <<[op |-> op]>>
PutPolicy(c) == <<[op |-> "put", content |-> c], [op |-> "read back", content |-> c]>>
Refuse == Podman("refuse")
----------------------------------------------------------------------------
(* container.set *)

\* Only absent may be proposed for a container that is not there.
ContainerAccepts(want, c) == c.exists \/ want = "absent"
ContainerBefore(c) == c

\* Mutant: started and stopped are taken for each other's no-op.
ContainerApplySwapped(want, before, c) ==
    CASE want = "present" -> IF c.exists THEN <<>> ELSE Refuse
      [] want = "absent"  -> Podman("rm")
      [] want \in {"started", "stopped"} ->
            IF ~before.exists THEN Refuse
            ELSE IF before.running # (want = "started") THEN <<>>
            ELSE Podman(IF want = "started" THEN "start" ELSE "stop")

\* present looks again; started and stopped go by the state of the snapshot.
ContainerApply(want, before, c) ==
    CASE want = "present" -> IF c.exists THEN <<>> ELSE Refuse
      [] want = "absent"  -> Podman("rm")
      [] want \in {"started", "stopped"} ->
            IF ~before.exists THEN Refuse
            ELSE IF before.running = (want = "started") THEN <<>>
            ELSE Podman(IF want = "started" THEN "start" ELSE "stop")

\* A removed container cannot be made again: success, and nothing is done.
ContainerUndo(want, before) ==
    IF want = "absent" \/ ~before.exists THEN <<>>
    ELSE Podman(IF before.running THEN "start" ELSE "stop")

ContainerCan(call, c) ==
    CASE call.op = "rm"                -> TRUE
      [] call.op \in {"start", "stop"} -> c.exists
      [] call.op = "refuse"            -> FALSE

ContainerAfter(call, c) ==
    CASE call.op = "rm"    -> [exists |-> FALSE, running |-> FALSE]
      [] call.op = "start" -> [c EXCEPT !.running = TRUE]
      [] call.op = "stop"  -> [c EXCEPT !.running = FALSE]

ContainerStart == {c \in Container : c.running => c.exists}
ContainerOthers(c) == ContainerStart

ContainerMeets(want, c) ==
    CASE want = "present" -> c.exists
      [] want = "absent"  -> ~c.exists
      [] want = "started" -> c.exists /\ c.running
      [] want = "stopped" -> c.exists /\ ~c.running

\* All but a removal is taken back.
ContainerRestored(want, found, c) == want = "absent" \/ c = found
----------------------------------------------------------------------------
(* policy.set: content is the policy file, ref the file content_ref names. *)

PolicyFile == [content : Policy \cup {Sentinel, NoPolicy}, ref : Policy \cup {NoPolicy}]
PolicyArgs == {"loaded", "absent"}

\* There is a policy, it is not disabled, and loaded has something to load.
PolicyAccepts(want, f) ==
    /\ f.content \in Policy
    /\ want = "loaded" => f.ref # NoPolicy

PolicyBefore(f) == f.content

\* The policy must still be that of the snapshot (sha256).  What is loaded is the
\* content the reference has now.
PolicyApply(want, before, f) ==
    IF f.content # before THEN Refuse
    ELSE IF want = "absent" THEN PutPolicy(Sentinel)
    ELSE IF f.ref = NoPolicy THEN Refuse ELSE PutPolicy(f.ref)

\* The old policy comes back, whatever is there now.
PolicyUndo(before) == PutPolicy(before)

\* put is the rename of a synced temporary file; then the file is read back.
PolicyCan(call, f) ==
    CASE call.op = "put"       -> TRUE
      [] call.op = "read back" -> f.content = call.content
      [] call.op = "refuse"    -> FALSE

PolicyAfter(call, f) ==
    IF call.op = "put" THEN [f EXCEPT !.content = call.content] ELSE f

PolicyStart == PolicyFile
PolicyOthers(f) == PolicyFile

PolicyMeets(want, f) ==
    f.content = IF want = "absent" THEN Sentinel ELSE f.ref
============================================================================
