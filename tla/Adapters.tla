------------------------------ MODULE Adapters ------------------------------
(***************************************************************************)
(* One step in the hands of its adapter, from Propose to Rollback, with     *)
(* the part of the machine it is about.  Apply and Rollback are executed    *)
(* call by call: a call may fail, done or not, other programs change the    *)
(* machine in between, and a rollback may be run again, because the process *)
(* that ran it died before it saved, or because two of them were started.   *)
(***************************************************************************)
EXTENDS UnitAdapters, PackageAdapter, SmallAdapters, FileAdapters, FiniteSets

CONSTANTS
    Kinds,      \* the adapters in use
    Faults,     \* what may go wrong: a subset of {"call", "others", "clear"}
    MaxList     \* bound: paths or moves in one step

ASSUME AdaptersAssumption ==
    /\ Kinds \subseteq {"service", "task", "package", "container", "policy", "clean", "move"}
    /\ Faults \subseteq {"call", "others", "clear"}
    /\ MaxList \in Nat

VARIABLES
    kind,      \* the adapter
    args,      \* its arguments
    phase,     \* new | proposed | applying | applied | failed | undoing | undone | stuck
    todo,      \* the calls still to make
    before,    \* before_state, as the adapter took it
    machine,   \* the part of the machine the step is about
    found,     \* history: the machine at Propose
    touched,   \* history: the phase in which others changed the machine, or "no"
    again      \* history: the rollback was run more than once

vars == <<kind, args, phase, todo, before, machine, found, touched, again>>
step == <<kind, args, before, found>>

Paths == SeqOf(Path, MaxList) \ {<<>>}

\* Bound: a move does not change the depth of a path.
Moves ==
    SeqOf({m \in [from : Path, to : Path] : m.from # m.to /\ Len(m.from) = Len(m.to)}, MaxList)
        \ {<<>>}

ArgsOf ==
    [service |-> ServiceArgs, task |-> TaskArgs, package |-> PackageArgs,
     container |-> ContainerArgs, policy |-> PolicyArgs, clean |-> Paths, move |-> Moves]

StartOf ==
    [service |-> UnitStart, task |-> UnitStart, package |-> PackageStart,
     container |-> ContainerStart, policy |-> PolicyStart, clean |-> FilesStart, move |-> FilesStart]

Init ==
    /\ kind \in Kinds
    /\ machine \in StartOf[kind]
    /\ args \in ArgsOf[kind]
    /\ found = machine
    /\ phase = "new" /\ todo = <<>> /\ before = <<>>
    /\ touched = "no" /\ again = FALSE
----------------------------------------------------------------------------
(* The registry of adapters: what each makes of the step. *)

Accepts ==
    CASE kind = "task"      -> TaskAccepts(machine)
      [] kind = "container" -> ContainerAccepts(args, machine)
      [] kind = "policy"    -> PolicyAccepts(args, machine)
      [] kind = "clean"     -> CleanAccepts(args, machine)
      [] kind = "move"      -> MoveAccepts(args, machine)
      [] OTHER              -> TRUE

Snapshot ==
    CASE kind = "service"   -> ServiceBefore(machine)
      [] kind = "task"      -> TaskBefore(machine)
      [] kind = "package"   -> PackageBefore(machine)
      [] kind = "container" -> ContainerBefore(machine)
      [] kind = "policy"    -> PolicyBefore(machine)
      [] kind = "clean"     -> CleanBefore(args, machine)
      [] kind = "move"      -> MoveBefore(args)

ApplyCalls ==
    CASE kind = "service"   -> ServiceApply(args)
      [] kind = "task"      -> TaskApply(args, machine)
      [] kind = "package"   -> PackageApply(args)
      [] kind = "container" -> ContainerApply(args, before, machine)
      [] kind = "policy"    -> PolicyApply(args, before, machine)
      [] kind = "clean"     -> CleanApply(before)
      [] kind = "move"      -> MoveApply(before)

UndoCalls ==
    CASE kind = "service"   -> ServiceUndo(before, machine)
      [] kind = "task"      -> TaskUndo(before, machine)
      [] kind = "package"   -> PackageUndo(args, machine)
      [] kind = "container" -> ContainerUndo(args, before)
      [] kind = "policy"    -> PolicyUndo(before)
      [] kind = "clean"     -> CleanUndo(before)
      [] kind = "move"      -> MoveUndo(before)

Can(call) ==
    CASE kind \in {"service", "task"} -> UnitCan(call, machine)
      [] kind = "package"   -> PackageCan(call, machine)
      [] kind = "container" -> ContainerCan(call, machine)
      [] kind = "policy"    -> PolicyCan(call, machine)
      [] kind = "clean"     -> CleanCan(call, machine)
      [] kind = "move"      -> MoveCan(call, machine)

After(call) ==
    CASE kind \in {"service", "task"} -> UnitAfter(call, machine)
      [] kind = "package"   -> PackageAfter(call, machine)
      [] kind = "container" -> ContainerAfter(call, machine)
      [] kind = "policy"    -> PolicyAfter(call, machine)
      [] kind = "clean"     -> CleanAfter(call, machine)
      [] kind = "move"      -> MoveAfter(call, machine)

Elsewhere ==
    CASE kind \in {"service", "task"} -> UnitOthers(machine)
      [] kind = "package"   -> PackageOthers(machine)
      [] kind = "container" -> ContainerOthers(machine)
      [] kind = "policy"    -> PolicyOthers(machine)
      [] OTHER              -> FilesOthers(machine)
----------------------------------------------------------------------------
Propose ==
    /\ phase = "new" /\ Accepts
    /\ before' = Snapshot /\ found' = machine
    /\ phase' = "proposed"
    /\ UNCHANGED <<kind, args, todo, machine, touched, again>>

\* Apply starts; what it has to observe, it observes now.
StartApply ==
    /\ phase = "proposed"
    /\ phase' = "applying" /\ todo' = ApplyCalls
    /\ UNCHANGED <<step, machine, touched, again>>

\* Rollback of a step that was applied, for the first time or again.
StartUndo ==
    /\ phase \in {"applied", "undoing", "undone", "stuck"}
    /\ phase' = "undoing" /\ todo' = UndoCalls
    /\ again' = (phase # "applied")
    /\ UNCHANGED <<step, machine, touched>>

Busy == phase \in {"applying", "undoing"}

Call ==
    /\ Busy /\ todo # <<>>
    /\ Can(Head(todo))
    /\ machine' = After(Head(todo))
    /\ todo' = Tail(todo)
    /\ UNCHANGED <<step, phase, touched, again>>

\* Mutant: what fails is not looked at.
CallIgnored ==
    /\ Busy /\ todo # <<>>
    /\ ~Can(Head(todo)) \/ "call" \in Faults
    /\ machine' = machine
    /\ todo' = Tail(todo)
    /\ UNCHANGED <<step, phase, touched, again>>

\* A call fails, and the adapter returns: the call was impossible, or it was not
\* made, or it was made and still reported failed (a timeout).  An observation that
\* fails ends the adapter before it changes anything and is left out.
CallFails ==
    /\ Busy /\ todo # <<>>
    /\ \/ ~Can(Head(todo)) /\ machine' = machine
       \/ "call" \in Faults /\ machine' = machine
       \/ "call" \in Faults /\ Can(Head(todo)) /\ machine' = After(Head(todo))
    /\ phase' = IF phase = "applying" THEN "failed" ELSE "stuck"
    /\ todo' = <<>>
    /\ UNCHANGED <<step, touched, again>>

Return ==
    /\ Busy /\ todo = <<>>
    /\ phase' = IF phase = "applying" THEN "applied" ELSE "undone"
    /\ UNCHANGED <<step, todo, machine, touched, again>>

\* Another program changes the machine, once.
Others ==
    /\ "others" \in Faults /\ touched = "no"
    /\ phase \in {"proposed", "applying", "applied", "undoing"}
    /\ machine' \in Elsewhere \ {machine}
    /\ touched' = phase
    /\ UNCHANGED <<step, phase, todo, again>>

\* The dnf history is cleared.
Clear ==
    /\ "clear" \in Faults /\ kind = "package" /\ phase = "applied"
    /\ machine' = HistoryCleared(machine)
    /\ UNCHANGED <<step, phase, todo, touched, again>>

Next ==
    \/ Propose \/ StartApply \/ StartUndo \/ Call \/ CallFails \/ Return
    \/ Others \/ Clear

Spec == Init /\ [][Next]_vars
----------------------------------------------------------------------------
Meets ==
    CASE kind = "service"   -> ServiceMeets(args, machine)
      [] kind = "task"      -> TaskMeets(args, machine)
      [] kind = "package"   -> PackageMeets(args, machine)
      [] kind = "container" -> ContainerMeets(args, machine)
      [] kind = "policy"    -> PolicyMeets(args, machine)
      [] kind = "clean"     -> CleanMeets(args, machine)
      [] kind = "move"      -> MoveMeets(args, found, machine)

\* A step that was applied has made the machine what it was to be (Apply), also
\* when others changed it between Propose and Apply; container.set goes by its
\* snapshot, so that for started and stopped nobody may have changed it.
AppliedIsDesired ==
    phase = "applied" =>
        \/ Meets
        \/ touched \notin {"no", "proposed"}
        \/ touched = "proposed" /\ kind = "container" /\ args \in {"started", "stopped"}

\* systemd has read the file; a rollback run again does not reload it, when the
\* one before stopped between the restoring write and the reload.
Reread == again \/ machine.loaded = machine.file

Restored ==
    CASE kind = "service"   -> ServiceRestored(found, machine) /\ Reread
      [] kind = "task"      -> TaskRestored(found, machine) /\ Reread
      [] kind = "package"   -> machine.installed = found.installed
      [] kind = "container" -> ContainerRestored(args, found, machine)
      [] kind = "policy"    -> machine.content = found.content
      [] kind = "clean"     -> CleanRestored(args, found, machine)
      [] kind = "move"      -> MoveRestored(found, machine)

\* What can be undone.  package.set restores what the sidecar stands for: the
\* entry must be that of the step, and once the history is cleared only an
\* installation is taken back.  organize.move may have overwritten its own files.
Recoverable ==
    /\ kind = "move" => Apart(args)
    /\ kind = "package" =>
          /\ SidecarIsMine(machine)
          /\ machine.sidecar <= machine.cleared => found.installed = "none"

\* A rollback that reports success has restored what Propose found, however often
\* it was run, unless others changed it (the contract of Rollback, adapter.go).
UndoneIsRestored == phase = "undone" /\ touched = "no" /\ Recoverable => Restored

\* What was done to an undisturbed machine can be undone: no call of its first
\* rollback is impossible (Rollback: the order of the calls).  disk.clean makes
\* its paths again in the order given, so directories must come first.
UndoIsPossible ==
    phase = "undoing" /\ todo # <<>> /\ touched = "no" /\ ~again /\ Recoverable
        /\ (kind = "clean" => \A i, j \in DOMAIN args : i < j => ~IsStrictPrefix(args[j], args[i]))
    => Can(Head(todo))

\* A step of the adapter, not of somebody else.
Own == touched' = touched

\* disk.clean and organize.move: a rollback destroys no data, whatever others have
\* put in its way.  Applying organize.move, with destinations that are apart,
\* destroys nothing that was there at Propose, whatever others do; what they have
\* put at a destination since, rename does overwrite (organize_move.go:229).
KeepsData ==
    [][Own /\ kind \in {"clean", "move"} =>
        /\ phase = "undoing" => Data(machine) \subseteq Data(machine')
        /\ phase = "applying" /\ kind = "move" /\ Apart(args)
             => Data(machine) \cap Data(found) \subseteq Data(machine')]_vars

\* The file of a timer goes; Rollback issues a verb.
Gone == phase = "applying" /\ kind = "task" /\ machine'.file # machine.file

Acted ==
    /\ phase = "undoing" /\ kind \in {"service", "task"} /\ ~again
    /\ <<machine'.active, machine'.enabled>> # <<machine.active, machine.enabled>>

\* The order of the calls of task.set and service.set: Apply never removes the
\* file of a timer that is still enabled, and Rollback issues a verb only when
\* systemd has read the restored file (daemon-reload).
UnitsInOrder ==
    [][Own => /\ Gone /\ touched # "applying" => machine.enabled # "enabled"
              /\ Acted /\ touched \in {"no", "proposed"} => machine.loaded = machine.file]_vars

\* An applied package.set can be undone: the sidecar names an entry of the history
\* that was made by the step's command (Apply, readDnfHistoryID).
SidecarFits ==
    phase = "applied" /\ kind = "package" =>
        /\ machine.sidecar \in DOMAIN machine.history
        /\ machine.history[machine.sidecar].cmd = PackageVerb[args]

\* The entry the sidecar names is that of the step itself (Apply: the comparison
\* of the command line is to tell it from the entries of others).
SidecarIsOwn == phase = "applied" /\ kind = "package" => SidecarIsMine(machine)
============================================================================
