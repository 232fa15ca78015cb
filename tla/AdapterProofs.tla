---------------------------- MODULE AdapterProofs ----------------------------
(***************************************************************************)
(* What the adapters promise, for every unit, package, container, policy   *)
(* and tree of files.  For each adapter the inductive invariant says which  *)
(* of its calls are still to be made, and what the calls already made have  *)
(* brought about.                                                          *)
(***************************************************************************)
EXTENDS Adapters, SequenceTheorems, TLAPS

USE UnitAssumption, PolicyAssumption, AdaptersAssumption

Phases == {"new", "proposed", "applying", "applied", "failed", "undoing", "undone", "stuck"}

\* Nobody has interfered since Apply started.
Calm == touched \in {"no", "proposed"}

\* The phases an adapter goes through, and when others may have interfered.
FlowInv ==
    /\ kind \in Kinds /\ phase \in Phases /\ again \in BOOLEAN
    /\ args \in ArgsOf[kind] /\ found \in StartOf[kind]
    /\ ~Busy => todo = <<>>
    /\ phase = "new" => touched = "no" /\ machine = found
    /\ phase = "proposed" => Calm /\ (touched = "no" => machine = found)
    /\ phase = "applying" => Calm \/ touched = "applying"
    /\ phase \notin {"undoing", "undone", "stuck"} => ~again
----------------------------------------------------------------------------
(* service.set and task.set *)

Inverses == IF kind = "service" THEN ServiceInverse ELSE TaskInverse
Looked(u) == IF kind = "service" THEN u.active ELSE u.enabled

\* What is left of a rollback: the verb, the reload too, the file too.
Verb == StateBack(before, Inverses)
ReloadVerb == Do("daemon-reload") \o Verb
FileReloadVerb == <<Restore(before.file)>> \o Do("daemon-reload") \o Verb

\* systemd has read the file, or the file is another than the one of the snapshot.
Fresh ==
    \/ machine.loaded = machine.file
    \/ found.file # NoFile /\ machine.file # found.file

FileIsBack == before.file \in {NoFile, machine.file}
StateIsBack == before.state \in DOMAIN Inverses => Looked(machine) = before.state

UnitFacts ==
    /\ machine \in Unit /\ found \in Unit /\ found.loaded = found.file
    /\ machine.enabled = "static" <=> found.enabled = "static"
    /\ phase # "new" =>
          /\ before = [file |-> found.file, state |-> Looked(found)]
          /\ kind = "task" => found.file # NoFile
    /\ phase = "undoing" =>
          \/ todo = FileReloadVerb
          \/ todo = ReloadVerb /\ machine.file = before.file
          \/ todo = Verb /\ FileIsBack /\ Reread
          \/ todo = <<>> /\ FileIsBack /\ Reread /\ StateIsBack
    /\ phase = "undone" => FileIsBack /\ Reread /\ StateIsBack

\* service.set leaves the file alone, and has found one if its verb succeeded.
ServiceFacts ==
    /\ phase \in {"proposed", "applying"} => Fresh \/ machine.loaded = NoFile
    /\ phase = "applying" => todo \in {<<>>, ServiceApply(args)}
    /\ (phase = "applying" /\ todo = <<>>) \/ phase = "applied" =>
          ServiceMeets(args, machine) /\ Fresh
    /\ touched = "no" =>
          /\ machine.file = found.file
          /\ \/ phase = "applying" /\ todo = <<>>
             \/ phase \in {"applied", "undoing", "undone", "stuck"}
             => machine.file # NoFile

Removing == Do("remove") \o Do("daemon-reload")

TaskFacts ==
    /\ phase = "applying" =>
          CASE args = "enabled"  -> todo \in {<<>>, Do("enable")}
            [] args = "disabled" -> todo \in {<<>>, Do("disable")}
            [] args = "absent"   ->
                  \/ todo \in {<<>>, GiveUp, Do("disable") \o Removing}
                  \/ todo = Removing /\ machine.enabled # "enabled"
                  \/ todo = Do("daemon-reload")
                     /\ machine.file = NoFile /\ machine.enabled # "enabled"
    /\ (phase = "applying" /\ todo = <<>>) \/ phase = "applied" =>
          TaskMeets(args, machine) /\ machine.loaded = machine.file

UnitInv ==
    kind \in {"service", "task"} /\ Calm =>
        /\ UnitFacts
        /\ kind = "service" => ServiceFacts
        /\ kind = "task" => TaskFacts
----------------------------------------------------------------------------
(* package.set *)

Packages == [installed : Version, history : Seq(HistoryEntry), cleared : Nat, sidecar : Nat]

\* The entries of the step's own commands of one kind.
OwnOf(p, verb) == {i \in DOMAIN p.history : p.history[i].mine /\ p.history[i].cmd = verb}
OwnEntries == OwnOf(machine, PackageVerb[args])

FitsIn(p, verb) == p.sidecar \in DOMAIN p.history /\ p.history[p.sidecar].cmd = verb
Fits == FitsIn(machine, PackageVerb[args])

PackageBack ==
    SidecarIsMine(machine) /\ (machine.sidecar <= machine.cleared => found.installed = "none")
    => machine.installed = found.installed

\* The package is still as the command left it.
Standing ==
    \/ phase \in {"applying", "applied"}
    \/ phase = "undoing" /\ ~again /\ todo # <<>>

\* The step's entries tell what its command did.
EntriesTell ==
    \A i \in OwnEntries :
        LET e == machine.history[i]
        IN  /\ e.was = found.installed /\ e.was # e.now
            /\ e.now = VersionAfter(PackageVerb[args], e.was)
            /\ Standing => e.now = machine.installed

PackageFacts ==
    /\ machine \in Packages
    /\ phase \in {"new", "proposed"} \/ (phase = "applying" /\ todo = PackageApply(args)) =>
          OwnEntries = {} /\ (touched = "no" => machine.installed = found.installed)
    /\ phase = "applying" =>
          \/ todo = PackageApply(args)
          \/ /\ todo \in {<<>>, Capture(PackageVerb[args])}
             /\ Calm => PackageMeets(args, machine)
             /\ todo = <<>> => Fits
    /\ phase \in {"applied", "undoing", "undone", "stuck"} => Fits
    /\ phase = "applied" /\ Calm => PackageMeets(args, machine)
    /\ phase = "undoing" => todo \in {<<>>, PackageUndo(args, machine)}
    /\ touched = "no" => EntriesTell
    /\ touched = "no" /\ (phase = "undone" \/ (phase = "undoing" /\ todo = <<>>)) => PackageBack

PackageInv == kind = "package" => PackageFacts
----------------------------------------------------------------------------
(* container.set and policy.set *)

ContainerFacts ==
    /\ machine \in Container /\ found \in Container
    /\ phase # "new" => before = found /\ ContainerAccepts(args, found)
    /\ touched = "no" /\ args # "absent" => machine.exists = found.exists
    /\ phase = "applying" =>
          \/ todo = ContainerApply(args, before, machine) /\ (touched = "no" => machine = found)
          \/ todo = <<>> /\ ContainerMeets(args, machine)
          \/ todo = <<>> /\ touched = "proposed" /\ args \in {"started", "stopped"}
    /\ phase = "applied" =>
          \/ ContainerMeets(args, machine)
          \/ touched = "proposed" /\ args \in {"started", "stopped"}
    /\ phase = "undoing" =>
          \/ todo # <<>> /\ todo = ContainerUndo(args, before)
          \/ todo = <<>> /\ (touched = "no" => ContainerRestored(args, found, machine))
    /\ phase = "undone" /\ touched = "no" => ContainerRestored(args, found, machine)

ContainerInv == kind = "container" /\ Calm => ContainerFacts

\* What policy.set is to leave in the policy file.
Target == IF args = "absent" THEN Sentinel ELSE machine.ref

ReadBack(c) == <<[op |-> "read back", content |-> c]>>

\* Where putting c is: nothing done, put, read back.
Putting(c) ==
    \/ todo = PutPolicy(c)
    \/ todo \in {<<>>, ReadBack(c)} /\ machine.content = c

PolicyFacts ==
    /\ machine \in PolicyFile
    /\ phase # "new" => before = found.content
    /\ phase = "applying" =>
          \/ todo = Refuse
          \/ Putting(Target) /\ (todo = PutPolicy(Target) => machine.content = before)
    /\ phase = "applied" => machine.content = Target
    /\ phase = "undoing" => Putting(before)
    /\ phase = "undone" => machine.content = before

PolicyInv == kind = "policy" /\ Calm => PolicyFacts
----------------------------------------------------------------------------
(* disk.clean and organize.move *)

Entries ==
    {e \in [type : {"none", "dir", "file"}, data : Seq(Nat)] : e.type # "file" => e.data = NoData}

\* What is left of calls once k of them are made.
Left(calls, k) == SubSeq(calls, k + 1, Len(calls))

\* The tree that Propose found: directories at top level, files in place, each
\* with its own data.
FoundTree ==
    /\ found \in [Path -> Entries]
    /\ \A p \in Path :
          /\ found[p].type = "dir" => Len(p) = 1
          /\ found[p].type = "file" => found[p].data = p
          /\ found[p] # Nothing => InPlace(found, p)

\* The directories of the snapshot that are not there are still to be made.
Remade(k) ==
    \A q \in Path : found[q].type = "dir" =>
        machine[q].type = "dir" \/ \E j \in DOMAIN args : k < j /\ args[j] = q

\* The paths 1 to k are there again.
PathsBack(k) ==
    \A i \in DOMAIN args : i <= k => machine[args[i]].type = found[args[i]].type

TopDown == \A i, j \in DOMAIN args : i < j => ~IsStrictPrefix(args[j], args[i])

CleanFacts ==
    /\ machine \in [Path -> Entries] /\ FoundTree /\ args \in Seq(Path)
    /\ phase # "new" => before = CleanBefore(args, found) /\ CleanAccepts(args, found)
    /\ phase = "applying" =>
          \E k \in 0..Len(args) :
              /\ todo = Left(CleanApply(before), k)
              /\ Calm => \A i \in DOMAIN args : i <= k => machine[args[i]] = Nothing
    /\ phase = "applied" /\ Calm => CleanMeets(args, machine)
    /\ touched = "no" =>
          /\ \A p \in Path : machine[p].type \in {"none", found[p].type}
          /\ phase \in {"new", "proposed", "applying", "applied"} => Remade(0)
    /\ phase = "undoing" =>
          \E k \in 0..Len(args) :
              /\ todo = Left(CleanUndo(before), k)
              /\ touched = "no" => PathsBack(k) /\ (TopDown /\ ~again => Remade(k))
    /\ phase = "undone" /\ touched = "no" => PathsBack(Len(args))

CleanInv == kind = "clean" => CleanFacts

From(i) == args[i].from
To(i) == args[i].to

\* The entries of a tree are in directories.
Tree(fs) == \A p \in Path : fs[p] # Nothing => InPlace(fs, p)

\* What is left at the sources of moves 1 to k is no file of before.
MovedAway(fs, k) ==
    \A i \in DOMAIN args, p \in Path :
        i <= k /\ Under(p, From(i)) /\ found[p].type = "file" => fs[p] # found[p]

\* Move i is the first that takes p along; none of moves 1 to k does.
TakenBy(p, i) ==
    /\ Under(p, From(i))
    /\ \A j \in DOMAIN args : j < i => ~Under(p, From(j))
Stays(p, k) == \A i \in DOMAIN args : i <= k => ~Under(p, From(i))

\* Where the files are after moves 1 to k: a file is moved once or not at all.
FilesAt(fs, k) ==
    /\ \A p \in Path : found[p].type = "file" /\ Stays(p, k) => fs[p] = found[p]
    /\ \A i \in DOMAIN args, p \in Path :
          i <= k /\ TakenBy(p, i) /\ found[p].type = "file"
             => fs[Graft(p, From(i), To(i))] = found[p]
    /\ \A p \in Path : fs[p].type = "file" =>
          \/ Stays(p, k) /\ found[p].type = "file"
          \/ \E i \in DOMAIN args :
                /\ i <= k /\ Under(p, To(i)) /\ TakenBy(Graft(p, To(i), From(i)), i)
                /\ found[Graft(p, To(i), From(i))].type = "file"

\* The way back of moves 1 to k is free: nothing is at their sources, something at
\* their destinations, and what comes back with a later move is not in the way.
WayBack(fs, k) ==
    \A i \in DOMAIN args : i <= k =>
        /\ fs[From(i)] = Nothing /\ fs[To(i)] # Nothing
        /\ \A j \in DOMAIN args : i < j /\ j <= k =>
              /\ ~Under(From(j), From(i))
              /\ Under(From(i), From(j)) => fs[Graft(From(i), From(j), To(j))] = Nothing

Moved(fs, k) == FilesAt(fs, k) /\ WayBack(fs, k)

\* The last move was taken back, so that a rollback run again stops at once.
Barred(fs) == fs[From(Len(args))] # Nothing

MoveFacts ==
    /\ machine \in [Path -> Entries] /\ Tree(machine) /\ FoundTree
    /\ phase # "new" => before = args /\ MoveAccepts(args, found)
    /\ phase = "applying" =>
          \E k \in 0..Len(args) :
              /\ todo = Left(MoveApply(before), k)
              /\ Calm => MovedAway(machine, k)
              /\ touched = "no" /\ Apart(args) => Moved(machine, k)
    /\ phase = "applied" /\ Calm => MovedAway(machine, Len(args))
    /\ phase = "applied" /\ touched = "no" /\ Apart(args) => Moved(machine, Len(args))
    /\ phase = "undoing" =>
          \E k \in 0..Len(args) :
              /\ todo = Left(MoveUndo(before), k)
              /\ touched = "no" /\ Apart(args) =>
                    \/ Moved(machine, Len(args) - k) /\ (k > 0 => Barred(machine))
                    \/ again /\ k = 0 /\ Barred(machine)
    /\ phase = "stuck" /\ touched = "no" /\ Apart(args) => Moved(machine, Len(args)) \/ Barred(machine)
    /\ phase = "undone" /\ touched = "no" /\ Apart(args) => Moved(machine, 0) /\ Barred(machine)

MoveInv == kind = "move" => MoveFacts

\* No file that was there at Propose is in the way of a move after the k-th.
Spared(fs, k) ==
    \A i \in DOMAIN args, p \in Path :
        i > k /\ Under(p, To(i)) /\ fs[p].type = "file" => fs[p].data \notin Data(found)

SparedInv ==
    kind = "move" =>
        /\ phase = "proposed" => Spared(machine, 0)
        /\ phase = "applying" /\ Apart(args) =>
              \E k \in 0..Len(args) : todo = Left(MoveApply(before), k) /\ Spared(machine, k)

AdapterInv ==
    FlowInv /\ UnitInv /\ PackageInv /\ ContainerInv /\ PolicyInv /\ CleanInv /\ MoveInv
----------------------------------------------------------------------------
(* The phases. *)

LEMMA ArgsOfKind ==
  ASSUME FlowInv
  PROVE  /\ kind \in {"service", "task", "package", "container", "policy", "clean", "move"}
         /\ kind = "service" => args \in ServiceArgs /\ found \in UnitStart
         /\ kind = "task" => args \in TaskArgs /\ found \in UnitStart
         /\ kind = "package" => args \in PackageArgs /\ found \in PackageStart
         /\ kind = "container" => args \in ContainerArgs /\ found \in ContainerStart
         /\ kind = "policy" => args \in PolicyArgs /\ found \in PolicyStart
         /\ kind = "clean" => args \in Paths /\ found \in FilesStart
         /\ kind = "move" => args \in Moves /\ found \in FilesStart
  BY DEF FlowInv, ArgsOf, StartOf

LEMMA FlowInit == Init => FlowInv
  BY DEF Init, FlowInv, Phases, Busy, Calm

\* The adapter, its arguments and what Propose found never change.
LEMMA Constant ==
  ASSUME FlowInv, Next
  PROVE  /\ kind' = kind /\ args' = args /\ found' = found
         /\ phase # "new" => before' = before
         /\ touched \in {"no"} \/ touched' = touched
         /\ Calm' => Calm /\ (touched' # touched => phase = "proposed" /\ touched = "no")
  BY DEF FlowInv, Next, Propose, StartApply, StartUndo, Call, CallFails, Return, Others, Clear,
         step, Busy, Calm

LEMMA FlowNext ==
  ASSUME FlowInv, [Next]_vars
  PROVE  FlowInv'
  <1>1. CASE UNCHANGED vars
    BY <1>1 DEF vars, FlowInv, Busy, Calm
  <1>2. CASE Next
    <2>1. kind' = kind /\ args' = args /\ found' = found
      BY <1>2, Constant
    <2>2. phase' \in Phases /\ again' \in BOOLEAN /\ (~Busy' => todo' = <<>>)
      BY <1>2 DEF FlowInv, Next, Propose, StartApply, StartUndo, Call, CallFails, Return, Others,
                  Clear, Busy, Phases
    <2>3. phase' # "new"
      BY <1>2 DEF FlowInv, Next, Propose, StartApply, StartUndo, Call, CallFails, Return, Others,
                  Clear, Busy
    <2>4. phase' = "proposed" => Calm' /\ (touched' = "no" => machine' = found')
      BY <1>2 DEF FlowInv, Next, Propose, StartApply, StartUndo, Call, CallFails, Return, Others,
                  Clear, Busy, Calm, step
    <2>5. phase' \notin {"undoing", "undone", "stuck"} => ~again'
      BY <1>2 DEF FlowInv, Next, Propose, StartApply, StartUndo, Call, CallFails, Return, Others,
                  Clear, Busy
    <2>6. phase' = "applying" => Calm' \/ touched' = "applying"
      BY <1>2 DEF FlowInv, Next, Propose, StartApply, StartUndo, Call, CallFails, Return, Others,
                  Clear, Busy, Calm
    <2> QED BY <2>1, <2>2, <2>3, <2>4, <2>5, <2>6 DEF FlowInv
  <1> QED BY <1>1, <1>2

LEMMA FlowInvariance == Spec => []FlowInv
  BY FlowInit, FlowNext, PTL DEF Spec
----------------------------------------------------------------------------
(* service.set and task.set: the calls. *)

UnitOps == {"start", "stop", "restart", "enable", "disable", "remove", "restore",
            "daemon-reload", "give up"}
UnitCalls == [op : UnitOps, file : Content \cup {NoFile}]

LEMMA FirstCall ==
  ASSUME NEW S, NEW x \in S, NEW s \in Seq(S)
  PROVE  <<x>> \o s # <<>> /\ Head(<<x>> \o s) = x /\ Tail(<<x>> \o s) = s
  OBVIOUS

LEMMA Calls ==
  ASSUME NEW S, NEW x \in S, NEW y \in S, NEW s \in Seq(S)
  PROVE  /\ <<x>> \o s # <<>> /\ Head(<<x>> \o s) = x /\ Tail(<<x>> \o s) = s
         /\ (<<x>> \o <<y>>) \o s # <<>> /\ Head((<<x>> \o <<y>>) \o s) = x
         /\ Tail((<<x>> \o <<y>>) \o s) = <<y>> \o s
  OBVIOUS

LEMMA OneCall ==
  ASSUME NEW op
  PROVE  Do(op) # <<>> /\ Head(Do(op)).op = op /\ Tail(Do(op)) = <<>>
  BY DEF Do

\* What a call does to a unit.
LEMMA Driven ==
  ASSUME NEW u \in Unit, NEW call, call.op \in {"start", "stop", "restart"}
  PROVE  LET v == UnitAfter(call, u)
         IN  /\ v \in Unit /\ v.file = u.file /\ v.enabled = u.enabled /\ v.loaded = Known(u)
             /\ v.active = IF call.op = "stop" THEN "inactive" ELSE "active"
  <1>1. Known(u) \in Content \cup {NoFile}
    BY DEF Known, Unit
  <1>2. CASE call.op \in {"start", "restart"}
    BY <1>1, <1>2 DEF UnitAfter, Unit
  <1>3. CASE call.op = "stop"
    BY <1>1, <1>3 DEF UnitAfter, Unit
  <1> QED BY <1>2, <1>3

LEMMA Relinked ==
  ASSUME NEW u \in Unit, NEW call, call.op \in {"enable", "disable"}
  PROVE  LET v == UnitAfter(call, u)
         IN  /\ v \in Unit /\ v.file = u.file /\ v.active = u.active /\ v.loaded = u.file
             /\ v.enabled = IF u.enabled = "static" THEN "static"
                            ELSE IF call.op = "enable" THEN "enabled" ELSE "disabled"
  <1>1. CASE call.op = "enable"
    <2>1. UnitAfter(call, u) = Linked(u, "enabled")
      BY <1>1 DEF UnitAfter
    <2> QED BY <1>1, <2>1 DEF Linked, Unit
  <1>2. CASE call.op = "disable"
    <2>1. UnitAfter(call, u) = Linked(u, "disabled")
      BY <1>2 DEF UnitAfter
    <2> QED BY <1>2, <2>1 DEF Linked, Unit
  <1> QED BY <1>1, <1>2

LEMMA Refiled ==
  ASSUME NEW u \in Unit, NEW call, call.op \in {"remove", "restore", "daemon-reload"},
         call.op = "restore" => call.file \in Content \cup {NoFile}
  PROVE  LET v == UnitAfter(call, u)
         IN  /\ v \in Unit /\ v.active = u.active /\ v.enabled = u.enabled
             /\ v.loaded = IF call.op = "daemon-reload" THEN u.file ELSE u.loaded
             /\ v.file = IF call.op = "remove" THEN NoFile
                         ELSE IF call.op = "restore" THEN call.file ELSE u.file
  <1>1. CASE call.op = "remove"
    BY <1>1 DEF UnitAfter, Unit
  <1>2. CASE call.op = "restore"
    BY <1>2 DEF UnitAfter, Unit
  <1>3. CASE call.op = "daemon-reload"
    BY <1>3 DEF UnitAfter, Unit
  <1> QED BY <1>1, <1>2, <1>3

\* What others do to a unit.
LEMMA UnitDisturbed ==
  ASSUME NEW u \in Unit, NEW v \in UnitOthers(u)
  PROVE  /\ v \in Unit /\ (v.enabled = "static" <=> u.enabled = "static")
         /\ \/ v.loaded = u.loaded /\ v.active = u.active /\ v.enabled = u.enabled
            \/ v.file = u.file /\ v.loaded \in {u.loaded, u.file, Known(u)}
  <1>1. CASE \E c \in Content \cup {NoFile} : v = [u EXCEPT !.file = c]
    BY <1>1 DEF Unit
  <1>2. CASE v = [u EXCEPT !.active = "failed"]
    BY <1>2 DEF Unit
  <1>3. ASSUME NEW op \in {"start", "stop", "enable", "disable", "daemon-reload"},
               v = UnitAfter(Do(op)[1], u)
        PROVE  /\ v \in Unit /\ (v.enabled = "static" <=> u.enabled = "static")
               /\ v.file = u.file /\ v.loaded \in {u.loaded, u.file, Known(u)}
    <2>1. Do(op)[1].op = op
      BY DEF Do
    <2>2. CASE op \in {"start", "stop"}
      BY <1>3, <2>1, <2>2, Driven
    <2>3. CASE op \in {"enable", "disable"}
      <3>1. /\ v \in Unit /\ v.file = u.file /\ v.loaded = u.file
            /\ v.enabled = IF u.enabled = "static" THEN "static"
                           ELSE IF op = "enable" THEN "enabled" ELSE "disabled"
        BY <1>3, <2>1, <2>3, Relinked
      <3> QED BY <3>1
    <2>4. CASE op = "daemon-reload"
      BY <1>3, <2>1, <2>4, Refiled
    <2> QED BY <1>3, <2>2, <2>3, <2>4
  <1>4. \/ \E c \in Content \cup {NoFile} : v = [u EXCEPT !.file = c]
        \/ v = [u EXCEPT !.active = "failed"]
        \/ \E op \in {"start", "stop", "enable", "disable", "daemon-reload"} :
              v = UnitAfter(Do(op)[1], u)
    BY DEF UnitOthers
  <1> QED BY <1>1, <1>2, <1>3, <1>4

\* The calls of a rollback, one after the other.
LEMMA UndoLeft ==
  ASSUME UnitFacts, kind \in {"service", "task"}, phase # "new"
  PROVE  /\ kind = "service" => Verb \in {<<>>, Do("start"), Do("stop")}
         /\ kind = "task" => Verb \in {<<>>, Do("enable"), Do("disable")}
         /\ Verb = <<>> <=> before.state \notin DOMAIN Inverses
         /\ Verb # <<>> =>
               /\ Tail(Verb) = <<>>
               /\ kind = "service" =>
                     before.state = IF Head(Verb).op = "start" THEN "active" ELSE "inactive"
               /\ kind = "task" =>
                     before.state = IF Head(Verb).op = "enable" THEN "enabled" ELSE "disabled"
         /\ ReloadVerb # <<>> /\ Head(ReloadVerb).op = "daemon-reload" /\ Tail(ReloadVerb) = Verb
         /\ FileReloadVerb # <<>> /\ Head(FileReloadVerb) = Restore(before.file)
         /\ Tail(FileReloadVerb) = ReloadVerb
         /\ before.file \in Content \cup {NoFile} /\ before.file = found.file
         /\ before.state = Looked(found)
  <1>1. before.file \in Content \cup {NoFile} /\ before.file = found.file
        /\ before.state = Looked(found)
    BY DEF UnitFacts, Unit
  <1>2. /\ kind = "service" => Verb \in {<<>>, Do("start"), Do("stop")}
        /\ kind = "task" => Verb \in {<<>>, Do("enable"), Do("disable")}
        /\ Verb = <<>> <=> before.state \notin DOMAIN Inverses
        /\ Verb # <<>> =>
              /\ Tail(Verb) = <<>>
              /\ kind = "service" =>
                    before.state = IF Head(Verb).op = "start" THEN "active" ELSE "inactive"
              /\ kind = "task" =>
                    before.state = IF Head(Verb).op = "enable" THEN "enabled" ELSE "disabled"
    <2>1. CASE kind = "service"
      BY <2>1, OneCall DEF Verb, StateBack, Inverses, ServiceInverse
    <2>2. CASE kind = "task"
      BY <2>2, OneCall DEF Verb, StateBack, Inverses, TaskInverse
    <2> QED BY <2>1, <2>2
  <1>3. Verb \in Seq(UnitCalls)
    <2>1. \A op \in UnitOps : Do(op) \in Seq(UnitCalls)
      BY DEF Do, UnitCalls
    <2>2. <<>> \in Seq(UnitCalls)
      OBVIOUS
    <2>3. Verb = <<>> \/ \E op \in UnitOps : Verb = Do(op)
      BY <1>2 DEF UnitOps
    <2> QED BY <2>1, <2>2, <2>3
  <1> DEFINE r == [op |-> "daemon-reload", file |-> NoFile]
             f == Restore(before.file)
  <1>4. r \in UnitCalls /\ f \in UnitCalls /\ r.op = "daemon-reload"
    <2>1. r \in UnitCalls /\ r.op = "daemon-reload"
      BY DEF UnitCalls, UnitOps
    <2>2. f \in UnitCalls
      BY <1>1 DEF UnitCalls, UnitOps, Restore
    <2> QED BY <2>1, <2>2
  <1>5. Do("daemon-reload") = <<r>>
    BY DEF Do
  <1> HIDE DEF r, f
  <1>6. ReloadVerb = <<r>> \o Verb /\ FileReloadVerb = (<<f>> \o <<r>>) \o Verb
    BY <1>5 DEF ReloadVerb, FileReloadVerb, f
  <1>7. /\ ReloadVerb # <<>> /\ Head(ReloadVerb) = r /\ Tail(ReloadVerb) = Verb
        /\ FileReloadVerb # <<>> /\ Head(FileReloadVerb) = f /\ Tail(FileReloadVerb) = ReloadVerb
    BY <1>3, <1>4, <1>6, Calls
  <1> QED BY <1>1, <1>2, <1>4, <1>7 DEF f

LEMMA UnitKind ==
  ASSUME kind \in {"service", "task"}
  PROVE  /\ \A call : Can(call) = UnitCan(call, machine) /\ After(call) = UnitAfter(call, machine)
         /\ Elsewhere = UnitOthers(machine)
         /\ UndoCalls = IF FileIsBack THEN <<>> \o Verb ELSE FileReloadVerb
         /\ Snapshot = [file |-> machine.file, state |-> Looked(machine)]
         /\ kind = "service" => ApplyCalls = ServiceApply(args)
         /\ kind = "task" => ApplyCalls = TaskApply(args, machine) /\ (Accepts <=> machine.file # NoFile)
  <1>1. CASE kind = "service"
    BY <1>1 DEF Can, After, Elsewhere, UndoCalls, ServiceUndo, FileBack, FileIsBack, Verb, Inverses,
                FileReloadVerb, Snapshot, ServiceBefore, Looked, ApplyCalls
  <1>2. CASE kind = "task"
    BY <1>2 DEF Can, After, Elsewhere, UndoCalls, TaskUndo, FileBack, FileIsBack, Verb, Inverses,
                FileReloadVerb, Snapshot, TaskBefore, Looked, ApplyCalls, Accepts, TaskAccepts
  <1> QED BY <1>1, <1>2

LEMMA Grouped ==
  ASSUME NEW S, NEW x \in S, NEW y \in S, NEW z \in S
  PROVE  /\ (<<x>> \o <<y>>) \o <<z>> = <<x>> \o (<<y>> \o <<z>>)
         /\ (<<>> \o <<y>>) \o <<z>> = <<y>> \o <<z>>
         /\ <<y>> \o <<z>> \in Seq(S)
  OBVIOUS

\* The calls of an apply, one after the other.
LEMMA TaskRemoves ==
  /\ Removing # <<>> /\ Head(Removing).op = "remove" /\ Tail(Removing) = Do("daemon-reload")
  /\ Do("disable") \o Removing # <<>> /\ Head(Do("disable") \o Removing).op = "disable"
  /\ Tail(Do("disable") \o Removing) = Removing
  /\ Do("disable") \o Do("remove") \o Do("daemon-reload") = Do("disable") \o Removing
  /\ <<>> \o Do("remove") \o Do("daemon-reload") = Removing
  <1> DEFINE d == [op |-> "disable", file |-> NoFile]
             m == [op |-> "remove", file |-> NoFile]
             r == [op |-> "daemon-reload", file |-> NoFile]
  <1>1. Do("disable") = <<d>> /\ Do("remove") = <<m>> /\ Do("daemon-reload") = <<r>>
    BY DEF Do
  <1>2. d \in UnitCalls /\ m \in UnitCalls /\ r \in UnitCalls
    BY DEF UnitCalls, UnitOps
  <1>3. d.op = "disable" /\ m.op = "remove"
    OBVIOUS
  <1> HIDE DEF d, m, r
  <1>4. Removing = <<m>> \o <<r>>
    BY <1>1 DEF Removing
  <1>5. <<r>> \in Seq(UnitCalls)
    BY <1>2
  <1>6. Removing # <<>> /\ Head(Removing) = m /\ Tail(Removing) = <<r>>
    BY <1>2, <1>4, <1>5, FirstCall
  <1>7. /\ (<<d>> \o <<m>>) \o <<r>> = <<d>> \o Removing /\ (<<>> \o <<m>>) \o <<r>> = Removing
        /\ Removing \in Seq(UnitCalls)
    BY <1>2, <1>4, Grouped
  <1>8. <<d>> \o Removing # <<>> /\ Head(<<d>> \o Removing) = d /\ Tail(<<d>> \o Removing) = Removing
    <2>1. \A s \in Seq(UnitCalls) :
             <<d>> \o s # <<>> /\ Head(<<d>> \o s) = d /\ Tail(<<d>> \o s) = s
      BY <1>2, FirstCall
    <2> QED BY <1>7, <2>1
  <1> QED BY <1>1, <1>3, <1>6, <1>7, <1>8

LEMMA UnitHead ==
  ASSUME FlowInv, UnitInv, Calm, kind \in {"service", "task"}, Busy, todo # <<>>
  PROVE  /\ Head(todo).op \in UnitOps
         /\ Head(todo).op = "restore" => phase = "undoing" /\ Head(todo).file = before.file
         /\ phase = "applying" /\ kind = "service" =>
               /\ Head(todo).op \in {"start", "stop", "restart", "enable", "disable", "give up"}
               /\ todo = ServiceApply(args) /\ Tail(todo) = <<>>
         /\ phase = "applying" /\ kind = "task" =>
               Head(todo).op \in {"enable", "disable", "remove", "daemon-reload", "give up"}
  <1>1. UnitFacts /\ (kind = "service" => ServiceFacts) /\ (kind = "task" => TaskFacts)
    BY DEF UnitInv
  <1>2. CASE phase = "undoing"
    <2>1. todo \in {FileReloadVerb, ReloadVerb, Verb}
      BY <1>1, <1>2 DEF UnitFacts
    <2>2. CASE todo = Verb
      <3>1. \E op \in {"start", "stop", "enable", "disable"} : Verb = Do(op)
        BY <1>1, <1>2, <2>2, UndoLeft
      <3> QED BY <1>2, <2>2, <3>1, OneCall DEF UnitOps
    <2>3. CASE todo = ReloadVerb
      <3>1. Head(ReloadVerb).op = "daemon-reload"
        BY <1>1, <1>2, UndoLeft
      <3> QED BY <1>2, <2>3, <3>1 DEF UnitOps
    <2>4. CASE todo = FileReloadVerb
      <3>1. Head(todo) = Restore(before.file)
        BY <1>1, <1>2, <2>4, UndoLeft
      <3>2. Head(todo).op = "restore" /\ Head(todo).file = before.file
        BY <3>1 DEF Restore
      <3> QED BY <1>2, <3>2 DEF UnitOps
    <2> QED BY <2>1, <2>2, <2>3, <2>4
  <1>3. CASE phase = "applying" /\ kind = "service"
    <2>1. todo = ServiceApply(args)
      BY <1>1, <1>3 DEF ServiceFacts
    <2>2. args \in ServiceArgs
      BY <1>3, ArgsOfKind
    <2>3. PICK op \in {"start", "stop", "restart", "enable", "disable", "give up"} : todo = Do(op)
      <3>1. CASE args = "unknown"
        BY <2>1, <3>1 DEF ServiceApply, ServiceVerb, GiveUp
      <3>2. CASE args \in DOMAIN ServiceVerb
        <4>1. ServiceVerb[args] \in {"start", "stop", "restart", "enable", "disable"}
          BY <3>2 DEF ServiceVerb
        <4>2. todo = Do(ServiceVerb[args])
          BY <2>1, <3>2 DEF ServiceApply
        <4> QED BY <4>1, <4>2
      <3> QED BY <2>2, <3>1, <3>2 DEF ServiceArgs
    <2>4. Head(todo).op = op /\ Tail(todo) = <<>>
      BY <2>3, OneCall
    <2> QED BY <1>3, <2>1, <2>4 DEF UnitOps
  <1>4. CASE phase = "applying" /\ kind = "task"
    <2>1. args \in TaskArgs
      BY <1>4, ArgsOfKind
    <2>2. todo \in {Do("enable"), Do("disable"), GiveUp, Do("disable") \o Removing, Removing,
                    Do("daemon-reload")}
      BY <1>1, <1>4, <2>1 DEF TaskFacts, TaskArgs
    <2>3. Head(todo).op \in {"enable", "disable", "remove", "daemon-reload", "give up"}
      BY <2>2, OneCall, TaskRemoves DEF GiveUp
    <2> QED BY <1>4, <2>3 DEF UnitOps
  <1> QED BY <1>2, <1>3, <1>4 DEF Busy
\* What stays as it is while the unit, the phase and the calls change.
LEMMA UnitConstant ==
  ASSUME FlowInv, UnitInv, Next, kind \in {"service", "task"}, Calm'
  PROVE  /\ Calm /\ UnitFacts /\ (kind = "service" => ServiceFacts) /\ (kind = "task" => TaskFacts)
         /\ kind' = kind /\ args' = args /\ found' = found /\ Inverses' = Inverses
         /\ phase # "new" =>
               /\ before' = before /\ Verb' = Verb /\ ReloadVerb' = ReloadVerb
               /\ FileReloadVerb' = FileReloadVerb
         /\ kind = "service" => args \in ServiceArgs
         /\ kind = "task" => args \in TaskArgs
  <1>1. /\ kind' = kind /\ args' = args /\ found' = found /\ Calm
        /\ phase # "new" => before' = before
    BY Constant
  <1>2. UnitFacts /\ (kind = "service" => ServiceFacts) /\ (kind = "task" => TaskFacts)
    BY <1>1 DEF UnitInv
  <1>3. Inverses' = Inverses
    BY <1>1 DEF Inverses
  <1>4. before' = before => Verb' = Verb /\ ReloadVerb' = ReloadVerb /\ FileReloadVerb' = FileReloadVerb
    BY <1>1, <1>3 DEF Verb, ReloadVerb, FileReloadVerb
  <1> QED BY <1>1, <1>2, <1>3, <1>4, ArgsOfKind

LEMMA UnitPropose ==
  ASSUME FlowInv, UnitInv, Next, kind \in {"service", "task"}, Calm', Propose
  PROVE  UnitFacts' /\ (kind = "service" => ServiceFacts') /\ (kind = "task" => TaskFacts')
  <1>1. /\ kind' = kind /\ found' = found /\ UnitFacts /\ (kind = "service" => ServiceFacts)
        /\ Calm
    BY UnitConstant
  <1>2. /\ machine = found /\ machine' = machine /\ phase' = "proposed"
        /\ before' = Snapshot /\ touched' = touched
    BY DEF Propose, FlowInv
  <1>3. before' = [file |-> found.file, state |-> Looked(found)]
    BY <1>2, UnitKind
  <1>4. Looked(found)' = Looked(found)
    BY <1>1 DEF Looked
  <1>5. kind = "task" => found.file # NoFile
    BY <1>2, UnitKind DEF Propose
  <1>6. UnitFacts'
    BY <1>1, <1>2, <1>3, <1>4, <1>5 DEF UnitFacts
  <1>7. kind = "service" => ServiceFacts'
    BY <1>1, <1>2 DEF UnitFacts, ServiceFacts, Fresh
  <1> QED BY <1>2, <1>6, <1>7 DEF TaskFacts

LEMMA UnitStartApply ==
  ASSUME FlowInv, UnitInv, Next, kind \in {"service", "task"}, Calm', StartApply
  PROVE  UnitFacts' /\ (kind = "service" => ServiceFacts') /\ (kind = "task" => TaskFacts')
  <1>1. /\ phase = "proposed" /\ phase' = "applying" /\ todo' = ApplyCalls
        /\ machine' = machine /\ touched' = touched
    BY DEF StartApply
  <1>2. /\ kind' = kind /\ found' = found /\ before' = before /\ args' = args
        /\ UnitFacts /\ (kind = "service" => ServiceFacts /\ args \in ServiceArgs)
        /\ kind = "task" => args \in TaskArgs
    BY <1>1, UnitConstant
  <1>3. Looked(found)' = Looked(found)
    BY <1>2 DEF Looked
  <1>4. UnitFacts'
    BY <1>1, <1>2, <1>3 DEF UnitFacts
  <1>5. ASSUME kind = "service"
        PROVE  ServiceFacts'
    <2>1. todo' = ServiceApply(args)
      BY <1>1, <1>5, UnitKind
    <2>2. ServiceApply(args) # <<>>
      BY OneCall DEF ServiceApply, GiveUp
    <2>3. Fresh' <=> Fresh
      BY <1>1, <1>2 DEF Fresh
    <2> QED BY <1>1, <1>2, <1>5, <2>1, <2>2, <2>3 DEF ServiceFacts
  <1>6. ASSUME kind = "task"
        PROVE  TaskFacts'
    <2>1. todo' = TaskApply(args, machine)
      BY <1>1, <1>6, UnitKind
    <2>2. CASE args = "enabled"
      <3>1. todo' = Do("enable")
        BY <2>1, <2>2 DEF TaskApply
      <3> QED BY <1>1, <1>2, <2>2, <3>1, OneCall DEF TaskFacts
    <2>3. CASE args = "disabled"
      <3>1. todo' = Do("disable")
        BY <2>1, <2>3 DEF TaskApply
      <3> QED BY <1>1, <1>2, <2>3, <3>1, OneCall DEF TaskFacts
    <2>4. CASE args = "absent"
      <3>1. /\ todo' # <<>>
            /\ \/ todo' \in {GiveUp, Do("disable") \o Removing}
               \/ todo' = Removing /\ machine.enabled # "enabled"
        <4>1. CASE machine.file = NoFile
          BY <2>1, <2>4, <4>1, OneCall DEF TaskApply, GiveUp
        <4>2. CASE machine.file # NoFile /\ machine.enabled = "enabled"
          <5>1. todo' = Do("disable") \o Do("remove") \o Do("daemon-reload")
            BY <2>1, <2>4, <4>2 DEF TaskApply
          <5> QED BY <5>1, TaskRemoves
        <4>3. CASE machine.file # NoFile /\ machine.enabled # "enabled"
          <5>1. todo' = <<>> \o Do("remove") \o Do("daemon-reload")
            BY <2>1, <2>4, <4>3 DEF TaskApply
          <5> QED BY <4>3, <5>1, TaskRemoves
        <4> QED BY <4>1, <4>2, <4>3
      <3> QED BY <1>1, <1>2, <2>4, <3>1 DEF TaskFacts
    <2> QED BY <1>2, <1>6, <2>2, <2>3, <2>4 DEF TaskArgs
  <1> QED BY <1>4, <1>5, <1>6

LEMMA UnitStartUndo ==
  ASSUME FlowInv, UnitInv, Next, kind \in {"service", "task"}, Calm', StartUndo
  PROVE  UnitFacts' /\ (kind = "service" => ServiceFacts') /\ (kind = "task" => TaskFacts')
  <1>1. /\ phase \in {"applied", "undoing", "undone", "stuck"} /\ phase' = "undoing"
        /\ todo' = UndoCalls /\ machine' = machine /\ touched' = touched
        /\ again' = (phase # "applied")
    BY DEF StartUndo
  <1>2. /\ kind' = kind /\ found' = found /\ before' = before /\ Verb' = Verb
        /\ FileReloadVerb' = FileReloadVerb /\ UnitFacts
        /\ (kind = "service" => ServiceFacts) /\ (kind = "task" => TaskFacts)
    BY <1>1, UnitConstant
  <1>3. Looked(found)' = Looked(found) /\ (FileIsBack' <=> FileIsBack)
    BY <1>1, <1>2 DEF Looked, FileIsBack
  <1>4. before.file = found.file /\ Verb \in {<<>>, Do("start"), Do("stop"), Do("enable"), Do("disable")}
    BY <1>1, <1>2, UndoLeft
  <1>5. todo' = IF FileIsBack THEN Verb ELSE FileReloadVerb
    <2>1. <<>> \o Verb = Verb
      BY <1>4 DEF Do
    <2> QED BY <1>1, <2>1, UnitKind
  <1>6. FileIsBack => Reread'
    <2>1. CASE phase # "applied"
      BY <1>1, <2>1 DEF Reread
    <2>2. CASE phase = "applied"
      BY <1>1, <1>2, <1>4, <2>2 DEF Reread, FileIsBack, ServiceFacts, TaskFacts, Fresh
    <2> QED BY <2>1, <2>2
  <1>7. UnitFacts'
    <2>1. \/ todo' = FileReloadVerb'
          \/ todo' = Verb' /\ FileIsBack' /\ Reread'
      BY <1>2, <1>3, <1>5, <1>6
    <2>2. /\ machine' \in Unit /\ found' \in Unit /\ found'.loaded = found'.file
          /\ (machine'.enabled = "static" <=> found'.enabled = "static")
          /\ before' = [file |-> found'.file, state |-> Looked(found)']
          /\ (kind' = "task" => found'.file # NoFile)
      BY <1>1, <1>2, <1>3 DEF UnitFacts
    <2> QED BY <1>1, <2>1, <2>2 DEF UnitFacts
  <1>8. kind = "service" => ServiceFacts'
    BY <1>1, <1>2 DEF ServiceFacts
  <1> QED BY <1>1, <1>7, <1>8 DEF TaskFacts
LEMMA UnitUndoCall ==
  ASSUME FlowInv, UnitInv, Next, kind \in {"service", "task"}, Calm', Call, phase = "undoing"
  PROVE  UnitFacts' /\ (kind = "service" => ServiceFacts') /\ (kind = "task" => TaskFacts')
  <1> DEFINE call == Head(todo)
  <1>1. /\ todo # <<>> /\ UnitCan(call, machine) /\ machine' = UnitAfter(call, machine)
        /\ todo' = Tail(todo) /\ phase' = "undoing" /\ touched' = touched /\ again' = again
    BY UnitKind DEF Call
  <1> HIDE DEF call
  <1>2. /\ kind' = kind /\ found' = found /\ before' = before /\ Verb' = Verb
        /\ ReloadVerb' = ReloadVerb /\ FileReloadVerb' = FileReloadVerb /\ Inverses' = Inverses
        /\ UnitFacts /\ (kind = "service" => ServiceFacts) /\ (kind = "task" => TaskFacts)
    BY UnitConstant
  <1>3. Looked(found)' = Looked(found)
    BY <1>2 DEF Looked
  <1>4. /\ machine \in Unit /\ found \in Unit /\ found.loaded = found.file
        /\ machine.enabled = "static" <=> found.enabled = "static"
        /\ before = [file |-> found.file, state |-> Looked(found)]
        /\ kind = "task" => found.file # NoFile
    BY <1>2 DEF UnitFacts
  <1>5. before.file \in Content \cup {NoFile} /\ before.file = found.file
    BY <1>2, UndoLeft
  <1>6. /\ machine' \in Unit /\ (machine'.enabled = "static" <=> found.enabled = "static")
        /\ \/ todo' = ReloadVerb' /\ machine'.file = before'.file
           \/ todo' = Verb' /\ FileIsBack' /\ Reread'
           \/ todo' = <<>> /\ FileIsBack' /\ Reread' /\ StateIsBack'
        /\ machine'.file \in {machine.file, found.file}
    <2>1. CASE todo = FileReloadVerb
      <3>1. call = Restore(before.file) /\ todo' = ReloadVerb
        BY <1>1, <1>2, <2>1, UndoLeft DEF call
      <3>2. call.op = "restore" /\ call.file = before.file
        BY <3>1 DEF Restore
      <3> QED BY <1>1, <1>2, <1>4, <1>5, <3>1, <3>2, Refiled
    <2>2. CASE todo = ReloadVerb /\ machine.file = before.file
      <3>1. call.op = "daemon-reload" /\ todo' = Verb
        BY <1>1, <1>2, <2>2, UndoLeft DEF call
      <3> QED BY <1>1, <1>2, <1>4, <2>2, <3>1, Refiled DEF FileIsBack, Reread
    <2>3. CASE todo = Verb /\ FileIsBack /\ Reread
      <3>1. /\ todo' = <<>>
            /\ kind = "service" => call.op \in {"start", "stop"}
            /\ kind = "task" => call.op \in {"enable", "disable"}
            /\ kind = "service" =>
                  found.active = IF call.op = "start" THEN "active" ELSE "inactive"
            /\ kind = "task" =>
                  found.enabled = IF call.op = "enable" THEN "enabled" ELSE "disabled"
        <4>1. /\ kind = "service" => Verb \in {Do("start"), Do("stop")}
              /\ kind = "task" => Verb \in {Do("enable"), Do("disable")}
              /\ Tail(Verb) = <<>>
              /\ kind = "service" =>
                    before.state = IF Head(Verb).op = "start" THEN "active" ELSE "inactive"
              /\ kind = "task" =>
                    before.state = IF Head(Verb).op = "enable" THEN "enabled" ELSE "disabled"
              /\ before.state = Looked(found)
          BY <1>1, <1>2, <2>3, UndoLeft
        <4> QED BY <1>1, <2>3, <4>1, OneCall DEF call, Looked
      <3>2. CASE kind = "service"
        <4>1. /\ machine' \in Unit /\ machine'.file = machine.file
              /\ machine'.enabled = machine.enabled /\ machine'.loaded = Known(machine)
              /\ machine'.active = found.active
          BY <1>1, <1>4, <3>1, <3>2, Driven
        <4>2. Reread'
          BY <1>1, <2>3, <4>1 DEF Reread, Known
        <4>3. StateIsBack'
          BY <1>2, <1>4, <3>2, <4>1 DEF StateIsBack, Looked
        <4>4. FileIsBack'
          BY <1>2, <2>3, <4>1 DEF FileIsBack
        <4> QED BY <1>4, <3>1, <4>1, <4>2, <4>3, <4>4
      <3>3. CASE kind = "task"
        <4>1. /\ machine' \in Unit /\ machine'.file = machine.file
              /\ machine'.loaded = machine.file
              /\ machine'.enabled = found.enabled
          BY <1>1, <1>4, <3>1, <3>3, Relinked
        <4>2. Reread'
          BY <4>1 DEF Reread
        <4>3. StateIsBack'
          BY <1>2, <1>4, <3>3, <4>1 DEF StateIsBack, Looked
        <4>4. FileIsBack'
          BY <1>2, <2>3, <4>1 DEF FileIsBack
        <4> QED BY <1>4, <3>1, <4>1, <4>2, <4>3, <4>4
      <3> QED BY <3>2, <3>3
    <2> QED BY <1>1, <1>2, <2>1, <2>2, <2>3 DEF UnitFacts
  <1>7. UnitFacts'
    BY <1>1, <1>2, <1>3, <1>4, <1>6 DEF UnitFacts
  <1>8. kind = "service" => ServiceFacts'
    BY <1>1, <1>2, <1>6 DEF ServiceFacts
  <1> QED BY <1>1, <1>7, <1>8 DEF TaskFacts

LEMMA ServiceCall ==
  ASSUME FlowInv, UnitInv, Next, kind = "service", Calm', Call, phase = "applying"
  PROVE  UnitFacts' /\ ServiceFacts'
  <1> DEFINE call == Head(todo)
  <1>1. /\ todo # <<>> /\ UnitCan(call, machine) /\ machine' = UnitAfter(call, machine)
        /\ phase' = "applying" /\ touched' = touched
        /\ todo' = <<>> /\ todo = ServiceApply(args)
        /\ call.op \in {"start", "stop", "restart", "enable", "disable", "give up"}
    BY UnitKind, UnitHead, UnitConstant DEF Call, Busy
  <1> HIDE DEF call
  <1>0. machine' = UnitAfter(call, machine)
    BY <1>1
  <1>2. /\ kind' = kind /\ args' = args /\ found' = found /\ before' = before
        /\ UnitFacts /\ ServiceFacts /\ args \in ServiceArgs
    BY UnitConstant
  <1>3. Looked(found)' = Looked(found)
    BY <1>2 DEF Looked
  <1>4. /\ machine \in Unit
        /\ machine.enabled = "static" <=> found.enabled = "static"
    BY <1>2 DEF UnitFacts
  <1>5. call.op # "give up"
    BY <1>1 DEF UnitCan
  <1>6. args \in DOMAIN ServiceVerb /\ call.op = ServiceVerb[args]
    BY <1>1, <1>2, <1>5, OneCall DEF call, ServiceApply, ServiceArgs, GiveUp
  <1>7. /\ machine' \in Unit /\ machine'.file = machine.file
        /\ (machine'.enabled = "static" <=> machine.enabled = "static")
        /\ machine'.loaded \in {machine.file, Known(machine)}
    <2>1. CASE call.op \in {"start", "stop", "restart"}
      <3>1. /\ machine' \in Unit /\ machine'.file = machine.file
            /\ machine'.enabled = machine.enabled /\ machine'.loaded = Known(machine)
        BY <1>0, <1>4, <2>1, Driven
      <3> QED BY <3>1
    <2>2. CASE call.op \in {"enable", "disable"}
      <3>1. /\ machine' \in Unit /\ machine'.file = machine.file /\ machine'.loaded = machine.file
            /\ machine'.enabled = IF machine.enabled = "static" THEN "static"
                                  ELSE IF call.op = "enable" THEN "enabled" ELSE "disabled"
        BY <1>0, <1>4, <2>2, Relinked
      <3> QED BY <3>1
    <2> QED BY <1>1, <1>5, <2>1, <2>2
  <1>8. ServiceMeets(args, machine')
    <2>1. CASE args \in {"started", "stopped", "restarted"}
      <3>1. call.op = IF args = "stopped" THEN "stop" ELSE IF args = "started" THEN "start" ELSE "restart"
        BY <1>6, <2>1 DEF ServiceVerb
      <3>2. machine'.active = IF args = "stopped" THEN "inactive" ELSE "active"
        BY <1>0, <1>4, <2>1, <3>1, Driven
      <3> QED BY <2>1, <3>2 DEF ServiceMeets
    <2>2. CASE args \in {"enabled", "disabled"}
      <3>1. call.op = IF args = "enabled" THEN "enable" ELSE "disable"
        BY <1>6, <2>2 DEF ServiceVerb
      <3>2. machine'.enabled \in {args, "static"}
        BY <1>0, <1>4, <2>2, <3>1, Relinked
      <3> QED BY <2>2, <3>2 DEF ServiceMeets
    <2> QED BY <1>6, <2>1, <2>2 DEF ServiceVerb
  <1>9. Fresh'
    BY <1>1, <1>2, <1>7 DEF Fresh, Known, ServiceFacts
  <1>10. touched = "no" => machine.file # NoFile
    <2>1. touched = "no" => machine.file = found.file
      BY <1>2 DEF ServiceFacts
    <2>2. CASE call.op \in {"enable", "disable"}
      BY <1>1, <2>2 DEF UnitCan
    <2>3. CASE call.op \in {"start", "stop", "restart"}
      <3>1. Known(machine) # NoFile
        BY <1>1, <2>3 DEF UnitCan
      <3> QED BY <1>1, <1>2, <2>1, <3>1 DEF Known, ServiceFacts, Fresh
    <2> QED BY <1>1, <1>5, <2>2, <2>3
  <1>11. UnitFacts'
    BY <1>1, <1>2, <1>3, <1>4, <1>7 DEF UnitFacts
  <1>12. ServiceFacts'
    BY <1>1, <1>2, <1>7, <1>8, <1>9, <1>10 DEF ServiceFacts
  <1> QED BY <1>11, <1>12

LEMMA TaskCall ==
  ASSUME FlowInv, UnitInv, Next, kind = "task", Calm', Call, phase = "applying"
  PROVE  UnitFacts' /\ TaskFacts'
  <1> DEFINE call == Head(todo)
  <1>1. /\ todo # <<>> /\ UnitCan(call, machine) /\ machine' = UnitAfter(call, machine)
        /\ phase' = "applying" /\ touched' = touched /\ todo' = Tail(todo)
        /\ call.op \in {"enable", "disable", "remove", "daemon-reload", "give up"}
    BY UnitKind, UnitHead, UnitConstant DEF Call, Busy
  <1> HIDE DEF call
  <1>0. machine' = UnitAfter(call, machine)
    BY <1>1
  <1>2. /\ kind' = kind /\ args' = args /\ found' = found /\ before' = before
        /\ UnitFacts /\ TaskFacts /\ args \in TaskArgs
    BY UnitConstant
  <1>3. Looked(found)' = Looked(found)
    BY <1>2 DEF Looked
  <1>4. /\ machine \in Unit
        /\ machine.enabled = "static" <=> found.enabled = "static"
    BY <1>2 DEF UnitFacts
  <1>5. call.op # "give up"
    BY <1>1 DEF UnitCan
  <1>6. machine' \in Unit /\ (machine'.enabled = "static" <=> machine.enabled = "static")
    <2>1. CASE call.op \in {"enable", "disable"}
      <3>1. /\ machine' \in Unit
            /\ machine'.enabled = IF machine.enabled = "static" THEN "static"
                                  ELSE IF call.op = "enable" THEN "enabled" ELSE "disabled"
        BY <1>0, <1>4, <2>1, Relinked
      <3> QED BY <3>1
    <2>2. CASE call.op \in {"remove", "daemon-reload"}
      <3>1. /\ machine' \in Unit
            /\ machine'.enabled = machine.enabled
        BY <1>0, <1>4, <2>2, Refiled
      <3> QED BY <3>1
    <2> QED BY <1>1, <1>5, <2>1, <2>2
  <1>7. UnitFacts'
    BY <1>1, <1>2, <1>3, <1>4, <1>6 DEF UnitFacts
  <1>8. CASE args \in {"enabled", "disabled"}
    <2>1. todo = IF args = "enabled" THEN Do("enable") ELSE Do("disable")
      BY <1>1, <1>2, <1>8 DEF TaskFacts
    <2>2. todo' = <<>> /\ call.op = IF args = "enabled" THEN "enable" ELSE "disable"
      BY <1>1, <2>1, OneCall DEF call
    <2>3. machine'.enabled \in {args, "static"} /\ machine'.loaded = machine'.file
      BY <1>0, <1>4, <1>8, <2>2, Relinked
    <2>4. TaskMeets(args, machine')
      BY <1>8, <2>3 DEF TaskMeets
    <2> QED BY <1>1, <1>2, <1>7, <1>8, <2>2, <2>3, <2>4 DEF TaskFacts
  <1>9. CASE args = "absent"
    <2>1. \/ todo' = Removing /\ machine'.enabled # "enabled"
          \/ /\ todo' = Do("daemon-reload")
             /\ machine'.file = NoFile /\ machine'.enabled # "enabled"
          \/ todo' = <<>> /\ TaskMeets(args, machine') /\ machine'.loaded = machine'.file
      <3>1. CASE todo = GiveUp
        BY <1>1, <1>5, <3>1, OneCall DEF GiveUp, call
      <3>2. CASE todo = Do("disable") \o Removing
        <4>1. call.op = "disable" /\ todo' = Removing
          BY <1>1, <3>2, TaskRemoves DEF call
        <4>2. machine'.enabled \in {"static", "disabled"}
          BY <1>0, <1>4, <4>1, Relinked
        <4> QED BY <4>1, <4>2
      <3>3. CASE todo = Removing /\ machine.enabled # "enabled"
        <4>1. call.op = "remove" /\ todo' = Do("daemon-reload")
          BY <1>1, <3>3, TaskRemoves DEF call
        <4> QED BY <1>0, <1>4, <3>3, <4>1, Refiled
      <3>4. CASE todo = Do("daemon-reload") /\ machine.file = NoFile /\ machine.enabled # "enabled"
        <4>1. call.op = "daemon-reload" /\ todo' = <<>>
          BY <1>1, <3>4, OneCall DEF call
        <4> QED BY <1>0, <1>4, <1>9, <3>4, <4>1, Refiled DEF TaskMeets
      <3> QED BY <1>1, <1>2, <1>9, <3>1, <3>2, <3>3, <3>4 DEF TaskFacts
    <2>2. Removing # <<>> /\ Do("daemon-reload") # <<>>
      BY TaskRemoves, OneCall
    <2> QED BY <1>1, <1>2, <1>7, <1>9, <2>1, <2>2 DEF TaskFacts
  <1> QED BY <1>2, <1>8, <1>9 DEF TaskArgs
\* A call that was made and is reported failed leaves a unit, its file the one it
\* had or the one of the snapshot.
LEMMA UnitMade ==
  ASSUME FlowInv, UnitInv, Calm, UnitFacts, kind \in {"service", "task"}, Busy, todo # <<>>,
         UnitCan(Head(todo), machine), phase # "new"
  PROVE  LET v == UnitAfter(Head(todo), machine)
         IN  /\ v \in Unit
             /\ v.enabled = "static" <=> machine.enabled = "static"
             /\ kind = "service" => v.file \in {machine.file, found.file}
  <1> DEFINE call == Head(todo)
             v == UnitAfter(call, machine)
  <1>1. /\ call.op \in UnitOps
        /\ call.op = "restore" => phase = "undoing" /\ call.file = before.file
        /\ phase = "applying" /\ kind = "service" =>
              call.op \in {"start", "stop", "restart", "enable", "disable", "give up"}
    BY UnitHead
  <1>2. machine \in Unit /\ before.file \in Content \cup {NoFile} /\ before.file = found.file
    BY UndoLeft DEF UnitFacts
  <1>3. call.op # "give up"
    BY DEF UnitCan
  <1>8. ASSUME kind = "service" PROVE call.op # "remove"
    <2>1. CASE phase = "applying"
      BY <1>1, <1>8, <2>1
    <2>2. CASE phase = "undoing"
      <3>1. todo \in {FileReloadVerb, ReloadVerb, Verb}
        BY <2>2 DEF UnitFacts
      <3>2. CASE todo = FileReloadVerb
        BY <3>2, UndoLeft DEF Restore
      <3>3. CASE todo = ReloadVerb
        BY <3>3, UndoLeft
      <3>4. CASE todo = Verb
        BY <1>8, <3>4, UndoLeft, OneCall
      <3> QED BY <3>1, <3>2, <3>3, <3>4
    <2> QED BY <2>1, <2>2 DEF Busy
  <1> HIDE DEF call
  <1>4. CASE call.op \in {"start", "stop", "restart"}
    <2>1. v \in Unit /\ v.file = machine.file /\ v.enabled = machine.enabled
      BY <1>2, <1>4, Driven
    <2> QED BY <2>1 DEF call
  <1>5. CASE call.op \in {"enable", "disable"}
    <2>1. /\ v \in Unit /\ v.file = machine.file
          /\ v.enabled = IF machine.enabled = "static" THEN "static"
                         ELSE IF call.op = "enable" THEN "enabled" ELSE "disabled"
      BY <1>2, <1>5, Relinked
    <2> QED BY <2>1 DEF call
  <1>6. CASE call.op \in {"remove", "restore", "daemon-reload"}
    <2>3. machine \in Unit /\ (call.op = "restore" => call.file \in Content \cup {NoFile})
      BY <1>1, <1>2
    <2>1. /\ v \in Unit /\ v.enabled = machine.enabled
          /\ v.file = IF call.op = "remove" THEN NoFile
                      ELSE IF call.op = "restore" THEN call.file ELSE machine.file
      BY <1>6, <2>3, Refiled
    <2>2. kind = "service" => v.file \in {machine.file, found.file}
      BY <1>1, <1>2, <1>6, <1>8, <2>1
    <2> QED BY <2>1, <2>2 DEF call
  <1> QED BY <1>1, <1>3, <1>4, <1>5, <1>6 DEF UnitOps

LEMMA UnitCallFails ==
  ASSUME FlowInv, UnitInv, Next, kind \in {"service", "task"}, Calm', CallFails
  PROVE  UnitFacts' /\ (kind = "service" => ServiceFacts') /\ (kind = "task" => TaskFacts')
  <1>1. /\ todo # <<>> /\ Busy /\ touched' = touched
        /\ phase' = IF phase = "applying" THEN "failed" ELSE "stuck"
        /\ \/ machine' = machine
           \/ UnitCan(Head(todo), machine) /\ machine' = UnitAfter(Head(todo), machine)
    BY UnitKind DEF CallFails
  <1>2. phase \in {"applying", "undoing"} /\ phase' \in {"failed", "stuck"}
    BY <1>1 DEF Busy
  <1>3. /\ kind' = kind /\ found' = found /\ before' = before /\ Calm
        /\ UnitFacts /\ (kind = "service" => ServiceFacts)
    BY <1>2, UnitConstant
  <1>4. /\ machine' \in Unit
        /\ machine'.enabled = "static" <=> machine.enabled = "static"
        /\ kind = "service" => machine'.file \in {machine.file, found.file}
    <2>1. CASE machine' = machine
      BY <1>3, <2>1 DEF UnitFacts
    <2>2. CASE UnitCan(Head(todo), machine) /\ machine' = UnitAfter(Head(todo), machine)
      BY <1>1, <1>2, <1>3, <2>2, UnitMade
    <2> QED BY <1>1, <2>1, <2>2
  <1>5. Looked(found)' = Looked(found)
    BY <1>3 DEF Looked
  <1>6. UnitFacts'
    BY <1>2, <1>3, <1>4, <1>5 DEF UnitFacts
  <1>7. ASSUME kind = "service", touched = "no"
        PROVE  machine'.file = found.file /\ (phase' = "stuck" => machine'.file # NoFile)
    <2>1. machine.file = found.file /\ (phase = "undoing" => machine.file # NoFile)
      BY <1>3, <1>7 DEF ServiceFacts
    <2> QED BY <1>1, <1>2, <1>4, <1>7, <2>1
  <1>8. kind = "service" => ServiceFacts'
    BY <1>1, <1>2, <1>3, <1>7 DEF ServiceFacts
  <1> QED BY <1>2, <1>6, <1>8 DEF TaskFacts

LEMMA UnitReturn ==
  ASSUME FlowInv, UnitInv, Next, kind \in {"service", "task"}, Calm', Return
  PROVE  UnitFacts' /\ (kind = "service" => ServiceFacts') /\ (kind = "task" => TaskFacts')
  <1>1. /\ todo = <<>> /\ machine' = machine /\ touched' = touched /\ again' = again
        /\ \/ phase = "applying" /\ phase' = "applied"
           \/ phase = "undoing" /\ phase' = "undone"
    BY DEF Return, Busy
  <1>2. /\ kind' = kind /\ found' = found /\ before' = before /\ args' = args /\ Inverses' = Inverses
        /\ UnitFacts /\ (kind = "service" => ServiceFacts) /\ (kind = "task" => TaskFacts)
        /\ kind = "task" => args \in TaskArgs
    BY <1>1, UnitConstant
  <1>3. /\ Looked(found)' = Looked(found) /\ (FileIsBack' <=> FileIsBack) /\ (Fresh' <=> Fresh)
        /\ (StateIsBack' <=> StateIsBack) /\ (Reread' <=> Reread)
    BY <1>1, <1>2 DEF Looked, FileIsBack, Fresh, StateIsBack, Reread
  <1>4. phase = "undoing" => FileIsBack /\ Reread /\ StateIsBack
    <2>1. phase = "undoing" =>
             /\ Verb = <<>> => before.state \notin DOMAIN Inverses
             /\ ReloadVerb # <<>> /\ FileReloadVerb # <<>>
      BY <1>2, UndoLeft
    <2> QED BY <1>1, <1>2, <2>1 DEF UnitFacts, StateIsBack
  <1>5. UnitFacts'
    BY <1>1, <1>2, <1>3, <1>4 DEF UnitFacts
  <1>6. kind = "service" => ServiceFacts'
    BY <1>1, <1>2, <1>3 DEF ServiceFacts
  <1>7. kind = "task" => TaskFacts'
    BY <1>1, <1>2 DEF TaskFacts
  <1> QED BY <1>5, <1>6, <1>7

LEMMA UnitOthersAct ==
  ASSUME FlowInv, UnitInv, Next, kind \in {"service", "task"}, Calm', Others
  PROVE  UnitFacts' /\ (kind = "service" => ServiceFacts') /\ (kind = "task" => TaskFacts')
  <1>1. /\ phase = "proposed" /\ phase' = phase /\ touched' = "proposed" /\ machine = found
        /\ machine' \in UnitOthers(machine)
    BY UnitKind DEF Others, Calm, FlowInv
  <1>2. /\ kind' = kind /\ found' = found /\ before' = before
        /\ UnitFacts /\ (kind = "service" => ServiceFacts)
    BY <1>1, UnitConstant
  <1>3. Looked(found)' = Looked(found)
    BY <1>2 DEF Looked
  <1>4. machine \in Unit /\ machine.loaded = machine.file
    BY <1>1, <1>2 DEF UnitFacts
  <1>5. /\ machine' \in Unit
        /\ machine'.enabled = "static" <=> machine.enabled = "static"
        /\ machine'.loaded = machine.loaded \/ machine'.loaded = machine'.file
    BY <1>1, <1>4, UnitDisturbed DEF Known
  <1>6. UnitFacts'
    BY <1>1, <1>2, <1>3, <1>5 DEF UnitFacts
  <1>7. Fresh' \/ machine'.loaded = NoFile
    BY <1>1, <1>2, <1>4, <1>5 DEF Fresh
  <1>8. kind = "service" => ServiceFacts'
    BY <1>1, <1>2, <1>7 DEF ServiceFacts
  <1> QED BY <1>1, <1>6, <1>8 DEF TaskFacts

LEMMA UnitNext ==
  ASSUME FlowInv, UnitInv, Next
  PROVE  UnitInv'
  <1> SUFFICES ASSUME kind \in {"service", "task"}, Calm'
               PROVE  UnitFacts' /\ (kind = "service" => ServiceFacts') /\ (kind = "task" => TaskFacts')
    BY Constant DEF UnitInv
  <1>1. ASSUME Call
        PROVE  UnitFacts' /\ (kind = "service" => ServiceFacts') /\ (kind = "task" => TaskFacts')
    <2>1. phase \in {"applying", "undoing"}
      BY <1>1 DEF Call, Busy
    <2> QED BY <1>1, <2>1, UnitUndoCall, ServiceCall, TaskCall
  <1>2. ~Clear
    BY DEF Clear
  <1> QED
    BY <1>1, <1>2, UnitPropose, UnitStartApply, UnitStartUndo, UnitCallFails, UnitReturn,
       UnitOthersAct DEF Next

LEMMA UnitInit == Init => UnitInv
  <1> SUFFICES ASSUME Init, kind \in {"service", "task"}
               PROVE  UnitFacts /\ ServiceFacts /\ TaskFacts
    BY DEF UnitInv
  <1>1. machine \in UnitStart /\ found = machine /\ phase = "new"
    BY DEF Init, StartOf
  <1>2. machine \in Unit /\ machine.loaded = machine.file
    BY <1>1 DEF UnitStart
  <1> QED BY <1>1, <1>2 DEF UnitFacts, ServiceFacts, TaskFacts

\* The inductive invariant of service.set and task.set.
LEMMA UnitInvariance == Spec => []UnitInv
  <1>1. FlowInv /\ UnitInv /\ [Next]_vars => UnitInv'
    <2>1. ASSUME UnitInv, UNCHANGED vars PROVE UnitInv'
      BY <2>1 DEF vars, UnitInv, UnitFacts, ServiceFacts, TaskFacts, Calm, Looked, Fresh, Reread,
                  FileIsBack, StateIsBack, Inverses, Verb, ReloadVerb, FileReloadVerb
    <2> QED BY <2>1, UnitNext
  <1> QED BY UnitInit, FlowInvariance, <1>1, PTL DEF Spec
LEMMA UnitApplied ==
  ASSUME FlowInv, UnitInv, kind \in {"service", "task"}
  PROVE  AppliedIsDesired
  <1> SUFFICES ASSUME phase = "applied", Calm PROVE Meets
    BY DEF AppliedIsDesired, Calm
  <1> QED BY DEF UnitInv, ServiceFacts, TaskFacts, Meets

LEMMA UnitUndone ==
  ASSUME FlowInv, UnitInv, kind \in {"service", "task"}
  PROVE  UndoneIsRestored
  <1> SUFFICES ASSUME phase = "undone", touched = "no" PROVE Restored
    BY DEF UndoneIsRestored
  <1>1. UnitFacts /\ (kind = "service" => ServiceFacts)
    BY DEF UnitInv, Calm
  <1>2. FileIsBack /\ Reread /\ StateIsBack /\ before.file = found.file /\ before.state = Looked(found)
    BY <1>1, UndoLeft DEF UnitFacts
  <1>3. machine.file = found.file
    BY <1>1, <1>2 DEF FileIsBack, UnitFacts, ServiceFacts
  <1>4. CASE kind = "service"
    BY <1>2, <1>3, <1>4 DEF Restored, ServiceRestored, StateIsBack, Inverses, Looked
  <1>5. CASE kind = "task"
    BY <1>2, <1>3, <1>5 DEF Restored, TaskRestored, StateIsBack, Inverses, Looked
  <1> QED BY <1>4, <1>5

LEMMA UnitUndoable ==
  ASSUME FlowInv, UnitInv, kind \in {"service", "task"}
  PROVE  UndoIsPossible
  <1> SUFFICES ASSUME phase = "undoing", todo # <<>>, touched = "no", ~again PROVE Can(Head(todo))
    BY DEF UndoIsPossible
  <1>1. UnitFacts /\ (kind = "service" => ServiceFacts)
    BY DEF UnitInv, Calm
  <1>2. Can(Head(todo)) = UnitCan(Head(todo), machine)
    BY UnitKind
  <1>3. CASE todo = FileReloadVerb
    <2>1. Head(todo) = Restore(before.file)
      BY <1>1, <1>3, UndoLeft
    <2>2. Head(todo).op = "restore"
      BY <2>1 DEF Restore
    <2> QED BY <1>2, <2>2 DEF UnitCan
  <1>4. CASE todo = ReloadVerb
    BY <1>1, <1>2, <1>4, UndoLeft DEF UnitCan
  <1>5. CASE todo = Verb /\ FileIsBack
    <2>1. machine.file # NoFile
      BY <1>1, <1>5, UndoLeft DEF UnitFacts, ServiceFacts, FileIsBack
    <2>2. PICK op \in {"start", "stop", "enable", "disable"} : todo = Do(op)
      BY <1>1, <1>5, UndoLeft
    <2>3. Head(todo).op = op
      BY <2>2, OneCall
    <2> QED BY <1>2, <2>1, <2>3 DEF UnitCan, Known
  <1> QED BY <1>1, <1>3, <1>4, <1>5 DEF UnitFacts

\* Only a call of the adapter changes the unit, or somebody else.
LEMMA UnitOnlyCalls ==
  ASSUME FlowInv, Next, Own, kind \in {"service", "task"}, machine' # machine
  PROVE  /\ todo # <<>> /\ Busy /\ UnitCan(Head(todo), machine)
         /\ machine' = UnitAfter(Head(todo), machine)
  <1>1. CASE Call \/ CallFails
    BY <1>1, UnitKind DEF Call, CallFails
  <1>2. CASE Others
    BY <1>2 DEF Others, Own
  <1>3. ~(Propose \/ StartApply \/ StartUndo \/ Return \/ Clear)
    BY DEF Propose, StartApply, StartUndo, Return, Clear
  <1> QED BY <1>1, <1>2, <1>3 DEF Next

LEMMA UnitOrder ==
  ASSUME FlowInv, UnitInv, [Next]_vars, Own
  PROVE  /\ Gone /\ touched # "applying" => machine.enabled # "enabled"
         /\ Acted /\ touched \in {"no", "proposed"} => machine.loaded = machine.file
  <1>1. ASSUME Gone, touched # "applying"
        PROVE  machine.enabled # "enabled"
    <2>1. kind = "task" /\ phase = "applying" /\ Calm /\ machine'.file # machine.file
      BY <1>1 DEF Gone, FlowInv
    <2> DEFINE call == Head(todo)
    <2>2. /\ machine' = UnitAfter(call, machine) /\ todo # <<>> /\ UnitCan(call, machine)
          /\ TaskFacts /\ machine \in Unit /\ args \in TaskArgs
      BY <2>1, UnitOnlyCalls, ArgsOfKind DEF UnitInv, UnitFacts, vars
    <2>3. call.op \in {"enable", "disable", "remove", "daemon-reload", "give up"}
      BY <2>1, <2>2, UnitHead DEF Busy
    <2> HIDE DEF call
    <2>4. machine' = UnitAfter(call, machine) /\ machine \in Unit
      BY <2>2
    <2>5. call.op \notin {"enable", "disable"}
      BY <2>1, <2>4, Relinked
    <2>6. call.op # "daemon-reload"
      BY <2>1, <2>4, Refiled
    <2>7. call.op # "give up"
      BY <2>2 DEF UnitCan
    <2>8. call.op = "remove"
      BY <2>3, <2>5, <2>6, <2>7
    <2>9. todo = Removing /\ machine.enabled # "enabled"
      <3>1. todo \notin {Do("enable"), Do("disable"), Do("daemon-reload"), GiveUp,
                         Do("disable") \o Removing}
        BY <2>8, OneCall, TaskRemoves DEF call, GiveUp
      <3>2. CASE args = "absent"
        BY <2>1, <2>2, <3>1, <3>2 DEF TaskFacts
      <3>3. CASE args \in {"enabled", "disabled"}
        BY <2>1, <2>2, <3>1, <3>3 DEF TaskFacts
      <3> QED BY <2>2, <3>2, <3>3 DEF TaskArgs
    <2> QED BY <2>9
  <1>2. ASSUME Acted, Calm
        PROVE  machine.loaded = machine.file
    <2>1. /\ kind \in {"service", "task"} /\ phase = "undoing" /\ ~again
          /\ machine'.active # machine.active \/ machine'.enabled # machine.enabled
      BY <1>2 DEF Acted
    <2> DEFINE call == Head(todo)
    <2>2. UnitFacts
      BY <1>2, <2>1 DEF UnitInv
    <2>3. machine' = UnitAfter(call, machine) /\ machine \in Unit
      BY <2>1, <2>2, UnitOnlyCalls DEF UnitFacts, vars
    <2>4. todo # <<>>
      BY <2>1, UnitOnlyCalls DEF vars
    <2>5. todo # FileReloadVerb
      <3>1. ASSUME todo = FileReloadVerb PROVE FALSE
        <4>1. call.op = "restore" /\ call.file \in Content \cup {NoFile}
          BY <2>1, <2>2, <3>1, UndoLeft DEF Restore
        <4> HIDE DEF call
        <4> QED BY <2>1, <2>3, <4>1, Refiled
      <3> QED BY <3>1
    <2>6. todo # ReloadVerb
      <3>1. ASSUME todo = ReloadVerb PROVE FALSE
        <4>1. call.op = "daemon-reload"
          BY <2>1, <2>2, <3>1, UndoLeft
        <4> HIDE DEF call
        <4> QED BY <2>1, <2>3, <4>1, Refiled
      <3> QED BY <3>1
    <2> QED BY <2>1, <2>2, <2>4, <2>5, <2>6 DEF UnitFacts, Reread
  <1> QED BY <1>1, <1>2 DEF Calm

\* Applying task.set never removes the file of a timer that is enabled, and a
\* rollback of task.set or service.set issues a verb only when systemd has read
\* the file (applyAbsent, rollbackUnit).
THEOREM UnitsAreInOrder == Spec => UnitsInOrder
  <1>1. FlowInv /\ UnitInv /\ [Next]_vars =>
           [Own => /\ Gone /\ touched # "applying" => machine.enabled # "enabled"
                   /\ Acted /\ touched \in {"no", "proposed"} => machine.loaded = machine.file]_vars
    BY UnitOrder
  <1> QED BY FlowInvariance, UnitInvariance, <1>1, PTL DEF Spec, UnitsInOrder
----------------------------------------------------------------------------
(* policy.set *)

LEMMA Pair ==
  ASSUME NEW x, NEW y
  PROVE  /\ <<x, y>> # <<>> /\ Head(<<x, y>>) = x /\ Tail(<<x, y>>) = <<y>>
         /\ <<y>> # <<>> /\ Head(<<y>>) = y /\ Tail(<<y>>) = <<>>
  OBVIOUS

LEMMA PolicyCalls ==
  ASSUME NEW c
  PROVE  /\ PutPolicy(c) # <<>> /\ Tail(PutPolicy(c)) = ReadBack(c)
         /\ Head(PutPolicy(c)).op = "put" /\ Head(PutPolicy(c)).content = c
         /\ ReadBack(c) # <<>> /\ Tail(ReadBack(c)) = <<>>
         /\ Head(ReadBack(c)).op = "read back" /\ Head(ReadBack(c)).content = c
         /\ Refuse # <<>> /\ Head(Refuse).op = "refuse"
         /\ \A d : PutPolicy(c) # ReadBack(d)
  <1>1. /\ PutPolicy(c) # <<>> /\ Tail(PutPolicy(c)) = ReadBack(c)
        /\ Head(PutPolicy(c)).op = "put" /\ Head(PutPolicy(c)).content = c
        /\ ReadBack(c) # <<>> /\ Tail(ReadBack(c)) = <<>>
        /\ Head(ReadBack(c)).op = "read back" /\ Head(ReadBack(c)).content = c
    <2> DEFINE p == [op |-> "put", content |-> c]
               r == [op |-> "read back", content |-> c]
    <2>1. p.op = "put" /\ p.content = c /\ r.op = "read back" /\ r.content = c
      OBVIOUS
    <2>2. PutPolicy(c) = <<p, r>> /\ ReadBack(c) = <<r>>
      BY DEF PutPolicy, ReadBack
    <2> HIDE DEF p, r
    <2>3. /\ <<p, r>> # <<>> /\ Head(<<p, r>>) = p /\ Tail(<<p, r>>) = <<r>>
          /\ <<r>> # <<>> /\ Head(<<r>>) = r /\ Tail(<<r>>) = <<>>
      BY Pair
    <2> QED BY <2>1, <2>2, <2>3
  <1>3. Refuse # <<>> /\ Head(Refuse).op = "refuse"
    BY DEF Refuse, Podman
  <1>4. \A d : Head(ReadBack(d)).op = "read back"
    <2> SUFFICES ASSUME NEW d PROVE Head(ReadBack(d)).op = "read back"
      OBVIOUS
    <2> DEFINE r == [op |-> "read back", content |-> d]
    <2>1. ReadBack(d) = <<r>> /\ r.op = "read back"
      BY DEF ReadBack
    <2> HIDE DEF r
    <2> QED BY <2>1, Pair
  <1> QED BY <1>1, <1>3, <1>4

LEMMA PolicyKind ==
  ASSUME kind = "policy"
  PROVE  /\ \A call : Can(call) = PolicyCan(call, machine) /\ After(call) = PolicyAfter(call, machine)
         /\ Elsewhere = PolicyFile /\ UndoCalls = PutPolicy(before) /\ Snapshot = machine.content
         /\ ApplyCalls = PolicyApply(args, before, machine)
         /\ Meets <=> PolicyMeets(args, machine)
         /\ Restored <=> machine.content = found.content
  BY DEF Can, After, Elsewhere, UndoCalls, PolicyUndo, Snapshot, PolicyBefore, ApplyCalls,
         PolicyOthers, Meets, Restored

\* The call at the head, and what it leaves.
LEMMA PolicyHead ==
  ASSUME NEW c, Putting(c), todo # <<>>
  PROVE  \/ /\ todo = PutPolicy(c) /\ Head(todo).op = "put" /\ Head(todo).content = c
            /\ Tail(todo) = ReadBack(c)
         \/ /\ todo = ReadBack(c) /\ Head(todo).op = "read back" /\ Head(todo).content = c
            /\ Tail(todo) = <<>> /\ machine.content = c
  BY PolicyCalls DEF Putting

LEMMA PolicyKnown ==
  ASSUME FlowInv, PolicyInv, kind = "policy", Calm
  PROVE  /\ PolicyFacts /\ machine \in PolicyFile /\ found \in PolicyFile
         /\ Target \in Policy \cup {Sentinel, NoPolicy}
         /\ phase # "new" => before \in Policy \cup {Sentinel, NoPolicy}
  <1>1. PolicyFacts /\ machine \in PolicyFile /\ found \in PolicyFile
    BY ArgsOfKind DEF PolicyInv, PolicyFacts, PolicyStart
  <1>2. Target \in Policy \cup {Sentinel, NoPolicy}
    BY <1>1 DEF Target, PolicyFile
  <1>3. phase # "new" => before \in Policy \cup {Sentinel, NoPolicy}
    BY <1>1 DEF PolicyFacts, PolicyFile
  <1> QED BY <1>1, <1>2, <1>3

LEMMA PolicyCall ==
  ASSUME FlowInv, PolicyInv, kind = "policy", Calm, Busy, todo # <<>>, Can(Head(todo))
  PROVE  LET c == IF phase = "applying" THEN Target ELSE before
             f == After(Head(todo))
         IN  /\ f \in PolicyFile /\ f.ref = machine.ref /\ f.content = c
             /\ Tail(todo) = IF todo = PutPolicy(c) THEN ReadBack(c) ELSE <<>>
             /\ \A call : call = Head(todo) => f = PolicyAfter(call, machine)
  <1> DEFINE c == IF phase = "applying" THEN Target ELSE before
             call == Head(todo)
             f == After(call)
  <1>1. PolicyFacts /\ machine \in PolicyFile /\ c \in Policy \cup {Sentinel, NoPolicy}
    BY PolicyKnown DEF Busy
  <1>2. f = PolicyAfter(call, machine) /\ PolicyCan(call, machine)
    BY PolicyKind
  <1>3. Putting(c)
    <2>1. todo # Refuse
      BY <1>2, PolicyCalls DEF PolicyCan
    <2> QED BY <1>1, <2>1 DEF PolicyFacts, Busy
  <1>4. \/ /\ todo = PutPolicy(c) /\ call.op = "put" /\ call.content = c /\ Tail(todo) = ReadBack(c)
        \/ /\ todo = ReadBack(c) /\ call.op = "read back" /\ Tail(todo) = <<>>
           /\ machine.content = c
    BY <1>3, PolicyHead
  <1> HIDE DEF call, c
  <1>5. f \in PolicyFile /\ f.ref = machine.ref /\ f.content = c
    <2>1. CASE call.op = "put" /\ call.content = c
      <3>1. f = [machine EXCEPT !.content = c]
        BY <1>2, <2>1 DEF PolicyAfter
      <3> QED BY <1>1, <3>1 DEF PolicyFile
    <2>2. CASE call.op = "read back" /\ machine.content = c
      <3>1. f = machine
        BY <1>2, <2>2 DEF PolicyAfter
      <3> QED BY <1>1, <2>2, <3>1
    <2> QED BY <1>4, <2>1, <2>2
  <1>6. Tail(todo) = IF todo = PutPolicy(c) THEN ReadBack(c) ELSE <<>>
    <2>1. PutPolicy(c) # ReadBack(c)
      BY PolicyCalls
    <2> QED BY <1>4, <2>1
  <1> QED BY <1>2, <1>5, <1>6 DEF call, c

LEMMA PolicyNext ==
  ASSUME FlowInv, PolicyInv, Next
  PROVE  PolicyInv'
  <1> SUFFICES ASSUME kind = "policy", Calm' PROVE PolicyFacts'
    BY Constant DEF PolicyInv
  <1>1. /\ kind' = kind /\ args' = args /\ found' = found /\ Calm
        /\ phase # "new" => before' = before
    BY Constant
  <1>2. PolicyFacts /\ machine \in PolicyFile /\ found \in PolicyFile
    BY <1>1, PolicyKnown
  <1>3. CASE Propose
    <2>1. phase = "new" /\ phase' = "proposed" /\ machine' = machine /\ before' = machine.content
      BY <1>3, PolicyKind DEF Propose
    <2>2. machine = found
      BY <2>1 DEF FlowInv
    <2> QED BY <1>1, <1>2, <2>1, <2>2 DEF PolicyFacts
  <1>4. CASE StartApply
    <2>1. /\ phase = "proposed" /\ phase' = "applying" /\ machine' = machine /\ before' = before
          /\ todo' = PolicyApply(args, before, machine)
      BY <1>1, <1>4, PolicyKind DEF StartApply
    <2>2. Target' = Target
      BY <1>1, <2>1 DEF Target
    <2>3. \/ todo' = Refuse
          \/ todo' = PutPolicy(Target) /\ machine.content = before
      BY <2>1 DEF PolicyApply, Target
    <2> QED BY <1>1, <1>2, <2>1, <2>2, <2>3 DEF PolicyFacts, Putting
  <1>5. CASE StartUndo
    <2>1. /\ phase \in {"applied", "undoing", "undone", "stuck"} /\ phase' = "undoing"
          /\ machine' = machine /\ before' = before /\ todo' = PutPolicy(before)
      BY <1>1, <1>5, PolicyKind DEF StartUndo
    <2> QED BY <1>1, <1>2, <2>1 DEF PolicyFacts, Putting
  <1>6. CASE Call
    <2> DEFINE c == IF phase = "applying" THEN Target ELSE before
    <2>1. /\ Busy /\ todo # <<>> /\ Can(Head(todo)) /\ machine' = After(Head(todo))
          /\ todo' = Tail(todo) /\ phase' = phase
      BY <1>6 DEF Call
    <2>2. /\ machine' \in PolicyFile /\ machine'.ref = machine.ref /\ machine'.content = c
          /\ todo' \in {ReadBack(c), <<>>}
      BY <1>1, <2>1, PolicyCall
    <2>3. Target' = Target /\ before' = before
      BY <1>1, <2>1, <2>2 DEF Target, Busy
    <2>4. todo' # PutPolicy(c)
      <3>1. \A x : PutPolicy(x) # ReadBack(x) /\ PutPolicy(x) # <<>>
        BY PolicyCalls
      <3> QED BY <2>2, <3>1
    <2>5. CASE phase = "applying"
      BY <1>1, <1>2, <2>1, <2>2, <2>3, <2>4, <2>5 DEF PolicyFacts, Putting
    <2>6. CASE phase = "undoing"
      BY <1>1, <1>2, <2>1, <2>2, <2>3, <2>6 DEF PolicyFacts, Putting
    <2> QED BY <2>1, <2>5, <2>6 DEF Busy
  <1>7. CASE CallFails
    <2>1. /\ phase' \in {"failed", "stuck"} /\ before' = before /\ Busy /\ todo # <<>>
          /\ machine' = machine \/ (Can(Head(todo)) /\ machine' = After(Head(todo)))
          /\ phase # "new"
      BY <1>1, <1>7 DEF CallFails, Busy
    <2>2. machine' \in PolicyFile
      BY <1>1, <1>2, <2>1, PolicyCall
    <2> QED BY <1>1, <1>2, <2>1, <2>2 DEF PolicyFacts
  <1>8. CASE Return
    <2>1. /\ todo = <<>> /\ machine' = machine /\ before' = before
          /\ \/ phase = "applying" /\ phase' = "applied"
             \/ phase = "undoing" /\ phase' = "undone"
      BY <1>1, <1>8 DEF Return, Busy
    <2>2. Target' = Target
      BY <1>1, <2>1 DEF Target
    <2>3. \A c : todo # PutPolicy(c) /\ todo # Refuse
      BY <2>1, PolicyCalls
    <2> QED BY <1>1, <1>2, <2>1, <2>2, <2>3 DEF PolicyFacts, Putting
  <1>9. CASE Others
    <2>1. phase = "proposed" /\ phase' = phase /\ before' = before /\ machine' \in PolicyFile
      BY <1>1, <1>9, PolicyKind DEF Others, Calm
    <2> QED BY <1>1, <1>2, <2>1 DEF PolicyFacts
  <1>10. ~Clear
    BY DEF Clear
  <1> QED BY <1>3, <1>4, <1>5, <1>6, <1>7, <1>8, <1>9, <1>10 DEF Next

LEMMA PolicyInit == Init => PolicyInv
  <1> SUFFICES ASSUME Init, kind = "policy" PROVE PolicyFacts
    BY DEF PolicyInv
  <1>1. machine \in PolicyFile /\ phase = "new"
    BY DEF Init, StartOf, PolicyStart
  <1> QED BY <1>1 DEF PolicyFacts

\* The inductive invariant of policy.set.
LEMMA PolicyInvariance == Spec => []PolicyInv
  <1>1. FlowInv /\ PolicyInv /\ [Next]_vars => PolicyInv'
    <2>1. ASSUME PolicyInv, UNCHANGED vars PROVE PolicyInv'
      BY <2>1 DEF vars, PolicyInv, PolicyFacts, Putting, Target, Calm
    <2> QED BY <2>1, PolicyNext
  <1> QED BY PolicyInit, FlowInvariance, <1>1, PTL DEF Spec

LEMMA PolicyPromises ==
  ASSUME FlowInv, PolicyInv, kind = "policy"
  PROVE  AppliedIsDesired /\ UndoneIsRestored /\ UndoIsPossible
  <1>1. ASSUME phase = "applied", Calm PROVE Meets
    BY <1>1, PolicyKnown, PolicyKind DEF PolicyFacts, PolicyMeets, Target
  <1>2. ASSUME phase = "undone", Calm PROVE Restored
    BY <1>2, PolicyKnown, PolicyKind DEF PolicyFacts
  <1>3. ASSUME phase = "undoing", Calm, todo # <<>> PROVE Can(Head(todo))
    <2>1. Putting(before)
      BY <1>3, PolicyKnown DEF PolicyFacts
    <2>2. \/ Head(todo).op = "put"
          \/ Head(todo).op = "read back" /\ machine.content = Head(todo).content
      BY <1>3, <2>1, PolicyHead
    <2> QED BY <2>2, PolicyKind DEF PolicyCan
  <1> QED BY <1>1, <1>2, <1>3 DEF AppliedIsDesired, UndoneIsRestored, UndoIsPossible, Calm

----------------------------------------------------------------------------
(* container.set *)

LEMMA OnePodman ==
  ASSUME NEW op
  PROVE  /\ Podman(op) # <<>> /\ Head(Podman(op)).op = op /\ Tail(Podman(op)) = <<>>
  BY DEF Podman

LEMMA ContainerKind ==
  ASSUME kind = "container"
  PROVE  /\ \A call : /\ Can(call) = ContainerCan(call, machine)
                      /\ After(call) = ContainerAfter(call, machine)
         /\ Elsewhere = ContainerStart /\ UndoCalls = ContainerUndo(args, before)
         /\ Snapshot = machine /\ (Accepts <=> ContainerAccepts(args, machine))
         /\ ApplyCalls = ContainerApply(args, before, machine)
         /\ Meets <=> ContainerMeets(args, machine)
         /\ Restored <=> ContainerRestored(args, found, machine)
  BY DEF Can, After, Elsewhere, UndoCalls, Snapshot, ContainerBefore, ApplyCalls, Accepts,
         ContainerOthers, Meets, Restored

LEMMA ContainerEffect ==
  ASSUME NEW c \in Container, NEW call, call.op \in {"rm", "start", "stop"}
  PROVE  /\ ContainerAfter(call, c) \in Container
         /\ ContainerAfter(call, c).exists = (c.exists /\ call.op # "rm")
         /\ ContainerAfter(call, c).running = (call.op = "start")
  <1>1. CASE call.op = "rm"
    <2>1. ContainerAfter(call, c) = [exists |-> FALSE, running |-> FALSE]
      BY <1>1 DEF ContainerAfter
    <2>2. /\ ContainerAfter(call, c) \in Container
          /\ ContainerAfter(call, c).exists = FALSE /\ ContainerAfter(call, c).running = FALSE
      BY <2>1 DEF Container
    <2> QED BY <1>1, <2>2
  <1>2. CASE call.op = "start"
    <2>1. ContainerAfter(call, c) = [c EXCEPT !.running = TRUE]
      BY <1>2 DEF ContainerAfter
    <2> QED BY <1>2, <2>1 DEF Container
  <1>3. CASE call.op = "stop"
    <2>1. ContainerAfter(call, c) = [c EXCEPT !.running = FALSE]
      BY <1>3 DEF ContainerAfter
    <2> QED BY <1>3, <2>1 DEF Container
  <1> QED BY <1>1, <1>2, <1>3

\* The one call of an apply or a rollback, when there is one.
LEMMA ContainerOneCall ==
  ASSUME NEW want \in ContainerArgs, NEW b \in Container, NEW c \in Container
  PROVE  /\ ContainerApply(want, b, c) # <<>> =>
               /\ Tail(ContainerApply(want, b, c)) = <<>>
               /\ \/ Head(ContainerApply(want, b, c)).op = "refuse"
                  \/ want = "absent" /\ Head(ContainerApply(want, b, c)).op = "rm"
                  \/ want = "started" /\ Head(ContainerApply(want, b, c)).op = "start"
                  \/ want = "stopped" /\ Head(ContainerApply(want, b, c)).op = "stop"
         /\ ContainerApply(want, b, c) = <<>> =>
               \/ want = "present" /\ c.exists
               \/ want \in {"started", "stopped"} /\ b.exists /\ b.running = (want = "started")
         /\ ContainerUndo(want, b) # <<>> =>
               /\ want # "absent" /\ b.exists /\ Tail(ContainerUndo(want, b)) = <<>>
               /\ Head(ContainerUndo(want, b)).op = IF b.running THEN "start" ELSE "stop"
         /\ ContainerUndo(want, b) = <<>> => want = "absent" \/ ~b.exists
  <1>1. /\ ContainerUndo(want, b) # <<>> =>
              /\ want # "absent" /\ b.exists /\ Tail(ContainerUndo(want, b)) = <<>>
              /\ Head(ContainerUndo(want, b)).op = IF b.running THEN "start" ELSE "stop"
        /\ ContainerUndo(want, b) = <<>> => want = "absent" \/ ~b.exists
    BY OnePodman DEF ContainerUndo
  <1>2. CASE want = "present"
    BY <1>1, <1>2, OnePodman DEF ContainerApply, Refuse
  <1>3. CASE want = "absent"
    BY <1>1, <1>3, OnePodman DEF ContainerApply
  <1>4. CASE want = "started"
    BY <1>1, <1>4, OnePodman DEF ContainerApply, Refuse
  <1>5. CASE want = "stopped"
    BY <1>1, <1>5, OnePodman DEF ContainerApply, Refuse
  <1> QED BY <1>2, <1>3, <1>4, <1>5 DEF ContainerArgs

LEMMA ContainerKnown ==
  ASSUME FlowInv, ContainerInv, kind = "container", Calm
  PROVE  /\ ContainerFacts /\ args \in ContainerArgs /\ machine \in Container /\ found \in Container
         /\ phase # "new" => before = found /\ (found.exists \/ args = "absent")
  BY ArgsOfKind DEF ContainerInv, ContainerFacts, ContainerAccepts

\* What the call at the head does.
LEMMA ContainerCall ==
  ASSUME FlowInv, ContainerInv, kind = "container", Calm, Busy, todo # <<>>, Can(Head(todo))
  PROVE  /\ After(Head(todo)) \in Container /\ Tail(todo) = <<>>
         /\ args # "absent" => After(Head(todo)).exists = machine.exists
         /\ phase = "applying" => ContainerMeets(args, After(Head(todo)))
         /\ phase = "undoing" =>
               args # "absent" /\ found.exists /\ After(Head(todo)).running = found.running
  <1> DEFINE call == Head(todo)
             v == After(call)
  <1>1. /\ ContainerFacts /\ args \in ContainerArgs /\ machine \in Container /\ found \in Container
        /\ before = found /\ phase \in {"applying", "undoing"}
    BY ContainerKnown DEF Busy
  <1>2. ContainerCan(call, machine) /\ v = ContainerAfter(call, machine)
    BY ContainerKind
  <1>3. CASE phase = "applying"
    <2>1. todo = ContainerApply(args, before, machine)
      BY <1>1, <1>3 DEF ContainerFacts
    <2>2. call.op # "refuse"
      BY <1>2 DEF ContainerCan
    <2>3. /\ Tail(todo) = <<>>
          /\ \/ args = "absent" /\ call.op = "rm"
             \/ args = "started" /\ call.op = "start"
             \/ args = "stopped" /\ call.op = "stop"
      BY <1>1, <2>1, <2>2, ContainerOneCall
    <2> HIDE DEF call
    <2>4. args # "absent" => machine.exists
      BY <1>2, <2>3 DEF ContainerCan
    <2>5. /\ v \in Container /\ v.exists = (machine.exists /\ call.op # "rm")
          /\ v.running = (call.op = "start")
      BY <1>1, <1>2, <2>3, ContainerEffect
    <2>6. (args # "absent" => v.exists = machine.exists) /\ ContainerMeets(args, v)
      BY <1>1, <2>3, <2>4, <2>5 DEF ContainerMeets, Container
    <2> QED BY <1>3, <2>3, <2>5, <2>6 DEF call
  <1>4. CASE phase = "undoing"
    <2>1. todo = ContainerUndo(args, before)
      BY <1>1, <1>4 DEF ContainerFacts
    <2>2. /\ Tail(todo) = <<>> /\ args # "absent" /\ found.exists
          /\ call.op = IF found.running THEN "start" ELSE "stop"
      BY <1>1, <2>1, ContainerOneCall
    <2> HIDE DEF call
    <2>3. /\ v \in Container /\ v.exists = (machine.exists /\ call.op # "rm")
          /\ v.running = (call.op = "start")
      BY <1>1, <1>2, <2>2, ContainerEffect
    <2>4. v.exists = machine.exists /\ v.running = found.running
      BY <1>1, <2>2, <2>3 DEF Container
    <2> QED BY <1>4, <2>2, <2>3, <2>4 DEF call
  <1> QED BY <1>1, <1>3, <1>4

LEMMA ContainerNext ==
  ASSUME FlowInv, ContainerInv, Next
  PROVE  ContainerInv'
  <1> SUFFICES ASSUME kind = "container", Calm' PROVE ContainerFacts'
    BY Constant DEF ContainerInv
  <1>1. /\ kind' = kind /\ args' = args /\ found' = found /\ Calm
        /\ phase # "new" => before' = before
    BY Constant
  <1>2. /\ ContainerFacts /\ args \in ContainerArgs /\ machine \in Container /\ found \in Container
        /\ phase # "new" => before = found /\ (found.exists \/ args = "absent")
    BY <1>1, ContainerKnown
  <1>3. CASE Propose
    <2>1. /\ phase = "new" /\ phase' = "proposed" /\ machine' = machine /\ before' = machine
          /\ ContainerAccepts(args, machine)
      BY <1>3, ContainerKind DEF Propose
    <2>2. machine = found
      BY <2>1 DEF FlowInv
    <2> QED BY <1>1, <1>2, <2>1, <2>2 DEF ContainerFacts
  <1>4. CASE StartApply
    <2>1. /\ phase = "proposed" /\ phase' = "applying" /\ machine' = machine /\ before' = before
          /\ todo' = ContainerApply(args, before, machine) /\ touched' = touched
      BY <1>1, <1>4, ContainerKind DEF StartApply
    <2>2. touched = "no" => machine = found
      BY <2>1 DEF FlowInv
    <2> QED BY <1>1, <1>2, <2>1, <2>2 DEF ContainerFacts
  <1>5. CASE StartUndo
    <2>1. /\ phase \in {"applied", "undoing", "undone", "stuck"} /\ phase' = "undoing"
          /\ machine' = machine /\ before' = before /\ todo' = ContainerUndo(args, before)
          /\ touched' = touched
      BY <1>1, <1>5, ContainerKind DEF StartUndo
    <2>2. todo' = <<>> => ContainerRestored(args, found, machine)
      <3>1. before = found /\ (found.exists \/ args = "absent") /\ todo' = ContainerUndo(args, found)
        BY <1>2, <2>1
      <3>2. ContainerUndo(args, found) = <<>> => args = "absent" \/ ~found.exists
        BY <1>2, ContainerOneCall
      <3> QED BY <3>1, <3>2 DEF ContainerRestored
    <2> QED BY <1>1, <1>2, <2>1, <2>2 DEF ContainerFacts
  <1>6. CASE Call
    <2>1. /\ Busy /\ todo # <<>> /\ Can(Head(todo)) /\ machine' = After(Head(todo))
          /\ todo' = Tail(todo) /\ phase' = phase /\ touched' = touched
          /\ phase \in {"applying", "undoing"} /\ before' = before
      BY <1>1, <1>6 DEF Call, Busy
    <2>2. /\ machine' \in Container /\ todo' = <<>>
          /\ args # "absent" => machine'.exists = machine.exists
          /\ phase = "applying" => ContainerMeets(args, machine')
          /\ phase = "undoing" =>
                args # "absent" /\ found.exists /\ machine'.running = found.running
      BY <1>1, <2>1, ContainerCall
    <2>3. touched = "no" /\ args # "absent" => machine'.exists = found.exists
      BY <1>2, <2>2 DEF ContainerFacts
    <2>4. phase = "undoing" /\ touched = "no" => machine' = found
      BY <1>2, <2>2, <2>3 DEF Container
    <2> QED BY <1>1, <1>2, <2>1, <2>2, <2>3, <2>4 DEF ContainerFacts, ContainerRestored
  <1>7. CASE CallFails
    <2>1. /\ phase' \in {"failed", "stuck"} /\ before' = before /\ Busy /\ todo # <<>>
          /\ machine' = machine \/ (Can(Head(todo)) /\ machine' = After(Head(todo)))
          /\ phase # "new" /\ touched' = touched
      BY <1>1, <1>7 DEF CallFails, Busy
    <2>2. machine' \in Container /\ (args # "absent" => machine'.exists = machine.exists)
      BY <1>1, <1>2, <2>1, ContainerCall
    <2> QED BY <1>1, <1>2, <2>1, <2>2 DEF ContainerFacts
  <1>8. CASE Return
    <2>1. /\ todo = <<>> /\ machine' = machine /\ before' = before /\ touched' = touched
          /\ \/ phase = "applying" /\ phase' = "applied"
             \/ phase = "undoing" /\ phase' = "undone"
      BY <1>1, <1>8 DEF Return, Busy
    <2>2. phase = "applying" =>
             \/ ContainerMeets(args, machine)
             \/ touched = "proposed" /\ args \in {"started", "stopped"}
      <3>1. SUFFICES ASSUME phase = "applying", todo = ContainerApply(args, before, machine),
                            touched = "no" => machine = found
                     PROVE  \/ ContainerMeets(args, machine)
                            \/ touched = "proposed" /\ args \in {"started", "stopped"}
        BY <1>2 DEF ContainerFacts
      <3>2. \/ args = "present" /\ machine.exists
            \/ args \in {"started", "stopped"} /\ before.exists /\ before.running = (args = "started")
        BY <1>2, <2>1, <3>1, ContainerOneCall
      <3>3. CASE args = "present" /\ machine.exists
        BY <3>3 DEF ContainerMeets
      <3>4. CASE args \in {"started", "stopped"} /\ before.exists /\ before.running = (args = "started")
        <4>1. CASE touched = "no"
          <5>1. machine.exists /\ machine.running = (args = "started")
            BY <1>2, <3>1, <3>4, <4>1
          <5> QED BY <1>2, <3>4, <5>1 DEF ContainerMeets, Container
        <4>2. CASE touched = "proposed"
          BY <3>4, <4>2
        <4> QED BY <1>1, <4>1, <4>2 DEF Calm
      <3> QED BY <3>2, <3>3, <3>4
    <2> QED BY <1>1, <1>2, <2>1, <2>2 DEF ContainerFacts
  <1>9. CASE Others
    <2>1. /\ phase = "proposed" /\ phase' = phase /\ before' = before /\ machine' \in Container
          /\ touched' = "proposed"
      BY <1>1, <1>9, ContainerKind DEF Others, Calm, ContainerStart
    <2> QED BY <1>1, <1>2, <2>1 DEF ContainerFacts
  <1>10. ~Clear
    BY DEF Clear
  <1> QED BY <1>3, <1>4, <1>5, <1>6, <1>7, <1>8, <1>9, <1>10 DEF Next

LEMMA ContainerInit == Init => ContainerInv
  <1> SUFFICES ASSUME Init, kind = "container" PROVE ContainerFacts
    BY DEF ContainerInv
  <1>1. machine \in Container /\ phase = "new" /\ found = machine
    BY DEF Init, StartOf, ContainerStart
  <1> QED BY <1>1 DEF ContainerFacts

\* The inductive invariant of container.set.
LEMMA ContainerInvariance == Spec => []ContainerInv
  <1>1. FlowInv /\ ContainerInv /\ [Next]_vars => ContainerInv'
    <2>1. ASSUME ContainerInv, UNCHANGED vars PROVE ContainerInv'
      BY <2>1 DEF vars, ContainerInv, ContainerFacts, Calm
    <2> QED BY <2>1, ContainerNext
  <1> QED BY ContainerInit, FlowInvariance, <1>1, PTL DEF Spec

LEMMA ContainerPromises ==
  ASSUME FlowInv, ContainerInv, kind = "container"
  PROVE  AppliedIsDesired /\ UndoneIsRestored /\ UndoIsPossible
  <1>1. AppliedIsDesired
    BY ContainerKnown, ContainerKind DEF AppliedIsDesired, ContainerFacts, Calm
  <1>2. UndoneIsRestored
    BY ContainerKnown, ContainerKind DEF UndoneIsRestored, ContainerFacts, Calm
  <1>3. ASSUME phase = "undoing", touched = "no", todo # <<>> PROVE Can(Head(todo))
    <2>1. /\ ContainerFacts /\ args \in ContainerArgs /\ machine \in Container /\ found \in Container
          /\ before = found
      BY <1>3, ContainerKnown DEF Calm
    <2>2. todo = ContainerUndo(args, before)
      BY <1>3, <2>1 DEF ContainerFacts
    <2>3. args # "absent" /\ found.exists /\ Head(todo).op \in {"start", "stop"}
      BY <1>3, <2>1, <2>2, ContainerOneCall
    <2>4. machine.exists
      BY <1>3, <2>1, <2>3 DEF ContainerFacts
    <2> QED BY <2>3, <2>4, ContainerKind DEF ContainerCan
  <1> QED BY <1>1, <1>2, <1>3 DEF UndoIsPossible
----------------------------------------------------------------------------
(* package.set *)

\* An entry is appended to the history.
LEMMA LoggedEntry ==
  ASSUME NEW p \in Packages, NEW cmd \in Verbs, NEW v \in Version, NEW mine \in BOOLEAN
  PROVE  LET q == Logged(p, cmd, v, mine)
         IN  /\ q \in Packages /\ q.installed = v /\ q.cleared = p.cleared /\ q.sidecar = p.sidecar
             /\ Len(q.history) = Len(p.history) + 1
             /\ \A i \in DOMAIN p.history : i \in DOMAIN q.history /\ q.history[i] = p.history[i]
             /\ q.history[Len(p.history) + 1] =
                   [cmd |-> cmd, was |-> p.installed, now |-> v, mine |-> mine]
             /\ DOMAIN q.history = DOMAIN p.history \cup {Len(p.history) + 1}
  <1> DEFINE e == [cmd |-> cmd, was |-> p.installed, now |-> v, mine |-> mine]
             q == Logged(p, cmd, v, mine)
             h == p.history
  <1>1. h \in Seq(HistoryEntry) /\ e \in HistoryEntry
    BY DEF Packages, HistoryEntry
  <1>2. /\ q \in Packages /\ q.installed = v /\ q.cleared = p.cleared /\ q.sidecar = p.sidecar
        /\ q.history = Append(h, e)
    <2>1. Append(h, e) \in Seq(HistoryEntry)
      BY <1>1
    <2>2. q = [p EXCEPT !.installed = v, !.history = Append(h, e)]
      BY DEF Logged
    <2> HIDE DEF q, h, e
    <2> QED BY <2>1, <2>2 DEF Packages
  <1> HIDE DEF e, q, h
  <1>3. /\ Len(Append(h, e)) = Len(h) + 1 /\ DOMAIN Append(h, e) = 1..(Len(h) + 1)
        /\ DOMAIN h = 1..Len(h) /\ Len(h) \in Nat
        /\ \A i \in 1..Len(h) : Append(h, e)[i] = h[i]
        /\ Append(h, e)[Len(h) + 1] = e
    BY <1>1
  <1>4. 1..(Len(h) + 1) = 1..Len(h) \cup {Len(h) + 1}
    BY <1>3
  <1> QED BY <1>2, <1>3, <1>4 DEF e, q, h

\* What that means for the step's own entries and for the sidecar.
LEMMA OwnGrows ==
  ASSUME NEW p \in Packages, NEW q \in Packages, NEW verb,
         NEW e \in HistoryEntry,
         q.sidecar = p.sidecar, q.history[Len(p.history) + 1] = e,
         \A i \in DOMAIN p.history : i \in DOMAIN q.history /\ q.history[i] = p.history[i],
         DOMAIN q.history = DOMAIN p.history \cup {Len(p.history) + 1}
  PROVE  /\ FitsIn(p, verb) => FitsIn(q, verb) /\ q.history[q.sidecar] = p.history[p.sidecar]
         /\ \A i \in OwnOf(p, verb) : q.history[i] = p.history[i]
         /\ ~e.mine \/ e.cmd # verb => OwnOf(q, verb) = OwnOf(p, verb)
         /\ OwnOf(p, verb) = {} => OwnOf(q, verb) \subseteq {Len(p.history) + 1}
  BY DEF FitsIn, OwnOf

\* What a logged command means for the entries of the step.
LEMMA Recorded ==
  ASSUME NEW p \in Packages, NEW cmd \in Verbs, NEW v \in Version, NEW mine \in BOOLEAN,
         NEW verb, NEW q, q = Logged(p, cmd, v, mine)
  PROVE  /\ q \in Packages /\ q.installed = v /\ q.cleared = p.cleared /\ q.sidecar = p.sidecar
         /\ FitsIn(p, verb) => FitsIn(q, verb) /\ q.history[q.sidecar] = p.history[p.sidecar]
         /\ \A i \in OwnOf(p, verb) : q.history[i] = p.history[i]
         /\ ~mine \/ cmd # verb => OwnOf(q, verb) = OwnOf(p, verb)
         /\ OwnOf(p, verb) = {} =>
               \A i \in OwnOf(q, verb) :
                  q.history[i].was = p.installed /\ q.history[i].now = v
  <1> DEFINE e == [cmd |-> cmd, was |-> p.installed, now |-> v, mine |-> mine]
  <1>1. /\ q \in Packages /\ q.installed = v /\ q.cleared = p.cleared /\ q.sidecar = p.sidecar
        /\ \A i \in DOMAIN p.history : i \in DOMAIN q.history /\ q.history[i] = p.history[i]
        /\ q.history[Len(p.history) + 1] = e
        /\ DOMAIN q.history = DOMAIN p.history \cup {Len(p.history) + 1}
    BY LoggedEntry
  <1>2. e \in HistoryEntry /\ e.mine = mine /\ e.cmd = cmd /\ e.was = p.installed /\ e.now = v
    BY DEF HistoryEntry, Packages
  <1> HIDE DEF e
  <1>3. /\ FitsIn(p, verb) => FitsIn(q, verb) /\ q.history[q.sidecar] = p.history[p.sidecar]
        /\ \A i \in OwnOf(p, verb) : q.history[i] = p.history[i]
        /\ ~e.mine \/ e.cmd # verb => OwnOf(q, verb) = OwnOf(p, verb)
        /\ OwnOf(p, verb) = {} => OwnOf(q, verb) \subseteq {Len(p.history) + 1}
    BY <1>1, <1>2, OwnGrows
  <1> QED BY <1>1, <1>2, <1>3

LEMMA VersionKnown ==
  ASSUME NEW v \in Version, NEW op \in {"install", "remove", "upgrade", "other"}
  PROVE  VersionAfter(op, v) \in Version
  BY DEF VersionAfter, Version

\* What a dnf command does.
LEMMA DnfEffect ==
  ASSUME NEW p \in Packages, NEW call, NEW op \in {"install", "remove", "upgrade"}, call.op = op
  PROVE  LET v == VersionAfter(op, p.installed)
         IN  /\ v = p.installed => PackageAfter(call, p) = p
             /\ v # p.installed => PackageAfter(call, p) = Logged(p, op, v, call.mine)
  BY DEF PackageAfter

\* The commands of others leave the entries of the step, and the sidecar, alone.
LEMMA PackageDisturbed ==
  ASSUME NEW p \in Packages, NEW q \in PackageOthers(p), NEW verb
  PROVE  /\ q \in Packages /\ q.sidecar = p.sidecar /\ q.cleared = p.cleared
         /\ OwnOf(q, verb) = OwnOf(p, verb)
         /\ FitsIn(p, verb) => FitsIn(q, verb)
  <1>1. PICK op \in {"install", "remove", "upgrade", "other"} :
           q = PackageAfter([op |-> op, id |-> 0, mine |-> FALSE], p)
    BY DEF PackageOthers
  <1> DEFINE call == [op |-> op, id |-> 0, mine |-> FALSE]
             v == VersionAfter(op, p.installed)
  <1>2. p.installed \in Version /\ v \in Version /\ call.op = op /\ call.mine = FALSE
    BY VersionKnown DEF Packages
  <1>3. q = p \/ q = Logged(p, op, v, FALSE)
    <2>1. CASE op = "other"
      <3>1. v = p.installed
        BY <2>1 DEF VersionAfter
      <3>2. q = Logged(p, "other", p.installed, call.mine)
        BY <1>1, <2>1 DEF PackageAfter
      <3> QED BY <1>2, <2>1, <3>1, <3>2
    <2>2. CASE op \in {"install", "remove", "upgrade"}
      <3> HIDE DEF call
      <3>1. q = PackageAfter(call, p)
        BY <1>1 DEF call
      <3> QED BY <1>2, <2>2, <3>1, DnfEffect
    <2> QED BY <2>1, <2>2
  <1>4. CASE q = Logged(p, op, v, FALSE)
    <2>1. op \in Verbs
      BY DEF Verbs
    <2>2. PICK m \in BOOLEAN : m = FALSE
      OBVIOUS
    <2>3. q = Logged(p, op, v, m)
      BY <1>4, <2>2
    <2> HIDE DEF v, call
    <2> QED BY <1>2, <2>1, <2>2, <2>3, Recorded
  <1> QED BY <1>3, <1>4
\* The calls of package.set.
LEMMA PackageCalls ==
  ASSUME NEW want \in PackageArgs, NEW verb, verb = PackageVerb[want]
  PROVE  /\ verb \in {"install", "remove", "upgrade"}
         /\ PackageApply(want) # <<>> /\ Tail(PackageApply(want)) = Capture(verb)
         /\ Head(PackageApply(want)).op = verb /\ Head(PackageApply(want)).mine = TRUE
         /\ Capture(verb) # <<>> /\ Tail(Capture(verb)) = <<>>
         /\ Head(Capture(verb)).op = "capture" /\ Head(Capture(verb)).verb = verb
         /\ PackageApply(want) # Capture(verb)
  <1> DEFINE d == [op |-> verb, id |-> 0, mine |-> TRUE]
             c == [op |-> "capture", verb |-> verb]
             S == {d, c}
  <1>1. verb \in {"install", "remove", "upgrade"}
    BY DEF PackageArgs, PackageVerb
  <1>2. d.op = verb /\ d.mine = TRUE /\ c.op = "capture" /\ c.verb = verb
    OBVIOUS
  <1>3. PackageApply(want) = <<d>> \o <<c>> /\ Capture(verb) = <<c>>
    BY DEF PackageApply, Dnf, Capture
  <1> HIDE DEF d, c
  <1>4. d \in S /\ <<c>> \in Seq(S)
    OBVIOUS
  <1> HIDE DEF S
  <1>5. <<d>> \o <<c>> # <<>> /\ Head(<<d>> \o <<c>>) = d /\ Tail(<<d>> \o <<c>>) = <<c>>
    BY <1>4, FirstCall
  <1>6. <<c>> # <<>> /\ Head(<<c>>) = c /\ Tail(<<c>>) = <<>>
    BY Pair
  <1> QED BY <1>1, <1>2, <1>3, <1>5, <1>6

\* The command of an apply: the package is as it was to be, and an entry of the
\* command is one that changed it.
LEMMA PackageCommand ==
  ASSUME NEW p \in Packages, NEW want \in PackageArgs, NEW verb, verb = PackageVerb[want],
         NEW call, call.op = verb, call.mine \in BOOLEAN, OwnOf(p, verb) = {}, NEW q,
         q = PackageAfter(call, p)
  PROVE  /\ q \in Packages /\ PackageMeets(want, q)
         /\ \A i \in OwnOf(q, verb) :
               /\ q.history[i].was = p.installed /\ q.history[i].now = q.installed
               /\ q.history[i].was # q.history[i].now
               /\ q.history[i].now = VersionAfter(verb, q.history[i].was)
  <1> DEFINE v == VersionAfter(verb, p.installed)
  <1>1. verb \in {"install", "remove", "upgrade"} /\ verb \in Verbs
    BY PackageCalls DEF Verbs
  <1>2. p.installed \in Version /\ v \in Version
    BY <1>1, VersionKnown DEF Packages
  <1>3. /\ v = p.installed => q = p
        /\ v # p.installed => q = Logged(p, verb, v, call.mine)
    BY <1>1, DnfEffect
  <1>4. q.installed = v => PackageMeets(want, q)
    <2>1. CASE want = "present"
      BY <1>2, <2>1 DEF PackageMeets, PackageVerb, VersionAfter, Version
    <2>2. CASE want = "absent"
      BY <2>2 DEF PackageMeets, PackageVerb, VersionAfter
    <2>3. CASE want = "latest"
      BY <2>3 DEF PackageMeets, PackageVerb, VersionAfter
    <2> QED BY <2>1, <2>2, <2>3 DEF PackageArgs, PackageVerb
  <1>5. CASE v = p.installed
    BY <1>3, <1>4, <1>5
  <1>6. CASE v # p.installed
    <2>1. PICK m \in BOOLEAN : m = call.mine
      OBVIOUS
    <2>2. q = Logged(p, verb, v, m)
      BY <1>3, <1>6, <2>1
    <2> HIDE DEF v
    <2>3. /\ q \in Packages /\ q.installed = v
          /\ \A i \in OwnOf(q, verb) : q.history[i].was = p.installed /\ q.history[i].now = v
      BY <1>1, <1>2, <2>2, Recorded
    <2> QED BY <1>4, <1>6, <2>3 DEF v
  <1> QED BY <1>5, <1>6

\* The id of the last entry is taken down.
LEMMA PackageCaptured ==
  ASSUME NEW p \in Packages, NEW verb, CanCapture(p, verb), NEW call, call.op = "capture", NEW q,
         q = PackageAfter(call, p)
  PROVE  /\ q \in Packages /\ q.installed = p.installed /\ q.history = p.history
         /\ FitsIn(q, verb) /\ OwnOf(q, verb) = OwnOf(p, verb)
  <1>1. q = [p EXCEPT !.sidecar = Len(p.history)]
    BY DEF PackageAfter
  <1>2. Len(p.history) \in Nat /\ DOMAIN p.history = 1..Len(p.history) /\ p.cleared \in Nat
    BY DEF Packages
  <1>3. /\ q \in Packages /\ q.installed = p.installed /\ q.history = p.history
        /\ q.sidecar = Len(p.history)
    BY <1>1, <1>2 DEF Packages
  <1>4. Len(p.history) > p.cleared /\ p.history[Len(p.history)].cmd = verb
    BY DEF CanCapture
  <1> QED BY <1>2, <1>3, <1>4 DEF FitsIn, OwnOf

\* The one call of a rollback.
LEMMA PackageTakenBack ==
  ASSUME NEW p \in Packages, NEW want \in PackageArgs, NEW verb, verb = PackageVerb[want],
         FitsIn(p, verb)
  PROVE  /\ PackageUndo(want, p) # <<>> /\ Tail(PackageUndo(want, p)) = <<>>
         /\ p.sidecar > p.cleared =>
               /\ Head(PackageUndo(want, p)).op = "undo" /\ Head(PackageUndo(want, p)).id = p.sidecar
               /\ Head(PackageUndo(want, p)).mine = TRUE
         /\ ~(p.sidecar > p.cleared) /\ verb # "remove" =>
               Head(PackageUndo(want, p)).op = "remove" /\ Head(PackageUndo(want, p)).mine = TRUE
         /\ ~(p.sidecar > p.cleared) /\ verb = "remove" =>
               Head(PackageUndo(want, p)).op = "give up"
  <1>1. p.sidecar # 0
    BY DEF FitsIn, Packages
  <1>2. \A id : /\ Undo(id) # <<>> /\ Tail(Undo(id)) = <<>>
                /\ Head(Undo(id)).op = "undo" /\ Head(Undo(id)).id = id /\ Head(Undo(id)).mine = TRUE
    BY DEF Undo
  <1>3. \A op : /\ Dnf(op) # <<>> /\ Tail(Dnf(op)) = <<>>
                /\ Head(Dnf(op)).op = op /\ Head(Dnf(op)).mine = TRUE
    BY DEF Dnf
  <1>4. want \in {"present", "latest"} <=> verb # "remove"
    BY DEF PackageArgs, PackageVerb
  <1>5. CASE p.sidecar > p.cleared
    <2>1. PackageUndo(want, p) = Undo(p.sidecar)
      BY <1>1, <1>5 DEF PackageUndo
    <2> QED BY <1>2, <1>5, <2>1
  <1>6. CASE ~(p.sidecar > p.cleared) /\ verb # "remove"
    <2>1. PackageUndo(want, p) = Dnf("remove")
      BY <1>1, <1>4, <1>6 DEF PackageUndo
    <2> QED BY <1>3, <1>6, <2>1
  <1>7. CASE ~(p.sidecar > p.cleared) /\ verb = "remove"
    <2>1. PackageUndo(want, p) = Quit
      BY <1>1, <1>4, <1>7 DEF PackageUndo
    <2> QED BY <1>3, <1>7, <2>1 DEF Quit
  <1> QED BY <1>5, <1>6, <1>7

\* What it does: the entry of the sidecar is undone, or the package removed; the
\* entries of the step stay.
LEMMA PackageUndone ==
  ASSUME NEW p \in Packages, NEW want \in PackageArgs, NEW verb, verb = PackageVerb[want],
         FitsIn(p, verb), NEW call, call = Head(PackageUndo(want, p)), PackageCan(call, p),
         NEW q, q = PackageAfter(call, p)
  PROVE  /\ q \in Packages /\ q.sidecar = p.sidecar /\ q.cleared = p.cleared
         /\ FitsIn(q, verb) /\ q.history[q.sidecar] = p.history[p.sidecar]
         /\ OwnOf(q, verb) = OwnOf(p, verb)
         /\ \A i \in OwnOf(p, verb) : q.history[i] = p.history[i]
         /\ q.installed = IF p.sidecar > p.cleared THEN p.history[p.sidecar].was ELSE "none"
  <1>1. verb \in {"install", "remove", "upgrade"} /\ verb # "undo"
    BY PackageCalls
  <1>2. /\ p.sidecar \in DOMAIN p.history /\ p.history \in Seq(HistoryEntry)
        /\ p.installed \in Version
    BY DEF FitsIn, Packages
  <1>3. CASE p.sidecar > p.cleared
    <2>1. call.op = "undo" /\ call.id = p.sidecar /\ call.mine = TRUE
      BY <1>3, PackageTakenBack
    <2> DEFINE v == p.history[p.sidecar].was
    <2>2. v \in Version
      <3>1. p.history[p.sidecar] \in HistoryEntry
        BY <1>2
      <3> QED BY <3>1 DEF HistoryEntry
    <2>3. q = Logged(p, "undo", v, call.mine)
      BY <2>1 DEF PackageAfter
    <2>4. PICK m \in BOOLEAN : m = call.mine
      BY <2>1
    <2>5. q = Logged(p, "undo", v, m) /\ "undo" \in Verbs
      BY <2>3, <2>4 DEF Verbs
    <2> HIDE DEF v
    <2>6. /\ q \in Packages /\ q.installed = v /\ q.cleared = p.cleared /\ q.sidecar = p.sidecar
          /\ FitsIn(q, verb) /\ q.history[q.sidecar] = p.history[p.sidecar]
          /\ \A i \in OwnOf(p, verb) : q.history[i] = p.history[i]
          /\ OwnOf(q, verb) = OwnOf(p, verb)
      BY <1>1, <2>2, <2>5, Recorded
    <2> QED BY <1>3, <2>6 DEF v
  <1>4. CASE ~(p.sidecar > p.cleared)
    <2>1. call.op = "remove" /\ call.mine = TRUE /\ verb # "remove"
      <3>1. call.op # "give up"
        BY DEF PackageCan
      <3> QED BY <1>4, <3>1, PackageTakenBack
    <2>2. VersionAfter("remove", p.installed) = "none" /\ "none" \in Version /\ "remove" \in Verbs
      BY DEF VersionAfter, Version, Verbs
    <2>3. /\ p.installed = "none" => q = p
          /\ p.installed # "none" => q = Logged(p, "remove", "none", call.mine)
      BY <2>1, <2>2, DnfEffect
    <2>4. PICK m \in BOOLEAN : m = call.mine
      BY <2>1
    <2>5. CASE p.installed = "none"
      BY <1>4, <2>3, <2>5
    <2>6. CASE p.installed # "none"
      <3>1. q = Logged(p, "remove", "none", m)
        BY <2>3, <2>4, <2>6
      <3>2. /\ q \in Packages /\ q.installed = "none" /\ q.cleared = p.cleared
            /\ q.sidecar = p.sidecar
            /\ FitsIn(q, verb) /\ q.history[q.sidecar] = p.history[p.sidecar]
            /\ \A i \in OwnOf(p, verb) : q.history[i] = p.history[i]
            /\ OwnOf(q, verb) = OwnOf(p, verb)
        BY <2>1, <2>2, <3>1, Recorded
      <3> QED BY <1>4, <3>2
    <2> QED BY <2>5, <2>6
  <1> QED BY <1>3, <1>4
LEMMA PackageKind ==
  ASSUME kind = "package"
  PROVE  /\ \A call : /\ Can(call) = PackageCan(call, machine)
                      /\ After(call) = PackageAfter(call, machine)
         /\ Elsewhere = PackageOthers(machine) /\ UndoCalls = PackageUndo(args, machine)
         /\ ApplyCalls = PackageApply(args)
         /\ Meets <=> PackageMeets(args, machine)
         /\ Restored <=> machine.installed = found.installed
  BY DEF Can, After, Elsewhere, UndoCalls, ApplyCalls, Meets, Restored

LEMMA PackageKnown ==
  ASSUME FlowInv, PackageInv, Next, kind = "package"
  PROVE  /\ PackageFacts /\ machine \in Packages /\ args \in PackageArgs
         /\ kind' = kind /\ args' = args /\ found' = found
  <1>1. PackageFacts /\ machine \in Packages /\ args \in PackageArgs
    BY ArgsOfKind DEF PackageInv, PackageFacts
  <1>2. kind' = kind /\ args' = args /\ found' = found
    BY Constant
  <1> QED BY <1>1, <1>2

LEMMA PackageApplyCall ==
  ASSUME FlowInv, PackageInv, Next, kind = "package", Call, phase = "applying"
  PROVE  PackageFacts'
  <1> DEFINE verb == PackageVerb[args]
             call == Head(todo)
  <1>1. /\ PackageFacts /\ machine \in Packages /\ args \in PackageArgs
        /\ kind' = kind /\ args' = args /\ found' = found
    BY PackageKnown
  <1>2. /\ todo # <<>> /\ phase' = phase /\ todo' = Tail(todo) /\ touched' = touched
        /\ PackageCan(call, machine) /\ machine' = PackageAfter(call, machine)
    BY PackageKind DEF Call
  <1>3. /\ verb \in {"install", "remove", "upgrade"}
        /\ Capture(verb) # <<>> /\ PackageApply(args) # <<>> /\ PackageApply(args) # Capture(verb)
    BY <1>1, PackageCalls
  <1>4. CASE todo = PackageApply(args)
    <2>1. call.op = verb /\ call.mine = TRUE /\ todo' = Capture(verb)
      BY <1>1, <1>2, <1>4, PackageCalls
    <2>2. OwnEntries = {} /\ (touched = "no" => machine.installed = found.installed)
      BY <1>1, <1>4 DEF PackageFacts
    <2> HIDE DEF call, verb
    <2>3. /\ machine' \in Packages /\ PackageMeets(args, machine')
          /\ \A i \in OwnOf(machine', verb) :
                /\ machine'.history[i].was = machine.installed
                /\ machine'.history[i].now = machine'.installed
                /\ machine'.history[i].was # machine'.history[i].now
                /\ machine'.history[i].now = VersionAfter(verb, machine'.history[i].was)
      <3>1. machine \in Packages /\ args \in PackageArgs
        BY <1>1
      <3>2. verb = PackageVerb[args] /\ OwnOf(machine, verb) = {}
        BY <2>2 DEF verb, OwnEntries
      <3>3. machine' = PackageAfter(call, machine)
        BY <1>2
      <3>4. call.op = verb /\ call.mine \in BOOLEAN
        BY <2>1
      <3> QED BY <3>1, <3>2, <3>3, <3>4, PackageCommand
    <2>4. (touched = "no" => EntriesTell)'
      BY <1>1, <1>2, <2>2, <2>3 DEF EntriesTell, OwnEntries, verb
    <2>5. todo' = Capture(PackageVerb[args]) /\ todo' # <<>> /\ todo' # PackageApply(args)
      BY <1>3, <2>1 DEF verb
    <2> QED BY <1>1, <1>2, <2>3, <2>4, <2>5 DEF PackageFacts
  <1>5. CASE todo = Capture(verb)
    <2>1. call.op = "capture" /\ call.verb = verb /\ todo' = <<>>
      BY <1>1, <1>2, <1>5, PackageCalls
    <2>2. Calm => PackageMeets(args, machine)
      BY <1>1, <1>2, <1>3, <1>5 DEF PackageFacts
    <2> HIDE DEF call, verb
    <2>3. CanCapture(machine, verb)
      BY <1>2, <2>1 DEF PackageCan
    <2>4. /\ machine' \in Packages /\ machine'.installed = machine.installed
          /\ machine'.history = machine.history
          /\ FitsIn(machine', verb) /\ OwnOf(machine', verb) = OwnOf(machine, verb)
      BY <1>1, <1>2, <2>1, <2>3, PackageCaptured
    <2>5. PackageMeets(args, machine) => PackageMeets(args, machine')
      BY <2>4 DEF PackageMeets
    <2>6. Calm' => PackageMeets(args, machine')
      BY <1>2, <2>2, <2>5 DEF Calm
    <2>7. Fits'
      BY <1>1, <2>4 DEF Fits, verb
    <2>8. (touched = "no" => EntriesTell)'
      <3>1. touched = "no" => EntriesTell
        BY <1>1 DEF PackageFacts
      <3> QED BY <1>1, <1>2, <2>4, <3>1 DEF EntriesTell, OwnEntries, verb, Standing
    <2> QED BY <1>1, <1>2, <1>3, <2>1, <2>4, <2>6, <2>7, <2>8 DEF PackageFacts
  <1> QED BY <1>1, <1>2, <1>4, <1>5 DEF PackageFacts

LEMMA PackageUndoCall ==
  ASSUME FlowInv, PackageInv, Next, kind = "package", Call, phase = "undoing"
  PROVE  PackageFacts'
  <1> DEFINE verb == PackageVerb[args]
             call == Head(todo)
  <1>1. /\ PackageFacts /\ machine \in Packages /\ args \in PackageArgs
        /\ kind' = kind /\ args' = args /\ found' = found
    BY PackageKnown
  <1>2. /\ todo # <<>> /\ phase' = phase /\ todo' = Tail(todo) /\ touched' = touched
        /\ PackageCan(call, machine) /\ machine' = PackageAfter(call, machine)
    BY PackageKind DEF Call
  <1>3. todo = PackageUndo(args, machine) /\ FitsIn(machine, verb)
        /\ (touched = "no" => EntriesTell)
    BY <1>1, <1>2 DEF PackageFacts, Fits
  <1>4. todo' = <<>>
    BY <1>1, <1>2, <1>3, PackageTakenBack
  <1>5. call = Head(PackageUndo(args, machine))
    BY <1>3
  <1> HIDE DEF call, verb
  <1>6. /\ machine' \in Packages /\ machine'.sidecar = machine.sidecar
        /\ machine'.cleared = machine.cleared
        /\ FitsIn(machine', verb)
        /\ machine'.history[machine'.sidecar] = machine.history[machine.sidecar]
        /\ OwnOf(machine', verb) = OwnOf(machine, verb)
        /\ \A i \in OwnOf(machine, verb) : machine'.history[i] = machine.history[i]
        /\ machine'.installed =
              IF machine.sidecar > machine.cleared THEN machine.history[machine.sidecar].was
              ELSE "none"
    BY <1>1, <1>2, <1>3, <1>5, PackageUndone DEF verb
  <1>7. (touched = "no" => EntriesTell)'
    BY <1>1, <1>2, <1>3, <1>4, <1>6 DEF EntriesTell, OwnEntries, verb, Standing
  <1>8. ASSUME touched = "no"
        PROVE  PackageBack'
    <2>1. SUFFICES ASSUME SidecarIsMine(machine'),
                          machine'.sidecar <= machine'.cleared => found.installed = "none"
                   PROVE  machine'.installed = found.installed
      BY <1>1 DEF PackageBack
    <2>2. machine.sidecar \in OwnEntries
      BY <1>3, <1>6, <2>1 DEF SidecarIsMine, OwnEntries, OwnOf, FitsIn, verb
    <2>3. machine.history[machine.sidecar].was = found.installed
      BY <1>3, <1>8, <2>2 DEF EntriesTell
    <2>4. machine.sidecar \in Nat /\ machine.cleared \in Nat
      BY <1>1 DEF Packages
    <2>5. CASE machine.sidecar > machine.cleared
      BY <1>6, <2>3, <2>5
    <2>6. CASE ~(machine.sidecar > machine.cleared)
      BY <1>6, <2>1, <2>4, <2>6
    <2> QED BY <2>5, <2>6
  <1>9. Fits'
    BY <1>1, <1>6 DEF Fits, verb
  <1> QED BY <1>1, <1>2, <1>4, <1>6, <1>7, <1>8, <1>9 DEF PackageFacts

LEMMA PackageCallFails ==
  ASSUME FlowInv, PackageInv, Next, kind = "package", CallFails
  PROVE  PackageFacts'
  <1> DEFINE verb == PackageVerb[args]
             call == Head(todo)
  <1>1. /\ PackageFacts /\ machine \in Packages /\ args \in PackageArgs
        /\ kind' = kind /\ args' = args /\ found' = found
    BY PackageKnown
  <1>2. /\ todo # <<>> /\ touched' = touched /\ phase \in {"applying", "undoing"}
        /\ phase' = IF phase = "applying" THEN "failed" ELSE "stuck"
        /\ \/ machine' = machine
           \/ PackageCan(call, machine) /\ machine' = PackageAfter(call, machine)
    BY PackageKind DEF CallFails, Busy
  <1>3. touched = "no" => EntriesTell
    BY <1>1 DEF PackageFacts
  <1>4. ~Standing'
    BY <1>2 DEF Standing
  <1>5. CASE machine' = machine
    <2>1. (touched = "no" => EntriesTell)'
      BY <1>1, <1>2, <1>3, <1>4, <1>5 DEF EntriesTell, OwnEntries
    <2>2. phase = "undoing" => Fits'
      BY <1>1, <1>5 DEF PackageFacts, Fits
    <2> QED BY <1>1, <1>2, <1>5, <2>1, <2>2 DEF PackageFacts
  <1>6. CASE phase = "applying" /\ todo = PackageApply(args) /\ machine' = PackageAfter(call, machine)
    <2>1. call.op = verb /\ call.mine = TRUE
      BY <1>1, <1>6, PackageCalls
    <2>2. OwnEntries = {} /\ (touched = "no" => machine.installed = found.installed)
      BY <1>1, <1>6 DEF PackageFacts
    <2> HIDE DEF call, verb
    <2>3. /\ machine' \in Packages
          /\ \A i \in OwnOf(machine', verb) :
                /\ machine'.history[i].was = machine.installed
                /\ machine'.history[i].was # machine'.history[i].now
                /\ machine'.history[i].now = VersionAfter(verb, machine'.history[i].was)
      <3>1. machine \in Packages /\ args \in PackageArgs
        BY <1>1
      <3>2. verb = PackageVerb[args] /\ OwnOf(machine, verb) = {}
        BY <2>2 DEF verb, OwnEntries
      <3>3. machine' = PackageAfter(call, machine)
        BY <1>6
      <3>4. call.op = verb /\ call.mine \in BOOLEAN
        BY <2>1
      <3> QED BY <3>1, <3>2, <3>3, <3>4, PackageCommand
    <2>4. (touched = "no" => EntriesTell)'
      BY <1>1, <1>2, <1>4, <2>2, <2>3 DEF EntriesTell, OwnEntries, verb
    <2> QED BY <1>2, <1>6, <2>3, <2>4 DEF PackageFacts
  <1>7. CASE /\ phase = "applying" /\ todo = Capture(verb) /\ PackageCan(call, machine)
             /\ machine' = PackageAfter(call, machine)
    <2>1. call.op = "capture" /\ call.verb = verb
      BY <1>1, <1>7, PackageCalls
    <2> HIDE DEF call, verb
    <2>2. CanCapture(machine, verb)
      BY <1>7, <2>1 DEF PackageCan
    <2>3. /\ machine' \in Packages /\ machine'.installed = machine.installed
          /\ machine'.history = machine.history
          /\ OwnOf(machine', verb) = OwnOf(machine, verb)
      BY <1>1, <1>7, <2>1, <2>2, PackageCaptured
    <2>4. (touched = "no" => EntriesTell)'
      BY <1>1, <1>2, <1>3, <1>4, <2>3 DEF EntriesTell, OwnEntries, verb
    <2> QED BY <1>2, <1>7, <2>3, <2>4 DEF PackageFacts
  <1>8. CASE /\ phase = "undoing" /\ PackageCan(call, machine)
             /\ machine' = PackageAfter(call, machine)
    <2>1. call = Head(PackageUndo(args, machine)) /\ FitsIn(machine, verb)
      BY <1>1, <1>2, <1>8 DEF PackageFacts, Fits
    <2> HIDE DEF call, verb
    <2>2. /\ machine' \in Packages /\ FitsIn(machine', verb)
          /\ OwnOf(machine', verb) = OwnOf(machine, verb)
          /\ \A i \in OwnOf(machine, verb) : machine'.history[i] = machine.history[i]
      BY <1>1, <1>8, <2>1, PackageUndone DEF verb
    <2>3. (touched = "no" => EntriesTell)'
      BY <1>1, <1>2, <1>3, <1>4, <2>2 DEF EntriesTell, OwnEntries, verb
    <2>4. Fits'
      BY <1>1, <2>2 DEF Fits, verb
    <2> QED BY <1>2, <1>8, <2>2, <2>3, <2>4 DEF PackageFacts
  <1> QED BY <1>1, <1>2, <1>5, <1>6, <1>7, <1>8 DEF PackageFacts
LEMMA PackageDisturb ==
  ASSUME FlowInv, PackageInv, Next, kind = "package", Others
  PROVE  PackageFacts'
  <1> DEFINE verb == PackageVerb[args]
  <1>1. /\ PackageFacts /\ machine \in Packages /\ args \in PackageArgs
        /\ kind' = kind /\ args' = args /\ found' = found
    BY PackageKnown
  <1>2. /\ phase \in {"proposed", "applying", "applied", "undoing"} /\ phase' = phase /\ todo' = todo
        /\ touched' = phase /\ machine' \in PackageOthers(machine)
    BY PackageKind DEF Others
  <1> HIDE DEF verb
  <1>3. /\ machine' \in Packages /\ machine'.sidecar = machine.sidecar
        /\ machine'.cleared = machine.cleared
        /\ OwnOf(machine', verb) = OwnOf(machine, verb)
        /\ FitsIn(machine, verb) => FitsIn(machine', verb)
    BY <1>1, <1>2, PackageDisturbed
  <1>4. (OwnEntries' = OwnEntries) /\ (Fits => Fits')
    BY <1>1, <1>3 DEF OwnEntries, Fits, verb
  <1>5. PackageUndo(args, machine') = PackageUndo(args, machine)
    BY <1>3 DEF PackageUndo
  <1>6. touched' # "no" /\ (Calm' => phase = "proposed")
    BY <1>2 DEF Calm
  <1>7. CASE phase = "proposed"
    BY <1>1, <1>2, <1>3, <1>4, <1>6, <1>7 DEF PackageFacts
  <1>8. CASE phase = "applying"
    BY <1>1, <1>2, <1>3, <1>4, <1>6, <1>8 DEF PackageFacts
  <1>9. CASE phase = "applied"
    BY <1>1, <1>2, <1>3, <1>4, <1>6, <1>9 DEF PackageFacts
  <1>10. CASE phase = "undoing"
    BY <1>1, <1>2, <1>3, <1>4, <1>5, <1>6, <1>10 DEF PackageFacts
  <1> QED BY <1>2, <1>7, <1>8, <1>9, <1>10

LEMMA PackageClear ==
  ASSUME FlowInv, PackageInv, Next, kind = "package", Clear
  PROVE  PackageFacts'
  <1>1. /\ PackageFacts /\ machine \in Packages /\ args \in PackageArgs
        /\ kind' = kind /\ args' = args /\ found' = found
    BY PackageKnown
  <1>2. /\ phase = "applied" /\ phase' = phase /\ todo' = todo /\ touched' = touched
        /\ machine' = [machine EXCEPT !.cleared = Len(machine.history)]
    BY DEF Clear, HistoryCleared
  <1>3. Len(machine.history) \in Nat
    BY <1>1 DEF Packages
  <1>4. /\ machine' \in Packages /\ machine'.sidecar = machine.sidecar
        /\ machine'.history = machine.history /\ machine'.installed = machine.installed
    BY <1>1, <1>2, <1>3 DEF Packages
  <1>5. (OwnEntries' = OwnEntries) /\ (Fits => Fits')
    BY <1>1, <1>4 DEF OwnEntries, OwnOf, Fits, FitsIn
  <1>6. (touched = "no" => EntriesTell)'
    <2>1. touched = "no" => EntriesTell
      BY <1>1 DEF PackageFacts
    <2> QED BY <1>1, <1>2, <1>4, <1>5, <2>1 DEF EntriesTell, Standing
  <1>7. Calm' => PackageMeets(args, machine')
    <2>1. Calm => PackageMeets(args, machine)
      BY <1>1, <1>2 DEF PackageFacts
    <2> QED BY <1>2, <1>4, <2>1 DEF PackageMeets, Calm
  <1> QED BY <1>1, <1>2, <1>4, <1>5, <1>6, <1>7 DEF PackageFacts

LEMMA PackageNext ==
  ASSUME FlowInv, PackageInv, Next
  PROVE  PackageInv'
  <1> SUFFICES ASSUME kind = "package" PROVE PackageFacts'
    BY Constant DEF PackageInv
  <1>1. /\ PackageFacts /\ machine \in Packages /\ args \in PackageArgs
        /\ kind' = kind /\ args' = args /\ found' = found
    BY PackageKnown
  <1>2. /\ touched = "no" => EntriesTell
        /\ phase \in {"applied", "undoing", "undone", "stuck"} => Fits
    BY <1>1 DEF PackageFacts
  <1>3. CASE Propose
    <2>1. /\ phase = "new" /\ phase' = "proposed" /\ machine' = machine /\ touched' = touched
          /\ todo' = todo
      BY <1>3 DEF Propose
    <2>2. OwnEntries = {} /\ OwnEntries' = {} /\ (touched = "no" => machine.installed = found.installed)
      BY <1>1, <2>1 DEF PackageFacts, OwnEntries
    <2>3. EntriesTell'
      BY <2>2 DEF EntriesTell
    <2> QED BY <1>1, <2>1, <2>2, <2>3 DEF PackageFacts
  <1>4. CASE StartApply
    <2>1. /\ phase = "proposed" /\ phase' = "applying" /\ machine' = machine /\ touched' = touched
          /\ todo' = PackageApply(args)
      BY <1>4, PackageKind DEF StartApply
    <2>2. OwnEntries = {} /\ OwnEntries' = {} /\ (touched = "no" => machine.installed = found.installed)
      BY <1>1, <2>1 DEF PackageFacts, OwnEntries
    <2>3. EntriesTell'
      BY <2>2 DEF EntriesTell
    <2> QED BY <1>1, <2>1, <2>2, <2>3 DEF PackageFacts
  <1>5. CASE StartUndo
    <2>1. /\ phase \in {"applied", "undoing", "undone", "stuck"} /\ phase' = "undoing"
          /\ machine' = machine /\ touched' = touched /\ todo' = PackageUndo(args, machine)
          /\ again' = (phase # "applied")
      BY <1>5, PackageKind DEF StartUndo
    <2>2. Fits' /\ Fits
      BY <1>1, <1>2, <2>1 DEF Fits
    <2>3. todo' # <<>>
      BY <1>1, <2>1, <2>2, PackageTakenBack DEF Fits
    <2>4. (touched = "no" => EntriesTell)'
      BY <1>1, <1>2, <2>1 DEF EntriesTell, OwnEntries, Standing
    <2> QED BY <1>1, <2>1, <2>2, <2>3, <2>4 DEF PackageFacts
  <1>6. CASE Call
    BY <1>6, PackageApplyCall, PackageUndoCall DEF Call, Busy
  <1>7. CASE Return
    <2>1. /\ todo = <<>> /\ machine' = machine /\ touched' = touched /\ todo' = todo
          /\ \/ phase = "applying" /\ phase' = "applied"
             \/ phase = "undoing" /\ phase' = "undone"
      BY <1>7 DEF Return, Busy
    <2>2. PackageApply(args) # <<>>
      BY <1>1, PackageCalls
    <2>3. (touched = "no" => EntriesTell)'
      BY <1>1, <1>2, <2>1 DEF EntriesTell, OwnEntries, Standing
    <2>4. (Fits => Fits') /\ (PackageBack => PackageBack') /\ (Calm' <=> Calm)
      BY <1>1, <2>1 DEF Fits, PackageBack, Calm
    <2> QED BY <1>1, <2>1, <2>2, <2>3, <2>4 DEF PackageFacts
  <1> QED BY <1>3, <1>4, <1>5, <1>6, <1>7, PackageCallFails, PackageDisturb, PackageClear DEF Next

LEMMA PackageInit == Init => PackageInv
  <1> SUFFICES ASSUME Init, kind = "package" PROVE PackageFacts
    BY DEF PackageInv
  <1>1. machine \in PackageStart /\ phase = "new" /\ found = machine /\ args \in PackageArgs
    BY DEF Init, StartOf, ArgsOf
  <1>2. ASSUME NEW p \in Unlogged
        PROVE  p \in Packages /\ \A verb : OwnOf(p, verb) = {}
    <2>1. <<>> \in Seq(HistoryEntry) /\ DOMAIN <<>> = {}
      OBVIOUS
    <2>2. PICK v \in Version : p = [installed |-> v, history |-> <<>>, cleared |-> 0, sidecar |-> 0]
      BY DEF Unlogged
    <2>3. p \in Packages /\ p.history = <<>>
      BY <2>1, <2>2 DEF Packages
    <2> QED BY <2>1, <2>3 DEF OwnOf
  <1>3. machine \in Packages /\ OwnEntries = {}
    <2>1. CASE machine \in Unlogged
      BY <1>2, <2>1 DEF OwnEntries
    <2>2. ASSUME NEW p \in Unlogged, NEW op \in {"install", "remove"},
                 machine = PackageAfter([op |-> op, id |-> 0, mine |-> FALSE], p)
          PROVE  machine \in Packages /\ OwnEntries = {}
      <3>1. PackageCan([op |-> op, id |-> 0, mine |-> FALSE], p)
        BY DEF PackageCan
      <3>2. machine \in PackageOthers(p)
        BY <2>2, <3>1 DEF PackageOthers
      <3>3. machine \in Packages /\ OwnOf(machine, PackageVerb[args]) = {}
        BY <1>2, <3>2, PackageDisturbed
      <3> QED BY <3>3 DEF OwnEntries
    <2> QED BY <1>1, <2>1, <2>2 DEF PackageStart
  <1> QED BY <1>1, <1>3 DEF PackageFacts, EntriesTell

\* The inductive invariant of package.set.
LEMMA PackageInvariance == Spec => []PackageInv
  <1>1. FlowInv /\ PackageInv /\ [Next]_vars => PackageInv'
    <2>1. ASSUME PackageInv, UNCHANGED vars PROVE PackageInv'
      BY <2>1 DEF vars, PackageInv, PackageFacts, EntriesTell, Standing, PackageBack, OwnEntries,
                  Fits, Calm
    <2> QED BY <2>1, PackageNext
  <1> QED BY PackageInit, FlowInvariance, <1>1, PTL DEF Spec

LEMMA PackagePromises ==
  ASSUME FlowInv, PackageInv, kind = "package"
  PROVE  AppliedIsDesired /\ UndoneIsRestored /\ UndoIsPossible
  <1>1. PackageFacts /\ machine \in Packages /\ args \in PackageArgs
    BY ArgsOfKind DEF PackageInv, PackageFacts
  <1>2. AppliedIsDesired
    BY <1>1, PackageKind DEF AppliedIsDesired, PackageFacts, Calm
  <1>3. UndoneIsRestored
    BY <1>1, PackageKind DEF UndoneIsRestored, PackageFacts, PackageBack, Recoverable
  <1>4. ASSUME phase = "undoing", todo # <<>>, touched = "no", ~again, Recoverable
        PROVE  Can(Head(todo))
    <2> DEFINE verb == PackageVerb[args]
               call == Head(todo)
    <2>1. todo = PackageUndo(args, machine) /\ FitsIn(machine, verb) /\ EntriesTell /\ Standing
      BY <1>1, <1>4 DEF PackageFacts, Fits, Standing
    <2>2. machine.sidecar \in OwnEntries
      BY <1>4, <2>1 DEF Recoverable, SidecarIsMine, OwnEntries, OwnOf, FitsIn
    <2>3. LET e == machine.history[machine.sidecar]
          IN  /\ e.was = found.installed /\ e.was # e.now /\ e.now = machine.installed
              /\ e.now = VersionAfter(verb, e.was)
      BY <2>1, <2>2 DEF EntriesTell
    <2>4. machine.sidecar \in Nat /\ machine.cleared \in Nat
      BY <1>1 DEF Packages
    <2>5. CASE machine.sidecar > machine.cleared
      <3>1. call.op = "undo" /\ call.id = machine.sidecar
        BY <1>1, <2>1, <2>5, PackageTakenBack
      <3> QED BY <2>3, <2>5, <3>1, PackageKind DEF PackageCan
    <2>6. CASE ~(machine.sidecar > machine.cleared)
      <3>1. found.installed = "none"
        BY <1>4, <2>4, <2>6 DEF Recoverable
      <3>2. verb # "remove"
        BY <2>3, <3>1 DEF VersionAfter
      <3>3. call.op = "remove"
        BY <1>1, <2>1, <2>6, <3>2, PackageTakenBack
      <3> QED BY <3>3, PackageKind DEF PackageCan
    <2> QED BY <2>5, <2>6
  <1> QED BY <1>2, <1>3, <1>4 DEF UndoIsPossible

\* The id that an applied package.set has left in its sidecar is that of an entry
\* of the history made by its command (Apply, readDnfHistoryID).
THEOREM SidecarAlwaysFits == Spec => []SidecarFits
  <1>1. FlowInv /\ PackageInv => SidecarFits
    BY DEF PackageInv, PackageFacts, Fits, FitsIn, SidecarFits
  <1> QED BY FlowInvariance, PackageInvariance, <1>1, PTL
----------------------------------------------------------------------------
(* Paths. *)

Names == Seq(Nat)

LEMMA PathKnown ==
  ASSUME NEW p \in Path
  PROVE  p \in Names /\ Len(p) \in Nat /\ Len(p) > 0
  BY PathAssumption DEF Names

LEMMA PrefixByName ==
  ASSUME NEW s \in Names, NEW t \in Names
  PROVE  IsPrefix(s, t) <=> Len(s) <= Len(t) /\ \A i \in 1..Len(s) : s[i] = t[i]
  <1>1. /\ Len(s) \in Nat /\ Len(t) \in Nat
        /\ SubSeq(s, 1, Len(s)) = s
        /\ \A i \in 1..Len(s) : s[i] \in Nat
        /\ \A i \in 1..Len(t) : t[i] \in Nat
    BY DEF Names
  <1> SUFFICES ASSUME Len(s) <= Len(t)
               PROVE  SubSeq(s, 1, Len(s)) = SubSeq(t, 1, Len(s)) <=> \A i \in 1..Len(s) : s[i] = t[i]
    BY DEF IsPrefix
  <1> DEFINE u == SubSeq(t, 1, Len(s))
  <1>2. u \in Names /\ Len(u) = Len(s) /\ \A i \in 1..Len(s) : u[i] = t[i]
    <2>1. \A i \in 1..Len(s) : t[i] \in Nat
      BY <1>1
    <2>2. /\ u \in Seq(Nat) /\ Len(u) = IF 1 <= Len(s) THEN Len(s) - 1 + 1 ELSE 0
          /\ \A i \in 1..(Len(s) - 1 + 1) : u[i] = t[1 + i - 1]
      BY <1>1, <2>1, SubSeqProperties
    <2> HIDE DEF u
    <2> QED BY <1>1, <2>2 DEF Names
  <1> HIDE DEF u
  <1>3. s = u <=> \A i \in 1..Len(s) : s[i] = t[i]
    <2>1. ASSUME \A i \in 1..Len(s) : s[i] = t[i] PROVE s = u
      BY <1>1, <1>2, <2>1, SeqEqual DEF Names
    <2> QED BY <1>2, <2>1
  <1> QED BY <1>1, <1>3 DEF u

LEMMA PrefixFacts ==
  ASSUME NEW p \in Names, NEW q \in Names
  PROVE  /\ IsPrefix(p, p) /\ (IsPrefix(p, q) => Len(p) <= Len(q))
         /\ IsPrefix(p, q) /\ Len(p) = Len(q) => p = q
         /\ IsPrefix(p, q) /\ IsPrefix(q, p) => p = q
  <1>1. Len(p) \in Nat /\ Len(q) \in Nat
    BY DEF Names
  <1>2. IsPrefix(p, p) /\ (IsPrefix(p, q) => Len(p) <= Len(q))
    BY <1>1, PrefixByName
  <1>3. ASSUME IsPrefix(p, q), Len(p) = Len(q) PROVE p = q
    <2>1. \A i \in 1..Len(p) : p[i] = q[i]
      BY <1>3, PrefixByName
    <2> QED BY <1>3, <2>1, SeqEqual DEF Names
  <1>4. ASSUME IsPrefix(p, q), IsPrefix(q, p) PROVE p = q
    <2>1. Len(p) <= Len(q) /\ Len(q) <= Len(p)
      BY <1>4, PrefixByName
    <2> QED BY <1>1, <1>3, <1>4, <2>1
  <1> QED BY <1>2, <1>3, <1>4

LEMMA PrefixOrder ==
  ASSUME NEW p \in Names, NEW q \in Names, NEW r \in Names, IsPrefix(q, r)
  PROVE  /\ IsPrefix(p, q) => IsPrefix(p, r)
         /\ IsPrefix(p, r) /\ Len(p) <= Len(q) => IsPrefix(p, q)
  <1>1. Len(p) \in Nat /\ Len(q) \in Nat /\ Len(r) \in Nat
    BY DEF Names
  <1>2. Len(q) <= Len(r) /\ \A i \in 1..Len(q) : q[i] = r[i]
    BY PrefixByName
  <1>3. ASSUME IsPrefix(p, q) PROVE IsPrefix(p, r)
    <2>1. Len(p) <= Len(q) /\ \A i \in 1..Len(p) : p[i] = q[i]
      BY <1>3, PrefixByName
    <2>2. Len(p) <= Len(r) /\ \A i \in 1..Len(p) : p[i] = r[i]
      BY <1>1, <1>2, <2>1
    <2> QED BY <2>2, PrefixByName
  <1>4. ASSUME IsPrefix(p, r), Len(p) <= Len(q) PROVE IsPrefix(p, q)
    <2>1. \A i \in 1..Len(p) : p[i] = r[i]
      BY <1>4, PrefixByName
    <2>2. \A i \in 1..Len(p) : p[i] = q[i]
      BY <1>1, <1>2, <1>4, <2>1
    <2> QED BY <1>4, <2>2, PrefixByName
  <1> QED BY <1>3, <1>4

\* What Front leaves is above.
LEMMA FrontIsAbove ==
  ASSUME NEW p \in Path, Len(p) > 1
  PROVE  /\ Front(p) \in Path /\ Len(Front(p)) = Len(p) - 1 /\ IsPrefix(Front(p), p)
         /\ Above(p) = Above(Front(p)) \cup {Front(p)}
  <1> DEFINE f == Front(p)
  <1>1. p \in Names /\ Len(p) \in Nat /\ f \in Path /\ f \in Names
    <2>1. f \in Path
      BY PathAssumption
    <2> HIDE DEF f
    <2> QED BY <2>1, PathKnown
  <1>2. Len(f) = Len(p) - 1 /\ \A i \in 1..Len(f) : f[i] = p[i]
    <2>1. \A i \in 1..(Len(p) - 1) : p[i] \in Nat
      BY <1>1 DEF Names
    <2>2. /\ Len(f) = IF 1 <= Len(p) - 1 THEN Len(p) - 1 - 1 + 1 ELSE 0
          /\ \A i \in 1..(Len(p) - 1 - 1 + 1) : f[i] = p[1 + i - 1]
      BY <1>1, <2>1, SubSeqProperties DEF Front
    <2> HIDE DEF f
    <2> QED BY <1>1, <2>2
  <1> HIDE DEF f
  <1>3. IsPrefix(f, p)
    <2>1. f \in Names /\ p \in Names
      BY <1>1
    <2>2. Len(f) <= Len(p)
      BY <1>1, <1>2
    <2>3. \A i \in 1..Len(f) : f[i] = p[i]
      BY <1>2
    <2> HIDE DEF Names
    <2> QED BY <2>1, <2>2, <2>3, PrefixByName
  <1>4. ASSUME NEW q \in Path
        PROVE  IsStrictPrefix(q, p) <=> IsStrictPrefix(q, f) \/ q = f
    <2>1. q \in Names /\ Len(q) \in Nat
      BY PathKnown
    <2>2. ASSUME IsStrictPrefix(q, p) PROVE IsPrefix(q, f)
      <3>1. IsPrefix(q, p) /\ q # p
        BY <2>2 DEF IsStrictPrefix
      <3>2. Len(q) <= Len(p) /\ Len(q) # Len(p)
        BY <1>1, <2>1, <3>1, PrefixFacts
      <3>3. Len(q) <= Len(f)
        BY <1>1, <1>2, <2>1, <3>2
      <3> QED BY <1>1, <1>3, <2>1, <3>1, <3>3, PrefixOrder
    <2>3. ASSUME IsPrefix(q, f) PROVE IsPrefix(q, p) /\ q # p
      <3>1. IsPrefix(q, p) /\ Len(q) <= Len(f)
        BY <1>1, <1>3, <2>1, <2>3, PrefixFacts, PrefixOrder
      <3> QED BY <1>1, <1>2, <2>1, <3>1
    <2>4. IsPrefix(f, f)
      BY <1>1, PrefixFacts
    <2> QED BY <2>2, <2>3, <2>4 DEF IsStrictPrefix
  <1>5. Above(p) = Above(f) \cup {f}
    BY <1>1, <1>4 DEF Above
  <1> QED BY <1>1, <1>2, <1>3, <1>5 DEF f

LEMMA TopLevel ==
  ASSUME NEW p \in Path, Len(p) = 1
  PROVE  /\ Above(p) = {}
         /\ \A q \in Path : IsPrefix(q, p) => q = p
  <1>1. \A q \in Path : IsPrefix(q, p) => q = p
    <2> SUFFICES ASSUME NEW q \in Path, IsPrefix(q, p) PROVE q = p
      OBVIOUS
    <2>1. p \in Names /\ q \in Names /\ Len(q) \in Nat /\ Len(q) > 0
      BY PathKnown
    <2>2. Len(q) <= Len(p)
      BY <2>1, PrefixFacts
    <2>3. Len(q) = Len(p)
      <3>1. \A m, n \in Nat : n > 0 /\ n <= m /\ m = 1 => n = m
        OBVIOUS
      <3>2. Len(p) \in Nat
        BY PathKnown
      <3> QED BY <2>1, <2>2, <3>1, <3>2
    <2> QED BY <2>1, <2>3, PrefixFacts
  <1> QED BY <1>1 DEF Above, IsStrictPrefix
----------------------------------------------------------------------------
(* What is left of a list of calls. *)

LEMMA LeftFacts ==
  ASSUME NEW S, NEW calls \in Seq(S), NEW k \in 0..Len(calls)
  PROVE  /\ Left(calls, 0) = calls
         /\ Left(calls, k) = <<>> => k = Len(calls)
         /\ Left(calls, Len(calls)) = <<>>
         /\ Left(calls, k) # <<>> =>
               /\ k + 1 \in 1..Len(calls) /\ k + 1 \in 0..Len(calls)
               /\ Head(Left(calls, k)) = calls[k + 1]
               /\ Tail(Left(calls, k)) = Left(calls, k + 1)
  <1> DEFINE n == Len(calls)
  <1>1. n \in Nat /\ k \in Nat /\ k <= n /\ \A i \in 1..n : calls[i] \in S
    OBVIOUS
  <1>2. Left(calls, 0) = calls
    BY SubSeqFull DEF Left
  <1>3. Left(calls, n) = <<>>
    <2>1. n + 1 \in Int /\ n \in Int /\ n < n + 1
      BY <1>1
    <2> QED BY <2>1, SubSeqEmpty DEF Left
  <1>4. ASSUME k # n PROVE /\ Left(calls, k) # <<>>
                           /\ Head(Left(calls, k)) = calls[k + 1]
                           /\ Tail(Left(calls, k)) = Left(calls, k + 1)
    <2>1. k + 1 \in 1..n /\ n \in (k + 1)..n
      BY <1>1, <1>4
    <2>2. /\ Head(SubSeq(calls, k + 1, n)) = calls[k + 1]
          /\ Tail(SubSeq(calls, k + 1, n)) = SubSeq(calls, k + 1 + 1, n)
      BY <2>1, HeadTailOfSubSeq
    <2>3. Len(SubSeq(calls, k + 1, n)) = IF k + 1 <= n THEN n - (k + 1) + 1 ELSE 0
      <3>1. \A i \in (k + 1)..n : calls[i] \in S
        BY <1>1
      <3>2. k + 1 \in Int /\ n \in Int
        BY <1>1
      <3> QED BY <3>1, <3>2, SubSeqProperties
    <2>4. Len(SubSeq(calls, k + 1, n)) # 0
      BY <1>1, <2>1, <2>3
    <2>5. SubSeq(calls, k + 1, n) # <<>>
      <3>1. \A u : Len(u) # 0 => u # <<>>
        OBVIOUS
      <3> QED BY <2>4, <3>1, Zenon
    <2> QED BY <2>2, <2>5 DEF Left
  <1> HIDE DEF n
  <1>5. k # n => k + 1 \in 1..n /\ k + 1 \in 0..n
    BY <1>1
  <1> QED BY <1>2, <1>3, <1>4, <1>5 DEF n
----------------------------------------------------------------------------
(* disk.clean: the calls. *)

FileCalls == [op : {"remove", "mkdir", "touch"}, path : Path]

LEMMA PathList ==
  ASSUME args \in Paths
  PROVE  args \in Seq(Path) /\ Len(args) \in Nat /\ DOMAIN args = 1..Len(args)
         /\ \A i \in DOMAIN args : args[i] \in Path
  <1>1. PICK m \in 0..MaxList : args \in [1..m -> Path]
    BY DEF Paths, SeqOf
  <1> QED BY <1>1

LEMMA CleanCalls ==
  ASSUME args \in Seq(Path), before = CleanBefore(args, found)
  PROVE  /\ CleanApply(before) \in Seq(FileCalls) /\ Len(CleanApply(before)) = Len(args)
         /\ \A i \in 1..Len(args) : CleanApply(before)[i] = [op |-> "remove", path |-> args[i]]
         /\ CleanUndo(before) \in Seq(FileCalls) /\ Len(CleanUndo(before)) = Len(args)
         /\ \A i \in 1..Len(args) :
               CleanUndo(before)[i] =
                  [op |-> IF found[args[i]].type = "dir" THEN "mkdir" ELSE "touch",
                   path |-> args[i]]
  <1> DEFINE n == Len(args)
  <1>1. n \in Nat /\ DOMAIN args = 1..n /\ \A i \in 1..n : args[i] \in Path
    OBVIOUS
  <1>2. /\ DOMAIN before = 1..n
        /\ \A i \in 1..n : before[i].path = args[i]
                           /\ before[i].dir = (found[args[i]].type = "dir")
    BY <1>1 DEF CleanBefore
  <1> HIDE DEF n
  <1>3. /\ CleanApply(before) \in [1..n -> FileCalls]
        /\ \A i \in 1..n : CleanApply(before)[i] = [op |-> "remove", path |-> args[i]]
    BY <1>1, <1>2 DEF CleanApply, FileCalls
  <1>4. /\ CleanUndo(before) \in [1..n -> FileCalls]
        /\ \A i \in 1..n :
              CleanUndo(before)[i] =
                  [op |-> IF found[args[i]].type = "dir" THEN "mkdir" ELSE "touch",
                   path |-> args[i]]
    BY <1>1, <1>2 DEF CleanUndo, FileCalls
  <1>5. /\ CleanApply(before) \in Seq(FileCalls) /\ Len(CleanApply(before)) = n
        /\ CleanUndo(before) \in Seq(FileCalls) /\ Len(CleanUndo(before)) = n
    BY <1>1, <1>3, <1>4
  <1> QED BY <1>3, <1>4, <1>5 DEF n
----------------------------------------------------------------------------
(* Trees of files. *)

LEMMA EntryFacts ==
  /\ Nothing \in Entries /\ Directory \in Entries
  /\ File(NoData) \in Entries /\ File(<< 0 >>) \in Entries
  /\ \A p \in Path : File(p) \in Entries
  /\ \A e \in Entries : (e = Nothing <=> e.type = "none") /\ (e.type = "dir" => e = Directory)
  /\ Nothing.type = "none" /\ Directory.type = "dir" /\ \A d : File(d).type = "file"
  <1>1. NoData \in Seq(Nat) /\ << 0 >> \in Seq(Nat) /\ \A p \in Path : p \in Seq(Nat)
    BY PathKnown DEF NoData, Names
  <1>2. \A p \in Path : [type |-> "file", data |-> p] \in Entries
    BY <1>1 DEF Entries
  <1>3. \A e \in Entries : (e = Nothing <=> e.type = "none") /\ (e.type = "dir" => e = Directory)
    BY DEF Entries, Nothing, Directory
  <1>4. Nothing \in Entries /\ Directory \in Entries
    BY <1>1 DEF Entries, Nothing, Directory
  <1>5. File(NoData) \in Entries /\ File(<< 0 >>) \in Entries
    BY <1>1 DEF Entries, File
  <1> QED BY <1>2, <1>3, <1>4, <1>5 DEF Nothing, Directory, File

LEMMA FileEffect ==
  ASSUME NEW fs \in [Path -> Entries], NEW p \in Path
  PROVE  /\ RemoveAll(fs, p) \in [Path -> Entries] /\ MkdirAll(fs, p) \in [Path -> Entries]
         /\ [fs EXCEPT ![p] = IF @ = Nothing THEN File(NoData) ELSE @] \in [Path -> Entries]
         /\ [fs EXCEPT ![p] = File(<< 0 >>)] \in [Path -> Entries]
  BY EntryFacts DEF RemoveAll, MkdirAll

LEMMA FilesFound ==
  ASSUME found \in FilesStart
  PROVE  FoundTree
  <1>1. PICK sh \in Shapes :
           found = [p \in Path |-> [type |-> sh[p], data |-> IF sh[p] = "file" THEN p ELSE NoData]]
    BY DEF FilesStart
  <1>2. \A p \in Path : /\ sh[p] \in {"none", "dir", "file"}
                        /\ sh[p] = "dir" => Len(p) = 1
                        /\ sh[p] # "none" => \A q \in Above(p) : sh[q] = "dir"
    BY DEF Shapes
  <1>3. \A p \in Path : /\ found[p].type = sh[p]
                        /\ found[p].data = IF sh[p] = "file" THEN p ELSE NoData
                        /\ found[p] \in Entries
    <2> SUFFICES ASSUME NEW p \in Path
                 PROVE  /\ found[p].type = sh[p]
                        /\ found[p].data = IF sh[p] = "file" THEN p ELSE NoData
                        /\ found[p] \in Entries
      OBVIOUS
    <2>1. found[p] = [type |-> sh[p], data |-> IF sh[p] = "file" THEN p ELSE NoData]
      BY <1>1
    <2>2. p \in Seq(Nat) /\ NoData \in Seq(Nat)
      BY PathKnown DEF Names, NoData
    <2> QED BY <1>2, <2>1, <2>2 DEF Entries
  <1>4. found \in [Path -> Entries]
    BY <1>1, <1>3
  <1>5. ASSUME NEW p \in Path PROVE found[p] # Nothing => InPlace(found, p)
    <2>1. found[p] # Nothing => sh[p] # "none"
      BY <1>3, EntryFacts
    <2>2. \A q \in Above(p) : q \in Path
      BY DEF Above
    <2> QED BY <1>2, <1>3, <2>1, <2>2 DEF InPlace
  <1> QED BY <1>2, <1>3, <1>4, <1>5 DEF FoundTree
----------------------------------------------------------------------------
(* disk.clean: the steps. *)

LEMMA CleanKind ==
  ASSUME kind = "clean"
  PROVE  /\ \A call : Can(call) = CleanCan(call, machine) /\ After(call) = CleanAfter(call, machine)
         /\ Elsewhere = FilesOthers(machine) /\ (Accepts <=> CleanAccepts(args, machine))
         /\ Snapshot = CleanBefore(args, machine)
         /\ ApplyCalls = CleanApply(before) /\ UndoCalls = CleanUndo(before)
         /\ (Meets <=> CleanMeets(args, machine))
         /\ (Restored <=> CleanRestored(args, found, machine))
  BY DEF Can, After, Elsewhere, Accepts, Snapshot, ApplyCalls, UndoCalls, Meets, Restored

LEMMA CleanKnown ==
  ASSUME FlowInv, CleanInv, kind = "clean"
  PROVE  /\ CleanFacts /\ FoundTree /\ machine \in [Path -> Entries]
         /\ args \in Seq(Path) /\ Len(args) \in Nat /\ DOMAIN args = 1..Len(args)
         /\ \A i \in DOMAIN args : args[i] \in Path
  <1>1. CleanFacts
    BY DEF CleanInv
  <1>2. args \in Paths
    BY ArgsOfKind
  <1> QED BY <1>1, <1>2, PathList DEF CleanFacts

LEMMA DisturbedFiles ==
  ASSUME machine \in [Path -> Entries], machine' \in FilesOthers(machine)
  PROVE  machine' \in [Path -> Entries]
  <1>1. \/ \E p \in Path : machine' = [machine EXCEPT ![p] = File(<< 0 >>)]
        \/ \E p \in Path : machine' = RemoveAll(machine, p)
    BY DEF FilesOthers
  <1>2. ASSUME NEW p \in Path, machine' = [machine EXCEPT ![p] = File(<< 0 >>)]
        PROVE  machine' \in [Path -> Entries]
    <2>1. File(<< 0 >>) \in Entries
      BY EntryFacts
    <2> QED BY <1>2, <2>1
  <1>3. ASSUME NEW p \in Path, machine' = RemoveAll(machine, p)
        PROVE  machine' \in [Path -> Entries]
    BY <1>3, FileEffect
  <1> QED BY <1>1, <1>2, <1>3

\* One path more is gone.
LEMMA CleanRemoves ==
  ASSUME machine \in [Path -> Entries], FoundTree, args \in Seq(Path),
         args' = args, found' = found, NEW k \in Nat, k + 1 \in DOMAIN args,
         machine' = RemoveAll(machine, args[k + 1])
  PROVE  /\ machine' \in [Path -> Entries]
         /\ (\A i \in DOMAIN args : i <= k => machine[args[i]] = Nothing)
               => \A i \in DOMAIN args : i <= k + 1 => machine'[args[i]] = Nothing
         /\ (\A p \in Path : machine[p].type \in {"none", found[p].type})
               => \A p \in Path : machine'[p].type \in {"none", found[p].type}
         /\ Remade(0) => Remade(0)'
  <1> DEFINE p == args[k + 1]
  <1>1. p \in Path /\ DOMAIN args = 1..Len(args) /\ Len(args) \in Nat
        /\ \A i \in DOMAIN args : args[i] \in Path
    OBVIOUS
  <1>2. machine' \in [Path -> Entries]
    BY <1>1, FileEffect
  <1>3. \A q \in Path : machine'[q] = IF Under(q, p) THEN Nothing ELSE machine[q]
    BY DEF RemoveAll
  <1>4. Under(p, p)
    BY <1>1, PathKnown, PrefixFacts DEF Under
  <1>5. ASSUME \A i \in DOMAIN args : i <= k => machine[args[i]] = Nothing,
               NEW i \in DOMAIN args, i <= k + 1
        PROVE  machine'[args[i]] = Nothing
    <2>1. i <= k \/ i = k + 1
      <3>1. i \in Nat
        BY <1>1
      <3> QED BY <1>5, <3>1
    <2> QED BY <1>1, <1>3, <1>4, <1>5, <2>1
  <1>6. ASSUME Remade(0), NEW q \in Path, found[q].type = "dir"
        PROVE  machine'[q].type = "dir" \/ \E j \in DOMAIN args : 0 < j /\ args[j] = q
    <2>1. CASE Under(q, p)
      <3>1. Len(q) = 1
        BY <1>6 DEF FoundTree
      <3>2. p = q
        BY <1>1, <2>1, <3>1, TopLevel DEF Under
      <3> QED BY <3>2
    <2>2. CASE ~Under(q, p)
      BY <1>3, <1>6, <2>2 DEF Remade
    <2> QED BY <2>1, <2>2
  <1>7. Remade(0) => Remade(0)'
    BY <1>6 DEF Remade
  <1> QED BY <1>2, <1>3, <1>5, <1>7, EntryFacts

\* One path more is there again; no other changes, and no data goes.
LEMMA CleanMakes ==
  ASSUME machine \in [Path -> Entries], FoundTree, NEW p \in Path, found[p] # Nothing,
         NEW call, call.op = IF found[p].type = "dir" THEN "mkdir" ELSE "touch", call.path = p,
         CleanCan(call, machine), machine' = CleanAfter(call, machine)
  PROVE  /\ machine' \in [Path -> Entries]
         /\ \A q \in Path : q # p => machine'[q] = machine[q]
         /\ machine[p].type \in {"none", found[p].type} => machine'[p].type = found[p].type
         /\ machine[p].type = "file" => machine'[p] = machine[p]
  <1>1. CASE found[p].type = "dir"
    <2>1. Len(p) = 1
      BY <1>1 DEF FoundTree
    <2>2. Above(p) = {}
      BY <2>1, TopLevel
    <2>3. machine' = MkdirAll(machine, p) /\ CanMkdirAll(machine, p)
      BY <1>1 DEF CleanAfter, CleanCan
    <2>4. \A q \in Path : machine'[q] = IF q = p THEN Directory ELSE machine[q]
      BY <2>2, <2>3 DEF MkdirAll
    <2>5. machine[p].type # "file"
      BY <2>3 DEF CanMkdirAll
    <2> QED BY <1>1, <2>3, <2>4, <2>5, EntryFacts, FileEffect
  <1>2. CASE found[p].type # "dir"
    <2>1. found[p].type = "file"
      <3>1. found[p] \in Entries /\ found[p].type # "none"
        BY EntryFacts DEF FoundTree
      <3> QED BY <1>2, <3>1 DEF Entries
    <2>2. /\ machine' = [machine EXCEPT ![p] = IF @ = Nothing THEN File(NoData) ELSE @]
          /\ machine[p].type # "dir"
      BY <1>2 DEF CleanAfter, CleanCan
    <2>3. machine' \in [Path -> Entries]
      BY <2>2, FileEffect
    <2>4. machine'[p] = IF machine[p] = Nothing THEN File(NoData) ELSE machine[p]
      BY <2>2
    <2>5. machine[p] = Nothing <=> machine[p].type = "none"
      BY EntryFacts
    <2> QED BY <2>1, <2>2, <2>3, <2>4, <2>5, EntryFacts
  <1> QED BY <1>1, <1>2

LEMMA CleanRemakes ==
  ASSUME args' = args, found' = found, NEW k \in Nat, k + 1 \in DOMAIN args,
         args \in Seq(Path),
         \A q \in Path : q # args[k + 1] => machine'[q] = machine[q],
         machine'[args[k + 1]].type = found[args[k + 1]].type
  PROVE  /\ (\A p \in Path : machine[p].type \in {"none", found[p].type})
               => \A p \in Path : machine'[p].type \in {"none", found[p].type}
         /\ PathsBack(k) => PathsBack(k + 1)'
         /\ Remade(k) => Remade(k + 1)'
  <1>1. DOMAIN args \subseteq Nat /\ \A i \in DOMAIN args : args[i] \in Path
    OBVIOUS
  <1>2. PathsBack(k) => PathsBack(k + 1)'
    <2> SUFFICES ASSUME PathsBack(k), NEW i \in DOMAIN args, i <= k + 1
                 PROVE  machine'[args[i]].type = found[args[i]].type
      BY DEF PathsBack
    <2>1. i \in Nat /\ args[i] \in Path
      BY <1>1
    <2>2. CASE args[i] = args[k + 1]
      BY <2>2
    <2>3. CASE args[i] # args[k + 1]
      <3>1. i <= k
        BY <2>1, <2>3
      <3>2. machine'[args[i]] = machine[args[i]]
        BY <2>1, <2>3
      <3> QED BY <3>1, <3>2 DEF PathsBack
    <2> QED BY <2>2, <2>3
  <1>3. Remade(k) => Remade(k + 1)'
    <2> SUFFICES ASSUME Remade(k), NEW q \in Path, found[q].type = "dir"
                 PROVE  \/ machine'[q].type = "dir"
                        \/ \E j \in DOMAIN args : k + 1 < j /\ args[j] = q
      BY DEF Remade
    <2>1. CASE q = args[k + 1]
      BY <2>1
    <2>2. CASE q # args[k + 1]
      <3>1. machine'[q] = machine[q]
        BY <2>2
      <3>2. CASE machine[q].type = "dir"
        BY <3>1, <3>2
      <3>3. ASSUME NEW j \in DOMAIN args, k < j, args[j] = q PROVE k + 1 < j
        BY <1>1, <2>2, <3>3
      <3> QED BY <3>2, <3>3 DEF Remade
    <2> QED BY <2>1, <2>2
  <1> QED BY <1>2, <1>3

\* Before Apply starts.
LEMMA CleanBegins ==
  ASSUME FlowInv, CleanFacts, kind = "clean", Propose \/ StartApply
  PROVE  CleanFacts'
  <1>1. /\ kind' = kind /\ args' = args /\ found' = found /\ machine' = machine
        /\ touched' = touched /\ again' = again
        /\ args \in Seq(Path) /\ Len(args) \in Nat
    <2>1. args \in Paths
      BY ArgsOfKind
    <2>2. found' = found
      BY DEF Propose, StartApply, FlowInv, step
    <2> QED BY <2>1, <2>2, PathList DEF Propose, StartApply, step
  <1>2. /\ machine' \in [Path -> Entries] /\ FoundTree' /\ args' \in Seq(Path)
        /\ touched' = "no" => \A p \in Path : machine'[p].type \in {"none", found'[p].type}
        /\ touched' = "no" => Remade(0)'
    <2>1. phase \in {"new", "proposed"}
      BY DEF Propose, StartApply
    <2> QED BY <1>1, <2>1 DEF CleanFacts, FoundTree, Remade
  <1>3. CASE Propose
    <2>1. phase' = "proposed" /\ machine = found /\ before' = CleanBefore(args, machine)
          /\ CleanAccepts(args, machine)
      BY <1>3, CleanKind DEF Propose, FlowInv
    <2> QED BY <1>1, <1>2, <2>1 DEF CleanFacts
  <1>4. CASE StartApply
    <2>1. phase = "proposed" /\ phase' = "applying" /\ before' = before
          /\ todo' = CleanApply(before)
      BY <1>4, CleanKind DEF StartApply, step
    <2>2. before = CleanBefore(args, found) /\ CleanAccepts(args, found)
      BY <2>1 DEF CleanFacts
    <2>3. todo' = Left(CleanApply(before'), 0)
      <3>1. CleanApply(before) \in Seq(FileCalls) /\ 0 \in 0..Len(CleanApply(before))
        BY <1>1, <2>2, CleanCalls
      <3> QED BY <2>1, <3>1, LeftFacts
    <2>4. \A i \in DOMAIN args : ~(i <= 0)
      BY <1>1
    <2>5. 0 \in 0..Len(args)
      BY <1>1
    <2> QED BY <1>1, <1>2, <2>1, <2>2, <2>3, <2>4, <2>5 DEF CleanFacts
  <1> QED BY <1>3, <1>4

LEMMA CleanStartUndo ==
  ASSUME FlowInv, CleanFacts, kind = "clean", StartUndo
  PROVE  CleanFacts'
  <1>1. /\ kind' = kind /\ args' = args /\ found' = found /\ machine' = machine
        /\ before' = before /\ touched' = touched /\ again' = (phase # "applied")
        /\ phase' = "undoing" /\ phase \in {"applied", "undoing", "undone", "stuck"}
        /\ todo' = CleanUndo(before)
    BY CleanKind DEF StartUndo, step
  <1>2. args \in Seq(Path) /\ Len(args) \in Nat /\ before = CleanBefore(args, found)
        /\ CleanAccepts(args, found) /\ 0 \in 0..Len(args)
    BY <1>1 DEF CleanFacts
  <1>3. todo' = Left(CleanUndo(before'), 0)
    <2>1. CleanUndo(before) \in Seq(FileCalls) /\ 0 \in 0..Len(CleanUndo(before))
      BY <1>2, CleanCalls
    <2> QED BY <1>1, <2>1, LeftFacts
  <1>4. touched' = "no" => PathsBack(0)'
    <2>1. \A i \in DOMAIN args : ~(i <= 0)
      BY <1>2
    <2> QED BY <1>1, <2>1 DEF PathsBack
  <1>5. touched' = "no" /\ ~again' => Remade(0)'
    BY <1>1 DEF CleanFacts, Remade
  <1>6. /\ machine' \in [Path -> Entries] /\ FoundTree' /\ args' \in Seq(Path)
        /\ touched' = "no" => \A p \in Path : machine'[p].type \in {"none", found'[p].type}
    BY <1>1 DEF CleanFacts, FoundTree
  <1>7. before' = CleanBefore(args', found') /\ CleanAccepts(args', found')
    BY <1>1, <1>2
  <1>8. \E k \in 0..Len(args') :
           /\ todo' = Left(CleanUndo(before'), k)
           /\ touched' = "no" => PathsBack(k)' /\ (TopDown' /\ ~again' => Remade(k)')
    BY <1>1, <1>2, <1>3, <1>4, <1>5
  <1> QED BY <1>1, <1>6, <1>7, <1>8 DEF CleanFacts

\* The call at the head while Apply runs.
LEMMA CleanApplyCall ==
  ASSUME FlowInv, CleanInv, kind = "clean", phase = "applying", todo # <<>>,
         args' = args, found' = found, machine' = After(Head(todo))
  PROVE  /\ machine' \in [Path -> Entries]
         /\ touched = "no" =>
               (\A p \in Path : machine'[p].type \in {"none", found[p].type}) /\ Remade(0)'
         /\ \E k \in 0..Len(args) :
               /\ Tail(todo) = Left(CleanApply(before), k)
               /\ Calm => \A i \in DOMAIN args : i <= k => machine'[args[i]] = Nothing
  <1> DEFINE calls == CleanApply(before)
  <1>1. /\ FoundTree /\ machine \in [Path -> Entries] /\ args \in Seq(Path) /\ Len(args) \in Nat
        /\ DOMAIN args = 1..Len(args) /\ before = CleanBefore(args, found)
        /\ touched = "no" =>
              (\A p \in Path : machine[p].type \in {"none", found[p].type}) /\ Remade(0)
    BY CleanKnown DEF CleanFacts
  <1>2. PICK k \in 0..Len(args) :
           /\ todo = Left(calls, k)
           /\ Calm => \A i \in DOMAIN args : i <= k => machine[args[i]] = Nothing
    BY CleanKnown DEF CleanFacts
  <1>3. calls \in Seq(FileCalls) /\ Len(calls) = Len(args)
        /\ \A i \in 1..Len(args) : calls[i] = [op |-> "remove", path |-> args[i]]
    BY <1>1, CleanCalls
  <1> HIDE DEF calls
  <1>4. /\ k + 1 \in 1..Len(calls) /\ k + 1 \in 0..Len(calls)
        /\ Head(todo) = calls[k + 1] /\ Tail(todo) = Left(calls, k + 1)
    BY <1>2, <1>3, LeftFacts
  <1>5. k \in Nat /\ k + 1 \in DOMAIN args /\ k + 1 \in 0..Len(args)
    BY <1>1, <1>3, <1>4
  <1>6. machine' = RemoveAll(machine, args[k + 1])
    <2>1. Head(todo).op = "remove" /\ Head(todo).path = args[k + 1]
      <3>1. calls[k + 1] = [op |-> "remove", path |-> args[k + 1]]
        BY <1>3, <1>4
      <3> QED BY <1>4, <3>1
    <2>2. machine' = CleanAfter(Head(todo), machine)
      BY CleanKind
    <2> QED BY <2>1, <2>2 DEF CleanAfter
  <1>7. /\ machine' \in [Path -> Entries]
        /\ (\A i \in DOMAIN args : i <= k => machine[args[i]] = Nothing)
              => \A i \in DOMAIN args : i <= k + 1 => machine'[args[i]] = Nothing
        /\ (\A p \in Path : machine[p].type \in {"none", found[p].type})
              => \A p \in Path : machine'[p].type \in {"none", found[p].type}
        /\ Remade(0) => Remade(0)'
    BY <1>1, <1>5, <1>6, CleanRemoves
  <1> QED BY <1>1, <1>2, <1>4, <1>5, <1>7 DEF calls

\* The call at the head while Rollback runs.
LEMMA CleanUndoHead ==
  ASSUME FlowInv, CleanInv, kind = "clean", phase = "undoing", todo # <<>>
  PROVE  \E k \in 0..Len(args) :
            /\ k + 1 \in DOMAIN args /\ k + 1 \in 0..Len(args) /\ k \in Nat
            /\ args[k + 1] \in Path /\ found[args[k + 1]] # Nothing
            /\ Head(todo).op = IF found[args[k + 1]].type = "dir" THEN "mkdir" ELSE "touch"
            /\ Head(todo).path = args[k + 1]
            /\ Tail(todo) = Left(CleanUndo(before), k + 1)
            /\ touched = "no" => PathsBack(k) /\ (TopDown /\ ~again => Remade(k))
  <1> DEFINE calls == CleanUndo(before)
  <1>1. /\ args \in Seq(Path) /\ Len(args) \in Nat /\ DOMAIN args = 1..Len(args)
        /\ before = CleanBefore(args, found) /\ CleanAccepts(args, found)
        /\ \A i \in DOMAIN args : args[i] \in Path
    BY CleanKnown DEF CleanFacts
  <1>2. PICK k \in 0..Len(args) :
           /\ todo = Left(calls, k)
           /\ touched = "no" => PathsBack(k) /\ (TopDown /\ ~again => Remade(k))
    BY CleanKnown DEF CleanFacts
  <1>3. calls \in Seq(FileCalls) /\ Len(calls) = Len(args)
        /\ \A i \in 1..Len(args) :
              calls[i] = [op |-> IF found[args[i]].type = "dir" THEN "mkdir" ELSE "touch",
                          path |-> args[i]]
    BY <1>1, CleanCalls
  <1> HIDE DEF calls
  <1>4. /\ k + 1 \in 1..Len(calls) /\ k + 1 \in 0..Len(calls)
        /\ Head(todo) = calls[k + 1] /\ Tail(todo) = Left(calls, k + 1)
    BY <1>2, <1>3, LeftFacts
  <1>5. k \in Nat /\ k + 1 \in DOMAIN args /\ k + 1 \in 0..Len(args)
    BY <1>1, <1>3, <1>4
  <1>6. args[k + 1] \in Path /\ found[args[k + 1]] # Nothing
    BY <1>1, <1>5 DEF CleanAccepts
  <1>7. /\ Head(todo).op = IF found[args[k + 1]].type = "dir" THEN "mkdir" ELSE "touch"
        /\ Head(todo).path = args[k + 1]
    <2>1. calls[k + 1] = [op |-> IF found[args[k + 1]].type = "dir" THEN "mkdir" ELSE "touch",
                          path |-> args[k + 1]]
      BY <1>3, <1>4
    <2> QED BY <1>4, <2>1
  <1> QED BY <1>2, <1>4, <1>5, <1>6, <1>7 DEF calls

LEMMA CleanUndoCall ==
  ASSUME FlowInv, CleanInv, kind = "clean", phase = "undoing", todo # <<>>,
         args' = args, found' = found, Can(Head(todo)), machine' = After(Head(todo))
  PROVE  /\ machine' \in [Path -> Entries]
         /\ touched = "no" => \A p \in Path : machine'[p].type \in {"none", found[p].type}
         /\ \E k \in 0..Len(args) :
               /\ Tail(todo) = Left(CleanUndo(before), k)
               /\ touched = "no" => PathsBack(k)' /\ (TopDown /\ ~again => Remade(k)')
         /\ \A q \in Path : machine[q].type = "file" => machine'[q] = machine[q]
  <1>1. /\ FoundTree /\ machine \in [Path -> Entries] /\ args \in Seq(Path)
        /\ touched = "no" => \A p \in Path : machine[p].type \in {"none", found[p].type}
    BY CleanKnown DEF CleanFacts
  <1>2. PICK k \in 0..Len(args) :
            /\ k + 1 \in DOMAIN args /\ k + 1 \in 0..Len(args) /\ k \in Nat
            /\ args[k + 1] \in Path /\ found[args[k + 1]] # Nothing
            /\ Head(todo).op = IF found[args[k + 1]].type = "dir" THEN "mkdir" ELSE "touch"
            /\ Head(todo).path = args[k + 1]
            /\ Tail(todo) = Left(CleanUndo(before), k + 1)
            /\ touched = "no" => PathsBack(k) /\ (TopDown /\ ~again => Remade(k))
    BY CleanUndoHead
  <1>3. CleanCan(Head(todo), machine) /\ machine' = CleanAfter(Head(todo), machine)
    BY CleanKind
  <1>4. /\ machine' \in [Path -> Entries]
        /\ \A q \in Path : q # args[k + 1] => machine'[q] = machine[q]
        /\ machine[args[k + 1]].type \in {"none", found[args[k + 1]].type}
              => machine'[args[k + 1]].type = found[args[k + 1]].type
        /\ machine[args[k + 1]].type = "file" => machine'[args[k + 1]] = machine[args[k + 1]]
    BY <1>1, <1>2, <1>3, CleanMakes
  <1>5. ASSUME touched = "no"
        PROVE  /\ \A p \in Path : machine'[p].type \in {"none", found[p].type}
               /\ PathsBack(k + 1)' /\ (TopDown /\ ~again => Remade(k + 1)')
    <2>1. machine'[args[k + 1]].type = found[args[k + 1]].type
      BY <1>1, <1>2, <1>4, <1>5
    <2>2. /\ (\A p \in Path : machine[p].type \in {"none", found[p].type})
               => \A p \in Path : machine'[p].type \in {"none", found[p].type}
          /\ PathsBack(k) => PathsBack(k + 1)'
          /\ Remade(k) => Remade(k + 1)'
      BY <1>1, <1>2, <1>4, <2>1, CleanRemakes
    <2> QED BY <1>1, <1>2, <1>5, <2>2
  <1> QED BY <1>2, <1>4, <1>5

LEMMA CleanCallStep ==
  ASSUME FlowInv, CleanInv, kind = "clean", Call
  PROVE  CleanFacts'
  <1>1. /\ kind' = kind /\ args' = args /\ found' = found /\ before' = before
        /\ touched' = touched /\ again' = again /\ phase' = phase
        /\ todo # <<>> /\ Can(Head(todo)) /\ machine' = After(Head(todo)) /\ todo' = Tail(todo)
        /\ phase \in {"applying", "undoing"}
    BY DEF Call, step, Busy
  <1>2. /\ FoundTree /\ args \in Seq(Path)
        /\ before = CleanBefore(args, found) /\ CleanAccepts(args, found)
    BY <1>1, CleanKnown DEF CleanFacts
  <1>3. FoundTree' /\ args' \in Seq(Path)
        /\ before' = CleanBefore(args', found') /\ CleanAccepts(args', found')
    BY <1>1, <1>2 DEF FoundTree
  <1>4. CASE phase = "applying"
    <2>1. /\ machine' \in [Path -> Entries]
          /\ touched = "no" =>
                (\A p \in Path : machine'[p].type \in {"none", found[p].type}) /\ Remade(0)'
          /\ \E k \in 0..Len(args) :
                /\ Tail(todo) = Left(CleanApply(before), k)
                /\ Calm => \A i \in DOMAIN args : i <= k => machine'[args[i]] = Nothing
      BY <1>1, <1>4, CleanApplyCall
    <2>2. Calm' = Calm
      BY <1>1 DEF Calm
    <2>3. \E k \in 0..Len(args') :
             /\ todo' = Left(CleanApply(before'), k)
             /\ Calm' => \A i \in DOMAIN args' : i <= k => machine'[args'[i]] = Nothing
      BY <1>1, <2>1, <2>2
    <2> QED BY <1>1, <1>3, <1>4, <2>1, <2>3 DEF CleanFacts
  <1>5. CASE phase = "undoing"
    <2>1. /\ machine' \in [Path -> Entries]
          /\ touched = "no" => \A p \in Path : machine'[p].type \in {"none", found[p].type}
          /\ \E k \in 0..Len(args) :
                /\ Tail(todo) = Left(CleanUndo(before), k)
                /\ touched = "no" => PathsBack(k)' /\ (TopDown /\ ~again => Remade(k)')
      BY <1>1, <1>5, CleanUndoCall
    <2>2. TopDown' = TopDown
      BY <1>1 DEF TopDown
    <2>3. \E k \in 0..Len(args') :
             /\ todo' = Left(CleanUndo(before'), k)
             /\ touched' = "no" => PathsBack(k)' /\ (TopDown' /\ ~again' => Remade(k)')
      BY <1>1, <2>1, <2>2
    <2> QED BY <1>1, <1>3, <1>5, <2>1, <2>3 DEF CleanFacts
  <1> QED BY <1>1, <1>4, <1>5

LEMMA CleanEnds ==
  ASSUME FlowInv, CleanInv, kind = "clean", CallFails \/ Return
  PROVE  CleanFacts'
  <1>1. /\ kind' = kind /\ args' = args /\ found' = found /\ before' = before
        /\ touched' = touched /\ again' = again /\ phase \in {"applying", "undoing"}
    BY DEF CallFails, Return, step, Busy
  <1>2. /\ FoundTree /\ args \in Seq(Path) /\ machine \in [Path -> Entries] /\ Len(args) \in Nat
        /\ before = CleanBefore(args, found) /\ CleanAccepts(args, found)
        /\ touched = "no" => \A p \in Path : machine[p].type \in {"none", found[p].type}
    BY <1>1, CleanKnown DEF CleanFacts
  <1>3. FoundTree' /\ args' \in Seq(Path)
        /\ before' = CleanBefore(args', found') /\ CleanAccepts(args', found')
    BY <1>1, <1>2 DEF FoundTree
  <1>4. CASE CallFails
    <2>1. /\ phase' \in {"failed", "stuck"} /\ todo # <<>>
          /\ \/ machine' = machine
             \/ Can(Head(todo)) /\ machine' = After(Head(todo))
      BY <1>4 DEF CallFails
    <2>2. /\ machine' \in [Path -> Entries]
          /\ touched = "no" => \A p \in Path : machine'[p].type \in {"none", found[p].type}
      <3>1. CASE machine' = machine
        BY <1>2, <3>1
      <3>2. CASE phase = "applying" /\ machine' = After(Head(todo))
        BY <1>1, <2>1, <3>2, CleanApplyCall
      <3>3. CASE phase = "undoing" /\ Can(Head(todo)) /\ machine' = After(Head(todo))
        BY <1>1, <2>1, <3>3, CleanUndoCall
      <3> QED BY <1>1, <2>1, <3>1, <3>2, <3>3
    <2> QED BY <1>1, <1>3, <2>1, <2>2 DEF CleanFacts
  <1>5. CASE Return
    <2>1. /\ todo = <<>> /\ machine' = machine
          /\ \/ phase = "applying" /\ phase' = "applied"
             \/ phase = "undoing" /\ phase' = "undone"
      BY <1>5 DEF Return, Busy
    <2>2. /\ CleanApply(before) \in Seq(FileCalls) /\ Len(CleanApply(before)) = Len(args)
          /\ CleanUndo(before) \in Seq(FileCalls) /\ Len(CleanUndo(before)) = Len(args)
      BY <1>2, CleanCalls
    <2>3. CASE phase = "applying"
      <3>1. PICK k \in 0..Len(args) :
               /\ todo = Left(CleanApply(before), k)
               /\ Calm => \A i \in DOMAIN args : i <= k => machine[args[i]] = Nothing
        BY <2>3, CleanKnown DEF CleanFacts
      <3>2. k = Len(args)
        BY <2>1, <2>2, <3>1, LeftFacts
      <3>3. Calm => CleanMeets(args, machine)
        BY <1>2, <3>1, <3>2 DEF CleanMeets
      <3>4. Calm' => CleanMeets(args', machine')
        BY <1>1, <2>1, <3>3 DEF Calm
      <3>5. touched' = "no" => Remade(0)'
        BY <1>1, <2>1, <2>3, CleanKnown DEF CleanFacts, Remade
      <3> QED BY <1>1, <1>2, <1>3, <2>1, <2>3, <3>4, <3>5 DEF CleanFacts
    <2>4. CASE phase = "undoing"
      <3>1. PICK k \in 0..Len(args) :
               /\ todo = Left(CleanUndo(before), k)
               /\ touched = "no" => PathsBack(k)
        BY <2>4, CleanKnown DEF CleanFacts
      <3>2. k = Len(args)
        BY <2>1, <2>2, <3>1, LeftFacts
      <3>3. touched' = "no" => PathsBack(Len(args))'
        BY <1>1, <2>1, <3>1, <3>2 DEF PathsBack
      <3> QED BY <1>1, <1>2, <1>3, <2>1, <2>4, <3>3 DEF CleanFacts
    <2> QED BY <1>1, <2>3, <2>4
  <1> QED BY <1>4, <1>5

LEMMA CleanDisturb ==
  ASSUME FlowInv, CleanInv, kind = "clean", Others
  PROVE  CleanFacts'
  <1>1. /\ kind' = kind /\ args' = args /\ found' = found /\ before' = before /\ todo' = todo
        /\ touched' = phase /\ again' = again /\ phase' = phase /\ touched = "no"
        /\ phase \in {"proposed", "applying", "applied", "undoing"}
        /\ machine' \in FilesOthers(machine)
    BY CleanKind DEF Others, step
  <1>2. /\ FoundTree /\ args \in Seq(Path) /\ machine \in [Path -> Entries]
        /\ before = CleanBefore(args, found) /\ CleanAccepts(args, found)
    BY <1>1, CleanKnown DEF CleanFacts
  <1>3. FoundTree' /\ args' \in Seq(Path) /\ machine' \in [Path -> Entries]
        /\ before' = CleanBefore(args', found') /\ CleanAccepts(args', found')
    BY <1>1, <1>2, DisturbedFiles DEF FoundTree
  <1>4. touched' # "no" /\ (phase # "proposed" => ~Calm')
    BY <1>1 DEF Calm
  <1>5. phase = "applying" => \E k \in 0..Len(args) : todo = Left(CleanApply(before), k)
    BY CleanKnown DEF CleanFacts
  <1>6. phase = "undoing" => \E k \in 0..Len(args) : todo = Left(CleanUndo(before), k)
    BY CleanKnown DEF CleanFacts
  <1> QED BY <1>1, <1>3, <1>4, <1>5, <1>6 DEF CleanFacts

LEMMA CleanNext ==
  ASSUME FlowInv, CleanInv, Next
  PROVE  CleanInv'
  <1> SUFFICES ASSUME kind = "clean" PROVE CleanFacts'
    BY Constant DEF CleanInv
  <1>1. CleanFacts
    BY DEF CleanInv
  <1>2. ~Clear
    BY DEF Clear
  <1> QED BY <1>1, <1>2, CleanBegins, CleanStartUndo, CleanCallStep, CleanEnds, CleanDisturb DEF Next

LEMMA CleanInit == Init => CleanInv
  <1> SUFFICES ASSUME Init, kind = "clean" PROVE CleanFacts
    BY DEF CleanInv
  <1>1. machine \in FilesStart /\ args \in Paths /\ found = machine /\ phase = "new"
    BY DEF Init, StartOf, ArgsOf
  <1>2. FoundTree /\ machine \in [Path -> Entries] /\ args \in Seq(Path)
    BY <1>1, FilesFound, PathList DEF FoundTree
  <1>3. Remade(0)
    BY <1>1 DEF Remade
  <1> QED BY <1>1, <1>2, <1>3 DEF CleanFacts

\* The inductive invariant of disk.clean.
LEMMA CleanInvariance == Spec => []CleanInv
  <1>1. FlowInv /\ CleanInv /\ [Next]_vars => CleanInv'
    <2>1. ASSUME CleanInv, UNCHANGED vars PROVE CleanInv'
      BY <2>1 DEF vars, CleanInv, CleanFacts, FoundTree, Remade, PathsBack, TopDown, Calm
    <2> QED BY <2>1, CleanNext
  <1> QED BY CleanInit, FlowInvariance, <1>1, PTL DEF Spec

LEMMA CleanUndoable ==
  ASSUME FlowInv, CleanInv, kind = "clean", phase = "undoing", todo # <<>>, touched = "no",
         ~again, TopDown
  PROVE  Can(Head(todo))
  <1>1. /\ FoundTree /\ machine \in [Path -> Entries] /\ DOMAIN args = 1..Len(args)
        /\ Len(args) \in Nat /\ \A p \in Path : machine[p].type \in {"none", found[p].type}
        /\ \A i \in DOMAIN args : args[i] \in Path
    BY CleanKnown DEF CleanFacts
  <1>2. PICK k \in 0..Len(args) :
            /\ k + 1 \in DOMAIN args /\ k + 1 \in 0..Len(args) /\ k \in Nat
            /\ args[k + 1] \in Path /\ found[args[k + 1]] # Nothing
            /\ Head(todo).op = IF found[args[k + 1]].type = "dir" THEN "mkdir" ELSE "touch"
            /\ Head(todo).path = args[k + 1]
            /\ PathsBack(k) /\ Remade(k)
    BY CleanUndoHead
  <1> DEFINE p == args[k + 1]
             call == Head(todo)
  <1>3. /\ p \in Path /\ call.path = p /\ found[p] # Nothing
        /\ call.op = IF found[p].type = "dir" THEN "mkdir" ELSE "touch"
        /\ machine[p].type \in {"none", found[p].type}
    BY <1>1, <1>2
  <1> HIDE DEF call
  <1>4. CASE found[p].type = "dir"
    <2>1. Len(p) = 1
      BY <1>1, <1>3, <1>4 DEF FoundTree
    <2>2. Above(p) = {}
      BY <1>3, <2>1, TopLevel
    <2>3. CanMkdirAll(machine, p)
      BY <1>3, <1>4, <2>2 DEF CanMkdirAll
    <2>4. CleanCan(call, machine)
      BY <1>3, <1>4, <2>3 DEF CleanCan
    <2> QED BY <2>4, CleanKind DEF call
  <1>5. CASE found[p].type # "dir"
    <2>1. machine[p].type # "dir"
      BY <1>3, <1>5
    <2>2. InPlace(machine, p)
      <3> SUFFICES ASSUME NEW q \in Above(p) PROVE machine[q].type = "dir"
        BY DEF InPlace
      <3>1. q \in Path /\ IsStrictPrefix(q, p)
        BY DEF Above
      <3>2. found[q].type = "dir"
        BY <1>1, <1>3 DEF FoundTree, InPlace
      <3>3. ASSUME NEW j \in DOMAIN args, k < j, args[j] = q PROVE FALSE
        <4>1. j \in Nat /\ k \in Nat
          BY <1>1, <1>2
        <4>2. j # k + 1
          BY <3>1, <3>3 DEF IsStrictPrefix
        <4>3. k + 1 < j
          BY <3>3, <4>1, <4>2
        <4> QED BY <1>2, <3>1, <3>3, <4>3 DEF TopDown
      <3> QED BY <1>2, <3>1, <3>2, <3>3 DEF Remade
    <2>3. CleanCan(call, machine)
      BY <1>3, <1>5, <2>1, <2>2 DEF CleanCan
    <2> QED BY <2>3, CleanKind DEF call
  <1> QED BY <1>4, <1>5

LEMMA CleanPromises ==
  ASSUME FlowInv, CleanInv, kind = "clean"
  PROVE  AppliedIsDesired /\ UndoneIsRestored /\ UndoIsPossible
  <1>1. ASSUME phase = "applied", Calm PROVE Meets
    BY <1>1, CleanKnown, CleanKind DEF CleanFacts
  <1>2. ASSUME phase = "undone", touched = "no" PROVE Restored
    <2>1. PathsBack(Len(args)) /\ DOMAIN args = 1..Len(args) /\ Len(args) \in Nat
      BY <1>2, CleanKnown DEF CleanFacts
    <2>2. CleanRestored(args, found, machine)
      BY <2>1 DEF PathsBack, CleanRestored
    <2> QED BY <2>2, CleanKind
  <1>3. UndoIsPossible
    BY CleanUndoable DEF UndoIsPossible, TopDown
  <1> QED BY <1>1, <1>2, <1>3 DEF AppliedIsDesired, UndoneIsRestored, Calm

\* Data stays when every file has its entry somewhere afterwards.
LEMMA DataStays ==
  ASSUME \A p \in Path : machine[p].type = "file" => \E q \in Path : machine'[q] = machine[p]
  PROVE  Data(machine) \subseteq Data(machine')
  <1> SUFFICES ASSUME NEW d \in Data(machine) PROVE d \in Data(machine)'
    BY DEF Data
  <1>1. PICK p \in Path : machine[p].type = "file" /\ d = machine[p].data
    BY DEF Data
  <1>2. PICK q \in Path : machine'[q] = machine[p]
    BY <1>1
  <1>3. machine'[q].type = "file" /\ machine'[q].data = d /\ d # NoData
    BY <1>1, <1>2 DEF Data
  <1> QED BY <1>3 DEF Data

LEMMA CleanKeeps ==
  ASSUME FlowInv, CleanInv, kind = "clean", [Next]_vars, Own, phase = "undoing"
  PROVE  Data(machine) \subseteq Data(machine')
  <1>1. CASE machine' = machine
    BY <1>1, DataStays
  <1>2. CASE /\ todo # <<>> /\ Can(Head(todo)) /\ machine' = After(Head(todo))
             /\ args' = args /\ found' = found
    <2>1. \A q \in Path : machine[q].type = "file" => machine'[q] = machine[q]
      BY <1>2, CleanUndoCall
    <2> QED BY <2>1, DataStays
  <1>3. \/ machine' = machine
        \/ /\ todo # <<>> /\ Can(Head(todo)) /\ machine' = After(Head(todo))
           /\ args' = args /\ found' = found
    BY DEF Next, Propose, StartApply, StartUndo, Call, CallFails, Return, Others, Clear, Own, vars, step
  <1> QED BY <1>1, <1>2, <1>3
----------------------------------------------------------------------------
(* Paths below one path and below another. *)

LEMMA Comparable ==
  ASSUME NEW p \in Names, NEW q \in Names, NEW r \in Names, IsPrefix(p, r), IsPrefix(q, r)
  PROVE  IsPrefix(p, q) \/ IsPrefix(q, p)
  <1>1. Len(p) \in Nat /\ Len(q) \in Nat
    BY DEF Names
  <1>2. Len(p) <= Len(q) \/ Len(q) <= Len(p)
    BY <1>1
  <1> QED BY <1>2, PrefixOrder

LEMMA GraftFacts ==
  ASSUME NEW p \in Path, NEW q \in Path, NEW r \in Path, Len(p) = Len(q), Under(r, q)
  PROVE  /\ Graft(r, q, p) \in Path /\ Len(Graft(r, q, p)) = Len(r)
         /\ \A i \in 1..Len(r) : Graft(r, q, p)[i] = IF i <= Len(p) THEN p[i] ELSE r[i]
         /\ Under(Graft(r, q, p), p)
  <1> DEFINE g == Graft(r, q, p)
             e == SubSeq(r, Len(q) + 1, Len(r))
  <1>1. /\ p \in Names /\ q \in Names /\ r \in Names
        /\ Len(p) \in Nat /\ Len(q) \in Nat /\ Len(r) \in Nat
    BY PathKnown
  <1>2. IsPrefix(q, r) /\ Len(q) <= Len(r)
    BY <1>1, PrefixFacts DEF Under
  <1>3. g \in Path
    BY <1>2, PathAssumption
  <1>4. e \in Seq(Nat) /\ Len(e) = Len(r) - Len(q) /\ \A i \in 1..Len(e) : e[i] = r[Len(q) + i]
    <2>1. ASSUME NEW i \in (Len(q) + 1)..Len(r) PROVE r[i] \in Nat
      <3>1. i \in 1..Len(r)
        BY <1>1
      <3> QED BY <1>1, <3>1 DEF Names
    <2>2. Len(q) + 1 \in Int /\ Len(r) \in Int
      BY <1>1
    <2>3. /\ e \in Seq(Nat) /\ Len(e) = IF Len(q) + 1 <= Len(r) THEN Len(r) - (Len(q) + 1) + 1 ELSE 0
          /\ \A i \in 1..(Len(r) - (Len(q) + 1) + 1) : e[i] = r[Len(q) + 1 + i - 1]
      BY <2>1, <2>2, SubSeqProperties
    <2> HIDE DEF e
    <2>4. Len(e) = Len(r) - Len(q)
      BY <1>1, <1>2, <2>3
    <2>5. ASSUME NEW i \in 1..Len(e) PROVE e[i] = r[Len(q) + i]
      <3>1. i \in 1..(Len(r) - (Len(q) + 1) + 1) /\ Len(q) + 1 + i - 1 = Len(q) + i
        BY <1>1, <2>4
      <3> QED BY <2>3, <3>1
    <2> QED BY <2>3, <2>4, <2>5
  <1>5. g = p \o e /\ p \in Seq(Nat)
    BY <1>1 DEF Graft, Names
  <1> HIDE DEF e, g
  <1>6. /\ Len(g) = Len(p) + Len(e)
        /\ \A i \in 1..(Len(p) + Len(e)) : g[i] = IF i <= Len(p) THEN p[i] ELSE e[i - Len(p)]
    <2>1. /\ Len(p \o e) = Len(p) + Len(e)
          /\ \A i \in 1..(Len(p) + Len(e)) :
                (p \o e)[i] = IF i <= Len(p) THEN p[i] ELSE e[i - Len(p)]
      <3>1. p \in Seq(Nat) /\ e \in Seq(Nat)
        BY <1>4, <1>5
      <3> QED BY <3>1, ConcatProperties
    <2> QED BY <1>5, <2>1
  <1>7. Len(g) = Len(r)
    BY <1>1, <1>2, <1>4, <1>6
  <1>8. ASSUME NEW i \in 1..Len(r) PROVE g[i] = IF i <= Len(p) THEN p[i] ELSE r[i]
    <2>1. i \in 1..(Len(p) + Len(e)) /\ i \in Nat
      BY <1>1, <1>2, <1>4
    <2>2. ASSUME ~(i <= Len(p)) PROVE e[i - Len(p)] = r[i]
      <3>1. i - Len(p) \in 1..Len(e) /\ Len(q) + (i - Len(p)) = i
        BY <1>1, <1>4, <2>1, <2>2
      <3> QED BY <1>4, <3>1
    <2> QED BY <1>6, <2>1, <2>2
  <1>9. IsPrefix(p, g)
    <2>1. g \in Names /\ Len(p) <= Len(g)
      BY <1>1, <1>2, <1>3, <1>7, PathKnown
    <2>2. ASSUME NEW i \in 1..Len(p) PROVE p[i] = g[i]
      <3>1. i \in 1..Len(r) /\ i <= Len(p)
        BY <1>1, <1>2
      <3> QED BY <1>8, <3>1
    <2> QED BY <1>1, <2>1, <2>2, PrefixByName
  <1> QED BY <1>3, <1>7, <1>8, <1>9 DEF g, Under

LEMMA GraftBack ==
  ASSUME NEW p \in Path, NEW q \in Path, NEW r \in Path, Len(p) = Len(q), Under(r, q)
  PROVE  Graft(Graft(r, q, p), p, q) = r
  <1> DEFINE g == Graft(r, q, p)
             h == Graft(g, p, q)
  <1>1. /\ g \in Path /\ Len(g) = Len(r) /\ Under(g, p)
        /\ \A i \in 1..Len(r) : g[i] = IF i <= Len(p) THEN p[i] ELSE r[i]
    BY GraftFacts
  <1> HIDE DEF g
  <1>2. /\ h \in Path /\ Len(h) = Len(g)
        /\ \A i \in 1..Len(g) : h[i] = IF i <= Len(q) THEN q[i] ELSE g[i]
    BY <1>1, GraftFacts
  <1> HIDE DEF h
  <1>3. /\ q \in Names /\ r \in Names /\ h \in Names
        /\ Len(p) \in Nat /\ Len(q) \in Nat /\ Len(r) \in Nat
    BY <1>2, PathKnown
  <1>4. Len(q) <= Len(r) /\ \A i \in 1..Len(q) : q[i] = r[i]
    BY <1>3, PrefixByName DEF Under
  <1>5. ASSUME NEW i \in 1..Len(r) PROVE h[i] = r[i]
    <2>1. i \in Nat /\ i \in 1..Len(g)
      BY <1>1, <1>3
    <2>2. CASE i <= Len(q)
      BY <1>2, <1>3, <1>4, <2>1, <2>2
    <2>3. CASE ~(i <= Len(q))
      BY <1>1, <1>2, <2>1, <2>3
    <2> QED BY <2>2, <2>3
  <1>6. h = r
    BY <1>1, <1>2, <1>3, <1>5, SeqEqual DEF Names
  <1> QED BY <1>6 DEF h, g

\* What is above goes along.
LEMMA GraftOrder ==
  ASSUME NEW p \in Path, NEW q \in Path, NEW r \in Path, NEW s \in Path, Len(p) = Len(q),
         Under(r, q), Under(s, q), IsStrictPrefix(s, r)
  PROVE  IsStrictPrefix(Graft(s, q, p), Graft(r, q, p))
  <1> DEFINE g == Graft(r, q, p)
             h == Graft(s, q, p)
  <1>1. /\ g \in Path /\ Len(g) = Len(r) /\ Graft(g, p, q) = r
        /\ \A i \in 1..Len(r) : g[i] = IF i <= Len(p) THEN p[i] ELSE r[i]
        /\ h \in Path /\ Len(h) = Len(s) /\ Graft(h, p, q) = s
        /\ \A i \in 1..Len(s) : h[i] = IF i <= Len(p) THEN p[i] ELSE s[i]
    <2>1. /\ g \in Path /\ Len(g) = Len(r)
          /\ \A i \in 1..Len(r) : g[i] = IF i <= Len(p) THEN p[i] ELSE r[i]
      BY GraftFacts
    <2>2. /\ h \in Path /\ Len(h) = Len(s)
          /\ \A i \in 1..Len(s) : h[i] = IF i <= Len(p) THEN p[i] ELSE s[i]
      BY GraftFacts
    <2>3. Graft(g, p, q) = r /\ Graft(h, p, q) = s
      BY GraftBack
    <2> HIDE DEF g, h
    <2> QED BY <2>1, <2>2, <2>3
  <1> HIDE DEF g, h
  <1>2. /\ r \in Names /\ s \in Names /\ g \in Names /\ h \in Names
        /\ Len(r) \in Nat /\ Len(s) \in Nat
    BY <1>1, PathKnown
  <1>3. s # r /\ Len(s) <= Len(r) /\ \A i \in 1..Len(s) : s[i] = r[i]
    BY <1>2, PrefixByName DEF IsStrictPrefix
  <1>4. h # g
    BY <1>1, <1>3
  <1>5. Len(h) <= Len(g)
    BY <1>1, <1>3
  <1>6. ASSUME NEW i \in 1..Len(h) PROVE h[i] = g[i]
    <2>1. i \in 1..Len(s) /\ i \in 1..Len(r)
      BY <1>1, <1>2, <1>3
    <2>2. s[i] = r[i]
      BY <1>3, <2>1
    <2> QED BY <1>1, <2>1, <2>2
  <1>7. IsPrefix(h, g)
    BY <1>2, <1>5, <1>6, PrefixByName
  <1> QED BY <1>4, <1>7 DEF IsStrictPrefix, g, h
----------------------------------------------------------------------------
(* organize.move: what one move does to a tree. *)

LEMMA ParentsMade ==
  ASSUME NEW fs \in [Path -> Entries], NEW p \in Path
  PROVE  /\ MakeParents(fs, p) \in [Path -> Entries]
         /\ \A q \in Path : MakeParents(fs, p)[q] = IF q \in Above(p) THEN Directory ELSE fs[q]
  <1>1. CASE Len(p) = 1
    <2>1. Above(p) = {}
      BY <1>1, TopLevel
    <2>2. MakeParents(fs, p) = fs
      BY <1>1 DEF MakeParents
    <2> QED BY <2>1, <2>2
  <1>2. CASE Len(p) # 1
    <2>1. Len(p) > 1
      <3>1. \A n \in Nat : n > 0 /\ n # 1 => n > 1
        OBVIOUS
      <3>2. Len(p) \in Nat /\ Len(p) > 0
        BY PathKnown
      <3> QED BY <1>2, <3>1, <3>2
    <2>2. Front(p) \in Path /\ Above(p) = Above(Front(p)) \cup {Front(p)}
      BY <2>1, FrontIsAbove
    <2>3. MakeParents(fs, p) = MkdirAll(fs, Front(p))
      BY <1>2 DEF MakeParents
    <2>4. MkdirAll(fs, Front(p)) \in [Path -> Entries]
      BY <2>2, FileEffect
    <2>5. \A q \in Path : MkdirAll(fs, Front(p))[q] = IF q \in Above(p) THEN Directory ELSE fs[q]
      BY <2>2 DEF MkdirAll
    <2> QED BY <2>3, <2>4, <2>5
  <1> QED BY <1>1, <1>2

\* Two paths of one length are apart, and neither is above what is below the other.
LEMMA SameDepth ==
  ASSUME NEW p \in Path, NEW q \in Path, p # q, Len(p) = Len(q), NEW r \in Path
  PROVE  ~(Under(r, p) /\ Under(r, q)) /\ (Under(r, p) => r \notin Above(q))
  <1>1. p \in Names /\ q \in Names /\ r \in Names
    BY PathKnown
  <1>2. ASSUME Under(r, p), Under(r, q) PROVE FALSE
    <2>1. IsPrefix(p, q) \/ IsPrefix(q, p)
      BY <1>1, <1>2, Comparable DEF Under
    <2> QED BY <1>1, <2>1, PrefixFacts
  <1>3. ASSUME Under(r, p), r \in Above(q) PROVE FALSE
    <2>1. IsPrefix(p, r) /\ IsPrefix(r, q)
      BY <1>3 DEF Under, Above, IsStrictPrefix
    <2>2. IsPrefix(p, q)
      BY <1>1, <2>1, PrefixOrder
    <2> QED BY <1>1, <2>2, PrefixFacts
  <1> QED BY <1>2, <1>3

LEMMA Relocated ==
  ASSUME NEW fs \in [Path -> Entries], NEW p \in Path, NEW q \in Path, p # q, Len(p) = Len(q),
         CanMakeParents(fs, q), NEW gs, gs = Rename(MakeParents(fs, q), p, q)
  PROVE  /\ gs \in [Path -> Entries]
         /\ \A r \in Path :
               /\ Under(r, q) => ~Under(r, p) /\ gs[r] = fs[Graft(r, q, p)]
               /\ Under(r, p) => gs[r] = Nothing
               /\ ~Under(r, p) /\ ~Under(r, q)
                     => gs[r] = IF r \in Above(q) THEN Directory ELSE fs[r]
               /\ fs[r].type = "file" => r \notin Above(q)
  <1> DEFINE ms == MakeParents(fs, q)
  <1>1. /\ ms \in [Path -> Entries]
        /\ \A r \in Path : ms[r] = IF r \in Above(q) THEN Directory ELSE fs[r]
    BY ParentsMade
  <1>2. gs = [r \in Path |-> IF Under(r, q) THEN ms[Graft(r, q, p)]
                             ELSE IF Under(r, p) THEN Nothing ELSE ms[r]]
    BY DEF Rename
  <1> HIDE DEF ms
  <1>3. ASSUME NEW r \in Path, Under(r, q)
        PROVE  /\ ~Under(r, p) /\ gs[r] = fs[Graft(r, q, p)] /\ gs[r] \in Entries
    <2>1. Graft(r, q, p) \in Path /\ Under(Graft(r, q, p), p)
      BY <1>3, GraftFacts
    <2>2. Graft(r, q, p) \notin Above(q)
      BY <2>1, SameDepth
    <2>3. ~Under(r, p)
      BY <1>3, SameDepth
    <2> QED BY <1>1, <1>2, <1>3, <2>1, <2>2, <2>3
  <1>4. ASSUME NEW r \in Path, Under(r, p) PROVE gs[r] = Nothing
    BY <1>2, <1>3, <1>4
  <1>5. ASSUME NEW r \in Path, ~Under(r, p), ~Under(r, q) PROVE gs[r] = ms[r]
    BY <1>2, <1>5
  <1>6. ASSUME NEW r \in Path, fs[r].type = "file" PROVE r \notin Above(q)
    BY <1>6 DEF CanMakeParents
  <1>7. gs \in [Path -> Entries]
    <2>1. ASSUME NEW r \in Path PROVE gs[r] \in Entries
      BY <1>1, <1>3, <1>4, <1>5, EntryFacts
    <2>2. DOMAIN gs = Path /\ gs = [r \in Path |-> gs[r]]
      BY <1>2
    <2> QED BY <2>1, <2>2
  <1> QED BY <1>1, <1>3, <1>4, <1>5, <1>6, <1>7

\* A tree stays a tree.
LEMMA RelocatedTree ==
  ASSUME NEW fs \in [Path -> Entries], NEW p \in Path, NEW q \in Path, p # q, Len(p) = Len(q),
         CanMakeParents(fs, q), NEW gs, gs = Rename(MakeParents(fs, q), p, q), Tree(fs)
  PROVE  Tree(gs)
  <1>1. /\ gs \in [Path -> Entries]
        /\ \A r \in Path :
               /\ Under(r, q) => ~Under(r, p) /\ gs[r] = fs[Graft(r, q, p)]
               /\ Under(r, p) => gs[r] = Nothing
               /\ ~Under(r, p) /\ ~Under(r, q)
                     => gs[r] = IF r \in Above(q) THEN Directory ELSE fs[r]
    BY Relocated
  <1> SUFFICES ASSUME NEW r \in Path, gs[r] # Nothing, NEW s \in Path, IsStrictPrefix(s, r)
               PROVE  gs[s].type = "dir"
    BY DEF Tree, InPlace, Above
  <1>2. /\ p \in Names /\ q \in Names /\ r \in Names /\ s \in Names
        /\ IsPrefix(s, r) /\ s \in Above(r)
    BY PathKnown DEF IsStrictPrefix, Above
  <1>3. ~Under(r, p)
    BY <1>1
  <1>4. ~Under(s, p) /\ (Under(s, q) => Under(r, q))
    BY <1>2, <1>3, PrefixOrder DEF Under
  <1>5. CASE Under(s, q)
    <2>1. Under(r, q) /\ Graft(r, q, p) \in Path /\ Graft(s, q, p) \in Path
      BY <1>4, <1>5, GraftFacts
    <2>2. IsStrictPrefix(Graft(s, q, p), Graft(r, q, p))
      BY <1>5, <2>1, GraftOrder
    <2>3. fs[Graft(r, q, p)] # Nothing
      BY <1>1, <2>1
    <2>4. fs[Graft(s, q, p)].type = "dir"
      BY <2>1, <2>2, <2>3 DEF Tree, InPlace, Above
    <2> QED BY <1>1, <1>5, <2>4
  <1>6. CASE ~Under(s, q) /\ s \in Above(q)
    BY <1>1, <1>4, <1>6, EntryFacts
  <1>7. CASE ~Under(s, q) /\ s \notin Above(q)
    <2>1. ~Under(r, q)
      <3> SUFFICES ASSUME Under(r, q) PROVE FALSE
        OBVIOUS
      <3>1. IsPrefix(s, q) \/ IsPrefix(q, s)
        BY <1>2, Comparable DEF Under
      <3>2. IsPrefix(s, q) /\ s # q
        BY <1>2, <1>7, <3>1, PrefixFacts DEF Under
      <3> QED BY <1>7, <3>2 DEF Above, IsStrictPrefix
    <2>2. r \notin Above(q)
      <3> SUFFICES ASSUME r \in Above(q) PROVE FALSE
        OBVIOUS
      <3>1. IsPrefix(r, q) /\ r # q
        BY DEF Above, IsStrictPrefix
      <3>2. IsPrefix(s, q)
        BY <1>2, <3>1, PrefixOrder
      <3>3. s = q
        BY <1>7, <3>2 DEF Above, IsStrictPrefix
      <3> QED BY <1>2, <1>7, <3>3, PrefixFacts DEF Under
    <2>3. fs[r] # Nothing
      BY <1>1, <1>3, <2>1, <2>2
    <2>4. fs[s].type = "dir"
      BY <1>2, <2>3 DEF Tree, InPlace
    <2> QED BY <1>1, <1>4, <1>7, <2>4
  <1> QED BY <1>5, <1>6, <1>7

\* What is below nothing is nothing.
LEMMA BelowNothing ==
  ASSUME NEW fs, Tree(fs), NEW p \in Path, NEW q \in Path, Under(q, p), fs[p] = Nothing
  PROVE  fs[q] = Nothing
  <1>1. q = p \/ p \in Above(q)
    BY DEF Under, Above, IsStrictPrefix
  <1>2. Nothing.type # "dir"
    BY EntryFacts
  <1> QED BY <1>1, <1>2 DEF Tree, InPlace

LEMMA DisturbedTree ==
  ASSUME machine \in [Path -> Entries], machine' \in FilesOthers(machine), Tree(machine)
  PROVE  Tree(machine')
  <1>1. ASSUME NEW p \in Path, machine[p] = Nothing, InPlace(machine, p),
               machine' = [machine EXCEPT ![p] = File(<< 0 >>)]
        PROVE  Tree(machine')
    <2>1. \A q \in Path : machine'[q] = IF q = p THEN File(<< 0 >>) ELSE machine[q]
      BY <1>1
    <2> SUFFICES ASSUME NEW q \in Path, machine'[q] # Nothing, NEW s \in Above(q)
                 PROVE  machine'[s].type = "dir"
      BY DEF Tree, InPlace
    <2>2. s \in Path
      BY DEF Above
    <2>3. machine[s].type = "dir"
      BY <1>1, <2>1 DEF Tree, InPlace
    <2>4. s # p
      BY <1>1, <2>3, EntryFacts
    <2> QED BY <2>1, <2>2, <2>3, <2>4
  <1>2. ASSUME NEW p \in Path, machine' = RemoveAll(machine, p)
        PROVE  Tree(machine')
    <2>1. \A q \in Path : machine'[q] = IF Under(q, p) THEN Nothing ELSE machine[q]
      BY <1>2 DEF RemoveAll
    <2> SUFFICES ASSUME NEW q \in Path, machine'[q] # Nothing, NEW s \in Above(q)
                 PROVE  machine'[s].type = "dir"
      BY DEF Tree, InPlace
    <2>2. s \in Path /\ IsPrefix(s, q) /\ ~Under(q, p) /\ machine[q] # Nothing
      BY <2>1 DEF Above, IsStrictPrefix
    <2>3. ~Under(s, p)
      <3>1. s \in Names /\ q \in Names /\ p \in Names
        BY <2>2, PathKnown
      <3> QED BY <2>2, <3>1, PrefixOrder DEF Under
    <2>4. machine[s].type = "dir"
      BY <2>2 DEF Tree, InPlace
    <2> QED BY <2>1, <2>2, <2>3, <2>4
  <1>3. \/ \E p \in Path : /\ machine[p] = Nothing /\ InPlace(machine, p)
                           /\ machine' = [machine EXCEPT ![p] = File(<< 0 >>)]
        \/ \E p \in Path : machine' = RemoveAll(machine, p)
    BY DEF FilesOthers
  <1> QED BY <1>1, <1>2, <1>3
----------------------------------------------------------------------------
(* organize.move: sources and destinations. *)

ArgsFit ==
    /\ args \in Seq([from : Path, to : Path]) /\ Len(args) \in Nat /\ Len(args) > 0
    /\ DOMAIN args = 1..Len(args)
    /\ \A i \in DOMAIN args :
          From(i) \in Path /\ To(i) \in Path /\ From(i) # To(i) /\ Len(From(i)) = Len(To(i))

LEMMA MoveList ==
  ASSUME args \in Moves
  PROVE  ArgsFit
  <1> DEFINE M == {m \in [from : Path, to : Path] : m.from # m.to /\ Len(m.from) = Len(m.to)}
  <1>1. args \in UNION {[1..m -> M] : m \in 0..MaxList} /\ args # <<>>
    BY DEF Moves, SeqOf
  <1>2. PICK n \in 0..MaxList : args \in [1..n -> M]
    BY <1>1
  <1>3. \A e \in M : /\ e \in [from : Path, to : Path] /\ e.from \in Path /\ e.to \in Path
                     /\ e.from # e.to /\ Len(e.from) = Len(e.to)
    OBVIOUS
  <1> HIDE DEF M
  <1>4. args \in Seq(M) /\ Len(args) = n /\ DOMAIN args = 1..n /\ n \in Nat
    BY <1>2
  <1>5. n > 0
    BY <1>1, <1>4
  <1>6. \A i \in 1..n : args[i] \in M
    BY <1>2
  <1>7. args \in [1..n -> [from : Path, to : Path]]
    BY <1>2, <1>3
  <1>8. args \in Seq([from : Path, to : Path])
    <2> DEFINE S == [from : Path, to : Path]
    <2>1. args \in [1..n -> S] /\ n \in Nat
      BY <1>4, <1>7
    <2> HIDE DEF S
    <2>2. args \in Seq(S)
      BY <2>1, SeqDef
    <2> QED BY <2>2 DEF S
  <1> QED BY <1>3, <1>4, <1>5, <1>6, <1>8 DEF ArgsFit, From, To

\* A file of before is not at a destination or below one.
LEMMA DestinationsFree ==
  ASSUME FoundTree, ArgsFit, MoveAccepts(args, found), NEW j \in DOMAIN args, NEW p \in Path,
         Under(p, To(j))
  PROVE  found[p] = Nothing
  <1>1. found[To(j)] = Nothing /\ Tree(found) /\ To(j) \in Path
    BY DEF MoveAccepts, FoundTree, Tree, ArgsFit, To
  <1> QED BY <1>1, BelowNothing

\* The destinations are apart from each other and from every source.
LEMMA Geography ==
  ASSUME FoundTree, ArgsFit, MoveAccepts(args, found), Apart(args),
         NEW i \in DOMAIN args, NEW j \in DOMAIN args, NEW p \in Path
  PROVE  /\ Under(p, To(j)) => ~Under(p, From(i))
         /\ i # j => ~(Under(p, To(i)) /\ Under(p, To(j)))
         /\ Under(p, To(j)) => From(i) \notin Above(p) \/ i = j
         /\ From(i) \notin Above(To(j)) /\ To(i) \notin Above(To(j))
         /\ Under(p, To(j)) => p \notin Above(From(i))
         /\ Under(p, To(j)) /\ i # j => p \notin Above(To(i))
  <1>1. /\ From(i) \in Path /\ To(i) \in Path /\ From(i) # To(i) /\ Len(From(i)) = Len(To(i))
        /\ From(j) \in Path /\ To(j) \in Path /\ From(j) # To(j) /\ Len(From(j)) = Len(To(j))
    BY DEF ArgsFit
  <1>2. /\ From(i) \in Names /\ To(i) \in Names /\ From(j) \in Names /\ To(j) \in Names
        /\ p \in Names
    BY <1>1, PathKnown
  <1>3. ~Under(To(j), From(i))
    <2>1. CASE i = j
      <3>1. IsPrefix(From(i), To(i)) => From(i) = To(i)
        BY <1>1, <1>2, PrefixFacts
      <3> QED BY <1>1, <2>1, <3>1 DEF Under
    <2>2. CASE i # j
      BY <2>2 DEF Apart, To, From
    <2> QED BY <2>1, <2>2
  <1>4. ~Under(From(i), To(j))
    <2>1. found[From(i)] # Nothing
      BY DEF MoveAccepts, From
    <2> QED BY <1>1, <2>1, DestinationsFree
  <1>5. i # j => ~Under(To(j), To(i)) /\ ~Under(To(i), To(j))
    BY DEF Apart, To
  <1>6. Under(p, To(j)) => ~Under(p, From(i))
    BY <1>2, <1>3, <1>4, Comparable DEF Under
  <1>7. i # j => ~(Under(p, To(i)) /\ Under(p, To(j)))
    BY <1>2, <1>5, Comparable DEF Under
  <1>8. From(i) \notin Above(To(j)) /\ To(i) \notin Above(To(j))
    <2>1. \A r : r \in Above(To(j)) => Under(To(j), r) /\ r # To(j)
      BY DEF Above, IsStrictPrefix, Under
    <2> QED BY <1>3, <1>5, <2>1
  <1>9. ASSUME Under(p, To(j)) PROVE p \notin Above(From(i)) /\ (i # j => p \notin Above(To(i)))
    <2>1. ASSUME NEW r \in Names, p \in Above(r) PROVE Under(r, To(j))
      <3>1. IsPrefix(p, r) /\ IsPrefix(To(j), p)
        BY <1>9, <2>1 DEF Above, IsStrictPrefix, Under
      <3> QED BY <1>2, <3>1, PrefixOrder DEF Under
    <2> QED BY <1>2, <1>4, <1>5, <2>1
  <1>10. Under(p, To(j)) => From(i) \notin Above(p)
    BY <1>2, <1>6 DEF Above, IsStrictPrefix, Under
  <1> QED BY <1>6, <1>7, <1>8, <1>9, <1>10
----------------------------------------------------------------------------
(* organize.move: the calls. *)

MoveCallSet == [op : {"move", "back"}, from : Path, to : Path]

LEMMA MoveCalls ==
  ASSUME ArgsFit, before = args
  PROVE  /\ MoveApply(before) \in Seq(MoveCallSet) /\ Len(MoveApply(before)) = Len(args)
         /\ \A i \in 1..Len(args) :
               MoveApply(before)[i] = [op |-> "move", from |-> From(i), to |-> To(i)]
         /\ MoveUndo(before) \in Seq(MoveCallSet) /\ Len(MoveUndo(before)) = Len(args)
         /\ \A i \in 1..Len(args) :
               /\ Len(args) - i + 1 \in DOMAIN args
               /\ MoveUndo(before)[i] = [op |-> "back", from |-> To(Len(args) - i + 1),
                                         to |-> From(Len(args) - i + 1)]
  <1> DEFINE n == Len(args)
             back == [i \in DOMAIN args |-> [op |-> "back", from |-> To(i), to |-> From(i)]]
  <1>1. n \in Nat /\ DOMAIN args = 1..n /\ \A i \in 1..n : From(i) \in Path /\ To(i) \in Path
    BY DEF ArgsFit
  <1>2. MoveApply(before) = [i \in 1..n |-> [op |-> "move", from |-> From(i), to |-> To(i)]]
    BY <1>1 DEF MoveApply, From, To
  <1>3. \A i \in 1..n : [op |-> "move", from |-> From(i), to |-> To(i)] \in MoveCallSet
                        /\ [op |-> "back", from |-> To(i), to |-> From(i)] \in MoveCallSet
    BY <1>1 DEF MoveCallSet
  <1>4. MoveUndo(before) = Reverse(back)
    BY DEF MoveUndo, From, To
  <1> HIDE DEF n
  <1>5. back \in [1..n -> MoveCallSet]
    BY <1>1, <1>3
  <1>6. back \in Seq(MoveCallSet) /\ Len(back) = n
    BY <1>1, <1>5
  <1>7. \A i \in 1..n : back[i] = [op |-> "back", from |-> To(i), to |-> From(i)]
    BY <1>1
  <1> HIDE DEF back
  <1>8. Reverse(back) = [i \in 1..n |-> back[(n - i) + 1]]
    BY <1>6 DEF Reverse
  <1>9. \A i \in 1..n : (n - i) + 1 \in 1..n
    BY <1>1
  <1>10. MoveUndo(before) \in [1..n -> MoveCallSet]
    BY <1>4, <1>5, <1>8, <1>9
  <1>11. ASSUME NEW i \in 1..n
         PROVE  MoveUndo(before)[i] = [op |-> "back", from |-> To(n - i + 1), to |-> From(n - i + 1)]
    BY <1>4, <1>7, <1>8, <1>9
  <1>12. MoveUndo(before) \in Seq(MoveCallSet) /\ Len(MoveUndo(before)) = n
    BY <1>1, <1>10
  <1>13. MoveApply(before) \in [1..n -> MoveCallSet]
    BY <1>2, <1>3
  <1>14. MoveApply(before) \in Seq(MoveCallSet) /\ Len(MoveApply(before)) = n
    BY <1>1, <1>13
  <1> QED BY <1>1, <1>2, <1>9, <1>11, <1>12, <1>14 DEF n
----------------------------------------------------------------------------
(* organize.move: a move and its way back. *)

LEMMA OfMove ==
  ASSUME ArgsFit, NEW i \in DOMAIN args
  PROVE  /\ From(i) \in Path /\ To(i) \in Path /\ From(i) # To(i) /\ Len(From(i)) = Len(To(i))
         /\ Under(From(i), From(i)) /\ Under(To(i), To(i)) /\ i \in Nat
  <1>1. From(i) \in Path /\ To(i) \in Path /\ From(i) # To(i) /\ Len(From(i)) = Len(To(i))
        /\ i \in Nat
    BY DEF ArgsFit
  <1> QED BY <1>1, PathKnown, PrefixFacts DEF Under

LEMMA GraftTop ==
  ASSUME NEW p \in Path, NEW q \in Path, Len(p) = Len(q)
  PROVE  Graft(q, q, p) = p
  <1>1. p \in Names /\ q \in Names
    BY PathKnown
  <1>2. Under(q, q)
    BY <1>1, PrefixFacts DEF Under
  <1>3. Graft(q, q, p) \in Path /\ Len(Graft(q, q, p)) = Len(q) /\ Under(Graft(q, q, p), p)
    BY <1>2, GraftFacts
  <1>4. Graft(q, q, p) \in Names
    BY <1>3, PathKnown
  <1> QED BY <1>1, <1>3, <1>4, PrefixFacts DEF Under

LEMMA MovedAwayStep ==
  ASSUME NEW fs \in [Path -> Entries], FoundTree, ArgsFit, MoveAccepts(args, found),
         NEW m \in DOMAIN args, CanMakeParents(fs, To(m)), MovedAway(fs, m - 1),
         NEW gs, gs = Rename(MakeParents(fs, To(m)), From(m), To(m))
  PROVE  MovedAway(gs, m)
  <1> DEFINE F == From(m)
             T == To(m)
  <1>1. F \in Path /\ T \in Path /\ F # T /\ Len(F) = Len(T) /\ m \in Nat
    BY OfMove
  <1>2. \A r \in Path : /\ Under(r, F) => gs[r] = Nothing
                        /\ ~Under(r, F) /\ ~Under(r, T)
                              => gs[r] = IF r \in Above(T) THEN Directory ELSE fs[r]
    <2> HIDE DEF F, T
    <2>1. gs = Rename(MakeParents(fs, T), F, T) /\ CanMakeParents(fs, T)
      BY DEF F, T
    <2> QED BY <1>1, <2>1, Relocated
  <1> SUFFICES ASSUME NEW i \in DOMAIN args, NEW p \in Path, i <= m, Under(p, From(i)),
                      found[p].type = "file"
               PROVE  gs[p] # found[p]
    BY DEF MovedAway
  <1>3. found[p] # Nothing /\ found[p] # Directory
    BY EntryFacts
  <1>4. ~Under(p, T)
    BY <1>3, DestinationsFree
  <1>5. CASE Under(p, F)
    BY <1>2, <1>3, <1>5
  <1>6. CASE ~Under(p, F)
    <2>1. i # m
      BY <1>6
    <2>2. i <= m - 1
      <3>1. i \in Nat
        BY OfMove
      <3> QED BY <1>1, <2>1, <3>1
    <2>3. fs[p] # found[p]
      BY <2>2 DEF MovedAway
    <2> QED BY <1>2, <1>3, <1>4, <1>6, <2>3
  <1> QED BY <1>5, <1>6

LEMMA FilesForward ==
  ASSUME NEW fs \in [Path -> Entries], FoundTree, ArgsFit, MoveAccepts(args, found), Apart(args),
         NEW m \in DOMAIN args, CanMakeParents(fs, To(m)), FilesAt(fs, m - 1),
         NEW gs, gs = Rename(MakeParents(fs, To(m)), From(m), To(m))
  PROVE  FilesAt(gs, m)
  <1> DEFINE F == From(m)
             T == To(m)
  <1>1. F \in Path /\ T \in Path /\ F # T /\ Len(F) = Len(T) /\ m \in Nat
    BY OfMove
  <1>2. \A r \in Path : /\ Under(r, T) => ~Under(r, F) /\ gs[r] = fs[Graft(r, T, F)]
                        /\ Under(r, F) => gs[r] = Nothing
                        /\ ~Under(r, F) /\ ~Under(r, T)
                              => gs[r] = IF r \in Above(T) THEN Directory ELSE fs[r]
                        /\ fs[r].type = "file" => r \notin Above(T)
    <2> HIDE DEF F, T
    <2>1. gs = Rename(MakeParents(fs, T), F, T) /\ CanMakeParents(fs, T)
      BY DEF F, T
    <2> QED BY <1>1, <2>1, Relocated
  <1>3. \A i \in DOMAIN args : /\ i \in Nat /\ (i <= m - 1 <=> i < m)
                               /\ (i <= m <=> i <= m - 1 \/ i = m)
    BY <1>1, OfMove
  <1>4. \A p \in Path : Stays(p, m) <=> Stays(p, m - 1) /\ ~Under(p, F)
    BY <1>3 DEF Stays
  <1>5. \A p \in Path : TakenBy(p, m) <=> Stays(p, m - 1) /\ Under(p, F)
    BY <1>3 DEF Stays, TakenBy
  <1>6. \A p \in Path, i \in DOMAIN args : Under(p, To(i)) =>
           ~Under(p, F) /\ (i # m => ~Under(p, T)) /\ found[p].type # "file"
    BY Geography, DestinationsFree, EntryFacts
  <1>7. ASSUME NEW p \in Path, found[p].type = "file", Stays(p, m) PROVE gs[p] = found[p]
    <2>1. fs[p] = found[p]
      BY <1>4, <1>7 DEF FilesAt
    <2>2. ~Under(p, F) /\ ~Under(p, T)
      BY <1>4, <1>6, <1>7
    <2> QED BY <1>2, <1>7, <2>1, <2>2
  <1>8. ASSUME NEW i \in DOMAIN args, NEW p \in Path, i <= m, TakenBy(p, i), found[p].type = "file"
        PROVE  gs[Graft(p, From(i), To(i))] = found[p]
    <2> DEFINE q == Graft(p, From(i), To(i))
    <2>1. q \in Path /\ Under(q, To(i)) /\ Graft(q, To(i), From(i)) = p
      BY <1>8, OfMove, GraftFacts, GraftBack DEF TakenBy
    <2>2. CASE i = m
      <3>1. fs[p] = found[p]
        BY <1>5, <1>8, <2>2 DEF FilesAt
      <3>2. gs[q] = fs[Graft(q, T, F)]
        BY <1>2, <2>1, <2>2
      <3> QED BY <2>1, <2>2, <3>1, <3>2
    <2>3. CASE i # m
      <3>1. fs[q] = found[p]
        BY <1>3, <1>8, <2>3 DEF FilesAt
      <3> HIDE DEF q
      <3>2. ~Under(q, F) /\ ~Under(q, T)
        BY <1>6, <2>1, <2>3
      <3>3. gs[q] = found[p]
        BY <1>2, <1>8, <2>1, <3>1, <3>2
      <3> QED BY <3>3 DEF q
    <2> QED BY <2>2, <2>3
  <1>9. ASSUME NEW p \in Path, gs[p].type = "file"
        PROVE  \/ Stays(p, m) /\ found[p].type = "file"
               \/ \E i \in DOMAIN args :
                     /\ i <= m /\ Under(p, To(i)) /\ TakenBy(Graft(p, To(i), From(i)), i)
                     /\ found[Graft(p, To(i), From(i))].type = "file"
    <2>1. CASE Under(p, T)
      <3> DEFINE g == Graft(p, T, F)
      <3>1. g \in Path /\ Under(g, F)
        BY <1>1, <2>1, GraftFacts
      <3>2. fs[g].type = "file"
        BY <1>2, <1>9, <2>1
      <3> HIDE DEF g
      <3>3. \A i \in DOMAIN args : ~Under(g, To(i))
        BY <1>6, <3>1
      <3>4. Stays(g, m - 1) /\ found[g].type = "file"
        BY <3>1, <3>2, <3>3 DEF FilesAt
      <3>5. TakenBy(g, m) /\ m <= m
        BY <1>1, <1>5, <3>1, <3>4
      <3> QED BY <2>1, <3>4, <3>5 DEF g
    <2>2. CASE Under(p, F)
      BY <1>2, <1>9, <2>2, EntryFacts
    <2>3. CASE ~Under(p, T) /\ ~Under(p, F)
      <3>1. fs[p].type = "file"
        BY <1>2, <1>9, <2>3, EntryFacts
      <3>2. CASE Stays(p, m - 1) /\ found[p].type = "file"
        BY <1>4, <2>3, <3>2
      <3>3. CASE \E i \in DOMAIN args :
                     /\ i <= m - 1 /\ Under(p, To(i)) /\ TakenBy(Graft(p, To(i), From(i)), i)
                     /\ found[Graft(p, To(i), From(i))].type = "file"
        BY <1>3, <3>3
      <3> QED BY <3>1, <3>2, <3>3 DEF FilesAt
    <2> QED BY <2>1, <2>2, <2>3
  <1> QED BY <1>7, <1>8, <1>9 DEF FilesAt

LEMMA WayForward ==
  ASSUME NEW fs \in [Path -> Entries], FoundTree, ArgsFit, MoveAccepts(args, found), Apart(args),
         NEW m \in DOMAIN args, CanMakeParents(fs, To(m)), WayBack(fs, m - 1), Tree(fs),
         fs[From(m)] # Nothing,
         NEW gs, gs = Rename(MakeParents(fs, To(m)), From(m), To(m))
  PROVE  WayBack(gs, m)
  <1> DEFINE F == From(m)
             T == To(m)
  <1>1. F \in Path /\ T \in Path /\ F # T /\ Len(F) = Len(T) /\ m \in Nat
        /\ Under(F, F) /\ Under(T, T)
    BY OfMove
  <1>2. \A r \in Path : /\ Under(r, T) => gs[r] = fs[Graft(r, T, F)]
                        /\ Under(r, F) => gs[r] = Nothing
                        /\ ~Under(r, F) /\ ~Under(r, T)
                              => gs[r] = IF r \in Above(T) THEN Directory ELSE fs[r]
    <2> HIDE DEF F, T
    <2>1. gs = Rename(MakeParents(fs, T), F, T) /\ CanMakeParents(fs, T)
      BY DEF F, T
    <2> QED BY <1>1, <2>1, Relocated
  <1>3. \A i \in DOMAIN args : /\ i \in Nat /\ (i <= m - 1 <=> i < m)
                               /\ (i <= m <=> i <= m - 1 \/ i = m)
    BY <1>1, OfMove
  <1>4. \A p \in Path, i \in DOMAIN args : Under(p, To(i)) =>
           ~Under(p, F) /\ (i # m => ~Under(p, T) /\ p \notin Above(T))
    BY Geography
  <1>5. Directory # Nothing
    BY EntryFacts
  <1>6. ASSUME NEW i \in DOMAIN args, i <= m PROVE gs[From(i)] = Nothing
    <2>1. From(i) \in Path /\ Under(From(i), From(i))
      BY OfMove
    <2>2. ~Under(From(i), T) /\ From(i) \notin Above(T)
      BY <2>1, Geography
    <2>3. CASE i = m
      BY <1>1, <1>2, <2>3
    <2>4. CASE i # m
      <3>1. fs[From(i)] = Nothing
        BY <1>3, <1>6, <2>4 DEF WayBack
      <3> QED BY <1>2, <2>1, <2>2, <3>1
    <2> QED BY <2>3, <2>4
  <1>7. ASSUME NEW i \in DOMAIN args, i <= m PROVE gs[To(i)] # Nothing
    <2>1. To(i) \in Path /\ Under(To(i), To(i))
      BY OfMove
    <2>2. CASE i = m
      <3>1. Graft(T, T, F) = F
        BY <1>1, GraftTop
      <3>2. gs[T] = fs[F]
        BY <1>1, <1>2, <3>1
      <3> QED BY <2>2, <3>2
    <2>3. CASE i # m
      <3>1. fs[To(i)] # Nothing
        BY <1>3, <1>7, <2>3 DEF WayBack
      <3>2. ~Under(To(i), F) /\ ~Under(To(i), T)
        BY <1>4, <2>1, <2>3
      <3> QED BY <1>2, <1>5, <2>1, <3>1, <3>2
    <2> QED BY <2>2, <2>3
  <1>8. ASSUME NEW i \in DOMAIN args, NEW j \in DOMAIN args, i < j, j <= m
        PROVE  /\ ~Under(From(j), From(i))
               /\ Under(From(i), From(j)) => gs[Graft(From(i), From(j), To(j))] = Nothing
    <2>1. /\ From(i) \in Path /\ From(j) \in Path /\ To(j) \in Path
          /\ Len(From(j)) = Len(To(j)) /\ From(j) # To(j)
      BY OfMove
    <2> DEFINE g == Graft(From(i), From(j), To(j))
    <2>2. CASE j = m
      <3>1. fs[From(i)] = Nothing
        BY <1>3, <1>8, <2>2 DEF WayBack
      <3>2. ~Under(F, From(i))
        BY <1>1, <2>1, <3>1, BelowNothing
      <3>3. ASSUME Under(From(i), F) PROVE gs[g] = Nothing
        <4>1. g \in Path /\ Under(g, T) /\ Graft(g, T, F) = From(i)
          BY <1>1, <2>1, <2>2, <3>3, GraftFacts, GraftBack
        <4> HIDE DEF g
        <4> QED BY <1>2, <3>1, <4>1
      <3> QED BY <2>2, <3>2, <3>3
    <2>3. CASE j # m
      <3>1. i <= m - 1 /\ j <= m - 1
        <4>1. i \in Nat /\ j \in Nat
          BY OfMove
        <4> QED BY <1>1, <1>8, <2>3, <4>1
      <3>2. ~Under(From(j), From(i)) /\ (Under(From(i), From(j)) => fs[g] = Nothing)
        BY <1>8, <3>1 DEF WayBack
      <3>3. ASSUME Under(From(i), From(j)) PROVE gs[g] = Nothing
        <4>1. g \in Path /\ Under(g, To(j)) /\ fs[g] = Nothing
          BY <2>1, <3>2, <3>3, GraftFacts
        <4> HIDE DEF g
        <4>2. ~Under(g, F) /\ ~Under(g, T) /\ g \notin Above(T)
          BY <1>4, <2>3, <4>1
        <4> QED BY <1>2, <4>1, <4>2
      <3> QED BY <3>2, <3>3
    <2> QED BY <2>2, <2>3
  <1> QED BY <1>6, <1>7, <1>8 DEF WayBack

LEMMA FilesBackward ==
  ASSUME NEW fs \in [Path -> Entries], FoundTree, ArgsFit, MoveAccepts(args, found), Apart(args),
         NEW m \in DOMAIN args, CanMakeParents(fs, From(m)), FilesAt(fs, m),
         NEW gs, gs = Rename(MakeParents(fs, From(m)), To(m), From(m))
  PROVE  FilesAt(gs, m - 1)
  <1> DEFINE F == From(m)
             T == To(m)
  <1>1. F \in Path /\ T \in Path /\ F # T /\ Len(F) = Len(T) /\ m \in Nat
    BY OfMove
  <1>2. \A r \in Path : /\ Under(r, F) => ~Under(r, T) /\ gs[r] = fs[Graft(r, F, T)]
                        /\ Under(r, T) => gs[r] = Nothing
                        /\ ~Under(r, T) /\ ~Under(r, F)
                              => gs[r] = IF r \in Above(F) THEN Directory ELSE fs[r]
                        /\ fs[r].type = "file" => r \notin Above(F)
    <2> HIDE DEF F, T
    <2>1. gs = Rename(MakeParents(fs, F), T, F) /\ CanMakeParents(fs, F)
      BY DEF F, T
    <2> QED BY <1>1, <2>1, Relocated
  <1>3. \A i \in DOMAIN args : /\ i \in Nat /\ (i <= m - 1 <=> i < m)
                               /\ (i <= m <=> i <= m - 1 \/ i = m)
    BY <1>1, OfMove
  <1>4. \A p \in Path : Stays(p, m) <=> Stays(p, m - 1) /\ ~Under(p, F)
    BY <1>3 DEF Stays
  <1>5. \A p \in Path : TakenBy(p, m) <=> Stays(p, m - 1) /\ Under(p, F)
    BY <1>3 DEF Stays, TakenBy
  <1>6. \A p \in Path, i \in DOMAIN args : Under(p, To(i)) =>
           ~Under(p, F) /\ (i # m => ~Under(p, T)) /\ found[p].type # "file"
    BY Geography, DestinationsFree, EntryFacts
  <1>7. ASSUME NEW p \in Path, found[p].type = "file", Stays(p, m - 1) PROVE gs[p] = found[p]
    <2>1. ~Under(p, T)
      BY <1>6, <1>7
    <2>2. CASE Under(p, F)
      <3>1. fs[Graft(p, F, T)] = found[p]
        BY <1>1, <1>5, <1>7, <2>2 DEF FilesAt
      <3> QED BY <1>2, <2>2, <3>1
    <2>3. CASE ~Under(p, F)
      <3>1. fs[p] = found[p]
        BY <1>4, <1>7, <2>3 DEF FilesAt
      <3> QED BY <1>2, <1>7, <2>1, <2>3, <3>1
    <2> QED BY <2>2, <2>3
  <1>8. ASSUME NEW i \in DOMAIN args, NEW p \in Path, i <= m - 1, TakenBy(p, i),
               found[p].type = "file"
        PROVE  gs[Graft(p, From(i), To(i))] = found[p]
    <2> DEFINE q == Graft(p, From(i), To(i))
    <2>1. q \in Path /\ Under(q, To(i))
      BY <1>8, OfMove, GraftFacts DEF TakenBy
    <2>2. fs[q] = found[p] /\ i # m
      BY <1>1, <1>3, <1>8 DEF FilesAt
    <2> HIDE DEF q
    <2>3. ~Under(q, F) /\ ~Under(q, T)
      BY <1>6, <2>1, <2>2
    <2>4. gs[q] = found[p]
      BY <1>2, <1>8, <2>1, <2>2, <2>3
    <2> QED BY <2>4 DEF q
  <1>9. ASSUME NEW p \in Path, gs[p].type = "file"
        PROVE  \/ Stays(p, m - 1) /\ found[p].type = "file"
               \/ \E i \in DOMAIN args :
                     /\ i <= m - 1 /\ Under(p, To(i)) /\ TakenBy(Graft(p, To(i), From(i)), i)
                     /\ found[Graft(p, To(i), From(i))].type = "file"
    <2>1. CASE Under(p, F)
      <3> DEFINE g == Graft(p, F, T)
      <3>1. g \in Path /\ Under(g, T) /\ Graft(g, T, F) = p
        BY <1>1, <2>1, GraftFacts, GraftBack
      <3>2. fs[g].type = "file"
        BY <1>2, <1>9, <2>1
      <3> HIDE DEF g
      <3>3. \A i \in DOMAIN args : Under(g, To(i)) => i = m
        BY <1>6, <3>1
      <3>4. found[g].type # "file"
        BY <1>6, <3>1
      <3>5. TakenBy(Graft(g, T, F), m) /\ found[Graft(g, T, F)].type = "file"
        BY <3>1, <3>2, <3>3, <3>4 DEF FilesAt
      <3> QED BY <1>5, <3>1, <3>5
    <2>2. CASE Under(p, T)
      BY <1>2, <1>9, <2>2, EntryFacts
    <2>3. CASE ~Under(p, T) /\ ~Under(p, F)
      <3>1. fs[p].type = "file"
        BY <1>2, <1>9, <2>3, EntryFacts
      <3>2. CASE Stays(p, m) /\ found[p].type = "file"
        BY <1>4, <3>2
      <3>3. ASSUME NEW i \in DOMAIN args, i <= m, Under(p, To(i)) PROVE i <= m - 1
        BY <1>3, <2>3, <3>3
      <3>4. CASE \E i \in DOMAIN args :
                     /\ i <= m /\ Under(p, To(i)) /\ TakenBy(Graft(p, To(i), From(i)), i)
                     /\ found[Graft(p, To(i), From(i))].type = "file"
        BY <3>3, <3>4
      <3> QED BY <3>1, <3>2, <3>4 DEF FilesAt
    <2> QED BY <2>1, <2>2, <2>3
  <1> QED BY <1>7, <1>8, <1>9 DEF FilesAt

LEMMA WayBackward ==
  ASSUME NEW fs \in [Path -> Entries], FoundTree, ArgsFit, MoveAccepts(args, found), Apart(args),
         NEW m \in DOMAIN args, CanMakeParents(fs, From(m)), WayBack(fs, m),
         NEW gs, gs = Rename(MakeParents(fs, From(m)), To(m), From(m))
  PROVE  WayBack(gs, m - 1)
  <1> DEFINE F == From(m)
             T == To(m)
  <1>1. F \in Path /\ T \in Path /\ F # T /\ Len(F) = Len(T) /\ m \in Nat
    BY OfMove
  <1>2. \A r \in Path : /\ Under(r, F) => gs[r] = fs[Graft(r, F, T)]
                        /\ ~Under(r, T) /\ ~Under(r, F)
                              => gs[r] = IF r \in Above(F) THEN Directory ELSE fs[r]
    <2> HIDE DEF F, T
    <2>1. gs = Rename(MakeParents(fs, F), T, F) /\ CanMakeParents(fs, F)
      BY DEF F, T
    <2> QED BY <1>1, <2>1, Relocated
  <1>3. \A i \in DOMAIN args : i \in Nat /\ (i <= m - 1 => i < m /\ i <= m /\ i # m)
    BY <1>1, OfMove
  <1>4. \A p \in Path, i \in DOMAIN args : Under(p, To(i)) =>
           ~Under(p, F) /\ (i # m => ~Under(p, T)) /\ p \notin Above(F)
    BY Geography
  <1>5. Directory # Nothing
    BY EntryFacts
  <1>6. ASSUME NEW i \in DOMAIN args, i <= m - 1 PROVE gs[From(i)] = Nothing
    <2>1. From(i) \in Path /\ Under(From(i), From(i)) /\ i < m /\ i <= m /\ m <= m
      BY <1>1, <1>3, <1>6, OfMove
    <2>2. /\ fs[From(i)] = Nothing /\ ~Under(F, From(i))
          /\ Under(From(i), F) => fs[Graft(From(i), F, T)] = Nothing
      BY <2>1 DEF WayBack
    <2>3. ~Under(From(i), T)
      BY <2>1, Geography
    <2>4. From(i) \notin Above(F)
      BY <2>2 DEF Above, IsStrictPrefix, Under
    <2> QED BY <1>2, <2>1, <2>2, <2>3, <2>4
  <1>7. ASSUME NEW i \in DOMAIN args, i <= m - 1 PROVE gs[To(i)] # Nothing
    <2>1. To(i) \in Path /\ Under(To(i), To(i)) /\ fs[To(i)] # Nothing /\ i # m
      BY <1>3, <1>7, OfMove DEF WayBack
    <2>2. ~Under(To(i), F) /\ ~Under(To(i), T)
      BY <1>4, <2>1
    <2> QED BY <1>2, <1>5, <2>1, <2>2
  <1>8. ASSUME NEW i \in DOMAIN args, NEW j \in DOMAIN args, i < j, j <= m - 1
        PROVE  /\ ~Under(From(j), From(i))
               /\ Under(From(i), From(j)) => gs[Graft(From(i), From(j), To(j))] = Nothing
    <2> DEFINE g == Graft(From(i), From(j), To(j))
    <2>1. /\ From(i) \in Path /\ From(j) \in Path /\ To(j) \in Path
          /\ Len(From(j)) = Len(To(j)) /\ From(j) # To(j)
      BY OfMove
    <2>2. j <= m /\ j # m /\ i <= m
      <3>1. i \in Nat /\ j \in Nat
        BY OfMove
      <3> QED BY <1>1, <1>8, <3>1
    <2>3. ~Under(From(j), From(i)) /\ (Under(From(i), From(j)) => fs[g] = Nothing)
      BY <1>8, <2>2 DEF WayBack
    <2>4. ASSUME Under(From(i), From(j)) PROVE gs[g] = Nothing
      <3>1. g \in Path /\ Under(g, To(j)) /\ fs[g] = Nothing
        BY <2>1, <2>3, <2>4, GraftFacts
      <3> HIDE DEF g
      <3>2. ~Under(g, F) /\ ~Under(g, T) /\ g \notin Above(F)
        BY <1>4, <2>2, <3>1
      <3> QED BY <1>2, <3>1, <3>2
    <2> QED BY <2>3, <2>4
  <1> QED BY <1>6, <1>7, <1>8 DEF WayBack

\* Once the last move is taken back its source is there, and stays there.
LEMMA BarStays ==
  ASSUME NEW fs \in [Path -> Entries], FoundTree, ArgsFit, MoveAccepts(args, found), Apart(args),
         NEW m \in DOMAIN args, CanMakeParents(fs, From(m)), Tree(fs), fs[From(m)] = Nothing,
         NEW gs, gs = Rename(MakeParents(fs, From(m)), To(m), From(m)),
         Barred(fs) \/ (m = Len(args) /\ fs[To(m)] # Nothing)
  PROVE  Barred(gs)
  <1> DEFINE F == From(m)
             T == To(m)
             l == From(Len(args))
  <1>1. F \in Path /\ T \in Path /\ F # T /\ Len(F) = Len(T) /\ Under(F, F)
        /\ l \in Path /\ Under(l, l) /\ Len(args) \in DOMAIN args
    <2>1. Len(args) \in DOMAIN args
      BY DEF ArgsFit
    <2> QED BY <2>1, OfMove
  <1>2. \A r \in Path : /\ Under(r, F) => gs[r] = fs[Graft(r, F, T)]
                        /\ ~Under(r, T) /\ ~Under(r, F)
                              => gs[r] = IF r \in Above(F) THEN Directory ELSE fs[r]
    <2> HIDE DEF F, T
    <2>1. gs = Rename(MakeParents(fs, F), T, F) /\ CanMakeParents(fs, F)
      BY DEF F, T
    <2> QED BY <1>1, <2>1, Relocated
  <1>3. CASE Barred(fs)
    <2>1. fs[l] # Nothing
      BY <1>3 DEF Barred
    <2>2. ~Under(l, F)
      BY <1>1, <2>1, BelowNothing
    <2>3. ~Under(l, T)
      BY <1>1, Geography
    <2>4. gs[l] # Nothing
      BY <1>1, <1>2, <2>1, <2>2, <2>3, EntryFacts
    <2> QED BY <2>4 DEF Barred
  <1>4. CASE m = Len(args) /\ fs[To(m)] # Nothing
    <2>1. Graft(F, F, T) = T
      BY <1>1, GraftTop
    <2>2. gs[F] = fs[T]
      BY <1>1, <1>2, <2>1
    <2> QED BY <1>4, <2>2 DEF Barred
  <1> QED BY <1>3, <1>4

\* What the moves have left can be taken back.
LEMMA WayIsFree ==
  ASSUME NEW fs \in [Path -> Entries], FoundTree, ArgsFit, MoveAccepts(args, found), Apart(args),
         NEW m \in DOMAIN args, Moved(fs, m)
  PROVE  /\ fs[From(m)] = Nothing /\ fs[To(m)] # Nothing /\ CanMakeParents(fs, From(m))
         /\ CanRename(MakeParents(fs, From(m)), To(m), From(m))
  <1> DEFINE F == From(m)
             T == To(m)
             ms == MakeParents(fs, F)
  <1>1. F \in Path /\ T \in Path /\ F # T /\ Len(F) = Len(T) /\ Under(F, F) /\ m \in Nat
    BY OfMove
  <1>2. fs[F] = Nothing /\ fs[T] # Nothing
    BY <1>1 DEF Moved, WayBack
  <1>3. CanMakeParents(fs, F)
    <2> SUFFICES ASSUME NEW r \in Above(F), fs[r].type = "file" PROVE FALSE
      BY DEF CanMakeParents
    <2>1. r \in Path
      BY DEF Above
    <2>2. found[F] # Nothing
      BY DEF MoveAccepts, From
    <2>3. found[r].type = "dir"
      BY <1>1, <2>2 DEF FoundTree, InPlace
    <2>4. \A i \in DOMAIN args : ~Under(r, To(i))
      BY <2>1, Geography
    <2> QED BY <2>1, <2>3, <2>4 DEF Moved, FilesAt
  <1>4. \A q \in Path : ms[q] = IF q \in Above(F) THEN Directory ELSE fs[q]
    BY <1>1, ParentsMade
  <1>5. F \notin Above(F)
    BY DEF Above, IsStrictPrefix
  <1>6. ms[F].type = "none"
    BY <1>1, <1>2, <1>4, <1>5, EntryFacts
  <1>7. ms[T].type # "none"
    BY <1>1, <1>2, <1>4, EntryFacts
  <1>8. ~Under(F, T)
    BY <1>1, SameDepth
  <1>9. CanRename(ms, T, F)
    <2> HIDE DEF ms, F, T
    <2> QED BY <1>6, <1>7, <1>8 DEF CanRename
  <1> QED BY <1>2, <1>3, <1>9

\* No file is lost but those below the path that the entry moves to.
LEMMA RenameKeeps ==
  ASSUME NEW fs \in [Path -> Entries], NEW p \in Path, NEW q \in Path, p # q, Len(p) = Len(q),
         CanMakeParents(fs, q), NEW gs, gs = Rename(MakeParents(fs, q), p, q)
  PROVE  \A r \in Path : fs[r].type = "file" /\ ~Under(r, q) => \E s \in Path : gs[s] = fs[r]
  <1>1. \A r \in Path :
            /\ Under(r, q) => gs[r] = fs[Graft(r, q, p)]
            /\ ~Under(r, p) /\ ~Under(r, q)
                  => gs[r] = IF r \in Above(q) THEN Directory ELSE fs[r]
            /\ fs[r].type = "file" => r \notin Above(q)
    BY Relocated
  <1> SUFFICES ASSUME NEW r \in Path, fs[r].type = "file", ~Under(r, q)
               PROVE  \E s \in Path : gs[s] = fs[r]
    OBVIOUS
  <1>3. CASE Under(r, p)
    <2> DEFINE s == Graft(r, p, q)
    <2>1. s \in Path /\ Under(s, q) /\ Graft(s, q, p) = r
      BY <1>3, GraftFacts, GraftBack
    <2> HIDE DEF s
    <2>2. gs[s] = fs[r]
      BY <1>1, <2>1
    <2> QED BY <2>1, <2>2
  <1>4. CASE ~Under(r, p)
    BY <1>1, <1>4
  <1> QED BY <1>3, <1>4

\* All moves taken back: every file is where it was.
LEMMA AllBack ==
  ASSUME NEW fs \in [Path -> Entries], ArgsFit, FilesAt(fs, 0)
  PROVE  MoveRestored(found, fs)
  <1>1. \A i \in DOMAIN args : ~(i <= 0)
    BY DEF ArgsFit
  <1>2. \A p \in Path : Stays(p, 0)
    BY <1>1 DEF Stays
  <1>3. \A p \in Path : found[p].type = "file" => fs[p] = found[p]
    BY <1>2 DEF FilesAt
  <1>4. \A p \in Path : fs[p].type = "file" => found[p].type = "file"
    BY <1>1 DEF FilesAt
  <1> QED BY <1>3, <1>4 DEF MoveRestored

LEMMA NothingMoved ==
  ASSUME FoundTree, ArgsFit
  PROVE  Moved(found, 0) /\ \A fs : MovedAway(fs, 0)
  <1>1. \A i \in DOMAIN args : ~(i <= 0)
    BY DEF ArgsFit
  <1>2. \A p \in Path : Stays(p, 0)
    BY <1>1 DEF Stays
  <1> QED BY <1>1, <1>2 DEF Moved, FilesAt, WayBack, MovedAway
----------------------------------------------------------------------------
(* organize.move: the steps. *)

LEMMA MoveKind ==
  ASSUME kind = "move"
  PROVE  /\ \A call : Can(call) = MoveCan(call, machine) /\ After(call) = MoveAfter(call, machine)
         /\ Elsewhere = FilesOthers(machine) /\ (Accepts <=> MoveAccepts(args, machine))
         /\ Snapshot = args
         /\ ApplyCalls = MoveApply(before) /\ UndoCalls = MoveUndo(before)
         /\ (Meets <=> MoveMeets(args, found, machine))
         /\ (Restored <=> MoveRestored(found, machine))
  BY DEF Can, After, Elsewhere, Accepts, Snapshot, MoveBefore, ApplyCalls, UndoCalls, Meets, Restored

LEMMA MoveKnown ==
  ASSUME FlowInv, MoveInv, kind = "move"
  PROVE  MoveFacts /\ ArgsFit
  <1>1. args \in Moves
    BY ArgsOfKind
  <1> QED BY <1>1, MoveList DEF MoveInv

LEMMA MoveSame ==
  ASSUME args' = args, found' = found
  PROVE  /\ FoundTree' = FoundTree /\ Apart(args)' = Apart(args)
         /\ \A k : /\ Moved(machine, k)' = Moved(machine', k)
                   /\ MovedAway(machine, k)' = MovedAway(machine', k)
                   /\ Moved(machine, Len(args) - k)' = Moved(machine', Len(args) - k)
         /\ Moved(machine, Len(args))' = Moved(machine', Len(args))
         /\ MovedAway(machine, Len(args))' = MovedAway(machine', Len(args))
         /\ Barred(machine)' = Barred(machine')
  <1>1. FoundTree' = FoundTree /\ Apart(args)' = Apart(args)
    BY DEF FoundTree, Apart
  <1>2. ASSUME NEW k PROVE MovedAway(machine, k)' = MovedAway(machine', k)
    BY DEF MovedAway, From
  <1>3. ASSUME NEW k PROVE FilesAt(machine, k)' = FilesAt(machine', k)
    BY DEF FilesAt, Stays, TakenBy, From, To
  <1>4. ASSUME NEW k PROVE WayBack(machine, k)' = WayBack(machine', k)
    BY DEF WayBack, From, To
  <1>5. Barred(machine)' = Barred(machine')
    BY DEF Barred, From
  <1>6. /\ Moved(machine, Len(args))' = Moved(machine', Len(args))
        /\ MovedAway(machine, Len(args))' = MovedAway(machine', Len(args))
        /\ \A k : Moved(machine, Len(args) - k)' = Moved(machine', Len(args) - k)
    BY DEF Moved, MovedAway, FilesAt, WayBack, Stays, TakenBy, From, To
  <1> QED BY <1>1, <1>2, <1>3, <1>4, <1>5, <1>6 DEF Moved

LEMMA MoveBegins ==
  ASSUME FlowInv, MoveFacts, ArgsFit, kind = "move", Propose \/ StartApply
  PROVE  MoveFacts'
  <1>1. /\ kind' = kind /\ args' = args /\ found' = found /\ machine' = machine
        /\ touched' = touched
    <2>1. found' = found
      BY DEF Propose, StartApply, FlowInv, step
    <2> QED BY <2>1 DEF Propose, StartApply, step
  <1>2. machine' \in [Path -> Entries] /\ Tree(machine') /\ FoundTree'
    BY <1>1, MoveSame DEF MoveFacts
  <1>3. CASE Propose
    <2>1. phase' = "proposed" /\ before' = args /\ MoveAccepts(args, machine) /\ machine = found
      BY <1>3, MoveKind DEF Propose, FlowInv
    <2> QED BY <1>1, <1>2, <2>1 DEF MoveFacts
  <1>4. CASE StartApply
    <2>1. phase = "proposed" /\ phase' = "applying" /\ before' = before
          /\ todo' = MoveApply(before)
      BY <1>4, MoveKind DEF StartApply, step
    <2>2. before = args /\ MoveAccepts(args, found)
      BY <2>1 DEF MoveFacts
    <2>3. todo' = Left(MoveApply(before'), 0) /\ 0 \in 0..Len(args)
      <3>1. MoveApply(before) \in Seq(MoveCallSet) /\ Len(MoveApply(before)) \in Nat
            /\ Len(args) \in Nat
        BY <2>2, MoveCalls DEF ArgsFit
      <3> QED BY <2>1, <3>1, LeftFacts
    <2>4. MovedAway(machine', 0) /\ (touched = "no" => Moved(machine', 0))
      BY <1>1, <2>1, NothingMoved DEF FlowInv, MoveFacts
    <2>5. \E k \in 0..Len(args') :
              /\ todo' = Left(MoveApply(before'), k)
              /\ Calm' => MovedAway(machine, k)'
              /\ touched' = "no" /\ Apart(args)' => Moved(machine, k)'
      BY <1>1, <2>3, <2>4, MoveSame
    <2> QED BY <1>1, <1>2, <2>1, <2>2, <2>5 DEF MoveFacts
  <1> QED BY <1>3, <1>4

LEMMA MoveStartUndo ==
  ASSUME FlowInv, MoveFacts, ArgsFit, kind = "move", StartUndo
  PROVE  MoveFacts'
  <1>1. /\ kind' = kind /\ args' = args /\ found' = found /\ machine' = machine
        /\ before' = before /\ touched' = touched /\ again' = (phase # "applied")
        /\ phase' = "undoing" /\ phase \in {"applied", "undoing", "undone", "stuck"}
        /\ todo' = MoveUndo(before)
    BY MoveKind DEF StartUndo, step
  <1>2. /\ machine' \in [Path -> Entries] /\ Tree(machine') /\ FoundTree'
        /\ before' = args' /\ MoveAccepts(args', found')
    BY <1>1, MoveSame DEF MoveFacts
  <1>3. todo' = Left(MoveUndo(before'), 0) /\ 0 \in 0..Len(args) /\ Len(args) - 0 = Len(args)
    <2>1. MoveUndo(before) \in Seq(MoveCallSet) /\ Len(MoveUndo(before)) \in Nat
          /\ Len(args) \in Nat
      BY <1>1, <1>2, MoveCalls DEF ArgsFit
    <2> QED BY <1>1, <2>1, LeftFacts
  <1>4. ASSUME touched = "no", Apart(args)
        PROVE  Moved(machine, Len(args)) \/ (phase # "applied" /\ Barred(machine))
    <2>1. CASE phase = "undoing"
      <3>1. PICK k \in 0..Len(args) :
               \/ Moved(machine, Len(args) - k) /\ (k > 0 => Barred(machine))
               \/ again /\ k = 0 /\ Barred(machine)
        BY <1>4, <2>1 DEF MoveFacts
      <3>2. k = 0 => Len(args) - k = Len(args)
        BY <1>3
      <3> QED BY <2>1, <3>1, <3>2
    <2>2. CASE phase \in {"applied", "undone", "stuck"}
      BY <1>4, <2>2 DEF MoveFacts
    <2> QED BY <1>1, <2>1, <2>2
  <1>5. ASSUME touched' = "no", Apart(args)'
        PROVE  \/ Moved(machine, Len(args) - 0)' /\ (0 > 0 => Barred(machine)')
               \/ again' /\ 0 = 0 /\ Barred(machine)'
    <2>1. Moved(machine', Len(args) - 0) \/ (phase # "applied" /\ Barred(machine'))
      <3>1. touched = "no" /\ Apart(args)
        BY <1>1, <1>5, MoveSame
      <3>2. Len(args) - 0 = Len(args)
        BY <1>3
      <3> QED BY <1>1, <1>4, <3>1, <3>2
    <2>2. /\ Moved(machine, Len(args) - 0)' = Moved(machine', Len(args) - 0)
          /\ Barred(machine)' = Barred(machine')
      BY <1>1, MoveSame
    <2>3. ~(0 > 0)
      OBVIOUS
    <2>4. Moved(machine, Len(args) - 0)' \/ (again' /\ Barred(machine)')
      BY <1>1, <2>1, <2>2
    <2> QED BY <2>3, <2>4, Zenon
  <1>6. \E k \in 0..Len(args') :
              /\ todo' = Left(MoveUndo(before'), k)
              /\ touched' = "no" /\ Apart(args)' =>
                    \/ Moved(machine, Len(args) - k)' /\ (k > 0 => Barred(machine)')
                    \/ again' /\ k = 0 /\ Barred(machine)'
    BY <1>1, <1>3, <1>5
  <1> QED BY <1>1, <1>2, <1>6 DEF MoveFacts

\* The call at the head while Apply runs.
LEMMA MoveApplyCall ==
  ASSUME FlowInv, MoveInv, kind = "move", phase = "applying", todo # <<>>, Can(Head(todo)),
         machine' = After(Head(todo))
  PROVE  /\ machine' \in [Path -> Entries] /\ Tree(machine')
         /\ \E k \in 0..Len(args) :
               /\ Tail(todo) = Left(MoveApply(before), k)
               /\ Calm => MovedAway(machine', k)
               /\ touched = "no" /\ Apart(args) => Moved(machine', k)
  <1> DEFINE calls == MoveApply(before)
  <1>1. /\ machine \in [Path -> Entries] /\ Tree(machine) /\ FoundTree /\ ArgsFit
        /\ before = args /\ MoveAccepts(args, found)
        /\ Len(args) \in Nat /\ DOMAIN args = 1..Len(args)
    BY MoveKnown DEF MoveFacts, ArgsFit
  <1>2. PICK k \in 0..Len(args) :
              /\ todo = Left(calls, k)
              /\ Calm => MovedAway(machine, k)
              /\ touched = "no" /\ Apart(args) => Moved(machine, k)
    BY MoveKnown DEF MoveFacts
  <1>3. calls \in Seq(MoveCallSet) /\ Len(calls) = Len(args)
        /\ \A i \in 1..Len(args) : calls[i] = [op |-> "move", from |-> From(i), to |-> To(i)]
    BY <1>1, MoveCalls
  <1> HIDE DEF calls
  <1>4. /\ k + 1 \in 1..Len(calls) /\ k + 1 \in 0..Len(calls)
        /\ Head(todo) = calls[k + 1] /\ Tail(todo) = Left(calls, k + 1)
    BY <1>2, <1>3, LeftFacts
  <1> DEFINE m == k + 1
             F == From(m)
             T == To(m)
  <1>5. m \in DOMAIN args /\ m \in 0..Len(args) /\ m - 1 = k
    BY <1>1, <1>3, <1>4
  <1>6. Tail(todo) = Left(calls, m)
    BY <1>4
  <1>7. Head(todo) = [op |-> "move", from |-> F, to |-> T]
    BY <1>3, <1>4
  <1> HIDE DEF m
  <1>8. F \in Path /\ T \in Path /\ F # T /\ Len(F) = Len(T)
    BY <1>1, <1>5, OfMove
  <1> HIDE DEF F, T
  <1>9. /\ CanMakeParents(machine, T) /\ CanRename(MakeParents(machine, T), F, T)
        /\ machine' = Rename(MakeParents(machine, T), F, T)
    <2>1. MoveCan(Head(todo), machine) /\ machine' = MoveAfter(Head(todo), machine)
      BY MoveKind
    <2> QED BY <1>7, <2>1 DEF MoveCan, MoveAfter
  <1>10. machine' \in [Path -> Entries] /\ Tree(machine')
    BY <1>1, <1>8, <1>9, Relocated, RelocatedTree
  <1>11. ASSUME Calm PROVE MovedAway(machine', m)
    <2>1. MovedAway(machine, m - 1)
      BY <1>2, <1>5, <1>11
    <2> QED BY <1>1, <1>5, <1>9, <2>1, MovedAwayStep DEF F, T
  <1>12. ASSUME touched = "no", Apart(args) PROVE Moved(machine', m)
    <2>1. FilesAt(machine, m - 1) /\ WayBack(machine, m - 1)
      BY <1>2, <1>5, <1>12 DEF Moved
    <2>2. machine[F] # Nothing
      <3>1. MakeParents(machine, T)[F].type # "none"
        BY <1>9 DEF CanRename
      <3>2. F \notin Above(T)
        BY <1>8, PathKnown, SameDepth, PrefixFacts DEF Under
      <3> QED BY <1>1, <1>8, <3>1, <3>2, ParentsMade, EntryFacts
    <2>3. FilesAt(machine', m)
      BY <1>1, <1>5, <1>9, <1>12, <2>1, FilesForward DEF F, T
    <2>4. WayBack(machine', m)
      BY <1>1, <1>5, <1>9, <1>12, <2>1, <2>2, WayForward DEF F, T
    <2> QED BY <2>3, <2>4 DEF Moved
  <1> QED BY <1>5, <1>6, <1>10, <1>11, <1>12 DEF calls

\* The call at the head while Rollback runs.
LEMMA MoveUndoHead ==
  ASSUME FlowInv, MoveInv, kind = "move", phase = "undoing", todo # <<>>
  PROVE  \E k \in 0..Len(args), m \in DOMAIN args :
            /\ k + 1 \in 0..Len(args) /\ m = Len(args) - k /\ m - 1 = Len(args) - (k + 1)
            /\ k + 1 > 0 /\ (k = 0 <=> m = Len(args))
            /\ Head(todo) = [op |-> "back", from |-> To(m), to |-> From(m)]
            /\ Tail(todo) = Left(MoveUndo(before), k + 1)
            /\ touched = "no" /\ Apart(args) =>
                    \/ Moved(machine, m) /\ (k > 0 => Barred(machine))
                    \/ again /\ m = Len(args) /\ Barred(machine)
  <1> DEFINE calls == MoveUndo(before)
  <1>1. ArgsFit /\ before = args /\ Len(args) \in Nat /\ DOMAIN args = 1..Len(args)
    BY MoveKnown DEF MoveFacts, ArgsFit
  <1>2. PICK k \in 0..Len(args) :
              /\ todo = Left(calls, k)
              /\ touched = "no" /\ Apart(args) =>
                    \/ Moved(machine, Len(args) - k) /\ (k > 0 => Barred(machine))
                    \/ again /\ k = 0 /\ Barred(machine)
    BY MoveKnown DEF MoveFacts
  <1>3. calls \in Seq(MoveCallSet) /\ Len(calls) = Len(args)
        /\ \A i \in 1..Len(args) :
              /\ Len(args) - i + 1 \in DOMAIN args
              /\ calls[i] = [op |-> "back", from |-> To(Len(args) - i + 1),
                             to |-> From(Len(args) - i + 1)]
    BY <1>1, MoveCalls
  <1> HIDE DEF calls
  <1>4. /\ k + 1 \in 1..Len(calls) /\ k + 1 \in 0..Len(calls)
        /\ Head(todo) = calls[k + 1] /\ Tail(todo) = Left(calls, k + 1)
    BY <1>2, <1>3, LeftFacts
  <1> DEFINE n == Len(args)
             m == n - k
  <1>5. n - (k + 1) + 1 = m /\ m - 1 = n - (k + 1) /\ k + 1 > 0 /\ (k = 0 <=> m = n)
    <2>1. \A a, b \in Nat : /\ a - (b + 1) + 1 = a - b /\ a - b - 1 = a - (b + 1)
                            /\ b + 1 > 0 /\ (b = 0 <=> a - b = a)
      OBVIOUS
    <2>2. n \in Nat /\ k \in Nat
      BY <1>1
    <2> HIDE DEF n
    <2> QED BY <2>1, <2>2
  <1>6. m \in DOMAIN args /\ calls[k + 1] = [op |-> "back", from |-> To(m), to |-> From(m)]
    BY <1>3, <1>4, <1>5
  <1>7. k + 1 \in 0..n
    BY <1>3, <1>4
  <1>8. touched = "no" /\ Apart(args) =>
              \/ Moved(machine, m) /\ (k > 0 => Barred(machine))
              \/ again /\ m = n /\ Barred(machine)
    BY <1>2, <1>5
  <1>9. Tail(todo) = Left(MoveUndo(before), k + 1)
    BY <1>4 DEF calls
  <1>10. Head(todo) = [op |-> "back", from |-> To(m), to |-> From(m)]
    BY <1>4, <1>6
  <1> HIDE DEF m, n
  <1>11. m = n - k
    BY DEF m
  <1> QED BY <1>5, <1>6, <1>7, <1>8, <1>9, <1>10, <1>11 DEF n

LEMMA MoveUndoCall ==
  ASSUME FlowInv, MoveInv, kind = "move", phase = "undoing", todo # <<>>, Can(Head(todo)),
         machine' = After(Head(todo))
  PROVE  /\ machine' \in [Path -> Entries] /\ Tree(machine')
         /\ Data(machine) \subseteq Data(machine')
         /\ \E k \in 0..Len(args) :
               /\ Tail(todo) = Left(MoveUndo(before), k)
               /\ touched = "no" /\ Apart(args) =>
                     Moved(machine', Len(args) - k) /\ Barred(machine')
  <1>1. /\ machine \in [Path -> Entries] /\ Tree(machine) /\ FoundTree /\ ArgsFit
        /\ before = args /\ MoveAccepts(args, found)
    BY MoveKnown DEF MoveFacts
  <1>2. PICK k \in 0..Len(args), m \in DOMAIN args :
            /\ k + 1 \in 0..Len(args) /\ m = Len(args) - k /\ m - 1 = Len(args) - (k + 1)
            /\ k + 1 > 0 /\ (k = 0 <=> m = Len(args))
            /\ Head(todo) = [op |-> "back", from |-> To(m), to |-> From(m)]
            /\ Tail(todo) = Left(MoveUndo(before), k + 1)
            /\ touched = "no" /\ Apart(args) =>
                    \/ Moved(machine, m) /\ (k > 0 => Barred(machine))
                    \/ again /\ m = Len(args) /\ Barred(machine)
    BY MoveUndoHead
  <1> DEFINE F == From(m)
             T == To(m)
  <1>3. F \in Path /\ T \in Path /\ F # T /\ Len(F) = Len(T) /\ m \in Nat
    BY <1>1, OfMove
  <1>4. Head(todo) = [op |-> "back", from |-> T, to |-> F]
    BY <1>2
  <1> HIDE DEF F, T
  <1>5. /\ machine[F] = Nothing /\ CanMakeParents(machine, F)
        /\ machine' = Rename(MakeParents(machine, F), T, F)
    <2>1. MoveCan(Head(todo), machine) /\ machine' = MoveAfter(Head(todo), machine)
      BY MoveKind
    <2> QED BY <1>4, <2>1 DEF MoveCan, MoveAfter
  <1>6. machine' \in [Path -> Entries] /\ Tree(machine')
    BY <1>1, <1>3, <1>5, Relocated, RelocatedTree
  <1>7. Data(machine) \subseteq Data(machine')
    <2>1. \A r \in Path : Under(r, F) => machine[r].type # "file"
      BY <1>1, <1>3, <1>5, BelowNothing, EntryFacts
    <2>2. \A r \in Path : machine[r].type = "file" => \E s \in Path : machine'[s] = machine[r]
      BY <1>1, <1>3, <1>5, <2>1, RenameKeeps
    <2> QED BY <2>2, DataStays
  <1>8. ASSUME touched = "no", Apart(args)
        PROVE  Moved(machine', m - 1) /\ Barred(machine')
    <2>1. Moved(machine, m) /\ (m # Len(args) => Barred(machine))
      <3>1. ~(m = Len(args) /\ Barred(machine))
        BY <1>5 DEF Barred, F
      <3>2. k # 0 => k > 0
        <4>1. Len(args) \in Nat
          BY <1>1 DEF ArgsFit
        <4> QED BY <4>1
      <3> QED BY <1>2, <1>8, <3>1, <3>2
    <2>2. FilesAt(machine, m) /\ WayBack(machine, m) /\ machine[T] # Nothing
      BY <1>3, <2>1 DEF Moved, WayBack, T
    <2>3. FilesAt(machine', m - 1)
      BY <1>1, <1>5, <1>8, <2>2, FilesBackward DEF F, T
    <2>4. WayBack(machine', m - 1)
      BY <1>1, <1>5, <1>8, <2>2, WayBackward DEF F, T
    <2>5. Barred(machine')
      BY <1>1, <1>5, <1>8, <2>1, <2>2, BarStays DEF F, T
    <2> QED BY <2>3, <2>4, <2>5 DEF Moved
  <1>9. touched = "no" /\ Apart(args) => Moved(machine', Len(args) - (k + 1)) /\ Barred(machine')
    BY <1>2, <1>8
  <1> QED BY <1>2, <1>6, <1>7, <1>9

LEMMA MoveCallStep ==
  ASSUME FlowInv, MoveInv, kind = "move", Call
  PROVE  MoveFacts'
  <1>1. /\ kind' = kind /\ args' = args /\ found' = found /\ before' = before
        /\ touched' = touched /\ again' = again /\ phase' = phase
        /\ todo # <<>> /\ Can(Head(todo)) /\ machine' = After(Head(todo)) /\ todo' = Tail(todo)
        /\ phase \in {"applying", "undoing"}
    BY DEF Call, step, Busy
  <1>2. FoundTree' /\ before' = args' /\ MoveAccepts(args', found')
    BY <1>1, MoveKnown, MoveSame DEF MoveFacts
  <1>3. CASE phase = "applying"
    <2>1. /\ machine' \in [Path -> Entries] /\ Tree(machine')
          /\ \E k \in 0..Len(args) :
               /\ Tail(todo) = Left(MoveApply(before), k)
               /\ Calm => MovedAway(machine', k)
               /\ touched = "no" /\ Apart(args) => Moved(machine', k)
      BY <1>1, <1>3, MoveApplyCall
    <2>2. Calm' = Calm
      BY <1>1 DEF Calm
    <2>3. \E k \in 0..Len(args') :
              /\ todo' = Left(MoveApply(before'), k)
              /\ Calm' => MovedAway(machine, k)'
              /\ touched' = "no" /\ Apart(args)' => Moved(machine, k)'
      BY <1>1, <2>1, <2>2, MoveSame
    <2> QED BY <1>1, <1>2, <1>3, <2>1, <2>3 DEF MoveFacts
  <1>4. CASE phase = "undoing"
    <2>1. /\ machine' \in [Path -> Entries] /\ Tree(machine')
          /\ \E k \in 0..Len(args) :
               /\ Tail(todo) = Left(MoveUndo(before), k)
               /\ touched = "no" /\ Apart(args) =>
                     Moved(machine', Len(args) - k) /\ Barred(machine')
      BY <1>1, <1>4, MoveUndoCall
    <2>2. \E k \in 0..Len(args') :
              /\ todo' = Left(MoveUndo(before'), k)
              /\ touched' = "no" /\ Apart(args)' =>
                    \/ Moved(machine, Len(args) - k)' /\ (k > 0 => Barred(machine)')
                    \/ again' /\ k = 0 /\ Barred(machine)'
      BY <1>1, <2>1, MoveSame
    <2> QED BY <1>1, <1>2, <1>4, <2>1, <2>2 DEF MoveFacts
  <1> QED BY <1>1, <1>3, <1>4

LEMMA MoveFails ==
  ASSUME FlowInv, MoveInv, kind = "move", CallFails
  PROVE  MoveFacts'
  <1>1. /\ kind' = kind /\ args' = args /\ found' = found /\ before' = before
        /\ touched' = touched /\ again' = again /\ phase \in {"applying", "undoing"}
        /\ phase' = IF phase = "applying" THEN "failed" ELSE "stuck"
        /\ todo # <<>>
        /\ \/ machine' = machine
           \/ Can(Head(todo)) /\ machine' = After(Head(todo))
    BY DEF CallFails, step, Busy
  <1>2. FoundTree' /\ before' = args' /\ MoveAccepts(args', found')
    BY <1>1, MoveKnown, MoveSame DEF MoveFacts
  <1>3. machine' \in [Path -> Entries] /\ Tree(machine')
    <2>1. CASE machine' = machine
      BY <2>1, MoveKnown DEF MoveFacts
    <2>2. CASE phase = "applying" /\ Can(Head(todo)) /\ machine' = After(Head(todo))
      BY <1>1, <2>2, MoveApplyCall
    <2>3. CASE phase = "undoing" /\ Can(Head(todo)) /\ machine' = After(Head(todo))
      BY <1>1, <2>3, MoveUndoCall
    <2> QED BY <1>1, <2>1, <2>2, <2>3
  <1>4. ASSUME phase = "undoing", touched = "no", Apart(args)
        PROVE  Moved(machine', Len(args)) \/ Barred(machine')
    <2>1. CASE machine' = machine
      <3>1. PICK k \in 0..Len(args) :
                    \/ Moved(machine, Len(args) - k) /\ (k > 0 => Barred(machine))
                    \/ Barred(machine)
        BY <1>4, MoveKnown DEF MoveFacts
      <3>2. Len(args) \in Nat
        BY MoveKnown DEF ArgsFit
      <3>3. k > 0 \/ Len(args) - k = Len(args)
        BY <3>2
      <3> QED BY <2>1, <3>1, <3>3
    <2>2. CASE Can(Head(todo)) /\ machine' = After(Head(todo))
      BY <1>1, <1>4, <2>2, MoveUndoCall
    <2> QED BY <1>1, <2>1, <2>2
  <1>5. phase' = "stuck" /\ touched' = "no" /\ Apart(args)'
           => Moved(machine, Len(args))' \/ Barred(machine)'
    BY <1>1, <1>4, MoveSame
  <1> QED BY <1>1, <1>2, <1>3, <1>5 DEF MoveFacts

LEMMA MoveReturn ==
  ASSUME FlowInv, MoveInv, kind = "move", Return
  PROVE  MoveFacts'
  <1>1. /\ kind' = kind /\ args' = args /\ found' = found /\ before' = before
        /\ touched' = touched /\ again' = again /\ machine' = machine /\ todo = <<>>
        /\ \/ phase = "applying" /\ phase' = "applied"
           \/ phase = "undoing" /\ phase' = "undone"
    BY DEF Return, step, Busy
  <1>2. ArgsFit /\ before = args /\ Len(args) \in Nat /\ Len(args) > 0
    BY <1>1, MoveKnown DEF MoveFacts, ArgsFit
  <1>3. /\ FoundTree' /\ before' = args' /\ MoveAccepts(args', found')
        /\ machine' \in [Path -> Entries] /\ Tree(machine')
    BY <1>1, MoveKnown, MoveSame DEF MoveFacts
  <1>4. /\ MoveApply(before) \in Seq(MoveCallSet) /\ Len(MoveApply(before)) = Len(args)
        /\ MoveUndo(before) \in Seq(MoveCallSet) /\ Len(MoveUndo(before)) = Len(args)
    BY <1>2, MoveCalls
  <1>5. CASE phase = "applying"
    <2>1. PICK k \in 0..Len(args) :
              /\ todo = Left(MoveApply(before), k)
              /\ Calm => MovedAway(machine, k)
              /\ touched = "no" /\ Apart(args) => Moved(machine, k)
      BY <1>5, MoveKnown DEF MoveFacts
    <2>2. k = Len(args)
      BY <1>1, <1>4, <2>1, LeftFacts
    <2>3. /\ Calm' => MovedAway(machine, Len(args))'
          /\ touched' = "no" /\ Apart(args)' => Moved(machine, Len(args))'
      BY <1>1, <2>1, <2>2, MoveSame DEF Calm
    <2> QED BY <1>1, <1>3, <1>5, <2>3 DEF MoveFacts
  <1>6. CASE phase = "undoing"
    <2>1. PICK k \in 0..Len(args) :
              /\ todo = Left(MoveUndo(before), k)
              /\ touched = "no" /\ Apart(args) =>
                    \/ Moved(machine, Len(args) - k) /\ (k > 0 => Barred(machine))
                    \/ again /\ k = 0 /\ Barred(machine)
      BY <1>6, MoveKnown DEF MoveFacts
    <2>2. k = Len(args)
      BY <1>1, <1>4, <2>1, LeftFacts
    <2>3. k > 0 /\ k # 0 /\ Len(args) - k = 0
      BY <1>2, <2>2
    <2>4. touched = "no" /\ Apart(args) => Moved(machine, 0) /\ Barred(machine)
      BY <2>1, <2>3
    <2>5. touched' = "no" /\ Apart(args)' => Moved(machine, 0)' /\ Barred(machine)'
      BY <1>1, <2>4, MoveSame
    <2> QED BY <1>1, <1>3, <1>6, <2>5 DEF MoveFacts
  <1> QED BY <1>1, <1>5, <1>6

LEMMA MoveDisturb ==
  ASSUME FlowInv, MoveInv, kind = "move", Others
  PROVE  MoveFacts'
  <1>1. /\ kind' = kind /\ args' = args /\ found' = found /\ before' = before /\ todo' = todo
        /\ touched' = phase /\ again' = again /\ phase' = phase /\ touched = "no"
        /\ phase \in {"proposed", "applying", "applied", "undoing"}
        /\ machine' \in FilesOthers(machine)
    BY MoveKind DEF Others, step
  <1>2. /\ FoundTree' /\ before' = args' /\ MoveAccepts(args', found')
        /\ machine' \in [Path -> Entries] /\ Tree(machine')
    BY <1>1, MoveKnown, MoveSame, DisturbedFiles, DisturbedTree DEF MoveFacts
  <1>3. touched' # "no" /\ (phase # "proposed" => ~Calm')
    BY <1>1 DEF Calm
  <1>4. phase = "applying" => \E k \in 0..Len(args) : todo = Left(MoveApply(before), k)
    BY MoveKnown DEF MoveFacts
  <1>5. phase = "undoing" => \E k \in 0..Len(args) : todo = Left(MoveUndo(before), k)
    BY MoveKnown DEF MoveFacts
  <1> QED BY <1>1, <1>2, <1>3, <1>4, <1>5 DEF MoveFacts

LEMMA MoveNext ==
  ASSUME FlowInv, MoveInv, Next
  PROVE  MoveInv'
  <1> SUFFICES ASSUME kind = "move" PROVE MoveFacts'
    BY Constant DEF MoveInv
  <1>1. MoveFacts /\ ArgsFit
    BY MoveKnown
  <1>2. ~Clear
    BY DEF Clear
  <1> QED BY <1>1, <1>2, MoveBegins, MoveStartUndo, MoveCallStep, MoveFails, MoveReturn, MoveDisturb
          DEF Next

LEMMA MoveInit == Init => MoveInv
  <1> SUFFICES ASSUME Init, kind = "move" PROVE MoveFacts
    BY DEF MoveInv
  <1>1. machine \in FilesStart /\ found = machine /\ phase = "new"
    BY DEF Init, StartOf
  <1>2. FoundTree /\ machine \in [Path -> Entries]
    BY <1>1, FilesFound DEF FoundTree
  <1>3. Tree(machine)
    BY <1>1, <1>2 DEF FoundTree, Tree
  <1> QED BY <1>1, <1>2, <1>3 DEF MoveFacts

\* The inductive invariant of organize.move.
LEMMA MoveInvariance == Spec => []MoveInv
  <1>1. FlowInv /\ MoveInv /\ [Next]_vars => MoveInv'
    <2>1. ASSUME MoveInv, UNCHANGED vars PROVE MoveInv'
      <3>1. /\ kind' = kind /\ args' = args /\ found' = found /\ before' = before /\ todo' = todo
            /\ touched' = touched /\ again' = again /\ phase' = phase /\ machine' = machine
        BY <2>1 DEF vars
      <3> QED BY <2>1, <3>1, MoveSame DEF MoveInv, MoveFacts, Calm
    <2> QED BY <2>1, MoveNext
  <1> QED BY MoveInit, FlowInvariance, <1>1, PTL DEF Spec

LEMMA MovePromises ==
  ASSUME FlowInv, MoveInv, kind = "move"
  PROVE  AppliedIsDesired /\ UndoneIsRestored /\ UndoIsPossible
  <1>1. ASSUME phase = "applied", Calm PROVE Meets
    <2>1. MovedAway(machine, Len(args)) /\ \A i \in DOMAIN args : i <= Len(args)
      BY <1>1, MoveKnown DEF MoveFacts, ArgsFit
    <2>2. MoveMeets(args, found, machine)
      BY <2>1 DEF MovedAway, MoveMeets, From
    <2> QED BY <2>2, MoveKind
  <1>2. ASSUME phase = "undone", touched = "no", Apart(args) PROVE Restored
    <2>1. ArgsFit /\ FilesAt(machine, 0) /\ machine \in [Path -> Entries]
      BY <1>2, MoveKnown DEF MoveFacts, Moved
    <2> QED BY <2>1, AllBack, MoveKind
  <1>3. ASSUME phase = "undoing", todo # <<>>, touched = "no", ~again, Apart(args)
        PROVE  Can(Head(todo))
    <2>1. PICK m \in DOMAIN args :
             /\ Head(todo) = [op |-> "back", from |-> To(m), to |-> From(m)]
             /\ Moved(machine, m)
      BY <1>3, MoveUndoHead
    <2>2. /\ machine[From(m)] = Nothing /\ CanMakeParents(machine, From(m))
          /\ CanRename(MakeParents(machine, From(m)), To(m), From(m))
      BY <1>3, <2>1, MoveKnown, WayIsFree DEF MoveFacts
    <2>3. MoveCan(Head(todo), machine)
      BY <2>1, <2>2 DEF MoveCan
    <2> QED BY <2>3, MoveKind
  <1> QED BY <1>1, <1>2, <1>3
          DEF AppliedIsDesired, UndoneIsRestored, UndoIsPossible, Recoverable, Calm

----------------------------------------------------------------------------
(* organize.move: what was there at Propose. *)

\* What others create is new.
LEMMA NewData ==
  ASSUME FoundTree
  PROVE  << 0 >> \notin Data(found)
  <1>1. Data(found) \subseteq Path
    BY DEF Data, FoundTree
  <1>2. << 0 >> \notin Path
    <2>1. \A s \in Seq(Nat \ {0}) : Len(s) > 0 => s[1] # 0
      OBVIOUS
    <2>2. Len(<< 0 >>) > 0 /\ << 0 >>[1] = 0
      OBVIOUS
    <2> QED BY <2>1, <2>2, PathAssumption
  <1> QED BY <1>1, <1>2

LEMMA SparedSame ==
  ASSUME args' = args, found' = found
  PROVE  Apart(args)' = Apart(args) /\ \A k : Spared(machine, k)' = Spared(machine', k)
  BY DEF Spared, Apart, Data, To

LEMMA SparedAtFirst ==
  ASSUME FoundTree, ArgsFit, MoveAccepts(args, found)
  PROVE  Spared(found, 0)
  <1> SUFFICES ASSUME NEW i \in DOMAIN args, NEW p \in Path, Under(p, To(i)),
                      found[p].type = "file"
               PROVE  FALSE
    BY DEF Spared
  <1> QED BY DestinationsFree, EntryFacts

LEMMA SparedByOthers ==
  ASSUME FoundTree, machine \in [Path -> Entries], machine' \in FilesOthers(machine),
         NEW k, Spared(machine, k)
  PROVE  Spared(machine', k)
  <1> SUFFICES ASSUME NEW i \in DOMAIN args, NEW p \in Path, i > k, Under(p, To(i)),
                      machine'[p].type = "file"
               PROVE  machine'[p].data \notin Data(found)
    BY DEF Spared
  <1>1. \/ machine'[p] = File(<< 0 >>) \/ machine'[p] = Nothing \/ machine'[p] = machine[p]
    <2>1. CASE \E q \in Path : machine' = [machine EXCEPT ![q] = File(<< 0 >>)]
      BY <2>1
    <2>2. CASE \E q \in Path : machine' = RemoveAll(machine, q)
      BY <2>2 DEF RemoveAll
    <2> QED BY <2>1, <2>2 DEF FilesOthers
  <1>2. CASE machine'[p] = File(<< 0 >>)
    BY <1>2, NewData DEF File
  <1>3. CASE machine'[p] = machine[p]
    BY <1>3 DEF Spared
  <1> QED BY <1>1, <1>2, <1>3, EntryFacts

\* The call at the head while Apply runs: the next moves stay free, and of what was
\* there at Propose nothing is overwritten.
LEMMA SparedCall ==
  ASSUME FlowInv, MoveInv, SparedInv, kind = "move", phase = "applying", Apart(args),
         todo # <<>>, Can(Head(todo)), machine' = After(Head(todo))
  PROVE  /\ Data(machine) \cap Data(found) \subseteq Data(machine')
         /\ \E k \in 0..Len(args) :
               Tail(todo) = Left(MoveApply(before), k) /\ Spared(machine', k)
  <1> DEFINE calls == MoveApply(before)
  <1>1. /\ machine \in [Path -> Entries] /\ FoundTree /\ ArgsFit
        /\ before = args /\ MoveAccepts(args, found)
        /\ Len(args) \in Nat /\ DOMAIN args = 1..Len(args)
    BY MoveKnown DEF MoveFacts, ArgsFit
  <1>2. PICK k \in 0..Len(args) : todo = Left(calls, k) /\ Spared(machine, k)
    BY DEF SparedInv
  <1>3. calls \in Seq(MoveCallSet) /\ Len(calls) = Len(args)
        /\ \A i \in 1..Len(args) : calls[i] = [op |-> "move", from |-> From(i), to |-> To(i)]
    BY <1>1, MoveCalls
  <1> HIDE DEF calls
  <1>4. /\ k + 1 \in 1..Len(calls) /\ k + 1 \in 0..Len(calls)
        /\ Head(todo) = calls[k + 1] /\ Tail(todo) = Left(calls, k + 1)
    BY <1>2, <1>3, LeftFacts
  <1> DEFINE m == k + 1
             F == From(m)
             T == To(m)
  <1>5. m \in DOMAIN args /\ m \in 0..Len(args) /\ m > k /\ \A i \in DOMAIN args : i > m => i > k /\ i # m
    BY <1>1, <1>3, <1>4
  <1>6. Tail(todo) = Left(calls, m)
    BY <1>4
  <1>7. Head(todo) = [op |-> "move", from |-> F, to |-> T]
    BY <1>3, <1>4
  <1> HIDE DEF m
  <1>8. F \in Path /\ T \in Path /\ F # T /\ Len(F) = Len(T)
    BY <1>1, <1>5, OfMove
  <1> HIDE DEF F, T
  <1>9. CanMakeParents(machine, T) /\ machine' = Rename(MakeParents(machine, T), F, T)
    <2>1. MoveCan(Head(todo), machine) /\ machine' = MoveAfter(Head(todo), machine)
      BY MoveKind
    <2> QED BY <1>7, <2>1 DEF MoveCan, MoveAfter
  <1>10. Spared(machine', m)
    <2> SUFFICES ASSUME NEW i \in DOMAIN args, NEW p \in Path, i > m, Under(p, To(i)),
                        machine'[p].type = "file"
                 PROVE  machine'[p].data \notin Data(found)
      BY DEF Spared
    <2>1. i > k /\ i # m
      BY <1>5
    <2>2. ~Under(p, F) /\ ~Under(p, T)
      BY <1>1, <1>5, <2>1, Geography DEF F, T
    <2>3. machine'[p] = IF p \in Above(T) THEN Directory ELSE machine[p]
      BY <1>1, <1>8, <1>9, <2>2, Relocated
    <2>4. machine'[p] = machine[p]
      BY <2>3, EntryFacts
    <2> QED BY <1>2, <2>1, <2>4 DEF Spared
  <1>11. ASSUME NEW d \in Data(machine), d \in Data(found) PROVE d \in Data(machine')
    <2>1. PICK r \in Path : machine[r].type = "file" /\ machine[r].data = d /\ d # NoData
      BY DEF Data
    <2>2. ~Under(r, T)
      BY <1>2, <1>5, <1>11, <2>1 DEF Spared, T
    <2>3. PICK s \in Path : machine'[s] = machine[r]
      BY <1>1, <1>8, <1>9, <2>1, <2>2, RenameKeeps
    <2> QED BY <2>1, <2>3 DEF Data
  <1> QED BY <1>5, <1>6, <1>10, <1>11 DEF calls

LEMMA SparedInvariance == Spec => []SparedInv
  <1>1. Init => SparedInv
    BY DEF Init, SparedInv
  <1>2. FlowInv /\ MoveInv /\ SparedInv /\ [Next]_vars => SparedInv'
    <2> SUFFICES ASSUME FlowInv, MoveInv, SparedInv, [Next]_vars, kind' = "move" PROVE SparedInv'
      BY DEF SparedInv
    <2>1. kind = "move" /\ args' = args
      BY Constant DEF Next, Propose, StartApply, StartUndo, Call, CallFails, Return, Others, Clear, vars, step
    <2>2. MoveFacts /\ ArgsFit
      BY <2>1, MoveKnown
    <2>3. CASE UNCHANGED vars
      <3>1. /\ phase' = phase /\ todo' = todo /\ before' = before /\ machine' = machine
            /\ args' = args /\ found' = found /\ kind' = kind
        BY <2>3 DEF vars
      <3> QED BY <2>1, <3>1, SparedSame DEF SparedInv
    <2>4. CASE Propose
      <3>1. /\ phase' = "proposed" /\ machine' = machine /\ found' = machine /\ machine = found
            /\ MoveAccepts(args, found)
        BY <2>1, <2>4, MoveKind DEF Propose, FlowInv
      <3>2. Spared(machine', 0)
        BY <2>2, <3>1, SparedAtFirst DEF MoveFacts
      <3> QED BY <2>1, <3>1, <3>2, SparedSame DEF SparedInv
    <2>5. CASE StartApply
      <3>1. /\ phase = "proposed" /\ phase' = "applying" /\ todo' = MoveApply(before)
            /\ before' = before /\ machine' = machine /\ found' = found
        BY <2>1, <2>5, MoveKind DEF StartApply, step
      <3>2. todo' = Left(MoveApply(before'), 0) /\ 0 \in 0..Len(args')
        <4>1. /\ MoveApply(before) \in Seq(MoveCallSet) /\ Len(MoveApply(before)) \in Nat
              /\ Len(args) \in Nat
          BY <2>2, <3>1, MoveCalls DEF ArgsFit, MoveFacts
        <4> QED BY <2>1, <3>1, <4>1, LeftFacts
      <3>3. Spared(machine, 0)
        BY <2>1, <3>1 DEF SparedInv
      <3> QED BY <2>1, <3>1, <3>2, <3>3, SparedSame DEF SparedInv
    <2>6. CASE Call /\ phase = "applying"
      <3>1. /\ phase' = phase /\ before' = before /\ found' = found /\ todo # <<>>
            /\ Can(Head(todo)) /\ machine' = After(Head(todo)) /\ todo' = Tail(todo)
        BY <2>6 DEF Call, step
      <3>2. ASSUME Apart(args)
            PROVE  \E k \in 0..Len(args) :
                      todo' = Left(MoveApply(before), k) /\ Spared(machine', k)
        BY <2>1, <2>6, <3>1, <3>2, SparedCall
      <3> QED BY <2>1, <2>6, <3>1, <3>2, SparedSame DEF SparedInv
    <2>7. CASE Others
      <3>1. /\ phase' = phase /\ before' = before /\ found' = found /\ todo' = todo
            /\ machine' \in FilesOthers(machine)
        BY <2>1, <2>7, MoveKind DEF Others, step
      <3>2. \A k : Spared(machine, k) => Spared(machine', k)
        BY <2>2, <3>1, SparedByOthers DEF MoveFacts
      <3> QED BY <2>1, <3>1, <3>2, SparedSame DEF SparedInv
    <2>8. CASE StartUndo \/ CallFails \/ Return \/ Clear \/ (Call /\ phase # "applying")
      <3>1. phase' \notin {"proposed", "applying"}
        BY <2>1, <2>8 DEF StartUndo, CallFails, Return, Clear, Call, Busy
      <3> QED BY <3>1 DEF SparedInv
    <2> QED BY <2>3, <2>4, <2>5, <2>6, <2>7, <2>8 DEF Next
  <1> QED BY FlowInvariance, MoveInvariance, <1>1, <1>2, PTL DEF Spec

LEMMA MoveKeeps ==
  ASSUME FlowInv, MoveInv, SparedInv, kind = "move", [Next]_vars, Own
  PROVE  /\ phase = "undoing" => Data(machine) \subseteq Data(machine')
         /\ phase = "applying" /\ Apart(args)
               => Data(machine) \cap Data(found) \subseteq Data(machine')
  <1>1. \/ machine' = machine
        \/ todo # <<>> /\ Can(Head(todo)) /\ machine' = After(Head(todo))
    BY DEF Next, Propose, StartApply, StartUndo, Call, CallFails, Return, Others, Clear, Own, vars
  <1>2. CASE machine' = machine
    BY <1>2, DataStays
  <1>3. CASE todo # <<>> /\ Can(Head(todo)) /\ machine' = After(Head(todo))
    BY <1>3, SparedCall, MoveUndoCall
  <1> QED BY <1>1, <1>2, <1>3
----------------------------------------------------------------------------
(* All adapters. *)

LEMMA Promises ==
  ASSUME AdapterInv
  PROVE  AppliedIsDesired /\ UndoneIsRestored /\ UndoIsPossible
  <1>1. kind \in {"service", "task", "package", "container", "policy", "clean", "move"}
    BY ArgsOfKind DEF AdapterInv
  <1>2. CASE kind \in {"service", "task"}
    BY <1>2, UnitApplied, UnitUndone, UnitUndoable DEF AdapterInv
  <1>3. CASE kind = "package"
    BY <1>3, PackagePromises DEF AdapterInv
  <1>4. CASE kind = "container"
    BY <1>4, ContainerPromises DEF AdapterInv
  <1>5. CASE kind = "policy"
    BY <1>5, PolicyPromises DEF AdapterInv
  <1>6. CASE kind = "clean"
    BY <1>6, CleanPromises DEF AdapterInv
  <1>7. CASE kind = "move"
    BY <1>7, MovePromises DEF AdapterInv
  <1> QED BY <1>1, <1>2, <1>3, <1>4, <1>5, <1>6, <1>7

\* The inductive invariant of the seven adapters.
LEMMA AdapterInvariance == Spec => []AdapterInv
  BY FlowInvariance, UnitInvariance, PackageInvariance, ContainerInvariance, PolicyInvariance,
     CleanInvariance, MoveInvariance, PTL DEF AdapterInv

\* Apply of every adapter: a step that was applied has made the machine what it was
\* to be, also when others changed it between Propose and Apply.
THEOREM AppliedStepsAreDesired == Spec => []AppliedIsDesired
  BY AdapterInvariance, Promises, PTL

\* Rollback of every adapter: one that reports success has restored what Propose
\* found, however often it was run and whatever calls failed before.
THEOREM UndoneStepsAreRestored == Spec => []UndoneIsRestored
  BY AdapterInvariance, Promises, PTL

\* Rollback of every adapter, run for the first time on a recoverable step that was
\* applied and that nobody has disturbed since Propose: each of its calls can be made
\* when its turn comes.
THEOREM AppliedStepsCanBeUndone == Spec => []UndoIsPossible
  BY AdapterInvariance, Promises, PTL

\* disk.clean and organize.move: no rollback destroys data, whatever others have put
\* in its way.  An organize.move whose destinations are apart destroys, in Apply, no
\* file that was there at Propose, whatever others do; a file that came to one of its
\* destinations afterwards is not protected.
THEOREM DataIsKept == Spec => KeepsData
  <1>1. FlowInv /\ CleanInv /\ MoveInv /\ SparedInv /\ [Next]_vars =>
           [Own /\ kind \in {"clean", "move"} =>
              /\ phase = "undoing" => Data(machine) \subseteq Data(machine')
              /\ phase = "applying" /\ kind = "move" /\ Apart(args)
                   => Data(machine) \cap Data(found) \subseteq Data(machine')]_vars
    BY CleanKeeps, MoveKeeps
  <1> QED BY FlowInvariance, CleanInvariance, MoveInvariance, SparedInvariance, <1>1, PTL
          DEF Spec, KeepsData
==============================================================================
