--------------------------- MODULE PackageAdapter ---------------------------
(***************************************************************************)
(* The adapter package.set on one package: dnf, its history, and the        *)
(* sidecar file in which Apply leaves the history id that Rollback undoes.  *)
(* dnf is external, modelled from how the adapter reads it: a command that  *)
(* changes something appends an entry to the history, one with nothing to   *)
(* do succeeds without.                                                     *)
(***************************************************************************)
EXTENDS Naturals, Sequences

PackageVerb == [present |-> "install", absent |-> "remove", latest |-> "upgrade"]
PackageArgs == DOMAIN PackageVerb

\* Versions of the package; other is the command line of an unrelated command.
Version == {"none", "old", "new"}
Verbs == {"install", "remove", "upgrade", "undo", "other"}

\* mine is no part of the history: it tells whose entry it is.
HistoryEntry == [cmd : Verbs, was : Version, now : Version, mine : BOOLEAN]

\* installed is what rpm reports, history the dnf history, of which the first
\* cleared entries are gone, sidecar the id in the sidecar file (0: no file).
Package(bound) ==
    [installed : Version, history : UNION {[1..n -> HistoryEntry] : n \in 0..bound},
     cleared : 0..bound, sidecar : 0..bound]

Dnf(verb) == <<[op |-> verb, id |-> 0, mine |-> TRUE]>>
Undo(id) == <<[op |-> "undo", id |-> id, mine |-> TRUE]>>
Capture(verb) == <<[op |-> "capture", verb |-> verb]>>
Quit == Dnf("give up")
----------------------------------------------------------------------------
\* What rpm says is installed.
PackageBefore(p) == p.installed

\* dnf, then the id of the last entry into the sidecar; any of them failing is a
\* failed Apply.
PackageApply(want) == Dnf(PackageVerb[want]) \o Capture(PackageVerb[want])

\* No sidecar: give up.  The entry still there: undo it.  Else an install or an
\* upgrade is undone by a remove; a remove is not undone.
PackageUndo(want, p) ==
    IF p.sidecar = 0 THEN Quit
    ELSE IF p.sidecar > p.cleared THEN Undo(p.sidecar)
    ELSE IF want \in {"present", "latest"} THEN Dnf("remove") ELSE Quit
----------------------------------------------------------------------------
\* The version the package has after a command (external).
VersionAfter(op, v) ==
    CASE op = "install" -> IF v = "none" THEN "new" ELSE v
      [] op = "remove"  -> "none"
      [] op = "upgrade" -> "new"
      [] op = "other"   -> v

\* Mutant: the last entry is taken whatever its command line says.
CanCaptureAny(p, verb) == Len(p.history) > p.cleared

\* readDnfHistoryID: the last entry's command line is that of the step.
CanCapture(p, verb) ==
    Len(p.history) > p.cleared /\ p.history[Len(p.history)].cmd = verb

PackageCan(call, p) ==
    CASE call.op \in {"install", "remove", "other"} -> TRUE
      [] call.op = "upgrade" -> p.installed # "none"
      [] call.op = "undo"    -> call.id > p.cleared /\ p.installed = p.history[call.id].now
      [] call.op = "capture" -> CanCapture(p, call.verb)
      [] call.op = "give up" -> FALSE

Logged(p, cmd, v, mine) ==
    [p EXCEPT !.installed = v,
              !.history = Append(@, [cmd |-> cmd, was |-> p.installed, now |-> v, mine |-> mine])]

PackageAfter(call, p) ==
    CASE call.op = "capture" -> [p EXCEPT !.sidecar = Len(p.history)]
      [] call.op = "undo"    -> Logged(p, "undo", p.history[call.id].was, call.mine)
      [] call.op = "other"   -> Logged(p, "other", p.installed, call.mine)
      [] call.op \in {"install", "remove", "upgrade"} ->
            LET v == VersionAfter(call.op, p.installed)
            IN  IF v = p.installed THEN p ELSE Logged(p, call.op, v, call.mine)

\* Someone else's dnf commands, and a history that is cleared.
PackageOthers(p) ==
    {PackageAfter(c, p) : c \in {c \in {[op |-> o, id |-> 0, mine |-> FALSE] :
                                            o \in {"install", "remove", "upgrade", "other"}} :
                                    PackageCan(c, p)}}

HistoryCleared(p) == [p EXCEPT !.cleared = Len(p.history)]

\* With or without a history of how the package came to be as it is.
Unlogged == {[installed |-> v, history |-> <<>>, cleared |-> 0, sidecar |-> 0] : v \in Version}
PackageStart ==
    Unlogged \cup
    UNION {{PackageAfter([op |-> o, id |-> 0, mine |-> FALSE], p) : o \in {"install", "remove"}} :
               p \in Unlogged}
----------------------------------------------------------------------------
PackageMeets(want, p) ==
    CASE want = "present" -> p.installed # "none"
      [] want = "absent"  -> p.installed = "none"
      [] want = "latest"  -> p.installed = "new"

\* The entry the sidecar names is the one this step made.
SidecarIsMine(p) == p.sidecar > 0 /\ p.history[p.sidecar].mine
============================================================================
