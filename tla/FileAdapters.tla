---------------------------- MODULE FileAdapters ----------------------------
(***************************************************************************)
(* The adapters disk.clean and organize.move on a small file tree.  A path  *)
(* is a sequence of names; a file's data is the path it had at first, so    *)
(* that every file can be followed.  Modes, sizes and digests are left out, *)
(* and so are the checks on paths.                                          *)
(***************************************************************************)
EXTENDS Naturals, Sequences, SequencesExt

CONSTANT Path   \* paths (names are positive numbers)

\* What r, at or below q, is called below p.
Graft(r, q, p) == p \o SubSeq(r, Len(q) + 1, Len(r))

\* The directories above a path are paths, and what can stand below one can stand
\* below another.
ASSUME PathAssumption ==
    /\ Path \subseteq Seq(Nat \ {0})
    /\ \A p \in Path : Len(p) > 0 /\ (Len(p) > 1 => Front(p) \in Path)
    /\ \A p, q, r \in Path : Len(p) = Len(q) /\ IsPrefix(q, r) => Graft(r, q, p) \in Path

NoData == <<>>
Nothing == [type |-> "none", data |-> NoData]
Directory == [type |-> "dir", data |-> NoData]
File(d) == [type |-> "file", data |-> d]

Under(q, p) == IsPrefix(p, q)
Above(p) == {q \in Path : IsStrictPrefix(q, p)}
InPlace(fs, p) == \A q \in Above(p) : fs[q].type = "dir"

\* Directories, at top level only, with files in them.
Shapes ==
    {sh \in [Path -> {"none", "dir", "file"}] :
        \A p \in Path : /\ sh[p] = "dir" => Len(p) = 1
                        /\ sh[p] # "none" => \A q \in Above(p) : sh[q] = "dir"}

FilesStart ==
    {[p \in Path |-> [type |-> sh[p], data |-> IF sh[p] = "file" THEN p ELSE NoData]] :
        sh \in Shapes}

Data(fs) == {fs[p].data : p \in {p \in Path : fs[p].type = "file"}} \ {NoData}
----------------------------------------------------------------------------
(* os.MkdirAll, os.RemoveAll, os.Rename *)

CanMkdirAll(fs, p) == \A q \in Above(p) \cup {p} : fs[q].type # "file"
MkdirAll(fs, p) ==
    [q \in Path |-> IF q \in Above(p) \cup {p} THEN Directory ELSE fs[q]]

CanMakeParents(fs, p) == \A q \in Above(p) : fs[q].type # "file"
MakeParents(fs, p) == IF Len(p) = 1 THEN fs ELSE MkdirAll(fs, Front(p))

RemoveAll(fs, p) == [q \in Path |-> IF Under(q, p) THEN Nothing ELSE fs[q]]

\* A rename replaces a file by a file, an empty directory by a directory.
CanRename(fs, p, q) ==
    /\ fs[p].type # "none" /\ ~Under(q, p)
    /\ \/ fs[q].type = "none"
       \/ fs[p].type = "file" /\ fs[q].type = "file"
       \/ /\ fs[p].type = "dir" /\ fs[q].type = "dir"
          /\ \A r \in Path : Under(r, q) /\ r # q => fs[r] = Nothing

\* Where the entry that r has after the rename was before.
Rename(fs, p, q) ==
    [r \in Path |->
        IF Under(r, q) THEN fs[Graft(r, q, p)]
        ELSE IF Under(r, p) THEN Nothing ELSE fs[r]]
----------------------------------------------------------------------------
(* disk.clean: args are paths. *)

CleanAccepts(paths, fs) == \A i \in DOMAIN paths : fs[paths[i]] # Nothing

\* Whether each was a directory; what was in it is not kept.
CleanBefore(paths, fs) ==
    [i \in DOMAIN paths |-> [path |-> paths[i], dir |-> fs[paths[i]].type = "dir"]]

CleanApply(before) == [i \in DOMAIN before |-> [op |-> "remove", path |-> before[i].path]]

\* In the order of the snapshot.
CleanUndo(before) ==
    [i \in DOMAIN before |->
        [op |-> IF before[i].dir THEN "mkdir" ELSE "touch", path |-> before[i].path]]

\* Removing what is not there succeeds, but not below a file.
CleanCan(call, fs) ==
    CASE call.op = "remove" -> CanMakeParents(fs, call.path)
      [] call.op = "mkdir"  -> CanMkdirAll(fs, call.path)
      [] call.op = "touch"  -> InPlace(fs, call.path) /\ fs[call.path].type # "dir"

\* Mutant: the file is opened with O_TRUNC.
CleanAfterTruncating(call, fs) ==
    CASE call.op = "remove" -> RemoveAll(fs, call.path)
      [] call.op = "mkdir"  -> MkdirAll(fs, call.path)
      [] call.op = "touch"  -> [fs EXCEPT ![call.path] = File(NoData)]

\* A file that is there already keeps its data.
CleanAfter(call, fs) ==
    CASE call.op = "remove" -> RemoveAll(fs, call.path)
      [] call.op = "mkdir"  -> MkdirAll(fs, call.path)
      [] call.op = "touch"  -> [fs EXCEPT ![call.path] = IF @ = Nothing THEN File(NoData) ELSE @]

CleanMeets(paths, fs) == \A i \in DOMAIN paths : fs[paths[i]] = Nothing

\* Everything named is there again, a directory or a file as it was.
CleanRestored(paths, found, fs) ==
    \A i \in DOMAIN paths : fs[paths[i]].type = found[paths[i]].type
----------------------------------------------------------------------------
(* organize.move: args are pairs of paths. *)

\* Each source is there, no destination is.
MoveAccepts(moves, fs) ==
    \A i \in DOMAIN moves :
        fs[moves[i].from] # Nothing /\ fs[moves[i].to] = Nothing

MoveBefore(moves) == moves

\* Mutant: the moves are undone first to last.
MoveUndoForwards(before) ==
    [i \in DOMAIN before |-> [op |-> "back", from |-> before[i].to, to |-> before[i].from]]

MoveApply(before) ==
    [i \in DOMAIN before |-> [op |-> "move", from |-> before[i].from, to |-> before[i].to]]

\* Last to first.
MoveUndo(before) ==
    Reverse([i \in DOMAIN before |->
        [op |-> "back", from |-> before[i].to, to |-> before[i].from]])

\* The parents are made first.  Going back, nothing may be in the way; whether
\* something is at a destination was asked by Propose only.  Parents made by a
\* call that then fails are left out.
MoveCan(call, fs) ==
    /\ call.op = "back" => fs[call.to] = Nothing
    /\ CanMakeParents(fs, call.to)
    /\ CanRename(MakeParents(fs, call.to), call.from, call.to)

MoveAfter(call, fs) == Rename(MakeParents(fs, call.to), call.from, call.to)

\* No destination is that of another move, or below it, or below a source.
Apart(moves) ==
    \A i, j \in DOMAIN moves :
        i # j => ~Under(moves[j].to, moves[i].to) /\ ~Under(moves[j].to, moves[i].from)

\* No file is left at or below its source.
MoveMeets(moves, found, fs) ==
    \A i \in DOMAIN moves, p \in Path :
        Under(p, moves[i].from) /\ found[p].type = "file" => fs[p] # found[p]

\* Every file is where it was; directories made on the way stay.
MoveRestored(found, fs) ==
    \A p \in Path : found[p].type = "file" \/ fs[p].type = "file" => fs[p] = found[p]
----------------------------------------------------------------------------
\* Others create a file where there is none, or remove something.
FilesOthers(fs) ==
    {[fs EXCEPT ![p] = File(<<0>>)] : p \in {p \in Path : fs[p] = Nothing /\ InPlace(fs, p)}}
    \cup {RemoveAll(fs, p) : p \in {p \in Path : fs[p] # Nothing}}
============================================================================
