----------------------------- MODULE TxJournal -----------------------------
(***************************************************************************)
(* internal/tx: one JSON file per transaction, rewritten as a whole under  *)
(* flock by processes that each hold their own copy of it.                 *)
(*                                                                         *)
(* A save is several system calls: open, flock(LOCK_EX), re-read and       *)
(* compare with the baseline, truncate, write, sync, unlock.  The model    *)
(* breaks it where another process, an I/O error or a crash can be seen:   *)
(* before the lock, and between truncate and write.  Creation differs: the *)
(* file exists (empty) from open(O_EXCL) on, before the lock is taken.     *)
(***************************************************************************)
EXTENDS TxDoc

CONSTANTS
    Id,          \* transaction ids
    Proc,        \* processes using the library
    NoProc,      \* nobody holds the exclusive lock
    NoId,        \* a process with no transaction in hand
    MaxSteps,    \* bound: steps per transaction
    Faults       \* what may go wrong: a subset of {"io", "crash"}

ASSUME JournalAssumption ==
    /\ NoProc \notin Proc /\ NoId \notin Id
    /\ MaxSteps \in Nat /\ Faults \subseteq {"io", "crash"}

VARIABLES
    disk,        \* [Id -> file content]; NoDoc: there is no file
    holder,      \* [Id -> who holds LOCK_EX on the file]
    pc,          \* [Proc -> idle | ready | creating | saving | truncated]
    txn,         \* [Proc -> the transaction in hand]
    mem,         \* [Proc -> the *Transaction in memory]
    base,        \* [Proc -> diskDoc: the document last read or written]
    prev,        \* [Proc -> what mem is put back to when a save fails]
    committed    \* history: [Id -> the last document completely written]

vars == <<disk, holder, pc, txn, mem, base, prev, committed>>

Init ==
    /\ disk = [id \in Id |-> NoDoc]
    /\ holder = [id \in Id |-> NoProc]
    /\ pc = [p \in Proc |-> "idle"]
    /\ txn = [p \in Proc |-> NoId]
    /\ mem = [p \in Proc |-> NoDoc]
    /\ base = [p \in Proc |-> NoDoc]
    /\ prev = [p \in Proc |-> NoDoc]
    /\ committed = [id \in Id |-> NoDoc]

\* The process no longer has a transaction in hand.
Drop(p) ==
    /\ pc' = [pc EXCEPT ![p] = "idle"]
    /\ txn' = [txn EXCEPT ![p] = NoId]
    /\ mem' = [mem EXCEPT ![p] = NoDoc]
    /\ base' = [base EXCEPT ![p] = NoDoc]
    /\ prev' = [prev EXCEPT ![p] = NoDoc]

Unlock(p) == holder' = [id \in Id |-> IF holder[id] = p THEN NoProc ELSE holder[id]]
----------------------------------------------------------------------------
\* Begin: a fresh id, the file created empty and exclusively.
BeginOpen(p, id) ==
    /\ pc[p] = "idle" /\ disk[id] = NoDoc
    /\ disk' = [disk EXCEPT ![id] = Garbled]
    /\ pc' = [pc EXCEPT ![p] = "creating"]
    /\ txn' = [txn EXCEPT ![p] = id]
    /\ mem' = [mem EXCEPT ![p] = NewDoc]
    /\ UNCHANGED <<holder, base, prev, committed>>

\* Load reads under a shared lock: never while a writer holds LOCK_EX.  A
\* missing or garbled file is an error and leaves nothing in hand.
Load(p, id) ==
    /\ pc[p] = "idle" /\ holder[id] = NoProc /\ Whole(disk[id])
    /\ pc' = [pc EXCEPT ![p] = "ready"]
    /\ txn' = [txn EXCEPT ![p] = id]
    /\ mem' = [mem EXCEPT ![p] = disk[id]]
    /\ base' = [base EXCEPT ![p] = disk[id]]
    /\ prev' = [prev EXCEPT ![p] = disk[id]]
    /\ UNCHANGED <<disk, holder, committed>>

\* A save starts: memory already holds the new document, prev the old one.
StartSave(p, doc) ==
    /\ pc' = [pc EXCEPT ![p] = "saving"]
    /\ mem' = [mem EXCEPT ![p] = doc]
    /\ prev' = [prev EXCEPT ![p] = mem[p]]
    /\ UNCHANGED <<disk, holder, txn, base, committed>>

AppendStep(p, s) ==
    /\ pc[p] = "ready" /\ CanAppend(mem[p])
    /\ Len(mem[p].steps) < MaxSteps
    /\ StartSave(p, Appended(mem[p], s))

Mark(p, to) ==
    /\ pc[p] = "ready" /\ CanMark(mem[p], to)
    /\ StartSave(p, Marked(mem[p], to))

\* cmdApply notes a failed step in memory; MarkFailed will write it.
RecordFailure(p, i) ==
    /\ pc[p] = "ready" /\ mem[p].status = "applying" /\ i \in DOMAIN mem[p].steps
    /\ ~mem[p].steps[i].failed
    /\ mem' = [mem EXCEPT ![p] = WithFailure(mem[p], i)]
    /\ prev' = [prev EXCEPT ![p] = WithFailure(mem[p], i)]
    /\ UNCHANGED <<disk, holder, pc, txn, base, committed>>

\* Mutant: the baseline is not compared.
TruncateUncompared(p) ==
    /\ pc[p] = "saving" /\ holder[txn[p]] = NoProc
    /\ Whole(disk[txn[p]])
    /\ holder' = [holder EXCEPT ![txn[p]] = p]
    /\ disk' = [disk EXCEPT ![txn[p]] = Garbled]
    /\ pc' = [pc EXCEPT ![p] = "truncated"]
    /\ UNCHANGED <<txn, mem, base, prev, committed>>

\* Mutant: the file is compared and truncated without the lock.
TruncateUnlocked(p) ==
    /\ pc[p] = "saving" /\ disk[txn[p]] = base[p]
    /\ disk' = [disk EXCEPT ![txn[p]] = Garbled]
    /\ pc' = [pc EXCEPT ![p] = "truncated"]
    /\ UNCHANGED <<holder, txn, mem, base, prev, committed>>

\* persist, compare-and-write-back: the lock is taken and the file is still,
\* byte for byte, the baseline; truncate it.
Truncate(p) ==
    /\ pc[p] = "saving" /\ holder[txn[p]] = NoProc
    /\ disk[txn[p]] = base[p]
    /\ holder' = [holder EXCEPT ![txn[p]] = p]
    /\ disk' = [disk EXCEPT ![txn[p]] = Garbled]
    /\ pc' = [pc EXCEPT ![p] = "truncated"]
    /\ UNCHANGED <<txn, mem, base, prev, committed>>

\* Mutant: memory keeps the change that was refused.
RefuseForward(p) ==
    /\ pc[p] = "saving" /\ holder[txn[p]] = NoProc
    /\ disk[txn[p]] # base[p]
    /\ pc' = [pc EXCEPT ![p] = "ready"]
    /\ UNCHANGED <<disk, holder, txn, mem, base, prev, committed>>

\* ErrConcurrentModify or ErrJournalCorrupt: nothing written, memory put back.
Refuse(p) ==
    /\ pc[p] = "saving" /\ holder[txn[p]] = NoProc
    /\ disk[txn[p]] # base[p]
    /\ pc' = [pc EXCEPT ![p] = "ready"]
    /\ mem' = [mem EXCEPT ![p] = prev[p]]
    /\ UNCHANGED <<disk, holder, txn, base, prev, committed>>

\* create takes the lock with nothing to compare.
CreateLock(p) ==
    /\ pc[p] = "creating" /\ holder[txn[p]] = NoProc
    /\ holder' = [holder EXCEPT ![txn[p]] = p]
    /\ pc' = [pc EXCEPT ![p] = "truncated"]
    /\ UNCHANGED <<disk, txn, mem, base, prev, committed>>

\* Mutant: the lock outlives the save.
WriteHolding(p) ==
    /\ pc[p] = "truncated"
    /\ disk' = [disk EXCEPT ![txn[p]] = mem[p]]
    /\ committed' = [committed EXCEPT ![txn[p]] = mem[p]]
    /\ base' = [base EXCEPT ![p] = mem[p]]
    /\ prev' = [prev EXCEPT ![p] = mem[p]]
    /\ pc' = [pc EXCEPT ![p] = "ready"]
    /\ UNCHANGED <<holder, txn, mem>>

\* write and sync succeed: memory and baseline are the file.
Write(p) ==
    /\ pc[p] = "truncated"
    /\ disk' = [disk EXCEPT ![txn[p]] = mem[p]]
    /\ committed' = [committed EXCEPT ![txn[p]] = mem[p]]
    /\ base' = [base EXCEPT ![p] = mem[p]]
    /\ prev' = [prev EXCEPT ![p] = mem[p]]
    /\ pc' = [pc EXCEPT ![p] = "ready"]
    /\ Unlock(p)
    /\ UNCHANGED <<txn, mem>>

\* The error return of persist after the truncation: Begin gives up the
\* transaction, Append and mark put memory back, the baseline stays.
AfterError(p) ==
    IF base[p] = NoDoc
    THEN Drop(p)
    ELSE /\ pc' = [pc EXCEPT ![p] = "ready"]
         /\ mem' = [mem EXCEPT ![p] = prev[p]]
         /\ UNCHANGED <<txn, base, prev>>

\* write fails: the file keeps what the truncation left of it.
WriteError(p) ==
    /\ "io" \in Faults /\ pc[p] = "truncated"
    /\ Unlock(p)
    /\ AfterError(p)
    /\ UNCHANGED <<disk, committed>>

\* write succeeds and sync reports an error: the document is in the file all
\* the same.
SyncError(p) ==
    /\ "io" \in Faults /\ pc[p] = "truncated"
    /\ disk' = [disk EXCEPT ![txn[p]] = mem[p]]
    /\ committed' = [committed EXCEPT ![txn[p]] = mem[p]]
    /\ Unlock(p)
    /\ AfterError(p)

\* The command ends and the process with it.
Exit(p) ==
    /\ pc[p] = "ready"
    /\ Drop(p)
    /\ UNCHANGED <<disk, holder, committed>>

\* The process dies in the middle of persist; the kernel drops its locks.
Crash(p) ==
    /\ "crash" \in Faults /\ pc[p] \in {"creating", "saving", "truncated"}
    /\ Drop(p)
    /\ Unlock(p)
    /\ UNCHANGED <<disk, committed>>

Next ==
    \E p \in Proc :
        \/ \E id \in Id : BeginOpen(p, id) \/ Load(p, id)
        \/ \E s \in NewStep : AppendStep(p, s)
        \/ \E to \in Status : Mark(p, to)
        \/ \E i \in 1..MaxSteps : RecordFailure(p, i)
        \/ Truncate(p) \/ Refuse(p) \/ CreateLock(p) \/ Write(p)
        \/ WriteError(p) \/ SyncError(p) \/ Exit(p) \/ Crash(p)

Spec == Init /\ [][Next]_vars

----------------------------------------------------------------------------
\* A process inside a library call is scheduled and flock is granted; what a
\* caller asks for next, I/O errors and crashes are nobody's obligation.
Persist(p) == Truncate(p) \/ Refuse(p) \/ CreateLock(p) \/ Write(p)

FairSpec == Spec /\ \A p \in Proc : WF_vars(Persist(p))
----------------------------------------------------------------------------
\* f holds a document or none for every member of S.
Holds(f, S) == DOMAIN f = S /\ \A x \in S : f[x] = NoDoc \/ DocOK(f[x])

\* Types; the frozen rollback plan of every document in memory or on disk is
\* part of them (tx.go, mark).
TypeOK ==
    /\ DOMAIN disk = Id
    /\ \A id \in Id : disk[id] \in {NoDoc, Garbled} \/ DocOK(disk[id])
    /\ Holds(committed, Id)
    /\ holder \in [Id -> Proc \cup {NoProc}]
    /\ pc \in [Proc -> {"idle", "ready", "creating", "saving", "truncated"}]
    /\ txn \in [Proc -> Id \cup {NoId}]
    /\ Holds(mem, Proc) /\ Holds(base, Proc) /\ Holds(prev, Proc)

\* What Append and mark may make of a document.
StepOf(old, new) ==
    \/ \E s \in NewStep : CanAppend(old) /\ new = Appended(old, s)
    \/ \E to \in Status : CanMark(old, to) /\ new = Marked(old, to)

\* Equal but for the step outcomes an applying process has noted.
SameButOutcomes(old, new) ==
    \/ new = old
    \/ /\ old.status = "applying" /\ new.status = "applying" /\ new.plan = old.plan
       /\ DOMAIN new.steps = DOMAIN old.steps
       /\ \A i \in DOMAIN old.steps :
             new.steps[i] = [old.steps[i] EXCEPT !.failed = new.steps[i].failed]

\* The lock protects the hole in the file: whoever has truncated a journal
\* holds its lock, and while nobody does, the document in the file is the last
\* one completely written.
LockProtectsFile ==
    /\ \A p \in Proc : pc[p] = "truncated" <=> \E id \in Id : holder[id] = p
    /\ \A id \in Id :
          /\ holder[id] # NoProc => txn[holder[id]] = id
          /\ Whole(disk[id]) => /\ holder[id] = NoProc
                                /\ disk[id] = committed[id]

\* No lost update: the write that is under way was derived from the very
\* document it replaces, whatever other processes did since it was loaded.
NoLostUpdate ==
    \A p \in Proc : pc[p] = "truncated" =>
        IF base[p] = NoDoc
        THEN committed[txn[p]] = NoDoc /\ mem[p] = NewDoc
        ELSE /\ committed[txn[p]] = base[p]
             /\ SameButOutcomes(base[p], prev[p])
             /\ StepOf(prev[p], mem[p])

\* mark and Append: whether they succeed or fail, memory and the document the
\* process last saw on disk do not fork.
MemoryFollowsDisk ==
    \A p \in Proc : pc[p] = "ready" =>
        Whole(base[p]) /\ SameButOutcomes(base[p], mem[p])

\* What a call under way may count on before it has the lock: a creator is
\* alone with its transaction and nothing was ever written for it, and a save
\* carries one change of the document it was loaded from.
Creating(p) == pc[p] \in {"creating", "truncated"} /\ base[p] = NoDoc

Alone(p) ==
    Creating(p) => /\ mem[p] = NewDoc
                   /\ disk[txn[p]] = Garbled /\ committed[txn[p]] = NoDoc
                   /\ \A q \in Proc \ {p} : txn[q] # txn[p]

OneChange(p) ==
    /\ pc[p] \in {"ready", "saving"} => base[p] # NoDoc
    /\ pc[p] = "saving" => /\ SameButOutcomes(base[p], prev[p])
                           /\ StepOf(prev[p], mem[p])

InFlight ==
    /\ \A p \in Proc : /\ pc[p] = "idle" <=> txn[p] = NoId
                       /\ pc[p] \in {"idle", "creating"} => base[p] = NoDoc
                       /\ Alone(p) /\ OneChange(p)
    /\ \A id \in Id : disk[id] = NoDoc =>
          committed[id] = NoDoc /\ \A p \in Proc : txn[p] # id

\* Once begun, a journal can be read whenever it is not locked (package
\* comment: the file is always a complete document).
ReadableOnceBegun ==
    \A id \in Id : committed[id] # NoDoc /\ holder[id] = NoProc => Whole(disk[id])

\* Not met by the code, no run checks it (see README.md): a reader under the
\* shared lock never meets half a document (persist).
NeverHalfVisible ==
    \A id \in Id : holder[id] = NoProc => disk[id] # Garbled

\* Not met by the code, no run checks it: Begin leaves nothing half made behind
\* when it fails.
NoHalfMadeJournal ==
    \A id \in Id : disk[id] = Garbled /\ committed[id] = NoDoc =>
        \E p \in Proc : txn[p] = id

\* What the history of complete documents implements.
Lifecycle == INSTANCE TxLifecycle WITH journal <- committed
Implements == Lifecycle!Spec

\* A document a process wants to write is written or refused: no call into the
\* library waits for ever.
CallsReturn == \A p \in Proc : (pc[p] \in {"creating", "saving", "truncated"})
                                 ~> (pc[p] \in {"idle", "ready"})
============================================================================
