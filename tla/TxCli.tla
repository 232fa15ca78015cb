------------------------------- MODULE TxCli -------------------------------
(***************************************************************************)
(* cmd/daedalus-tx: every subcommand is a process of its own that loads a  *)
(* transaction, works on its copy and saves it.  A save is one step here,  *)
(* refused unless the journal is still the document the process loaded:    *)
(* that is what TxJournal is shown to provide.  What runs between two      *)
(* saves, the adapters' effects and the audit stamps, is not protected by  *)
(* anything and interleaves freely.                                        *)
(***************************************************************************)
EXTENDS TxDoc

CONSTANTS
    Id,          \* transaction ids
    Proc,        \* processes
    NoId,        \* a process without a transaction
    Silent,      \* the resources whose adapter reports nothing to restore
    Faults,      \* what may go wrong: a subset of FaultKinds
    Command,     \* the subcommands in use
    MaxSteps,    \* bound: steps per transaction
    MaxLog       \* bound: stamped audit entries

FaultKinds == {"step",    \* an adapter fails to apply a step, possibly half done
               "undo",    \* an adapter fails to roll a step back
               "audit",   \* a stamp is not written (best effort, never reported)
               "io",      \* a save fails, before or after the file is truncated
               "crash",   \* a process dies, in the middle of a save included
               "clock"}   \* the wall clock is set back

ASSUME CliAssumption ==
    /\ NoId \notin Id /\ MaxSteps \in Nat /\ MaxLog \in Nat
    /\ Silent \subseteq Resource
    /\ Faults \subseteq FaultKinds
    /\ Command \subseteq {"propose", "apply", "rollback", "resolve"}

VARIABLES
    journal,     \* [Id -> document]
    order,       \* the transactions in the order they were begun (created_at)
    world,       \* [Resource -> Value]: what adapters read and write
    log,         \* the stamped audit entries [tx, step, prev]
    pc,          \* [Proc -> idle | loaded | saving | step | stamp | end]
    cmd,         \* [Proc -> the subcommand it runs]
    txn,         \* [Proc -> its transaction]
    mem,         \* [Proc -> its copy of the document]
    base,        \* [Proc -> the document it loaded or saved last]
    todo,        \* [Proc -> the steps it executes, forward or back]
    pos,         \* [Proc -> the next of them]
    tail,        \* [Proc -> the entry its next stamp follows, and its step]
    done         \* history: [Id -> the forward steps executed, in order]

docs == <<journal, order>>
proc == <<cmd, txn, mem, base, todo, pos, tail>>
vars == <<docs, world, log, pc, proc, done>>

NoTail == [link |-> 0, step |-> 0]

Init ==
    /\ journal = [id \in Id |-> NoDoc]
    /\ order = <<>>
    /\ world \in [Resource -> Value]
    /\ log = <<>>
    /\ pc = [p \in Proc |-> "idle"]
    /\ cmd = [p \in Proc |-> "none"]
    /\ txn = [p \in Proc |-> NoId]
    /\ mem = [p \in Proc |-> NoDoc]
    /\ base = [p \in Proc |-> NoDoc]
    /\ todo = [p \in Proc |-> <<>>]
    /\ pos = [p \in Proc |-> 1]
    /\ tail = [p \in Proc |-> NoTail]
    /\ done = [id \in Id |-> <<>>]

\* The process has ended.
Gone(p) ==
    /\ pc' = [pc EXCEPT ![p] = "idle"]
    /\ cmd' = [cmd EXCEPT ![p] = "none"]
    /\ txn' = [txn EXCEPT ![p] = NoId]
    /\ mem' = [mem EXCEPT ![p] = NoDoc]
    /\ base' = [base EXCEPT ![p] = NoDoc]
    /\ todo' = [todo EXCEPT ![p] = <<>>]
    /\ pos' = [pos EXCEPT ![p] = 1]
    /\ tail' = [tail EXCEPT ![p] = NoTail]

\* The journal is still what the process loaded, and takes the new document.
Unchanged(p) == journal[txn[p]] = base[p]
Save(p, doc) == Unchanged(p) /\ journal' = [journal EXCEPT ![txn[p]] = doc]

\* The moments at which a process saves.
ApplyStarts(p) == pc[p] = "loaded" /\ cmd[p] = "apply" /\ CanMark(mem[p], "applying")

ApplyEnds(p) ==
    /\ cmd[p] = "apply"
    /\ \/ pc[p] = "end"
       \/ pc[p] = "step" /\ pos[p] > Len(todo[p])

\* Mutant: the loop of cmdRollback leaves the last step out.
RollbackEndsEarly(p) == cmd[p] = "rollback" /\ pc[p] = "step" /\ pos[p] >= Len(todo[p])

RollbackEnds(p) == cmd[p] = "rollback" /\ pc[p] = "step" /\ pos[p] > Len(todo[p])

Resolves(p) == pc[p] = "loaded" /\ cmd[p] = "resolve" /\ mem[p].status = "applying"

AtSave(p) ==
    \/ pc[p] = "saving" \/ ApplyStarts(p) \/ ApplyEnds(p) \/ Resolves(p)
    \/ RollbackEnds(p) /\ mem[p].status = "applied"

\* MarkFailed after a failed step, MarkApplied after the last one.
Verdict(p) == IF pc[p] = "end" THEN "failed" ELSE "applied"

\* The document a save is to write.
Intent(p) ==
    CASE pc[p] = "saving" -> mem[p]
      [] ApplyStarts(p)   -> Marked(mem[p], "applying")
      [] ApplyEnds(p)     -> Marked(mem[p], Verdict(p))
      [] RollbackEnds(p)  -> Marked(mem[p], "rolled_back")
      [] Resolves(p)      -> Marked(mem[p], "failed")
----------------------------------------------------------------------------
(* The audit chain of a transaction, stamp.go. *)

Entry(id, step, prev) == [tx |-> id, step |-> step, prev |-> prev]

\* Mutant: the newest entry is taken, whichever transaction it is of.
ScanAny(id) ==
    IF log = <<>> THEN NoTail ELSE [link |-> Len(log), step |-> log[Len(log)].step]

\* scanTxTail: the entry with the largest step; read newest first with >=, so
\* the oldest of several.  No entry: the next stamp opens the chain.
ScanTail(id) ==
    LET mine == {i \in DOMAIN log : log[i].tx = id}
        top  == {i \in mine : \A j \in mine : log[j].step <= log[i].step}
    IN  IF mine = {} THEN NoTail
        ELSE LET i == CHOOSE i \in top : \A j \in top : i <= j
             IN  [link |-> i, step |-> log[i].step]

\* A stamp follows the tail; one that is lost still uses up its step number.
Stamp(p) ==
    LET step == tail[p].step + 1
    IN  \/ /\ log' = Append(log, Entry(txn[p], step, tail[p].link))
           /\ tail' = [tail EXCEPT ![p] = [link |-> Len(log) + 1, step |-> step]]
        \/ /\ "audit" \in Faults
           /\ log' = log
           /\ tail' = [tail EXCEPT ![p].step = step]
----------------------------------------------------------------------------
\* cmdBegin: a new journal, dated by the wall clock, and the opening stamp.
Begin(p, id) ==
    /\ pc[p] = "idle" /\ journal[id] = NoDoc
    /\ journal' = [journal EXCEPT ![id] = NewDoc]
    /\ \E k \in 1..(Len(order) + 1) :
          /\ "clock" \in Faults \/ k = Len(order) + 1
          /\ order' = InsertAt(order, k, id)
    /\ \/ log' = Append(log, Entry(id, 0, 0))
       \/ Faults \cap {"audit", "crash"} # {} /\ log' = log
    /\ UNCHANGED <<world, pc, proc, done>>

\* Mutant: mustLoad takes whatever the file holds, or an empty document.
OpenAny(p, c, id) ==
    /\ pc[p] = "idle"
    /\ Len(log) + MaxSteps <= MaxLog
    /\ pc' = [pc EXCEPT ![p] = "loaded"]
    /\ cmd' = [cmd EXCEPT ![p] = c]
    /\ txn' = [txn EXCEPT ![p] = id]
    /\ mem' = [mem EXCEPT ![p] = journal[id]]
    /\ base' = [base EXCEPT ![p] = journal[id]]
    /\ UNCHANGED <<docs, world, log, todo, pos, tail, done>>

\* mustLoad, the start of every other subcommand.
Open(p, c, id) ==
    /\ pc[p] = "idle" /\ Whole(journal[id])
    /\ Len(log) + MaxSteps <= MaxLog
    /\ pc' = [pc EXCEPT ![p] = "loaded"]
    /\ cmd' = [cmd EXCEPT ![p] = c]
    /\ txn' = [txn EXCEPT ![p] = id]
    /\ mem' = [mem EXCEPT ![p] = journal[id]]
    /\ base' = [base EXCEPT ![p] = journal[id]]
    /\ UNCHANGED <<docs, world, log, todo, pos, tail, done>>

\* cmdPropose: the adapter reads the present state as before_state (or reports
\* nothing to restore), and the step is added to the copy in memory.
Propose(p, r, v) ==
    /\ pc[p] = "loaded" /\ cmd[p] = "propose"
    /\ CanAppend(mem[p]) /\ Len(mem[p].steps) < MaxSteps
    /\ LET before == IF r \in Silent THEN NoSnapshot ELSE world[r]
       IN  mem' = [mem EXCEPT ![p] = Appended(mem[p],
                     [target |-> r, before |-> before, after |-> v, failed |-> FALSE])]
    /\ pc' = [pc EXCEPT ![p] = "saving"]
    /\ UNCHANGED <<docs, world, log, cmd, txn, base, todo, pos, tail, done>>

SaveProposal(p) ==
    /\ pc[p] = "saving"
    /\ Save(p, Intent(p))
    /\ Gone(p)
    /\ UNCHANGED <<order, world, log, done>>

\* What cmdApply holds once it is in its loop.
Started(p) ==
    /\ mem' = [mem EXCEPT ![p] = Intent(p)]
    /\ base' = [base EXCEPT ![p] = Intent(p)]
    /\ todo' = [todo EXCEPT ![p] = mem[p].steps]
    /\ tail' = [tail EXCEPT ![p] = ScanTail(txn[p])]
    /\ pc' = [pc EXCEPT ![p] = "step"]
    /\ UNCHANGED <<order, world, log, cmd, txn, pos, done>>

\* Mutant: apply starts from its copy whatever the journal says.
StartApplyBlindly(p) ==
    /\ ApplyStarts(p)
    /\ journal' = [journal EXCEPT ![txn[p]] = Intent(p)]
    /\ Started(p)

\* cmdApply up to MarkApplying: from here on no other apply gets in.
StartApply(p) ==
    /\ ApplyStarts(p)
    /\ Save(p, Intent(p))
    /\ Started(p)

\* The loop body of cmdApply, before the stamp: a failing adapter may already
\* have written; its failure is noted in memory only.
ApplyStep(p) ==
    /\ pc[p] = "step" /\ cmd[p] = "apply" /\ pos[p] <= Len(todo[p])
    /\ LET s == todo[p][pos[p]]
       IN  \E ok \in BOOLEAN, touched \in BOOLEAN :
             /\ ok => touched
             /\ ok \/ "step" \in Faults
             /\ world' = IF touched THEN [world EXCEPT ![s.target] = s.after] ELSE world
             /\ done' = [done EXCEPT ![txn[p]] = Append(@, [step |-> pos[p], ok |-> ok])]
             /\ mem' = IF ok THEN mem ELSE [mem EXCEPT ![p] = WithFailure(@, pos[p])]
    /\ pc' = [pc EXCEPT ![p] = "stamp"]
    /\ UNCHANGED <<docs, log, cmd, txn, base, todo, pos, tail>>

\* The stamp; after a failed step the loop of cmdApply is left.
StampStep(p) ==
    /\ pc[p] = "stamp"
    /\ Stamp(p)
    /\ pos' = [pos EXCEPT ![p] = pos[p] + 1]
    /\ pc' = [pc EXCEPT ![p] =
                IF cmd[p] = "apply" /\ mem[p].steps[pos[p]].failed THEN "end" ELSE "step"]
    /\ UNCHANGED <<docs, world, cmd, txn, mem, base, todo, done>>

\* Mutant: a failed apply exits and leaves its transaction as it is.
FinishApplySilently(p) ==
    /\ ApplyEnds(p)
    /\ IF pc[p] = "end" THEN UNCHANGED journal ELSE Save(p, Intent(p))
    /\ Gone(p)
    /\ UNCHANGED <<order, world, log, done>>

\* cmdApply after its loop, or after the step that failed.
FinishApply(p) ==
    /\ ApplyEnds(p)
    /\ Save(p, Intent(p))
    /\ Gone(p)
    /\ UNCHANGED <<order, world, log, done>>

\* Mutant: a failed transaction is undone up to and including the failed step.
PlanOfTooMuch(doc) ==
    IF doc.status = "applied" THEN doc.plan
    ELSE LET i == FirstFailed(doc.steps)
         IN  IF i > 0 THEN BuildRollbackPlan(SubSeq(doc.steps, 1, i)) ELSE <<>>

\* cmdRollback's choice of steps.
Plan(doc) == RollbackSteps(doc)

\* cmdRollback up to its loop.  Nothing is marked: a second rollback gets in.
StartRollback(p) ==
    /\ pc[p] = "loaded" /\ cmd[p] = "rollback"
    /\ mem[p].status \in {"applied", "failed"}
    /\ todo' = [todo EXCEPT ![p] = Plan(mem[p])]
    /\ tail' = [tail EXCEPT ![p] = ScanTail(txn[p])]
    /\ pc' = [pc EXCEPT ![p] = "step"]
    /\ UNCHANGED <<docs, world, log, cmd, txn, mem, base, pos, done>>

\* The loop body of cmdRollback, before the stamp: whether the adapter could
\* restore the snapshot is audited and otherwise ignored.
UndoStep(p) ==
    /\ pc[p] = "step" /\ cmd[p] = "rollback" /\ pos[p] <= Len(todo[p])
    /\ LET s == todo[p][pos[p]]
       IN  \/ s.before \in Value /\ world' = [world EXCEPT ![s.target] = s.before]
           \/ "undo" \in Faults /\ world' = world
    /\ pc' = [pc EXCEPT ![p] = "stamp"]
    /\ UNCHANGED <<docs, log, proc, done>>

\* MarkRolledBack; a failed transaction stays failed.
FinishRollback(p) ==
    /\ RollbackEnds(p)
    /\ IF mem[p].status = "applied"
       THEN Save(p, Intent(p))
       ELSE UNCHANGED journal
    /\ Gone(p)
    /\ UNCHANGED <<order, world, log, done>>

\* cmdResolve: an applying transaction is declared failed.
Resolve(p) ==
    /\ Resolves(p)
    /\ Save(p, Intent(p))
    /\ Gone(p)
    /\ UNCHANGED <<order, world, log, done>>
----------------------------------------------------------------------------
\* The subcommand does not apply to the status it found.
OutOfPlace(p) ==
    /\ pc[p] = "loaded"
    /\ \/ cmd[p] = "propose"  /\ ~CanAppend(mem[p])
       \/ cmd[p] = "apply"    /\ ~CanMark(mem[p], "applying")
       \/ cmd[p] = "rollback" /\ mem[p].status \notin {"applied", "failed"}
       \/ cmd[p] = "resolve"  /\ mem[p].status # "applying"

\* Exit 1: out of place, or the save was refused.  What was done to the system
\* before the save stays done.
Fail(p) ==
    /\ \/ OutOfPlace(p)
       \/ AtSave(p) /\ ~Unchanged(p)
    /\ Gone(p)
    /\ UNCHANGED <<docs, world, log, done>>

\* Exit 1: the save failed, with the old document, the new one, or neither in
\* the file.
SaveFails(p) ==
    /\ "io" \in Faults /\ AtSave(p) /\ Unchanged(p)
    /\ \E doc \in {base[p], Intent(p), Garbled} : Save(p, doc)
    /\ Gone(p)
    /\ UNCHANGED <<order, world, log, done>>

\* A proposal the adapter rejects.
Reject(p) ==
    /\ pc[p] = "loaded" /\ cmd[p] = "propose"
    /\ Gone(p)
    /\ UNCHANGED <<docs, world, log, done>>

\* The process dies; in the middle of a save the journal is lost with it.
Crash(p) ==
    /\ "crash" \in Faults /\ pc[p] # "idle"
    /\ \/ UNCHANGED journal
       \/ AtSave(p) /\ Save(p, Garbled)
    /\ Gone(p)
    /\ UNCHANGED <<order, world, log, done>>

\* What a process does once it has started, while its saves go well.
Work(p) ==
    \/ \E r \in Resource, v \in Value : Propose(p, r, v)
    \/ SaveProposal(p) \/ StartApply(p) \/ ApplyStep(p) \/ StampStep(p) \/ FinishApply(p)
    \/ StartRollback(p) \/ UndoStep(p) \/ FinishRollback(p) \/ Resolve(p)
    \/ Fail(p) \/ Reject(p)

Run(p) == Work(p) \/ SaveFails(p)

Next ==
    \E p \in Proc :
        \/ \E id \in Id : Begin(p, id)
        \/ \E id \in Id, c \in Command : Open(p, c, id)
        \/ Run(p) \/ Crash(p)

Spec == Init /\ [][Next]_vars

----------------------------------------------------------------------------
\* Every variable has its type; a process works only on documents the library
\* builds, and a stamp points back.
TypeOK ==
    /\ \A id \in Id : journal[id] \in {NoDoc, Garbled} \/ DocOK(journal[id])
    /\ Range(order) = {id \in Id : journal[id] # NoDoc}
    /\ world \in [Resource -> Value]
    /\ \A i \in DOMAIN log : log[i].tx \in Id /\ log[i].prev \in 0..(i - 1)
    /\ pc \in [Proc -> {"idle", "loaded", "saving", "step", "stamp", "end"}]
    /\ \A p \in Proc : /\ pc[p] = "idle" <=> txn[p] = NoId
                       /\ pc[p] # "idle" => DocOK(mem[p]) /\ DocOK(base[p])
                       /\ pc[p] = "stamp" => pos[p] \in 1..Len(todo[p])

Applying(p) == cmd[p] = "apply" /\ pc[p] \in {"step", "stamp", "end"}

\* However many applies are started, only one of them runs the steps of a
\* transaction (cmdApply, MarkApplying).
SoleApplier ==
    \A p, q \in Proc : Applying(p) /\ Applying(q) /\ txn[p] = txn[q] => p = q

\* Steps are executed once each and in order, none after a failed one, and none
\* while the transaction is still proposed (cmdApply).
StepsOnceInOrder ==
    \A id \in Id :
        /\ \A k \in DOMAIN done[id] :
              done[id][k].step = k /\ (k < Len(done[id]) => done[id][k].ok)
        /\ journal[id].status \in {"none", "proposed"} => done[id] = <<>>

Succeeded(id) == Cardinality({k \in DOMAIN done[id] : done[id][k].ok})

\* The status tells what was done: applied, that every step was executed and
\* succeeded (MarkApplied); failed with a failed step, that all before it were
\* executed and succeeded and none after it was executed (MarkFailed).
VerdictTells ==
    \A id \in Id :
        LET steps == journal[id].steps
            first == FirstFailed(steps)
        IN  /\ journal[id].status \in {"applied", "rolled_back"} =>
                  Len(done[id]) = Len(steps) /\ Succeeded(id) = Len(steps)
            /\ journal[id].status = "failed" /\ first > 0 =>
                  Len(done[id]) = first /\ Succeeded(id) = first - 1

\* A rollback undoes nothing, or, in inverse order, steps that were executed and
\* succeeded (cmdRollback, BuildRollbackPlan).
UndoesOnlySuccesses ==
    \A p \in Proc : cmd[p] = "rollback" /\ pc[p] \in {"step", "stamp"} =>
        \/ todo[p] = <<>>
        \/ \E k \in 0..Succeeded(txn[p]) :
              todo[p] = BuildRollbackPlan(SubSeq(mem[p].steps, 1, k))

\* Each stamp follows the last one of its transaction that was written; where
\* others in between were lost, the step numbers jump and the chain goes on
\* (cmdApply and cmdRollback, which keep prev then; the comment of stampTx, that
\* the chain breaks there and starts anew, is not what they do).
ChainLinear ==
    \A i, j \in DOMAIN log :
        /\ i < j /\ log[i].tx = log[j].tx
        /\ \A k \in (i + 1)..(j - 1) : log[k].tx # log[i].tx
        => log[j].prev = i /\ log[i].step < log[j].step

\* Not met by the code, no run checks it (see README.md): firstFailed, no failed
\* step means that no step was executed.
NoFailureNothingRan ==
    \A id \in Id : journal[id].status = "failed" /\ FirstFailed(journal[id].steps) = 0 =>
        done[id] = <<>>

\* Once a transaction is rolled back, what its steps had a snapshot of is back.
RolledBackRestores ==
    \A id \in Id : journal[id].status = "rolled_back" =>
        \A i \in DOMAIN journal[id].plan :
            world[journal[id].plan[i].target] = journal[id].plan[i].before
============================================================================
