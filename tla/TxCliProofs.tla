---------------------------- MODULE TxCliProofs ----------------------------
(***************************************************************************)
(* What the processes of daedalus-tx do to one another's transactions, for *)
(* any number of processes, transactions and steps and with every fault.   *)
(* The inductive invariant says of each process how its copy, the journal  *)
(* and the steps executed so far agree, and of each document that bears a  *)
(* verdict that nobody is at work on its transaction any more.             *)
(***************************************************************************)
EXTENDS TxCli, TxDocProofs, FiniteSetTheorems

USE SnapshotAssumption, CliAssumption

Subcommands == {"propose", "apply", "rollback", "resolve"}

Shape ==
    /\ DOMAIN journal = Id
    /\ DOMAIN done = Id
    /\ \A id \in Id : done[id] \in Seq([step : Nat, ok : BOOLEAN])
    /\ \A id \in Id : journal[id] \in {NoDoc, Garbled} \/ DocOK(journal[id])
    /\ pc \in [Proc -> {"idle", "loaded", "saving", "step", "stamp", "end"}]
    /\ DOMAIN cmd = Proc /\ DOMAIN txn = Proc
    /\ DOMAIN mem = Proc /\ DOMAIN base = Proc
    /\ DOMAIN todo = Proc /\ pos \in [Proc -> Nat \ {0}]
    /\ world \in [Resource -> Value]

\* The transaction is no longer open to proposals, and never will be again.
Closed(id) == journal[id].status \notin {"none", "proposed"}

NoFailure(doc) == \A k \in DOMAIN doc.steps : ~doc.steps[k].failed

NoApplier(id) == \A q \in Proc : Applying(q) => txn[q] # id

AllOk(id, n) == \A k \in 1..n : done[id][k].ok

\* A document with a verdict tells what was done.
Tells(doc, id) ==
    /\ doc.status \in {"applied", "rolled_back"} =>
          Len(done[id]) = Len(doc.steps) /\ AllOk(id, Len(doc.steps))
    /\ doc.status = "failed" /\ FirstFailed(doc.steps) > 0 =>
          /\ Len(done[id]) = FirstFailed(doc.steps)
          /\ AllOk(id, FirstFailed(doc.steps) - 1)
          /\ ~done[id][FirstFailed(doc.steps)].ok

\* It bears one: no failed step in a failed document is none.
Over(doc) ==
    \/ doc.status \in {"applied", "rolled_back"}
    \/ doc.status = "failed" /\ FirstFailed(doc.steps) > 0

\* No step of a document without a verdict is marked failed.
Untried(doc) == doc.status \in {"proposed", "applying"} => NoFailure(doc)

\* The copy of an applying process records the steps it has executed.
Progress(p) ==
    LET d == done[txn[p]]
    IN  /\ base[p].status = "applying" /\ mem[p].status = "applying"
        /\ todo[p] \in Seq(Step) /\ Len(todo[p]) = Len(mem[p].steps)
        /\ Len(d) = (IF pc[p] = "stamp" THEN pos[p] ELSE pos[p] - 1)
        /\ Len(d) <= Len(mem[p].steps)
        /\ \A k \in DOMAIN mem[p].steps :
              mem[p].steps[k].failed <=> k \in DOMAIN d /\ ~d[k].ok
        /\ pc[p] = "step" => AllOk(txn[p], Len(d))
        /\ pc[p] = "end" => Len(d) > 0 /\ ~d[Len(d)].ok

\* A process at work: its command, its copies, and where it is.
AtWork(p) ==
    /\ txn[p] \in Id /\ journal[txn[p]] # NoDoc /\ cmd[p] \in Subcommands
    /\ DocOK(mem[p]) /\ DocOK(base[p])
    /\ base[p].status # "proposed" => Closed(txn[p])
    /\ Untried(base[p]) /\ Tells(base[p], txn[p])
    /\ Over(base[p]) => NoApplier(txn[p])
    /\ pc[p] = "loaded" => mem[p] = base[p] /\ pos[p] = 1
    /\ cmd[p] = "rollback" => mem[p] = base[p]
    /\ pc[p] = "saving" =>
          /\ cmd[p] = "propose" /\ base[p].status = "proposed"
          /\ mem[p].status = "proposed" /\ NoFailure(mem[p])
    /\ pc[p] \in {"step", "stamp"} => cmd[p] \in {"apply", "rollback"}
    /\ pc[p] = "end" => cmd[p] = "apply"
    /\ cmd[p] = "rollback" /\ pc[p] \in {"step", "stamp"} =>
          base[p].status \in {"applied", "failed"} /\ todo[p] = RollbackSteps(base[p])
    /\ Applying(p) => Progress(p)

\* A transaction: its document agrees with the steps executed.
Journaled(id) ==
    /\ Untried(journal[id]) /\ Tells(journal[id], id)
    /\ Over(journal[id]) => NoApplier(id)
    /\ ~Closed(id) => done[id] = <<>>
    /\ \A k \in DOMAIN done[id] :
          done[id][k].step = k /\ (k < Len(done[id]) => done[id][k].ok)

CliInv ==
    /\ Shape /\ SoleApplier
    /\ \A p \in Proc : IF pc[p] = "idle" THEN txn[p] = NoId /\ pos[p] = 1 ELSE AtWork(p)
    /\ \A id \in Id : Journaled(id)
----------------------------------------------------------------------------
(* Documents. *)

LEMMA BareDocs ==
  /\ NoDoc.status = "none" /\ NoDoc.steps = <<>>
  /\ Garbled.status = "garbled" /\ Garbled.steps = <<>>
  /\ NewDoc.status = "proposed" /\ NewDoc.steps = <<>>
  BY DEF NoDoc, Garbled, NewDoc

\* The status alone tells whether there is a document.
LEMMA StatusOfDoc ==
  ASSUME NEW doc, doc \in {NoDoc, Garbled} \/ DocOK(doc)
  PROVE  /\ doc.status \in Status <=> DocOK(doc)
         /\ doc.status = "none" <=> doc = NoDoc
  BY BareDocs, DocType, DocOKWhole DEF Status, Whole, DocOK, NoDoc, Garbled

\* What an applying process may make of its document.
LEMMA FailedStepOf ==
  ASSUME NEW doc, DocOK(doc), NEW i \in DOMAIN doc.steps
  PROVE  LET steps == WithFailure(doc, i).steps
         IN  /\ steps \in Seq(Step) /\ DOMAIN steps = DOMAIN doc.steps
             /\ Len(steps) = Len(doc.steps)
             /\ \A k \in DOMAIN steps : steps[k].failed <=> (k = i \/ doc.steps[k].failed)
  <1> DEFINE step == [doc.steps[i] EXCEPT !.failed = TRUE]
             steps == [doc.steps EXCEPT ![i] = step]
  <1>1. doc.steps \in Seq(Step)
    BY DocType
  <1>2. step \in Step /\ step.failed = TRUE
    <2>1. doc.steps[i] \in Step
      BY <1>1
    <2> QED BY <2>1 DEF Step
  <1>3. steps \in Seq(Step) /\ DOMAIN steps = DOMAIN doc.steps /\ Len(steps) = Len(doc.steps)
    BY <1>1, <1>2
  <1>4. WithFailure(doc, i) = [doc EXCEPT !.steps = steps]
    BY DocType DEF WithFailure
  <1>5. \A k \in DOMAIN steps : steps[k].failed <=> (k = i \/ doc.steps[k].failed)
    <2>1. ASSUME NEW k \in DOMAIN steps PROVE steps[k].failed <=> (k = i \/ doc.steps[k].failed)
      <3>1. CASE k = i
        BY <1>1, <1>2, <3>1
      <3>2. CASE k # i
        BY <1>1, <3>2
      <3> QED BY <3>1, <3>2
    <2> QED BY <2>1
  <1> HIDE DEF steps
  <1>6. WithFailure(doc, i).steps = steps
    BY <1>3, <1>4, DocType
  <1> QED BY <1>3, <1>5, <1>6
----------------------------------------------------------------------------
LEMMA InitInv == Init => CliInv
  <1> SUFFICES ASSUME Init PROVE CliInv
    OBVIOUS
  <1>1. Shape
    BY DEF Init, Shape
  <1>2. SoleApplier
    BY DEF Init, SoleApplier, Applying
  <1>3. ASSUME NEW id \in Id PROVE Journaled(id)
    BY BareDocs DEF Init, Journaled, Untried, Tells, Over, Closed
  <1> QED BY <1>1, <1>2, <1>3 DEF Init, CliInv

\* Nothing of q has changed.
Still(q) ==
    /\ pc'[q] = pc[q] /\ cmd'[q] = cmd[q] /\ txn'[q] = txn[q] /\ mem'[q] = mem[q]
    /\ base'[q] = base[q] /\ todo'[q] = todo[q] /\ pos'[q] = pos[q]

\* What a step of p on transaction id has to see to: p itself and id.  The
\* others go on, whatever transaction they are at work on.
LEMMA StepInv ==
  ASSUME CliInv, NEW p \in Proc, NEW id \in Id, Shape',
         \A q \in Proc \ {p} : Still(q),
         \A i \in Id \ {id} : journal'[i] = journal[i] /\ done'[i] = done[i],
         Closed(id) => Closed(id)',
         journal[id] # NoDoc => journal'[id] # NoDoc,
         done'[id] = done[id] \/ (Applying(p) /\ txn[p] = id),
         Applying(p)' => txn'[p] = id /\ ((Applying(p) /\ txn[p] = id) \/ ~Closed(id)),
         IF pc'[p] = "idle" THEN txn'[p] = NoId /\ pos'[p] = 1 ELSE AtWork(p)',
         Journaled(id)'
  PROVE  CliInv'
  <1>1. ASSUME NEW q \in Proc \ {p} PROVE Applying(q)' <=> Applying(q)
    BY <1>1 DEF Still, Applying
  <1>2. ASSUME NEW q \in Proc, Applying(q)
        PROVE  AtWork(q) /\ Progress(q) /\ Closed(txn[q]) /\ txn[q] \in Id
    BY <1>2 DEF CliInv, AtWork, Progress, Applying
  <1>3. SoleApplier'
    <2>1. ASSUME NEW q \in Proc \ {p}, Applying(q), Applying(p)', txn'[p] = txn[q] PROVE FALSE
      BY <1>2, <2>1 DEF CliInv, SoleApplier
    <2>2. ASSUME NEW q \in Proc, NEW r \in Proc, Applying(q)', Applying(r)', txn'[q] = txn'[r]
          PROVE  q = r
      <3>1. CASE q = p
        BY <1>1, <2>1, <2>2, <3>1 DEF Still
      <3>2. CASE r = p
        BY <1>1, <2>1, <2>2, <3>2 DEF Still
      <3>3. CASE q # p /\ r # p
        BY <1>1, <2>2, <3>3 DEF CliInv, SoleApplier, Still
      <3> QED BY <3>1, <3>2, <3>3
    <2> QED BY <2>2 DEF SoleApplier
  <1>4. ASSUME NEW i \in Id \ {id} PROVE Journaled(i)'
    <2>1. NoApplier(i) => NoApplier(i)'
      BY <1>1 DEF NoApplier, Still
    <2>2. Journaled(i)
      BY DEF CliInv
    <2> QED BY <2>1, <2>2 DEF Journaled, Untried, NoFailure, Tells, AllOk, Over, Closed
  <1>5. ASSUME NEW q \in Proc \ {p}, pc'[q] # "idle" PROVE AtWork(q)'
    <2>1. Still(q) /\ AtWork(q) /\ txn[q] \in Id
      BY <1>5 DEF Still, CliInv, AtWork
    <2>2. Closed(txn[q]) => Closed(txn[q])'
      BY <2>1 DEF Closed, Still
    <2>3. journal'[txn'[q]] # NoDoc
      BY <2>1 DEF AtWork, Still
    <2>4. Over(base[q]) => NoApplier(txn[q])'
      <3>1. ASSUME Over(base[q]), NEW r \in Proc, Applying(r)', txn'[r] = txn[q] PROVE FALSE
        <4>1. NoApplier(txn[q]) /\ Closed(txn[q])
          BY <2>1, <3>1 DEF AtWork, Over
        <4>2. CASE r = p
          BY <2>1, <3>1, <4>1, <4>2 DEF NoApplier
        <4>3. CASE r # p
          BY <1>1, <2>1, <3>1, <4>1, <4>3 DEF NoApplier, Still
        <4> QED BY <4>2, <4>3
      <3> QED BY <2>1, <3>1 DEF NoApplier, Still
    <2>5. CASE done'[txn[q]] = done[txn[q]]
      <3>1. Tells(base[q], txn[q])'
        BY <2>1, <2>5 DEF AtWork, Tells, AllOk, Still
      <3>2. Applying(q)' => Progress(q)'
        BY <1>1, <2>1, <2>5 DEF AtWork, Progress, AllOk, Still
      <3> QED BY <2>1, <2>2, <2>3, <2>4, <3>1, <3>2
              DEF AtWork, Still, Untried, NoFailure, Over, NoApplier, Closed
    <2>6. CASE Applying(p) /\ txn[p] = txn[q]
      <3>1. ~Over(base[q])
        BY <2>1, <2>6 DEF AtWork, NoApplier
      <3>2. ~Applying(q)'
        BY <1>1, <2>6 DEF CliInv, SoleApplier
      <3>3. Tells(base[q], txn[q])'
        BY <2>1, <3>1 DEF Tells, Over, Still
      <3> QED BY <2>1, <2>2, <2>3, <2>4, <3>2, <3>3
              DEF AtWork, Still, Untried, NoFailure, Over, NoApplier, Closed
    <2> QED BY <2>1, <2>5, <2>6
  <1>6. ASSUME NEW q \in Proc \ {p}, pc'[q] = "idle" PROVE txn'[q] = NoId /\ pos'[q] = 1
    BY <1>6 DEF CliInv, Still
  <1> QED BY <1>3, <1>4, <1>5, <1>6 DEF CliInv
----------------------------------------------------------------------------
(* How a process ends: with or without a last save. *)

\* A process that goes leaves the others as they are.
LEMMA GoneFacts ==
  ASSUME CliInv, NEW p \in Proc, Gone(p)
  PROVE  /\ \A q \in Proc \ {p} : Still(q)
         /\ pc'[p] = "idle" /\ txn'[p] = NoId /\ pos'[p] = 1 /\ ~Applying(p)'
         /\ pc' \in [Proc -> {"idle", "loaded", "saving", "step", "stamp", "end"}]
         /\ DOMAIN cmd' = Proc /\ DOMAIN txn' = Proc
         /\ DOMAIN mem' = Proc /\ DOMAIN base' = Proc
         /\ DOMAIN todo' = Proc /\ pos' \in [Proc -> Nat \ {0}]
  BY DEF CliInv, Shape, Gone, Still, Applying

LEMMA GoneInv ==
  ASSUME CliInv, NEW p \in Proc, pc[p] # "idle", Gone(p), UNCHANGED <<journal, done, world>>
  PROVE  CliInv'
  <1>1. AtWork(p) /\ txn[p] \in Id
    BY DEF CliInv, AtWork
  <1>2. Shape'
    BY GoneFacts DEF CliInv, Shape
  <1>3. Journaled(txn[p])
    BY <1>1 DEF CliInv
  <1>4. NoApplier(txn[p]) => \A q \in Proc : Applying(q)' => txn'[q] # txn[p]
    BY GoneFacts DEF NoApplier, Still, Applying
  <1>5. ASSUME NEW id \in Id, id = txn[p] PROVE Journaled(id)'
    BY <1>3, <1>4, <1>5
       DEF Journaled, Untried, NoFailure, Tells, AllOk, Over, Closed, NoApplier
  <1> DEFINE id == txn[p]
  <1>6. PICK i \in Id : i = txn[p]
    BY <1>1
  <1> QED BY <1>1, <1>2, <1>5, <1>6, GoneFacts, StepInv DEF Closed

\* What a process saves is as good a document as the one it replaces.
LEMMA IntentFacts ==
  ASSUME CliInv, NEW p \in Proc, AtSave(p), pc[p] # "idle"
  PROVE  /\ DocOK(Intent(p)) /\ Untried(Intent(p)) /\ Tells(Intent(p), txn[p])
         /\ Intent(p).status = "proposed" <=> base[p].status = "proposed" /\ pc[p] = "saving"
         /\ Over(Intent(p)) => \A q \in Proc \ {p} : Applying(q) => txn[q] # txn[p]
  <1>1. AtWork(p) /\ txn[p] \in Id /\ DocOK(mem[p]) /\ DocOK(base[p])
    BY DEF CliInv, AtWork
  <1>2. mem[p].steps \in Seq(Step) /\ mem[p].status \in Status
    BY <1>1, DocType
  <1>3. CASE pc[p] = "saving"
    <2>1. ~ApplyStarts(p) /\ ~ApplyEnds(p) /\ ~RollbackEnds(p) /\ ~Resolves(p)
      BY <1>3 DEF ApplyStarts, ApplyEnds, RollbackEnds, Resolves
    <2>2. Intent(p) = mem[p]
      BY <1>3, <2>1 DEF Intent
    <2> QED BY <1>1, <1>3, <2>2 DEF AtWork, Untried, Tells, Over
  <1>4. ASSUME NEW to \in Status, Intent(p) = Marked(mem[p], to), CanMark(mem[p], to)
        PROVE  /\ DocOK(Intent(p)) /\ Intent(p).status = to
               /\ Intent(p).steps = mem[p].steps
    BY <1>1, <1>4, MarkedOK, MarkedFields
  <1>5. CASE ApplyStarts(p)
    <2>0. pc[p] # "saving" /\ ~ApplyEnds(p) /\ ~RollbackEnds(p) /\ ~Resolves(p)
      BY <1>5 DEF ApplyStarts, ApplyEnds, RollbackEnds, Resolves
    <2>1. Intent(p) = Marked(mem[p], "applying") /\ mem[p] = base[p]
          /\ CanMark(mem[p], "applying")
      BY <1>1, <1>5, <2>0 DEF Intent, ApplyStarts, AtWork
    <2>3. mem[p].status = "proposed"
      BY <1>2, <2>1 DEF CanMark, LegalTransitions, Status
    <2>2. /\ DocOK(Intent(p)) /\ Intent(p).status = "applying"
          /\ Intent(p).steps = mem[p].steps
      BY <1>4, <2>1 DEF Status
    <2> QED BY <1>1, <1>5, <2>1, <2>2, <2>3
            DEF AtWork, Untried, NoFailure, Tells, Over, ApplyStarts
  <1>6. CASE ApplyEnds(p)
    <2>0. pc[p] # "saving" /\ ~ApplyStarts(p) /\ ~RollbackEnds(p) /\ ~Resolves(p)
      BY <1>6 DEF ApplyStarts, ApplyEnds, RollbackEnds, Resolves
    <2>1. Intent(p) = Marked(mem[p], Verdict(p)) /\ Applying(p) /\ Progress(p)
          /\ Verdict(p) \in {"applied", "failed"} /\ pc[p] \in {"step", "end"}
      BY <1>1, <1>6, <2>0 DEF Intent, ApplyEnds, Applying, AtWork, Verdict
    <2>2. /\ DocOK(Intent(p)) /\ Intent(p).status = Verdict(p)
          /\ Intent(p).steps = mem[p].steps
      BY <1>4, <2>1 DEF Status, Progress, CanMark, LegalTransitions
    <2>3. done[txn[p]] \in Seq([step : Nat, ok : BOOLEAN]) /\ pos[p] \in Nat \ {0}
      BY <1>1 DEF CliInv, Shape
    <2>4. CASE pc[p] = "step"
      <3>1. Len(done[txn[p]]) = Len(mem[p].steps) /\ AllOk(txn[p], Len(mem[p].steps))
        BY <1>2, <1>6, <2>1, <2>3, <2>4 DEF ApplyEnds, Progress
      <3> QED BY <1>1, <2>1, <2>2, <2>4, <3>1
              DEF Verdict, Untried, Tells, CliInv, SoleApplier
    <2>5. CASE pc[p] = "end"
      <3> DEFINE n == Len(done[txn[p]])
      <3>1. n \in 1..Len(mem[p].steps) /\ ~done[txn[p]][n].ok
        BY <1>2, <2>1, <2>3, <2>5 DEF Progress
      <3>2. \A k \in DOMAIN done[txn[p]] : k < n => done[txn[p]][k].ok
        BY <1>1 DEF CliInv, Journaled
      <3>3. AllOk(txn[p], n - 1)
        BY <2>3, <3>1, <3>2 DEF AllOk
      <3>4. \A k \in DOMAIN mem[p].steps :
               mem[p].steps[k].failed <=> k \in DOMAIN done[txn[p]] /\ ~done[txn[p]][k].ok
        BY <2>1 DEF Progress
      <3>5. \A k \in DOMAIN mem[p].steps : mem[p].steps[k].failed <=> k = n
        <4> DEFINE d == done[txn[p]]
                   s == mem[p].steps
        <4>1. /\ DOMAIN d = 1..n /\ n \in Nat /\ n \in DOMAIN d /\ ~d[n].ok
              /\ \A k \in DOMAIN d : k < n => d[k].ok
              /\ \A k \in DOMAIN s : s[k].failed <=> k \in DOMAIN d /\ ~d[k].ok
          BY <2>3, <3>1, <3>2, <3>4
        <4> HIDE DEF d, s, n
        <4>2. \A k \in DOMAIN d : ~d[k].ok => k = n
          <5>1. \A k \in 1..n : ~(k < n) => k = n
            BY <4>1
          <5> QED BY <4>1, <5>1, Zenon
        <4>3. \A k \in DOMAIN s : s[k].failed <=> k = n
          BY <4>1, <4>2, Zenon
        <4> QED BY <4>3 DEF s
      <3>6. FirstFailed(mem[p].steps) = n
        BY <1>2, <3>1, <3>5, FirstFailedOnly
      <3> QED BY <1>1, <2>1, <2>2, <2>5, <3>1, <3>3, <3>6
              DEF Verdict, Untried, Tells, CliInv, SoleApplier
    <2> QED BY <2>1, <2>4, <2>5
  <1>7. CASE RollbackEnds(p) /\ mem[p].status = "applied"
    <2>0. pc[p] # "saving" /\ ~ApplyStarts(p) /\ ~ApplyEnds(p) /\ ~Resolves(p)
      BY <1>7 DEF ApplyStarts, ApplyEnds, RollbackEnds, Resolves
    <2>1. Intent(p) = Marked(mem[p], "rolled_back") /\ mem[p] = base[p]
      BY <1>1, <1>7, <2>0 DEF Intent, RollbackEnds, AtWork
    <2>2. /\ DocOK(Intent(p)) /\ Intent(p).status = "rolled_back"
          /\ Intent(p).steps = mem[p].steps
      BY <1>4, <1>7, <2>1 DEF Status, CanMark, LegalTransitions
    <2> QED BY <1>1, <1>7, <2>1, <2>2
            DEF AtWork, Untried, Tells, Over, NoApplier, RollbackEnds
  <1>8. CASE Resolves(p)
    <2>0. pc[p] # "saving" /\ ~ApplyStarts(p) /\ ~ApplyEnds(p) /\ ~RollbackEnds(p)
      BY <1>8 DEF ApplyStarts, ApplyEnds, RollbackEnds, Resolves
    <2>1. Intent(p) = Marked(mem[p], "failed") /\ mem[p] = base[p]
          /\ mem[p].status = "applying"
      BY <1>1, <1>8, <2>0 DEF Intent, Resolves, AtWork
    <2>2. /\ DocOK(Intent(p)) /\ Intent(p).status = "failed"
          /\ Intent(p).steps = mem[p].steps
      BY <1>4, <2>1 DEF Status, CanMark, LegalTransitions
    <2>3. FirstFailed(mem[p].steps) = 0
      BY <1>1, <1>2, <2>1, FirstFailedNone DEF AtWork, Untried, NoFailure
    <2> QED BY <1>8, <2>1, <2>2, <2>3 DEF Untried, Tells, Over, Resolves
  <1> QED BY <1>3, <1>5, <1>6, <1>7, <1>8 DEF AtSave

LEMMA AtSaveFacts ==
  ASSUME CliInv, NEW p \in Proc, AtSave(p)
  PROVE  pc[p] # "idle" /\ AtWork(p) /\ txn[p] \in Id
  <1>1. pc[p] # "idle"
    BY DEF AtSave, ApplyStarts, ApplyEnds, Resolves, RollbackEnds
  <1> QED BY <1>1 DEF CliInv, AtWork

LEMMA SavedInv ==
  ASSUME CliInv, NEW p \in Proc, AtSave(p), Gone(p), UNCHANGED <<done, world>>,
         NEW doc \in {base[p], Intent(p), Garbled}, Save(p, doc)
  PROVE  CliInv'
  <1>1. PICK id \in Id : id = txn[p]
    BY AtSaveFacts
  <1>2. AtWork(p) /\ journal[id] = base[p] /\ journal' = [journal EXCEPT ![id] = doc]
        /\ journal'[id] = doc
    BY <1>1, AtSaveFacts DEF Save, Unchanged, CliInv, Shape
  <1>3. DocOK(base[p]) /\ DocOK(Intent(p))
    BY <1>2, AtSaveFacts, IntentFacts DEF AtWork
  <1>4. Shape'
    BY <1>2, <1>3, GoneFacts DEF CliInv, Shape
  <1>5. Closed(id) => Closed(id)'
    <2>1. base[p].status \in Status /\ Intent(p).status \in Status
          /\ Garbled.status = "garbled"
      BY <1>3, DocType, BareDocs
    <2>2. Intent(p).status = "proposed" => base[p].status = "proposed"
      BY AtSaveFacts, IntentFacts
    <2>3. doc.status \notin {"none", "proposed"} \/ base[p].status = "proposed"
      BY <2>1, <2>2 DEF Status
    <2> QED BY <1>2, <2>3 DEF Closed
  <1>6. journal'[id] # NoDoc
    BY <1>2, <1>3, DocOKWhole, NotWhole
  <1>7. /\ Untried(doc) /\ Tells(doc, id)
        /\ Over(doc) => \A q \in Proc \ {p} : Applying(q) => txn[q] # id
    <2>1. CASE doc = base[p]
      BY <1>1, <1>2, <2>1 DEF AtWork, NoApplier
    <2>2. CASE doc = Intent(p)
      BY <1>1, <2>2, AtSaveFacts, IntentFacts
    <2>3. CASE doc = Garbled
      BY <2>3, BareDocs DEF Untried, Tells, Over
    <2> QED BY <2>1, <2>2, <2>3
  <1>8. Over(doc) => NoApplier(id)'
    <2>1. \A q \in Proc : Applying(q)' => q # p /\ Applying(q) /\ txn'[q] = txn[q]
      BY GoneFacts DEF Still, Applying
    <2> QED BY <1>7, <2>1 DEF NoApplier
  <1>9. ~Closed(id)' => done[id] = <<>>
    BY <1>5 DEF CliInv, Journaled
  <1>10. Journaled(id)'
    BY <1>1, <1>2, <1>7, <1>8, <1>9
       DEF CliInv, Journaled, Untried, NoFailure, Tells, AllOk, Over
  <1> QED BY <1>1, <1>2, <1>4, <1>5, <1>6, <1>10, GoneFacts, StepInv DEF CliInv, Shape
----------------------------------------------------------------------------
(* The steps of the subcommands. *)

LEMMA BeginInv ==
  ASSUME CliInv, NEW p \in Proc, NEW id \in Id, Begin(p, id)
  PROVE  CliInv'
  <1>1. /\ journal[id] = NoDoc /\ journal' = [journal EXCEPT ![id] = NewDoc]
        /\ journal'[id] = NewDoc
        /\ pc[p] = "idle" /\ UNCHANGED <<pc, cmd, txn, mem, base, todo, pos, done, world>>
    BY DEF Begin, proc, CliInv, Shape
  <1>2. Shape'
    BY <1>1, NewDocOK DEF CliInv, Shape
  <1>3. ~Closed(id) /\ done[id] = <<>>
    BY <1>1, BareDocs DEF CliInv, Journaled, Closed
  <1>4. Journaled(id)'
    BY <1>1, <1>3, BareDocs DEF Journaled, Untried, NoFailure, Tells, Over
  <1>5. txn'[p] = NoId /\ pos'[p] = 1 /\ ~Applying(p)' /\ \A q \in Proc \ {p} : Still(q)
    BY <1>1 DEF CliInv, Applying, Still
  <1> QED BY <1>1, <1>2, <1>3, <1>4, <1>5, StepInv

LEMMA OpenInv ==
  ASSUME CliInv, NEW p \in Proc, NEW id \in Id, NEW c \in Command, Open(p, c, id)
  PROVE  CliInv'
  <1>1. /\ pc[p] = "idle" /\ Whole(journal[id]) /\ UNCHANGED <<journal, todo, pos, done>>
        /\ pc'[p] = "loaded" /\ cmd'[p] = c /\ txn'[p] = id
        /\ mem'[p] = journal[id] /\ base'[p] = journal[id]
        /\ \A q \in Proc \ {p} : Still(q)
    BY DEF Open, docs, Still, CliInv, Shape
  <1>2. Shape'
    BY <1>1 DEF Open, CliInv, Shape
  <1>3. DocOK(journal[id]) /\ journal[id] # NoDoc
    BY <1>1, NotWhole DEF CliInv, Shape
  <1>4. Journaled(id)
    BY DEF CliInv
  <1>5. ~Applying(p)'
    BY <1>1 DEF Applying
  <1>6. NoApplier(id) => NoApplier(id)'
    BY <1>1, <1>5 DEF NoApplier, Still, Applying
  <1>7. Journaled(id)'
    BY <1>1, <1>4, <1>6 DEF Journaled, Untried, NoFailure, Tells, AllOk, Over, Closed
  <1>8. pos[p] = 1
    BY <1>1 DEF CliInv
  <1>9. base'[p].status # "proposed" => Closed(id)'
    BY <1>1, <1>3, DocType DEF Closed, Status
  <1>10. AtWork(p)'
    BY <1>1, <1>3, <1>5, <1>7, <1>8, <1>9
       DEF AtWork, Journaled, Subcommands, Untried, NoFailure, Tells, AllOk, Over, NoApplier
  <1> QED BY <1>1, <1>2, <1>3, <1>5, <1>7, <1>10, StepInv DEF Closed

LEMMA Busy ==
  ASSUME CliInv, NEW p \in Proc, pc[p] # "idle"
  PROVE  /\ AtWork(p) /\ txn[p] \in Id /\ DocOK(mem[p]) /\ DocOK(base[p])
         /\ mem[p].steps \in Seq(Step) /\ base[p].steps \in Seq(Step)
         /\ done[txn[p]] \in Seq([step : Nat, ok : BOOLEAN]) /\ pos[p] \in Nat \ {0}
         /\ Journaled(txn[p])
  BY DocType DEF CliInv, AtWork, Shape

\* A step of p that leaves journal and steps executed as they are, and makes no
\* process apply that did not before.
LEMMA QuietInv ==
  ASSUME CliInv, NEW p \in Proc, pc[p] # "idle", Shape', \A q \in Proc \ {p} : Still(q),
         UNCHANGED <<journal, done>>, txn'[p] = txn[p], pc'[p] # "idle",
         Applying(p)' => Applying(p), AtWork(p)'
  PROVE  CliInv'
  <1>1. PICK id \in Id : id = txn[p]
    BY Busy
  <1>2. NoApplier(id) => NoApplier(id)'
    <2>1. \A q \in Proc : Applying(q)' => Applying(q) /\ txn'[q] = txn[q]
      BY DEF Still, Applying
    <2> QED BY <2>1 DEF NoApplier
  <1>3. Journaled(id)'
    BY <1>1, <1>2, Busy DEF Journaled, Untried, NoFailure, Tells, AllOk, Over, Closed
  <1> QED BY <1>1, <1>3, StepInv DEF Closed

LEMMA ProposeInv ==
  ASSUME CliInv, NEW p \in Proc, NEW r \in Resource, NEW v \in Value, Propose(p, r, v)
  PROVE  CliInv'
  <1> DEFINE before == IF r \in Silent THEN NoSnapshot ELSE world[r]
             step == [target |-> r, before |-> before, after |-> v, failed |-> FALSE]
  <1>1. /\ pc[p] = "loaded" /\ cmd[p] = "propose" /\ CanAppend(mem[p])
        /\ mem' = [mem EXCEPT ![p] = Appended(mem[p], step)]
        /\ pc' = [pc EXCEPT ![p] = "saving"]
        /\ UNCHANGED <<journal, done, cmd, txn, base, todo, pos, world>>
    BY DEF Propose, docs
  <1>2. step \in NewStep
    BY DEF NewStep, Step, CliInv, Shape
  <1> HIDE DEF step
  <1>3. AtWork(p) /\ mem[p] = base[p] /\ DocOK(mem[p]) /\ mem[p].steps \in Seq(Step)
        /\ mem[p].status = "proposed" /\ NoFailure(mem[p])
    BY <1>1, Busy DEF AtWork, CanAppend, Untried
  <1> DEFINE doc == Appended(mem[p], step)
  <1>4. DocOK(doc) /\ doc.status = "proposed" /\ doc.steps = Append(mem[p].steps, step)
    BY <1>1, <1>2, <1>3, AppendedOK, AppendedFields
  <1>5. NoFailure(doc)
    BY <1>2, <1>3, <1>4 DEF NoFailure, NewStep
  <1> HIDE DEF doc
  <1>6. mem'[p] = doc /\ pc'[p] = "saving" /\ \A q \in Proc \ {p} : Still(q)
    BY <1>1 DEF doc, CliInv, Shape, Still
  <1>7. Shape'
    BY <1>1 DEF CliInv, Shape
  <1>8. AtWork(p)'
    BY <1>1, <1>3, <1>4, <1>5, <1>6
       DEF AtWork, Closed, Untried, NoFailure, Tells, AllOk, Over, NoApplier, Applying
  <1> QED BY <1>1, <1>6, <1>7, <1>8, QuietInv DEF Applying

LEMMA StartApplyInv ==
  ASSUME CliInv, NEW p \in Proc, StartApply(p)
  PROVE  CliInv'
  <1> DEFINE doc == Intent(p)
  <1>1. /\ pc[p] = "loaded" /\ cmd[p] = "apply" /\ CanMark(mem[p], "applying")
        /\ AtSave(p) /\ pc[p] # "idle" /\ ApplyStarts(p)
        /\ ~ApplyEnds(p) /\ ~RollbackEnds(p) /\ ~Resolves(p)
    BY DEF StartApply, ApplyStarts, AtSave, ApplyEnds, RollbackEnds, Resolves
  <1>2. PICK id \in Id : id = txn[p]
    BY <1>1, Busy
  <1>3. /\ AtWork(p) /\ mem[p] = base[p] /\ pos[p] = 1 /\ mem[p].steps \in Seq(Step)
        /\ DocOK(mem[p]) /\ mem[p].status \in Status /\ Journaled(id)
    BY <1>1, <1>2, Busy, DocType DEF AtWork
  <1>4. mem[p].status = "proposed" /\ NoFailure(mem[p])
    BY <1>1, <1>3 DEF CanMark, LegalTransitions, Status, AtWork, Untried
  <1>5. doc = Marked(mem[p], "applying")
    BY <1>1 DEF Intent
  <1>6. DocOK(doc) /\ doc.status = "applying" /\ doc.steps = mem[p].steps
    BY <1>1, <1>3, <1>5, MarkedOK, MarkedFields DEF Status
  <1>7. NoFailure(doc)
    BY <1>4, <1>6 DEF NoFailure
  <1> HIDE DEF doc
  <1>8. /\ journal[id] = base[p] /\ journal' = [journal EXCEPT ![id] = doc]
        /\ mem' = [mem EXCEPT ![p] = doc] /\ base' = [base EXCEPT ![p] = doc]
        /\ todo' = [todo EXCEPT ![p] = mem[p].steps]
        /\ pc' = [pc EXCEPT ![p] = "step"]
        /\ UNCHANGED <<world, cmd, txn, pos, done>>
    BY <1>2 DEF StartApply, Save, Unchanged, Started, doc
  <1>9. /\ mem'[p] = doc /\ base'[p] = doc /\ pc'[p] = "step" /\ journal'[id] = doc
        /\ todo'[p] = doc.steps /\ \A q \in Proc \ {p} : Still(q)
    BY <1>6, <1>8 DEF CliInv, Shape, Still
  <1>10. Shape'
    BY <1>6, <1>8 DEF CliInv, Shape
  <1>11. ~Closed(id) /\ done[id] = <<>>
    BY <1>3, <1>4, <1>8 DEF Closed, Journaled
  <1>12. Closed(id)' /\ journal'[id] # NoDoc
    BY <1>6, <1>9, BareDocs DEF Closed
  <1>13. Journaled(id)'
    BY <1>6, <1>7, <1>8, <1>9, <1>11, <1>12
       DEF Journaled, Untried, NoFailure, Tells, Over
  <1>14. Progress(p)'
    BY <1>2, <1>3, <1>6, <1>7, <1>8, <1>9, <1>11 DEF Progress, NoFailure, AllOk
  <1>15. AtWork(p)'
    BY <1>1, <1>2, <1>3, <1>6, <1>7, <1>8, <1>9, <1>12, <1>14
       DEF AtWork, Untried, NoFailure, Tells, Over, Subcommands
  <1> QED BY <1>2, <1>8, <1>9, <1>10, <1>11, <1>12, <1>13, <1>15, StepInv DEF CliInv, Shape

\* The loop body of cmdApply: done grows by the step at pos, and the copy notes
\* its failure.
LEMMA ApplyStepInv ==
  ASSUME CliInv, NEW p \in Proc, ApplyStep(p)
  PROVE  CliInv'
  <1>1. /\ pc[p] = "step" /\ cmd[p] = "apply" /\ pos[p] <= Len(todo[p])
        /\ pc[p] # "idle" /\ Applying(p)
    BY DEF ApplyStep, Applying
  <1>2. PICK id \in Id : id = txn[p]
    BY <1>1, Busy
  <1>3. /\ AtWork(p) /\ Progress(p) /\ Journaled(id) /\ DocOK(mem[p])
        /\ mem[p].steps \in Seq(Step)
        /\ done[id] \in Seq([step : Nat, ok : BOOLEAN]) /\ pos[p] \in Nat \ {0}
    BY <1>1, <1>2, Busy DEF AtWork
  <1> DEFINE s == todo[p][pos[p]]
  <1>4. PICK ok \in BOOLEAN, touched \in BOOLEAN :
           /\ world' = IF touched THEN [world EXCEPT ![s.target] = s.after] ELSE world
           /\ done' = [done EXCEPT ![id] = Append(done[id], [step |-> pos[p], ok |-> ok])]
           /\ mem' = IF ok THEN mem ELSE [mem EXCEPT ![p] = WithFailure(mem[p], pos[p])]
    BY <1>2 DEF ApplyStep
  <1>5. pc' = [pc EXCEPT ![p] = "stamp"] /\ UNCHANGED <<journal, cmd, txn, base, todo, pos>>
    BY DEF ApplyStep, docs
  <1>6. pos[p] \in 1..Len(mem[p].steps) /\ s \in Step /\ Len(done[id]) = pos[p] - 1
        /\ AllOk(id, pos[p] - 1)
    BY <1>1, <1>2, <1>3 DEF Progress
  <1>7. world' \in [Resource -> Value]
    <2>1. s.after \in Value
      BY <1>6 DEF Step
    <2> QED BY <1>4, <2>1 DEF CliInv, Shape
  <1> HIDE DEF s
  <1> DEFINE doc == IF ok THEN mem[p] ELSE WithFailure(mem[p], pos[p])
  <1>8. mem'[p] = doc /\ pc'[p] = "stamp" /\ \A q \in Proc \ {p} : Still(q)
    BY <1>4, <1>5 DEF CliInv, Shape, Still
  <1>9. /\ DocOK(doc) /\ doc.status = "applying" /\ doc.steps \in Seq(Step)
        /\ Len(doc.steps) = Len(mem[p].steps) /\ DOMAIN doc.steps = DOMAIN mem[p].steps
        /\ \A k \in DOMAIN doc.steps :
              doc.steps[k].failed <=> (~ok /\ k = pos[p]) \/ mem[p].steps[k].failed
    <2>1. CASE ok
      BY <1>3, <2>1 DEF Progress
    <2>2. CASE ~ok
      <3>1. pos[p] \in DOMAIN mem[p].steps
        BY <1>3, <1>6
      <3> QED BY <1>3, <2>2, <3>1, WithFailureOK, FailedStepOf DEF Progress
    <2> QED BY <2>1, <2>2
  <1> HIDE DEF doc
  <1> DEFINE d == Append(done[id], [step |-> pos[p], ok |-> ok])
  <1>10. /\ done'[id] = d /\ d \in Seq([step : Nat, ok : BOOLEAN]) /\ Len(d) = pos[p]
         /\ d[pos[p]].step = pos[p] /\ d[pos[p]].ok = ok
         /\ \A k \in 1..(pos[p] - 1) : d[k] = done[id][k]
    BY <1>3, <1>4, <1>6 DEF CliInv, Shape
  <1> HIDE DEF d
  <1>11. Shape'
    <2>1. \A i \in Id : done'[i] \in Seq([step : Nat, ok : BOOLEAN])
      BY <1>4, <1>10 DEF CliInv, Shape
    <2> QED BY <1>4, <1>5, <1>7, <2>1 DEF CliInv, Shape
  <1>12. Closed(id) /\ Closed(id)'
    BY <1>2, <1>3, <1>5 DEF AtWork, Progress, Closed
  <1>13. ~Over(journal[id])
    BY <1>1, <1>2, <1>3 DEF Journaled, NoApplier
  <1>14. Journaled(id)'
    <2>1. ASSUME NEW k \in DOMAIN d PROVE d[k].step = k /\ (k < Len(d) => d[k].ok)
      <3>1. CASE k = pos[p]
        BY <1>3, <1>10, <3>1
      <3>2. CASE k # pos[p]
        <4>1. k \in 1..(pos[p] - 1) /\ k \in DOMAIN done[id]
          BY <1>3, <1>6, <1>10, <3>2
        <4> QED BY <1>3, <1>6, <1>10, <4>1 DEF Journaled, AllOk
      <3> QED BY <3>1, <3>2
    <2> QED BY <1>3, <1>5, <1>10, <1>12, <1>13, <2>1
            DEF Journaled, Untried, NoFailure, Tells, Over
  <1>15. Progress(p)'
    <2>1. ASSUME NEW k \in DOMAIN doc.steps
          PROVE  doc.steps[k].failed <=> k \in DOMAIN d /\ ~d[k].ok
      <3>1. k \in Nat /\ k > 0 /\ k \in DOMAIN mem[p].steps
            /\ DOMAIN d = 1..pos[p] /\ DOMAIN done[id] = 1..(pos[p] - 1)
        BY <1>3, <1>6, <1>9, <1>10
      <3>2. mem[p].steps[k].failed <=> k \in DOMAIN done[id] /\ ~done[id][k].ok
        BY <1>2, <1>3, <3>1 DEF Progress
      <3>3. CASE k = pos[p]
        <4>1. k \notin DOMAIN done[id] /\ k \in DOMAIN d /\ (d[k].ok <=> ok)
          BY <1>3, <1>10, <3>1, <3>3
        <4>2. ~mem[p].steps[k].failed
          BY <3>2, <4>1
        <4>3. doc.steps[k].failed <=> (~ok /\ k = pos[p]) \/ mem[p].steps[k].failed
          BY <1>9
        <4> QED BY <3>3, <4>1, <4>2, <4>3
      <3>4. CASE k # pos[p]
        <4>1. k \in DOMAIN d <=> k \in DOMAIN done[id]
          BY <1>3, <3>1, <3>4
        <4>2. k \in DOMAIN d => d[k] = done[id][k]
          <5>1. k \in DOMAIN d => k \in 1..(pos[p] - 1)
            BY <1>3, <3>1, <3>4
          <5> QED BY <1>10, <5>1
        <4>3. doc.steps[k].failed <=> mem[p].steps[k].failed
          BY <1>9, <3>4
        <4> QED BY <3>2, <4>1, <4>2, <4>3
      <3> QED BY <3>3, <3>4
    <2> QED BY <1>2, <1>3, <1>5, <1>6, <1>8, <1>9, <1>10, <2>1 DEF Progress
  <1>16. ~Over(base[p])
    BY <1>1, <1>2, <1>3 DEF AtWork, NoApplier
  <1>17. AtWork(p)'
    BY <1>1, <1>2, <1>3, <1>5, <1>8, <1>9, <1>12, <1>15, <1>16
       DEF AtWork, Untried, NoFailure, Tells, Over
  <1>18. \A i \in Id \ {id} : journal'[i] = journal[i] /\ done'[i] = done[i]
    BY <1>4, <1>5 DEF CliInv, Shape
  <1> QED BY <1>1, <1>2, <1>5, <1>8, <1>11, <1>12, <1>14, <1>17, <1>18, StepInv

LEMMA StampStepInv ==
  ASSUME CliInv, NEW p \in Proc, StampStep(p)
  PROVE  CliInv'
  <1> DEFINE next == IF cmd[p] = "apply" /\ mem[p].steps[pos[p]].failed
                     THEN "end" ELSE "step"
  <1>1. /\ pc[p] = "stamp" /\ pc[p] # "idle" /\ AtWork(p) /\ txn[p] \in Id
        /\ pos[p] \in Nat \ {0} /\ mem[p].steps \in Seq(Step)
        /\ done[txn[p]] \in Seq([step : Nat, ok : BOOLEAN]) /\ Journaled(txn[p])
    BY Busy DEF StampStep
  <1>2. /\ UNCHANGED <<journal, done, world, cmd, txn, mem, base, todo>>
        /\ pc'[p] = next /\ pos'[p] = pos[p] + 1
        /\ \A q \in Proc \ {p} : Still(q)
    BY DEF StampStep, docs, CliInv, Shape, Still
  <1>3. Shape'
    BY <1>1 DEF StampStep, docs, CliInv, Shape
  <1>4. ASSUME cmd[p] = "apply" PROVE Progress(p)'
    <2>1. Progress(p) /\ Len(done[txn[p]]) = pos[p] /\ pos[p] \in DOMAIN mem[p].steps
          /\ pos[p] \in DOMAIN done[txn[p]]
      BY <1>1, <1>4 DEF AtWork, Applying, Progress
    <2>2. mem[p].steps[pos[p]].failed <=> ~done[txn[p]][pos[p]].ok
      BY <2>1 DEF Progress
    <2>3. \A k \in DOMAIN done[txn[p]] : k < pos[p] => done[txn[p]][k].ok
      BY <1>1, <2>1 DEF Journaled
    <2>4. CASE next = "step"
      <3>1. AllOk(txn[p], Len(done[txn[p]]))
        BY <1>1, <1>4, <2>1, <2>2, <2>3, <2>4 DEF AllOk
      <3> QED BY <1>1, <1>2, <2>1, <2>4, <3>1 DEF Progress, AllOk
    <2>5. CASE next = "end"
      BY <1>1, <1>2, <1>4, <2>1, <2>2, <2>5 DEF Progress
    <2> QED BY <2>4, <2>5
  <1>5. Applying(p)' => cmd[p] = "apply"
    BY <1>2 DEF Applying
  <1>6. AtWork(p)'
    BY <1>1, <1>2, <1>4, <1>5
       DEF AtWork, Closed, Untried, NoFailure, Tells, AllOk, Over, NoApplier, Still, Applying
  <1> QED BY <1>1, <1>2, <1>3, <1>5, <1>6, QuietInv DEF Applying

LEMMA RollingBackInv ==
  ASSUME CliInv, NEW p \in Proc, StartRollback(p) \/ UndoStep(p)
  PROVE  CliInv'
  <1>1. /\ pc[p] # "idle" /\ AtWork(p) /\ txn[p] \in Id /\ cmd[p] = "rollback"
        /\ mem[p] = base[p]
    BY Busy DEF StartRollback, UndoStep, AtWork
  <1>2. /\ UNCHANGED <<journal, done, cmd, txn, mem, base, pos>>
        /\ pc'[p] \in {"step", "stamp"} /\ \A q \in Proc \ {p} : Still(q)
    BY DEF StartRollback, UndoStep, docs, proc, CliInv, Shape, Still
  <1>3. todo'[p] = RollbackSteps(base[p]) /\ base[p].status \in {"applied", "failed"}
    BY <1>1 DEF StartRollback, UndoStep, proc, AtWork, Plan, CliInv, Shape
  <1>4. Shape'
    BY DEF StartRollback, UndoStep, docs, proc, CliInv, Shape
  <1>5. ~Applying(p)' /\ \A q \in Proc : Applying(q)' => Applying(q)
    BY <1>1, <1>2 DEF Applying, Still
  <1>6. AtWork(p)'
    BY <1>1, <1>2, <1>3, <1>5
       DEF AtWork, Closed, Untried, NoFailure, Tells, AllOk, Over, NoApplier
  <1> QED BY <1>1, <1>2, <1>4, <1>5, <1>6, QuietInv

\* The steps that end with a save, or without one.
LEMMA EndsInv ==
  ASSUME CliInv, NEW p \in Proc,
         \/ SaveProposal(p) \/ FinishApply(p) \/ FinishRollback(p) \/ Resolve(p)
         \/ Fail(p) \/ SaveFails(p) \/ Reject(p) \/ Crash(p)
  PROVE  CliInv'
  <1>1. Gone(p) /\ UNCHANGED <<done, world>>
    BY DEF SaveProposal, FinishApply, FinishRollback, Resolve, Fail, SaveFails, Reject, Crash,
           docs
  <1>2. pc[p] # "idle"
    BY DEF SaveProposal, FinishApply, FinishRollback, Resolve, Fail, SaveFails, Reject, Crash,
           ApplyEnds, RollbackEnds, Resolves, OutOfPlace, AtSave, ApplyStarts
  <1>3. CASE UNCHANGED journal
    BY <1>1, <1>2, <1>3, GoneInv
  <1>4. CASE AtSave(p) /\ \E doc \in {base[p], Intent(p), Garbled} : Save(p, doc)
    BY <1>1, <1>4, SavedInv
  <1> QED BY <1>3, <1>4
          DEF SaveProposal, FinishApply, FinishRollback, Resolve, Fail, SaveFails, Reject,
              Crash, AtSave, docs

LEMMA NextInv == CliInv /\ [Next]_vars => CliInv'
  <1> SUFFICES ASSUME CliInv, [Next]_vars PROVE CliInv'
    OBVIOUS
  <1>1. CASE UNCHANGED vars
    <2> USE <1>1 DEF vars, docs, proc
    <2>1. Shape' /\ SoleApplier'
      BY DEF CliInv, Shape, SoleApplier, Applying
    <2>2. \A id \in Id : NoApplier(id) => NoApplier(id)'
      BY DEF NoApplier, Applying
    <2>3. ASSUME NEW id \in Id PROVE Journaled(id)'
      BY <2>2 DEF CliInv, Journaled, Untried, NoFailure, Tells, AllOk, Over, Closed
    <2>4. ASSUME NEW q \in Proc, pc[q] # "idle" PROVE AtWork(q)'
      <3>1. AtWork(q) /\ txn[q] \in Id
        BY <2>4 DEF CliInv, AtWork
      <3>2. NoApplier(txn[q]) => NoApplier(txn[q])'
        BY <2>2, <3>1
      <3> QED BY <3>1, <3>2
              DEF AtWork, Closed, Untried, NoFailure, Tells, AllOk, Over, Applying, Progress
    <2> QED BY <2>1, <2>3, <2>4 DEF CliInv
  <1>2. ASSUME NEW p \in Proc, NEW id \in Id, Begin(p, id) PROVE CliInv'
    BY <1>2, BeginInv
  <1>3. ASSUME NEW p \in Proc, NEW id \in Id, NEW c \in Command, Open(p, c, id) PROVE CliInv'
    BY <1>3, OpenInv
  <1>4. ASSUME NEW p \in Proc, Run(p) PROVE CliInv'
    BY <1>4, ProposeInv, StartApplyInv, ApplyStepInv, StampStepInv, RollingBackInv, EndsInv
       DEF Run, Work
  <1>5. ASSUME NEW p \in Proc, Crash(p) PROVE CliInv'
    BY <1>5, EndsInv
  <1> QED BY <1>1, <1>2, <1>3, <1>4, <1>5 DEF Next

\* The inductive invariant behind the theorems below: what the journal says of a
\* transaction, what each process that works on it has in memory, and what has
\* been executed agree in every state of the subcommands (commands.go).
THEOREM CliInvariance == Spec => []CliInv
  BY InitInv, NextInv, PTL DEF Spec
----------------------------------------------------------------------------
\* However many applies are started, only one runs the steps of a transaction
\* (cmdApply, MarkApplying).
THEOREM OneApplier == Spec => []SoleApplier
  BY CliInvariance, PTL DEF CliInv

\* Steps are executed once each and in order, none past a failure (cmdApply).
LEMMA OnceFacts == CliInv => StepsOnceInOrder
  BY DEF CliInv, Journaled, Closed, StepsOnceInOrder

\* For any number of processes and steps, no step of a transaction is executed
\* twice, out of order or past a failed one (cmdApply).
THEOREM OnceInOrder == Spec => []StepsOnceInOrder
  BY CliInvariance, OnceFacts, PTL

\* How many steps have succeeded when all up to n have, and none after.
LEMMA Succeeds ==
  ASSUME CliInv, NEW id \in Id, NEW n \in Nat, AllOk(id, n),
         \/ Len(done[id]) = n
         \/ Len(done[id]) = n + 1 /\ ~done[id][n + 1].ok
  PROVE  Succeeded(id) = n
  <1>1. done[id] \in Seq([step : Nat, ok : BOOLEAN])
    BY DEF CliInv, Shape
  <1>2. {k \in DOMAIN done[id] : done[id][k].ok} = 1..n
    BY <1>1 DEF AllOk
  <1>3. Cardinality(1..n) = n
    BY FS_Interval
  <1> QED BY <1>2, <1>3 DEF Succeeded

\* What a document with a verdict says of the number of steps that succeeded.
LEMMA Told ==
  ASSUME CliInv, NEW id \in Id, NEW doc, DocOK(doc), Tells(doc, id)
  PROVE  /\ doc.status \in {"applied", "rolled_back"} =>
                Len(done[id]) = Len(doc.steps) /\ Succeeded(id) = Len(doc.steps)
         /\ doc.status = "failed" /\ FirstFailed(doc.steps) > 0 =>
                /\ Len(done[id]) = FirstFailed(doc.steps)
                /\ Succeeded(id) = FirstFailed(doc.steps) - 1
  <1>1. done[id] \in Seq([step : Nat, ok : BOOLEAN]) /\ Len(done[id]) \in Nat
    BY DEF CliInv, Shape
  <1>2. CASE doc.status \in {"applied", "rolled_back"}
    BY <1>1, <1>2, Succeeds DEF Tells
  <1>3. CASE doc.status = "failed" /\ FirstFailed(doc.steps) > 0
    <2> DEFINE n == FirstFailed(doc.steps) - 1
    <2>1. n \in Nat /\ Len(done[id]) = n + 1 /\ AllOk(id, n) /\ ~done[id][n + 1].ok
      BY <1>1, <1>3 DEF Tells
    <2> HIDE DEF n
    <2>2. Succeeded(id) = n
      BY <2>1, Succeeds
    <2> QED BY <1>1, <1>3, <2>1, <2>2 DEF Tells, n
  <1> QED BY <1>2, <1>3

LEMMA VerdictFacts == CliInv => VerdictTells
  <1> SUFFICES ASSUME CliInv, NEW id \in Id
               PROVE  LET steps == journal[id].steps
                          first == FirstFailed(steps)
                      IN  /\ journal[id].status \in {"applied", "rolled_back"} =>
                                Len(done[id]) = Len(steps) /\ Succeeded(id) = Len(steps)
                          /\ journal[id].status = "failed" /\ first > 0 =>
                                Len(done[id]) = first /\ Succeeded(id) = first - 1
    BY DEF VerdictTells
  <1>1. CASE DocOK(journal[id])
    BY <1>1, Told DEF CliInv, Journaled
  <1>2. CASE journal[id] \in {NoDoc, Garbled}
    BY <1>2, BareDocs
  <1> QED BY <1>1, <1>2 DEF CliInv, Shape

\* The status of a transaction tells what was done (MarkApplied, MarkFailed).
THEOREM VerdictIsTrue == Spec => []VerdictTells
  BY CliInvariance, VerdictFacts, PTL

LEMMA UndoFacts == CliInv => UndoesOnlySuccesses
  <1> SUFFICES ASSUME CliInv, NEW p \in Proc,
                      cmd[p] = "rollback", pc[p] \in {"step", "stamp"}, todo[p] # <<>>
               PROVE  \E k \in 0..Succeeded(txn[p]) :
                         todo[p] = BuildRollbackPlan(SubSeq(mem[p].steps, 1, k))
    BY DEF UndoesOnlySuccesses
  <1> DEFINE doc == mem[p]
  <1>1. /\ AtWork(p) /\ txn[p] \in Id /\ DocOK(doc) /\ doc.steps \in Seq(Step)
        /\ doc = base[p] /\ done[txn[p]] \in Seq([step : Nat, ok : BOOLEAN])
    BY Busy DEF AtWork
  <1>2. /\ Tells(doc, txn[p]) /\ todo[p] = RollbackSteps(doc)
        /\ doc.status \in {"applied", "failed"}
    BY <1>1 DEF AtWork
  <1> HIDE DEF doc
  <1>3. CASE doc.status = "applied"
    <2>1. todo[p] = BuildRollbackPlan(doc.steps) /\ Succeeded(txn[p]) = Len(doc.steps)
      BY <1>1, <1>2, <1>3, DocType, Told DEF RollbackSteps
    <2>2. SubSeq(doc.steps, 1, Len(doc.steps)) = doc.steps /\ Len(doc.steps) \in Nat
      BY <1>1
    <2>3. todo[p] = BuildRollbackPlan(SubSeq(doc.steps, 1, Succeeded(txn[p])))
      BY <2>1, <2>2
    <2>4. Succeeded(txn[p]) \in 0..Succeeded(txn[p])
      BY <2>1, <2>2
    <2> QED BY <2>3, <2>4 DEF doc
  <1>4. CASE doc.status = "failed"
    <2> DEFINE i == FirstFailed(doc.steps)
    <2>1. i > 0 /\ todo[p] = BuildRollbackPlan(SubSeq(doc.steps, 1, i - 1))
      BY <1>2, <1>4 DEF RollbackSteps
    <2>2. Len(done[txn[p]]) = i /\ Succeeded(txn[p]) = i - 1
      BY <1>1, <1>2, <1>4, <2>1, Told
    <2>3. i - 1 \in 0..Succeeded(txn[p])
      BY <1>1, <2>1, <2>2
    <2> QED BY <2>1, <2>3 DEF doc
  <1> QED BY <1>2, <1>3, <1>4

\* A rollback undoes only what was executed and succeeded (cmdRollback).
THEOREM UndoneSucceeded == Spec => []UndoesOnlySuccesses
  BY CliInvariance, UndoFacts, PTL
----------------------------------------------------------------------------
(* The audit log and the order of the transactions. *)

\* What is stamped.
Stamps == [tx : Id, step : Nat, prev : Nat]

LEMMA Listed ==
  ASSUME NEW S, NEW s \in Seq(S)
  PROVE  DOMAIN s = 1..Len(s) /\ Len(s) \in Nat /\ \A i \in DOMAIN s : s[i] \in S
  OBVIOUS

\* What the processes know of the log: no stamp follows a later one, and the tail
\* that a process keeps is no later than the log.
LogInv ==
    /\ order \in Seq(Id) /\ Range(order) = {id \in Id : journal[id] # NoDoc}
    /\ log \in Seq(Stamps)
    /\ \A i \in DOMAIN log : log[i].prev < i /\ journal[log[i].tx] # NoDoc
    /\ \E b \in Nat : \A i \in DOMAIN log : log[i].step <= b
    /\ tail \in [Proc -> [link : Nat, step : Nat]]
    /\ \A p \in Proc : tail[p].link <= Len(log)
    /\ \A p \in Proc : pc[p] = "stamp" => pos[p] <= Len(todo[p])

\* Of entries there are some with the largest step.
LEMMA LargestStep ==
  ASSUME NEW S, S # {}, NEW f \in [S -> Nat], NEW b \in Nat, \A i \in S : f[i] <= b
  PROVE  \E i \in S : \A j \in S : f[j] <= f[i]
  <1> DEFINE B == {n \in Nat : \A i \in S : f[i] <= n}
  <1>1. PICK n \in B : \A m \in B : n <= m
    <2>1. b \in B /\ B \subseteq Nat
      OBVIOUS
    <2> HIDE DEF B
    <2> QED BY <2>1, LeastNumber
  <1>2. n \in Nat /\ \A i \in S : f[i] <= n
    BY <1>1
  <1>3. PICK i \in S : f[i] = n
    <2> SUFFICES ASSUME \A i \in S : f[i] # n PROVE FALSE
      OBVIOUS
    <2>1. \A i \in S : f[i] < n /\ f[i] \in Nat
      BY <1>2
    <2>2. n > 0
      BY <1>2, <2>1
    <2>3. n - 1 \in B
      BY <1>2, <2>1, <2>2
    <2> QED BY <1>1, <1>2, <2>3
  <1> QED BY <1>2, <1>3

\* scanTxTail finds nothing, or an entry of the transaction none of whose entries
\* has a larger step.
LEMMA ScanTailFacts ==
  ASSUME NEW id \in Id, log \in Seq(Stamps),
         NEW b \in Nat, \A i \in DOMAIN log : log[i].step <= b
  PROVE  LET t == ScanTail(id)
         IN  /\ t \in [link : Nat, step : Nat] /\ t.link <= Len(log)
             /\ t.link = 0 => \A i \in DOMAIN log : log[i].tx # id
             /\ t.link > 0 => log[t.link].tx = id /\ log[t.link].step = t.step
             /\ \A i \in DOMAIN log : log[i].tx = id => log[i].step <= t.step
  <1>0. /\ DOMAIN log = 1..Len(log) /\ Len(log) \in Nat
        /\ \A i \in DOMAIN log : log[i] \in Stamps
    BY Listed
  <1> DEFINE mine == {i \in DOMAIN log : log[i].tx = id}
             top == {i \in mine : \A j \in mine : log[j].step <= log[i].step}
             first == CHOOSE i \in top : \A j \in top : i <= j
  <1>1. CASE mine = {}
    BY <1>1 DEF ScanTail, NoTail
  <1>2. CASE mine # {}
    <2> DEFINE f == [i \in mine |-> log[i].step]
    <2>0. /\ mine \subseteq 1..Len(log) /\ Len(log) \in Nat
          /\ \A i \in mine : log[i] \in Stamps /\ log[i].step <= b
      BY <1>0
    <2>1. f \in [mine -> Nat] /\ (\A i \in mine : f[i] <= b)
      BY <2>0 DEF Stamps
    <2>2. \E i \in mine : \A j \in mine : f[j] <= f[i]
      <3> HIDE DEF mine, f
      <3> QED BY <1>2, <2>1, LargestStep
    <2>3. top # {} /\ top \subseteq Nat
      <3>1. PICK i \in mine : \A j \in mine : f[j] <= f[i]
        BY <2>2
      <3>2. \A j \in mine : log[j].step <= log[i].step
        BY <3>1
      <3> QED BY <2>0, <3>1, <3>2
    <2>4. \E i \in top : \A j \in top : i <= j
      <3> HIDE DEF top
      <3> QED BY <2>3, LeastNumber
    <2>5. first \in top
      BY <2>4
    <2>6. ScanTail(id) = [link |-> first, step |-> log[first].step]
      BY <1>2, Zenon DEF ScanTail
    <2> HIDE DEF first
    <2>7. first \in mine /\ \A j \in mine : log[j].step <= log[first].step
      BY <2>5
    <2>8. first \in 1..Len(log) /\ log[first] \in Stamps
      BY <2>0, <2>7
    <2>9. log[first].tx = id
      BY <2>7
    <2> HIDE DEF top
    <2> QED BY <2>6, <2>7, <2>8, <2>9 DEF Stamps
  <1> QED BY <1>1, <1>2

LEMMA LogInit == Init => LogInv
  <1> SUFFICES ASSUME Init PROVE LogInv
    OBVIOUS
  <1>1. order \in Seq(Id) /\ Range(order) = {} /\ log \in Seq(Stamps) /\ DOMAIN log = {}
    BY DEF Init, Range
  <1>2. tail \in [Proc -> [link : Nat, step : Nat]] /\ \A p \in Proc : tail[p].link = 0
    BY DEF Init, NoTail
  <1>3. \A p \in Proc : pc[p] = "idle"
    BY DEF Init
  <1>4. {id \in Id : journal[id] # NoDoc} = {}
    BY DEF Init
  <1>5. Len(log) = 0
    BY DEF Init
  <1>6. \E b \in Nat : \A i \in DOMAIN log : log[i].step <= b
    BY <1>1
  <1>7. /\ \A p \in Proc : tail[p].link <= Len(log)
        /\ \A p \in Proc : pc[p] = "stamp" => pos[p] <= Len(todo[p])
        /\ \A i \in DOMAIN log : log[i].prev < i /\ journal[log[i].tx] # NoDoc
    BY <1>1, <1>2, <1>3, <1>5
  <1> QED BY <1>1, <1>2, <1>4, <1>6, <1>7, Zenon DEF LogInv

\* A step that writes neither the log nor the order, and neither begins nor
\* removes a transaction.
LEMMA LogStep ==
  ASSUME LogInv, UNCHANGED <<order, log>>,
         \A id \in Id : journal'[id] # NoDoc <=> journal[id] # NoDoc,
         tail' \in [Proc -> [link : Nat, step : Nat]],
         \A p \in Proc : tail'[p].link <= Len(log),
         \A p \in Proc : pc'[p] = "stamp" => pos'[p] <= Len(todo'[p])
  PROVE  LogInv'
  <1>1. \A i \in DOMAIN log : log[i] \in Stamps
    BY Listed DEF LogInv
  <1>2. \A i \in DOMAIN log : log[i].tx \in Id
    BY <1>1 DEF Stamps
  <1> QED BY <1>2 DEF LogInv

\* One sequence after another.
LEMMA Joined ==
  ASSUME NEW S, NEW s \in Seq(S), NEW t \in Seq(S)
  PROVE  /\ s \o t \in Seq(S) /\ Len(s \o t) = Len(s) + Len(t)
         /\ \A i \in 1..Len(s) : (s \o t)[i] = s[i]
         /\ \A i \in (Len(s) + 1)..(Len(s) + Len(t)) : (s \o t)[i] = t[i - Len(s)]
  OBVIOUS

\* What is put into a sequence is at its place, and what is behind it moves on by one.
LEMMA InsertedAt ==
  ASSUME NEW S, NEW s \in Seq(S), NEW e \in S, NEW k \in 1..(Len(s) + 1)
  PROVE  LET r == InsertAt(s, k, e)
         IN  /\ r \in Seq(S) /\ Len(r) = Len(s) + 1 /\ r[k] = e
             /\ \A i \in 1..(k - 1) : r[i] = s[i]
             /\ \A i \in (k + 1)..(Len(s) + 1) : r[i] = s[i - 1]
  <1> DEFINE a == SubSeq(s, 1, k - 1)
             b == SubSeq(s, k, Len(s))
             c == a \o <<e>>
             r == c \o b
  <1>1. /\ a \in Seq(S) /\ Len(a) = k - 1 /\ \A i \in 1..(k - 1) : a[i] = s[i]
        /\ b \in Seq(S) /\ Len(b) = Len(s) - k + 1
        /\ \A i \in 1..(Len(s) - k + 1) : b[i] = s[k + i - 1]
    OBVIOUS
  <1> HIDE DEF a, b
  <1>0. c \in Seq(S) /\ Len(c) = k /\ c[k] = e /\ \A i \in 1..(k - 1) : c[i] = a[i]
    BY <1>1
  <1> HIDE DEF c
  <1>2. /\ r \in Seq(S) /\ Len(r) = Len(s) + 1 /\ r[k] = e
        /\ \A i \in 1..(k - 1) : r[i] = a[i]
        /\ \A i \in (k + 1)..(Len(s) + 1) : r[i] = b[i - k]
    <2>1. k \in Nat /\ k > 0 /\ Len(s) \in Nat /\ k <= Len(s) + 1
      OBVIOUS
    <2>2. /\ r \in Seq(S) /\ Len(r) = Len(c) + Len(b)
          /\ \A i \in 1..Len(c) : r[i] = c[i]
          /\ \A i \in (Len(c) + 1)..(Len(c) + Len(b)) : r[i] = b[i - Len(c)]
      <3>1. c \in Seq(S) /\ b \in Seq(S)
        BY <1>0, <1>1
      <3> QED BY <3>1, Joined, Zenon
    <2> HIDE DEF r
    <2>3. Len(c) + Len(b) = Len(s) + 1
      BY <1>0, <1>1, <2>1
    <2>4. k \in 1..k /\ \A i \in 1..(k - 1) : i \in 1..k
      BY <2>1
    <2>5. Len(c) = k /\ c[k] = e /\ \A i \in 1..(k - 1) : c[i] = a[i]
      BY <1>0
    <2>6. r[k] = e /\ \A i \in 1..(k - 1) : r[i] = a[i]
      BY <2>2, <2>4, <2>5, Zenon
    <2>7. \A i \in (k + 1)..(Len(s) + 1) : r[i] = b[i - k]
      BY <2>2, <2>3, <2>5, Zenon
    <2> QED BY <2>2, <2>3, <2>6, <2>7, Zenon
  <1> HIDE DEF r
  <1>3. InsertAt(s, k, e) = r
    BY DEF InsertAt, r, c, a, b
  <1>4. \A i \in (k + 1)..(Len(s) + 1) : r[i] = s[i - 1]
    <2> TAKE i \in (k + 1)..(Len(s) + 1)
    <2>1. i - k \in 1..(Len(s) - k + 1) /\ k + (i - k) - 1 = i - 1
      OBVIOUS
    <2>2. b[i - k] = s[k + (i - k) - 1]
      BY <1>1, <2>1, Zenon
    <2>3. r[i] = b[i - k]
      BY <1>2, Zenon
    <2> QED BY <2>1, <2>2, <2>3, Zenon
  <1>5. \A i \in 1..(k - 1) : r[i] = s[i]
    BY <1>1, <1>2
  <1> QED BY <1>2, <1>3, <1>4, <1>5

\* An id put into the order is in it with those that were there.
LEMMA Inserted ==
  ASSUME NEW S, NEW s \in Seq(S), NEW e \in S, NEW k \in 1..(Len(s) + 1)
  PROVE  InsertAt(s, k, e) \in Seq(S) /\ Range(InsertAt(s, k, e)) = Range(s) \cup {e}
  <1> DEFINE r == InsertAt(s, k, e)
  <1>1. /\ r \in Seq(S) /\ Len(r) = Len(s) + 1 /\ r[k] = e
        /\ \A i \in 1..(k - 1) : r[i] = s[i]
        /\ \A i \in (k + 1)..(Len(s) + 1) : r[i] = s[i - 1]
    BY InsertedAt
  <1> HIDE DEF r
  <1>2. DOMAIN r = 1..(Len(s) + 1) /\ DOMAIN s = 1..Len(s) /\ Len(s) \in Nat
    BY <1>1
  <1>3. ASSUME NEW i \in DOMAIN r PROVE r[i] \in Range(s) \cup {e}
    <2>1. CASE i < k
      BY <1>1, <1>2, <1>3, <2>1 DEF Range
    <2>2. CASE i > k
      <3>1. i \in (k + 1)..(Len(s) + 1) /\ i - 1 \in DOMAIN s
        BY <1>2, <2>2
      <3> QED BY <1>1, <3>1 DEF Range
    <2>3. CASE i = k
      BY <1>1, <2>3
    <2> QED BY <1>2, <2>1, <2>2, <2>3
  <1>4. ASSUME NEW i \in DOMAIN s PROVE s[i] \in Range(r)
    <2>1. CASE i < k
      <3>1. i \in 1..(k - 1) /\ i \in DOMAIN r
        BY <1>2, <2>1
      <3> QED BY <1>1, <3>1 DEF Range
    <2>2. CASE i >= k
      <3>1. i + 1 \in (k + 1)..(Len(s) + 1) /\ i + 1 \in DOMAIN r /\ (i + 1) - 1 = i
        BY <1>2, <2>2
      <3>2. r[i + 1] = s[i]
        BY <1>1, <3>1
      <3> QED BY <3>1, <3>2 DEF Range
    <2> QED BY <1>2, <2>1, <2>2
  <1>5. e \in Range(r)
    BY <1>1, <1>2 DEF Range
  <1> QED BY <1>1, <1>3, <1>4, <1>5 DEF Range, r

\* A stamp that is written, or lost.
LEMMA Stamped ==
  ASSUME LogInv, NEW e \in Stamps, e.prev <= Len(log), journal'[e.tx] # NoDoc,
         \A id \in Id : journal[id] # NoDoc => journal'[id] # NoDoc,
         log' = Append(log, e)
  PROVE  /\ log' \in Seq(Stamps) /\ Len(log') = Len(log) + 1
         /\ \A i \in DOMAIN log' : log'[i].prev < i /\ journal'[log'[i].tx] # NoDoc
         /\ \E b \in Nat : \A i \in DOMAIN log' : log'[i].step <= b
  <1>1. /\ log \in Seq(Stamps) /\ DOMAIN log = 1..Len(log) /\ Len(log) \in Nat
        /\ \A i \in DOMAIN log : log[i] \in Stamps
    BY Listed DEF LogInv
  <1>2. /\ log' \in Seq(Stamps) /\ Len(log') = Len(log) + 1 /\ log'[Len(log) + 1] = e
        /\ DOMAIN log' = 1..(Len(log) + 1)
        /\ \A i \in 1..Len(log) : log'[i] = log[i]
    BY <1>1
  <1>3. e.step \in Nat /\ e.prev \in Nat /\ \A i \in DOMAIN log : log[i].step \in Nat /\ log[i].tx \in Id
    BY <1>1 DEF Stamps
  <1>4. ASSUME NEW i \in DOMAIN log' PROVE log'[i].prev < i /\ journal'[log'[i].tx] # NoDoc
    <2>1. CASE i = Len(log) + 1
      BY <1>1, <1>2, <1>3, <2>1
    <2>2. CASE i \in DOMAIN log
      BY <1>1, <1>2, <1>3, <2>2 DEF LogInv
    <2> QED BY <1>1, <1>2, <2>1, <2>2
  <1>5. PICK b \in Nat : \A i \in DOMAIN log : log[i].step <= b
    BY DEF LogInv
  <1>6. \A i \in DOMAIN log' : log'[i].step <= b + e.step
    BY <1>1, <1>2, <1>3, <1>5
  <1>7. b + e.step \in Nat
    BY <1>3
  <1> QED BY <1>2, <1>4, <1>6, <1>7

LEMMA BeginLog ==
  ASSUME CliInv, LogInv, NEW p \in Proc, NEW id \in Id, Begin(p, id)
  PROVE  LogInv'
  <1>1. /\ journal[id] = NoDoc /\ journal' = [journal EXCEPT ![id] = NewDoc]
        /\ journal'[id] = NewDoc /\ NewDoc # NoDoc
        /\ \A i \in Id \ {id} : journal'[i] = journal[i]
        /\ UNCHANGED <<pc, todo, pos, tail>>
    BY NewDocOK DEF Begin, proc, CliInv, Shape
  <1>2. \A i \in Id : journal[i] # NoDoc => journal'[i] # NoDoc
    BY <1>1
  <1>3. PICK k \in 1..(Len(order) + 1) : order' = InsertAt(order, k, id)
    BY DEF Begin
  <1>4. order' \in Seq(Id) /\ Range(order') = Range(order) \cup {id}
    BY <1>3, Inserted DEF LogInv
  <1>5. Range(order') = {i \in Id : journal'[i] # NoDoc}
    BY <1>1, <1>4 DEF LogInv
  <1>6. Len(log) \in Nat /\ Entry(id, 0, 0) \in Stamps /\ Entry(id, 0, 0).prev = 0
        /\ Entry(id, 0, 0).tx = id
    BY Listed DEF Entry, Stamps, LogInv
  <1>7. CASE log' = Append(log, Entry(id, 0, 0))
    <2>0. PICK e \in Stamps : e.prev = 0 /\ e.tx = id /\ log' = Append(log, e)
      BY <1>6, <1>7
    <2>1. /\ log' \in Seq(Stamps) /\ Len(log') = Len(log) + 1
          /\ \A i \in DOMAIN log' : log'[i].prev < i /\ journal'[log'[i].tx] # NoDoc
          /\ \E b \in Nat : \A i \in DOMAIN log' : log'[i].step <= b
      BY <1>1, <1>2, <1>6, <2>0, Stamped
    <2>2. \A q \in Proc : tail[q].link \in Nat
      BY DEF LogInv
    <2>3. \A q \in Proc : tail[q].link <= Len(log) + 1
      BY <1>6, <2>2 DEF LogInv
    <2> QED BY <1>1, <1>4, <1>5, <2>1, <2>3 DEF LogInv
  <1>8. CASE log' = log
    <2>1. \A i \in DOMAIN log : log[i].tx \in Id
      <3>1. \A i \in DOMAIN log : log[i] \in Stamps
        BY Listed DEF LogInv
      <3> QED BY <3>1 DEF Stamps
    <2> QED BY <1>1, <1>2, <1>4, <1>5, <1>8, <2>1 DEF LogInv
  <1> QED BY <1>7, <1>8 DEF Begin

\* No save makes or removes a transaction.
LEMMA DocsStay ==
  ASSUME CliInv, NEW p \in Proc, AtSave(p),
         NEW doc \in {base[p], Intent(p), Garbled}, Save(p, doc)
  PROVE  \A id \in Id : journal'[id] # NoDoc <=> journal[id] # NoDoc
  <1>1. txn[p] \in Id /\ DocOK(base[p]) /\ DocOK(Intent(p)) /\ DOMAIN journal = Id
    BY AtSaveFacts, IntentFacts DEF AtWork, CliInv, Shape
  <1>2. doc # NoDoc /\ base[p] # NoDoc
    BY <1>1, DocOKWhole, NotWhole
  <1> QED BY <1>1, <1>2 DEF Save, Unchanged

\* A process ends, with or without a save.
LEMMA EndsLog ==
  ASSUME CliInv, LogInv, NEW p \in Proc,
         \/ SaveProposal(p) \/ FinishApply(p) \/ FinishRollback(p) \/ Resolve(p)
         \/ Fail(p) \/ SaveFails(p) \/ Reject(p) \/ Crash(p)
  PROVE  LogInv'
  <1>1. Gone(p) /\ UNCHANGED <<order, log>>
    BY DEF SaveProposal, FinishApply, FinishRollback, Resolve, Fail, SaveFails, Reject, Crash,
           docs
  <1>2. \A id \in Id : journal'[id] # NoDoc <=> journal[id] # NoDoc
    <2>1. CASE UNCHANGED journal
      BY <2>1
    <2>2. CASE AtSave(p) /\ \E doc \in {base[p], Intent(p), Garbled} : Save(p, doc)
      BY <2>2, DocsStay
    <2> QED BY <2>1, <2>2
            DEF SaveProposal, FinishApply, FinishRollback, Resolve, Fail, SaveFails, Reject,
                Crash, AtSave, docs
  <1>3. /\ tail \in [Proc -> [link : Nat, step : Nat]]
        /\ \A q \in Proc : tail[q].link <= Len(log)
        /\ \A q \in Proc : pc[q] = "stamp" => pos[q] <= Len(todo[q])
        /\ log \in Seq(Stamps)
    BY DEF LogInv
  <1>4. tail' \in [Proc -> [link : Nat, step : Nat]]
        /\ \A q \in Proc : tail'[q].link <= Len(log)
    BY <1>1, <1>3 DEF Gone, NoTail
  <1>5. \A q \in Proc : pc'[q] = "stamp" => pos'[q] <= Len(todo'[q])
    BY <1>1, <1>3, GoneFacts DEF Still
  <1> QED BY <1>1, <1>2, <1>4, <1>5, LogStep

\* A process that starts its loop takes its tail from the log.
LEMMA StartLog ==
  ASSUME CliInv, LogInv, NEW p \in Proc, StartApply(p) \/ StartRollback(p)
  PROVE  LogInv'
  <1>1. /\ UNCHANGED <<order, log>> /\ pc[p] # "idle" /\ pc' = [pc EXCEPT ![p] = "step"]
        /\ tail' = [tail EXCEPT ![p] = ScanTail(txn[p])]
        /\ pos' = pos /\ \A q \in Proc \ {p} : todo'[q] = todo[q]
    BY DEF StartApply, StartRollback, ApplyStarts, Started, docs, CliInv, Shape
  <1>2. txn[p] \in Id
    BY <1>1, Busy
  <1>3. \A id \in Id : journal'[id] # NoDoc <=> journal[id] # NoDoc
    <2>1. CASE StartRollback(p)
      BY <2>1 DEF StartRollback, docs
    <2>2. CASE StartApply(p)
      BY <2>2, DocsStay DEF StartApply, AtSave
    <2> QED BY <2>1, <2>2
  <1>4. PICK b \in Nat : \A i \in DOMAIN log : log[i].step <= b
    BY DEF LogInv
  <1>5. ScanTail(txn[p]) \in [link : Nat, step : Nat] /\ ScanTail(txn[p]).link <= Len(log)
    BY <1>2, <1>4, ScanTailFacts DEF LogInv
  <1>6. tail' \in [Proc -> [link : Nat, step : Nat]]
        /\ \A q \in Proc : tail'[q].link <= Len(log)
    BY <1>1, <1>5 DEF LogInv
  <1>7. \A q \in Proc : pc'[q] = "stamp" => pos'[q] <= Len(todo'[q])
    BY <1>1 DEF LogInv, CliInv, Shape
  <1> QED BY <1>1, <1>3, <1>6, <1>7, LogStep

\* The steps between, that stamp nothing.
LEMMA QuietLog ==
  ASSUME CliInv, LogInv, NEW p \in Proc,
         \/ \E id \in Id, c \in Command : Open(p, c, id)
         \/ \E r \in Resource, v \in Value : Propose(p, r, v)
         \/ ApplyStep(p) \/ UndoStep(p)
  PROVE  LogInv'
  <1>1. UNCHANGED <<journal, order, log, todo, pos, tail>>
    BY DEF Open, Propose, ApplyStep, UndoStep, docs, proc
  <1>2. \A q \in Proc : pc'[q] = "stamp" => pos'[q] <= Len(todo'[q])
    <2>1. \A q \in Proc \ {p} : pc'[q] = pc[q]
      BY DEF Open, Propose, ApplyStep, UndoStep, CliInv, Shape
    <2>2. pc'[p] = "stamp" => pos[p] <= Len(todo[p])
      BY DEF Open, Propose, ApplyStep, UndoStep, CliInv, Shape
    <2> QED BY <1>1, <2>1, <2>2 DEF LogInv
  <1>3. tail' \in [Proc -> [link : Nat, step : Nat]]
        /\ \A q \in Proc : tail'[q].link <= Len(log)
    BY <1>1 DEF LogInv
  <1> QED BY <1>1, <1>2, <1>3, LogStep

LEMMA StampLog ==
  ASSUME CliInv, LogInv, NEW p \in Proc, StampStep(p)
  PROVE  LogInv'
  <1>1. /\ UNCHANGED <<journal, order, todo>> /\ pc[p] # "idle"
        /\ \A q \in Proc \ {p} : pc'[q] = pc[q] /\ pos'[q] = pos[q]
        /\ pc'[p] # "stamp"
    BY DEF StampStep, docs, CliInv, Shape
  <1>2. txn[p] \in Id /\ journal[txn[p]] # NoDoc
    BY <1>1, Busy DEF AtWork
  <1>3. \A q \in Proc : pc'[q] = "stamp" => pos'[q] <= Len(todo'[q])
    BY <1>1 DEF LogInv
  <1> DEFINE n == tail[p].step + 1
             e == Entry(txn[p], n, tail[p].link)
  <1>4. /\ tail \in [Proc -> [link : Nat, step : Nat]] /\ tail[p].link \in Nat /\ n \in Nat
        /\ \A q \in Proc : tail[q].link \in Nat /\ tail[q].link <= Len(log)
        /\ log \in Seq(Stamps) /\ Len(log) \in Nat
    BY Listed DEF LogInv
  <1>5. CASE /\ log' = Append(log, e)
             /\ tail' = [tail EXCEPT ![p] = [link |-> Len(log) + 1, step |-> n]]
    <2>1. e \in Stamps /\ e.prev <= Len(log) /\ e.tx = txn[p]
      BY <1>2, <1>4 DEF Entry, Stamps
    <2> HIDE DEF e, n
    <2>2. /\ log' \in Seq(Stamps) /\ Len(log') = Len(log) + 1
          /\ \A i \in DOMAIN log' : log'[i].prev < i /\ journal'[log'[i].tx] # NoDoc
          /\ \E b \in Nat : \A i \in DOMAIN log' : log'[i].step <= b
      BY <1>1, <1>2, <1>5, <2>1, Stamped
    <2>3. tail' \in [Proc -> [link : Nat, step : Nat]]
      BY <1>4, <1>5
    <2>4. \A q \in Proc : tail'[q].link <= Len(log')
      BY <1>4, <1>5, <2>2
    <2> QED BY <1>1, <1>3, <2>2, <2>3, <2>4 DEF LogInv
  <1>6. CASE log' = log /\ tail' = [tail EXCEPT ![p].step = n]
    <2>1. tail' \in [Proc -> [link : Nat, step : Nat]]
          /\ \A q \in Proc : tail'[q].link <= Len(log)
      BY <1>4, <1>6
    <2> QED BY <1>1, <1>3, <1>6, <2>1, LogStep
  <1> QED BY <1>5, <1>6 DEF StampStep, Stamp

LEMMA LogNext == CliInv /\ LogInv /\ [Next]_vars => LogInv'
  <1> SUFFICES ASSUME CliInv, LogInv, [Next]_vars PROVE LogInv'
    OBVIOUS
  <1>1. CASE UNCHANGED vars
    <2> USE <1>1 DEF vars, docs, proc
    <2>1. tail' \in [Proc -> [link : Nat, step : Nat]] /\ (\A p \in Proc : tail'[p].link <= Len(log))
      BY DEF LogInv
    <2>2. \A p \in Proc : pc'[p] = "stamp" => pos'[p] <= Len(todo'[p])
      BY DEF LogInv
    <2> QED BY <2>1, <2>2, LogStep
  <1>2. ASSUME NEW p \in Proc, NEW id \in Id, Begin(p, id) PROVE LogInv'
    BY <1>2, BeginLog
  <1>3. ASSUME NEW p \in Proc, NEW id \in Id, NEW c \in Command, Open(p, c, id) PROVE LogInv'
    BY <1>3, QuietLog
  <1>4. ASSUME NEW p \in Proc, Run(p) PROVE LogInv'
    BY <1>4, QuietLog, StartLog, StampLog, EndsLog DEF Run, Work
  <1>5. ASSUME NEW p \in Proc, Crash(p) PROVE LogInv'
    BY <1>5, EndsLog
  <1> QED BY <1>1, <1>2, <1>3, <1>4, <1>5 DEF Next

LEMMA LogInvariance == Spec => []LogInv
  BY CliInvariance, LogInit, LogNext, PTL DEF Spec

LEMMA TypeFacts == CliInv /\ LogInv => TypeOK
  <1> SUFFICES ASSUME CliInv, LogInv PROVE TypeOK
    OBVIOUS
  <1>1. \A i \in DOMAIN log : log[i].tx \in Id /\ log[i].prev \in 0..(i - 1)
    <2>1. DOMAIN log = 1..Len(log) /\ Len(log) \in Nat /\ \A i \in DOMAIN log : log[i] \in Stamps
      BY Listed DEF LogInv
    <2>2. \A i \in DOMAIN log : log[i].prev < i
      BY DEF LogInv
    <2> QED BY <2>1, <2>2 DEF Stamps
  <1>2. ASSUME NEW p \in Proc
        PROVE  /\ pc[p] = "idle" <=> txn[p] = NoId
               /\ pc[p] # "idle" => DocOK(mem[p]) /\ DocOK(base[p])
               /\ pc[p] = "stamp" => pos[p] \in 1..Len(todo[p])
    <2>1. pc[p] = "idle" <=> txn[p] = NoId
      BY Busy DEF CliInv
    <2>2. ASSUME pc[p] = "stamp" PROVE pos[p] \in 1..Len(todo[p])
      <3>1. /\ AtWork(p) /\ DocOK(base[p]) /\ mem[p].steps \in Seq(Step)
            /\ pos[p] \in Nat \ {0} /\ pos[p] <= Len(todo[p])
        BY <2>2, Busy DEF LogInv
      <3>2. CASE cmd[p] = "apply"
        BY <2>2, <3>1, <3>2 DEF AtWork, Applying, Progress
      <3>3. CASE cmd[p] = "rollback"
        <4>1. todo[p] = RollbackSteps(base[p])
          BY <2>2, <3>1, <3>3 DEF AtWork
        <4>2. todo[p] \in Seq(Step)
          BY <3>1, <4>1, RollbackUndoes DEF Undoes
        <4> QED BY <3>1, <4>2
      <3> QED BY <2>2, <3>1, <3>2, <3>3 DEF AtWork
    <2> QED BY <2>1, <2>2, Busy
  <1> QED BY <1>1, <1>2 DEF TypeOK, CliInv, Shape, LogInv

\* Every variable has its type: each process works on a document the library
\* builds, the order lists what was begun, and a stamp points back (commands.go,
\* stamp.go).
THEOREM CliTypeCorrect == Spec => []TypeOK
  BY CliInvariance, LogInvariance, TypeFacts, PTL
----------------------------------------------------------------------------
(* The chain of a transaction, while no two commands stamp it at once. *)

Stamping(p) == pc[p] \in {"step", "stamp"}

Alone == \A p, q \in Proc : Stamping(p) /\ Stamping(q) /\ txn[p] = txn[q] => p = q

\* The tail a process keeps is the last entry of the transaction, and no entry has
\* a larger step.
EndsAt(id, t) ==
    /\ \A i \in DOMAIN log : log[i].tx = id => i <= t.link /\ log[i].step <= t.step
    /\ t.link > 0 => t.link \in DOMAIN log /\ log[t.link].tx = id

Growing ==
    \A i, j \in DOMAIN log : i < j /\ log[i].tx = log[j].tx => log[i].step < log[j].step

ChainInv ==
    /\ Growing /\ ChainLinear
    /\ \A p \in Proc : Stamping(p) => EndsAt(txn[p], tail[p])

LEMMA LogFacts ==
  ASSUME LogInv
  PROVE  /\ log \in Seq(Stamps) /\ DOMAIN log = 1..Len(log) /\ Len(log) \in Nat
         /\ \A i \in DOMAIN log : /\ log[i].tx \in Id /\ log[i].step \in Nat
                                  /\ log[i].prev \in Nat /\ log[i].prev < i
                                  /\ journal[log[i].tx] # NoDoc
  <1>1. /\ log \in Seq(Stamps) /\ DOMAIN log = 1..Len(log) /\ Len(log) \in Nat
        /\ \A i \in DOMAIN log : log[i] \in Stamps
    BY Listed DEF LogInv
  <1>2. \A i \in DOMAIN log : log[i].prev < i /\ journal[log[i].tx] # NoDoc
    BY DEF LogInv
  <1> QED BY <1>1, <1>2 DEF Stamps

\* An entry that follows the last one of its transaction continues the chain.
LEMMA ChainGrows ==
  ASSUME LogInv, ChainInv, NEW e \in Stamps, log' = Append(log, e),
         \A i \in DOMAIN log : log[i].tx = e.tx => i <= e.prev /\ log[i].step < e.step,
         e.prev > 0 => e.prev \in DOMAIN log /\ log[e.prev].tx = e.tx
  PROVE  Growing' /\ ChainLinear'
  <1> DEFINE n == Len(log) + 1
  <1>1. /\ DOMAIN log = 1..Len(log) /\ Len(log) \in Nat
        /\ DOMAIN log' = 1..n /\ log'[n] = e /\ \A i \in DOMAIN log : log'[i] = log[i]
    BY LogFacts
  <1>2. e.prev \in Nat /\ n \in Nat
    BY <1>1 DEF Stamps
  <1>3. \A i \in DOMAIN log' : i = n \/ i \in DOMAIN log
    BY <1>1
  <1> HIDE DEF n
  <1>4. ASSUME NEW i \in DOMAIN log', NEW j \in DOMAIN log', i < j, log'[i].tx = log'[j].tx
        PROVE  log'[i].step < log'[j].step
    <2>1. i \in DOMAIN log
      BY <1>1, <1>4 DEF n
    <2>2. CASE j = n
      BY <1>1, <1>4, <2>1, <2>2
    <2>3. CASE j \in DOMAIN log
      BY <1>1, <1>4, <2>1, <2>3 DEF ChainInv, Growing
    <2> QED BY <1>3, <2>2, <2>3
  <1>5. ASSUME NEW i \in DOMAIN log', NEW j \in DOMAIN log', i < j, log'[i].tx = log'[j].tx,
               \A k \in (i + 1)..(j - 1) : log'[k].tx # log'[i].tx
        PROVE  log'[j].prev = i
    <2>1. i \in DOMAIN log
      BY <1>1, <1>5 DEF n
    <2>2. CASE j = n
      <3>1. i <= e.prev
        BY <1>1, <1>5, <2>1, <2>2
      <3>2. CASE i < e.prev
        <4>1. e.prev \in DOMAIN log /\ log[e.prev].tx = e.tx
          BY <1>1, <1>2, <2>1, <3>2
        <4>2. e.prev \in (i + 1)..(j - 1)
          BY <1>1, <1>2, <2>1, <2>2, <3>2, <4>1 DEF n
        <4> QED BY <1>1, <1>5, <2>2, <4>1, <4>2
      <3> QED BY <1>1, <1>2, <2>1, <2>2, <3>1, <3>2
    <2>3. CASE j \in DOMAIN log
      <3>1. \A k \in (i + 1)..(j - 1) : k \in DOMAIN log
        BY <1>1, <2>1, <2>3
      <3>2. \A k \in (i + 1)..(j - 1) : log[k].tx # log[i].tx
        BY <1>1, <1>5, <2>1, <3>1
      <3> QED BY <1>1, <1>5, <2>1, <2>3, <3>2 DEF ChainInv, ChainLinear
    <2> QED BY <1>3, <2>2, <2>3
  <1>6. Growing'
    BY <1>4 DEF Growing
  <1>7. ASSUME NEW i \in DOMAIN log', NEW j \in DOMAIN log', i < j, log'[i].tx = log'[j].tx,
               \A k \in (i + 1)..(j - 1) : log'[k].tx # log'[i].tx
        PROVE  log'[j].prev = i /\ log'[i].step < log'[j].step
    BY <1>4, <1>5, <1>7
  <1>8. ChainLinear'
    <2> SUFFICES \A i, j \in DOMAIN log' :
          /\ i < j
          /\ log'[i].tx = log'[j].tx
          /\ \A k \in (i + 1)..(j - 1) : log'[k].tx # log'[i].tx
          => log'[j].prev = i /\ log'[i].step < log'[j].step
      BY DEF ChainLinear
    <2> QED BY <1>7
  <1> QED BY <1>6, <1>8

\* The other processes keep the ends of their own chains.
LEMMA ChainStep ==
  ASSUME CliInv, LogInv, ChainInv, log' = log, NEW p \in Proc,
         \A q \in Proc \ {p} : pc'[q] = pc[q] /\ txn'[q] = txn[q] /\ tail'[q] = tail[q],
         Stamping(p)' => EndsAt(txn'[p], tail'[p])
  PROVE  ChainInv'
  <1>1. (Growing /\ ChainLinear)'
    BY DEF ChainInv, Growing, ChainLinear
  <1>2. ASSUME NEW q \in Proc, Stamping(q)' PROVE EndsAt(txn[q], tail[q])'
    <2>1. CASE q = p
      BY <1>2, <2>1 DEF EndsAt
    <2>2. CASE q # p
      <3>1. Stamping(q)
        BY <1>2, <2>2 DEF Stamping
      <3> QED BY <2>2, <3>1 DEF ChainInv, EndsAt
    <2> QED BY <2>1, <2>2
  <1> QED BY <1>1, <1>2 DEF ChainInv

\* So they do when an entry of another transaction is written.
LEMMA EndsStay ==
  ASSUME LogInv, NEW e \in Stamps, log' = Append(log, e),
         NEW id, NEW t, id # e.tx, EndsAt(id, t)
  PROVE  /\ \A i \in DOMAIN log' : log'[i].tx = id => i <= t.link /\ log'[i].step <= t.step
         /\ t.link > 0 => t.link \in DOMAIN log' /\ log'[t.link].tx = id
  <1> DEFINE n == Len(log) + 1
  <1>1. /\ DOMAIN log = 1..Len(log) /\ Len(log) \in Nat
        /\ DOMAIN log' = 1..n /\ log'[n] = e /\ \A i \in DOMAIN log : log'[i] = log[i]
    BY LogFacts
  <1>2. \A i \in DOMAIN log' : i = n \/ i \in DOMAIN log
    BY <1>1
  <1>3. \A i \in DOMAIN log : i \in DOMAIN log'
    BY <1>1
  <1> HIDE DEF n
  <1>4. \A i \in DOMAIN log' : log'[i].tx = id => i \in DOMAIN log /\ log'[i] = log[i]
    BY <1>1, <1>2
  <1> QED BY <1>1, <1>3, <1>4 DEF EndsAt

LEMMA ChainNext == Alone /\ CliInv /\ LogInv /\ ChainInv /\ [Next]_vars => ChainInv'
  <1> SUFFICES ASSUME Alone, CliInv, LogInv, ChainInv, [Next]_vars PROVE ChainInv'
    OBVIOUS
  <1> USE DEF docs, proc
  <1>1. CASE UNCHANGED vars
    BY <1>1 DEF vars, ChainInv, Growing, ChainLinear, Stamping, EndsAt
  <1>2. ASSUME NEW p \in Proc, NEW id \in Id, Begin(p, id) PROVE ChainInv'
    <2>1. pc' = pc /\ txn' = txn /\ tail' = tail /\ journal[id] = NoDoc
      BY <1>2 DEF Begin
    <2>2. \A i \in DOMAIN log : log[i].tx # id
      BY <2>1, LogFacts
    <2>3. CASE log' = log
      BY <2>1, <2>3 DEF ChainInv, Growing, ChainLinear, Stamping, EndsAt
    <2>4. CASE log' = Append(log, Entry(id, 0, 0))
      <3>1. PICK e \in Stamps : e.tx = id /\ e.prev = 0 /\ log' = Append(log, e)
        BY <2>4 DEF Entry, Stamps
      <3>2. (Growing /\ ChainLinear)'
        BY <2>2, <3>1, ChainGrows
      <3>3. ASSUME NEW q \in Proc, Stamping(q)' PROVE EndsAt(txn[q], tail[q])'
        <4>1. Stamping(q) /\ pc[q] # "idle"
          BY <2>1, <3>3 DEF Stamping
        <4>2. journal[txn[q]] # NoDoc
          BY <4>1, Busy DEF AtWork
        <4>3. txn[q] # id /\ EndsAt(txn[q], tail[q])
          BY <2>1, <4>1, <4>2 DEF ChainInv
        <4> QED BY <2>1, <3>1, <4>3, EndsStay DEF EndsAt
      <3> QED BY <3>2, <3>3 DEF ChainInv
    <2> QED BY <1>2, <2>3, <2>4 DEF Begin
  <1>3. ASSUME NEW p \in Proc,
               \/ \E id \in Id, c \in Command : Open(p, c, id)
               \/ \E r \in Resource, v \in Value : Propose(p, r, v)
               \/ SaveProposal(p) \/ FinishApply(p) \/ FinishRollback(p) \/ Resolve(p)
               \/ Fail(p) \/ SaveFails(p) \/ Reject(p) \/ Crash(p)
        PROVE  ChainInv'
    <2>1. /\ DOMAIN txn = Proc /\ pc \in [Proc -> {"idle", "loaded", "saving", "step", "stamp", "end"}]
          /\ tail \in [Proc -> [link : Nat, step : Nat]]
      BY DEF CliInv, Shape, LogInv
    <2>2. /\ log' = log /\ pc'[p] \notin {"step", "stamp"}
          /\ \A q \in Proc \ {p} : pc'[q] = pc[q] /\ txn'[q] = txn[q] /\ tail'[q] = tail[q]
      <3>1. CASE log' = log /\ Gone(p)
        BY <2>1, <3>1 DEF Gone
      <3>2. CASE \E id \in Id, c \in Command : Open(p, c, id)
        BY <2>1, <3>2 DEF Open
      <3>3. CASE \E r \in Resource, v \in Value : Propose(p, r, v)
        BY <2>1, <3>3 DEF Propose
      <3> QED
        BY <1>3, <3>1, <3>2, <3>3
           DEF SaveProposal, FinishApply, FinishRollback, Resolve, Fail, SaveFails, Reject,
               Crash
    <2> QED BY <2>2, ChainStep DEF Stamping
  <1>4. ASSUME NEW p \in Proc, StartApply(p) \/ StartRollback(p) PROVE ChainInv'
    <2>1. /\ log' = log /\ txn' = txn /\ tail' = [tail EXCEPT ![p] = ScanTail(txn[p])]
          /\ pc[p] # "idle" /\ tail'[p] = ScanTail(txn[p])
          /\ \A q \in Proc \ {p} : pc'[q] = pc[q] /\ tail'[q] = tail[q]
      BY <1>4 DEF StartApply, StartRollback, ApplyStarts, Started, LogInv, CliInv, Shape
    <2>2. txn[p] \in Id
      BY <2>1, Busy
    <2>3. PICK b \in Nat : \A i \in DOMAIN log : log[i].step <= b
      BY DEF LogInv
    <2> DEFINE t == ScanTail(txn[p])
    <2>4. /\ t \in [link : Nat, step : Nat] /\ t.link <= Len(log)
          /\ t.link = 0 => \A i \in DOMAIN log : log[i].tx # txn[p]
          /\ t.link > 0 => log[t.link].tx = txn[p] /\ log[t.link].step = t.step
          /\ \A i \in DOMAIN log : log[i].tx = txn[p] => log[i].step <= t.step
      BY <2>2, <2>3, ScanTailFacts DEF LogInv
    <2> HIDE DEF t
    <2>5. t.link > 0 => t.link \in DOMAIN log
      BY <2>4, LogFacts
    <2>6. ASSUME NEW i \in DOMAIN log, log[i].tx = txn[p], ~(i <= t.link) PROVE FALSE
      <3>1. t.link > 0 /\ t.link \in DOMAIN log /\ t.link < i
        BY <2>4, <2>5, <2>6, LogFacts
      <3>2. log[t.link].step < log[i].step /\ log[i].step <= log[t.link].step
        BY <2>4, <2>6, <3>1 DEF ChainInv, Growing
      <3> QED BY <3>1, <3>2, LogFacts
    <2>7. EndsAt(txn[p], t)
      BY <2>4, <2>5, <2>6 DEF EndsAt
    <2>8. EndsAt(txn'[p], tail'[p])
      BY <2>1, <2>7 DEF t
    <2> QED BY <2>1, <2>8, ChainStep
  <1>5. ASSUME NEW p \in Proc, ApplyStep(p) \/ UndoStep(p) PROVE ChainInv'
    <2>1. /\ log' = log /\ txn' = txn /\ tail' = tail /\ Stamping(p)
          /\ \A q \in Proc \ {p} : pc'[q] = pc[q]
      BY <1>5 DEF ApplyStep, UndoStep, Stamping, CliInv, Shape
    <2> QED BY <2>1, ChainStep DEF ChainInv
  <1>6. ASSUME NEW p \in Proc, StampStep(p) PROVE ChainInv'
    <2>1. /\ Stamping(p) /\ txn' = txn /\ pc[p] # "idle" /\ txn[p] \in Id
          /\ \A q \in Proc \ {p} : pc'[q] = pc[q]
      BY <1>6, Busy DEF StampStep, Stamping, CliInv, Shape
    <2>2. EndsAt(txn[p], tail[p])
      BY <2>1 DEF ChainInv
    <2>3. tail \in [Proc -> [link : Nat, step : Nat]] /\ tail[p] \in [link : Nat, step : Nat]
          /\ tail[p].step \in Nat /\ tail[p].link \in Nat
      BY DEF LogInv
    <2> DEFINE n == tail[p].step + 1
               m == Len(log) + 1
    <2>4. CASE /\ log' = Append(log, Entry(txn[p], n, tail[p].link))
               /\ tail' = [tail EXCEPT ![p] = [link |-> m, step |-> n]]
      <3> DEFINE entry == Entry(txn[p], n, tail[p].link)
      <3>0. /\ entry \in Stamps /\ entry.tx = txn[p] /\ entry.step = n
            /\ entry.prev = tail[p].link
        BY <2>1, <2>3 DEF Entry, Stamps
      <3>1. PICK e \in Stamps : /\ e.tx = txn[p] /\ e.step = n /\ e.prev = tail[p].link
                                /\ log' = Append(log, e)
        <4> HIDE DEF entry, n
        <4>1. log' = Append(log, entry)
          BY <2>4 DEF entry, n
        <4> QED BY <3>0, <4>1
      <3>2. \A i \in DOMAIN log : log[i].tx = txn[p] => i <= tail[p].link /\ log[i].step < n
        BY <2>2, <2>3, LogFacts DEF EndsAt
      <3>3. Growing' /\ ChainLinear'
        BY <2>2, <3>1, <3>2, ChainGrows DEF EndsAt
      <3>4. /\ DOMAIN log = 1..Len(log) /\ Len(log) \in Nat
            /\ DOMAIN log' = 1..m /\ log'[m] = e /\ \A i \in DOMAIN log : log'[i] = log[i]
        BY <3>1, LogFacts
      <3>5. tail'[p].link = m /\ tail'[p].step = n
        BY <2>3, <2>4
      <3>6. \A i \in DOMAIN log' : i <= m /\ (i = m \/ i \in DOMAIN log)
        BY <3>4
      <3>7. m \in DOMAIN log' /\ log'[m].tx = txn[p] /\ log'[m].step = n /\ n <= n
        BY <2>3, <3>1, <3>4
      <3> HIDE DEF n, m
      <3>8. \A i \in DOMAIN log' : log'[i].tx = txn[p] => i <= m /\ log'[i].step <= n
        <4> TAKE i \in DOMAIN log'
        <4>1. CASE i = m
          BY <3>6, <3>7, <4>1
        <4>2. CASE i \in DOMAIN log
          <5>1. log'[i] = log[i] /\ log[i].step \in Nat /\ n \in Nat
            BY <2>3, <3>4, <4>2, LogFacts DEF n
          <5> QED BY <3>2, <3>6, <4>2, <5>1
        <4> QED BY <3>6, <4>1, <4>2
      <3>9. EndsAt(txn[p], tail[p])'
        BY <2>1, <3>5, <3>7, <3>8 DEF EndsAt
      <3>10. ASSUME NEW q \in Proc \ {p}, Stamping(q)' PROVE EndsAt(txn[q], tail[q])'
        <4>1. Stamping(q) /\ tail'[q] = tail[q]
          BY <2>1, <2>3, <2>4, <3>10 DEF Stamping
        <4>2. txn[q] # txn[p] /\ EndsAt(txn[q], tail[q])
          BY <2>1, <4>1 DEF Alone, ChainInv
        <4> QED BY <2>1, <3>1, <4>1, <4>2, EndsStay DEF EndsAt
      <3> QED BY <3>3, <3>9, <3>10 DEF ChainInv
    <2>5. CASE log' = log /\ tail' = [tail EXCEPT ![p].step = n]
      <3>1. tail'[p].link = tail[p].link /\ tail'[p].step = n
        BY <2>3, <2>5
      <3>2. EndsAt(txn'[p], tail'[p])
        BY <2>1, <2>2, <2>3, <2>5, <3>1, LogFacts DEF EndsAt
      <3>3. \A q \in Proc \ {p} : tail'[q] = tail[q]
        BY <2>3, <2>5
      <3> QED BY <2>1, <2>5, <3>2, <3>3, ChainStep
    <2> QED BY <1>6, <2>4, <2>5 DEF StampStep, Stamp
  <1> QED BY <1>1, <1>2, <1>3, <1>4, <1>5, <1>6 DEF Next, Run, Work

\* While no two commands stamp the same transaction at once, its stamps form a
\* chain: each follows the one before and has a larger step, whatever is lost, cut
\* off or started again, and whatever is stamped meanwhile for other transactions
\* (stamp.go, scanTxTail).
THEOREM ChainIsLinear == Spec /\ []Alone => []ChainLinear
  <1>1. Init => ChainInv
    BY DEF Init, ChainInv, Growing, ChainLinear, Stamping
  <1>2. ChainInv => ChainLinear
    BY DEF ChainInv
  <1> QED BY <1>1, <1>2, ChainNext, CliInvariance, LogInvariance, PTL DEF Spec

\* In particular as long as commands are run one at a time.
COROLLARY ChainOfOne ==
  ASSUME \A p, q \in Proc : p = q
  PROVE  Spec => []ChainLinear
  <1>1. Alone
    BY DEF Alone
  <1> QED BY <1>1, ChainIsLinear, PTL
----------------------------------------------------------------------------
(* What a rollback puts back, while the transactions write different        *)
(* resources and no undo fails: own says which transaction a resource       *)
(* belongs to, w is the value each resource had in the beginning.           *)

\* Every step a process holds is on a resource of its transaction.
Apart(own) ==
    \A p \in Proc : pc[p] # "idle" =>
        \A k \in DOMAIN mem[p].steps : own[mem[p].steps[k].target] = txn[p]

\* The snapshots of the steps are those of the beginning.
Fits(steps, id, own, w) ==
    \A k \in DOMAIN steps :
        own[steps[k].target] = id /\ steps[k].before \in {w[steps[k].target], NoSnapshot}

Restored(id, own, w) ==
    /\ Fits(journal[id].steps, id, own, w)
    /\ ~Closed(id) => \A r \in Resource : own[r] = id => world[r] = w[r]
    /\ journal[id].status = "rolled_back" =>
          \A i \in DOMAIN journal[id].plan :
              world[journal[id].plan[i].target] = w[journal[id].plan[i].target]

\* The steps a rollback has undone so far.
Undone(p) == IF pc[p] = "stamp" THEN pos[p] ELSE pos[p] - 1

Undoing(p, own, w) ==
    /\ Fits(mem[p].steps, txn[p], own, w) \/ (pc[p] = "saving" /\ Closed(txn[p]))
    /\ Applying(p) => \A k \in DOMAIN todo[p] : own[todo[p][k].target] = txn[p]
    /\ cmd[p] = "rollback" /\ pc[p] \in {"step", "stamp"} /\ base[p].status = "applied" =>
          \A i \in DOMAIN todo[p] :
              i <= Undone(p) => world[todo[p][i].target] = w[todo[p][i].target]

RestoreInv(own, w) ==
    /\ \A id \in Id : Restored(id, own, w)
    /\ \A p \in Proc : pc[p] # "idle" => Undoing(p, own, w)

LEMMA UndoneSteps ==
  ASSUME NEW q, NEW steps, Undoes(q, steps)
  PROVE  \A i \in DOMAIN q : /\ q[i].target \in Resource /\ q[i].before \in Value
                            /\ \E k \in DOMAIN steps : q[i] = steps[k]
  <1>1. \A i \in DOMAIN q : q[i] \in Step
    BY Listed DEF Undoes
  <1> QED BY <1>1 DEF Undoes, Step

LEMMA RolledBackPlan ==
  ASSUME CliInv, NEW id \in Id, journal[id].status = "rolled_back"
  PROVE  \A k \in DOMAIN journal[id].plan :
            /\ journal[id].plan[k].target \in Resource
            /\ \E j \in DOMAIN journal[id].steps : journal[id].plan[k] = journal[id].steps[j]
  <1>1. DocOK(journal[id])
    BY StatusOfDoc DEF CliInv, Shape, Status
  <1>2. Undoes(journal[id].plan, journal[id].steps)
    BY <1>1, DocType, PlanUndoes
  <1> QED BY <1>2, UndoneSteps

\* A step of p on transaction id that brings resources nearer to the beginning,
\* or leaves them alone.
LEMMA RestoreStep ==
  ASSUME CliInv, NEW own, NEW w, RestoreInv(own, w), NEW p \in Proc, NEW id \in Id,
         \A q \in Proc \ {p} : Still(q),
         \A i \in Id \ {id} : journal'[i] = journal[i],
         \A r \in Resource : world'[r] \in {world[r], w[r]},
         Closed(id) => Closed(id)', Restored(id, own, w)', pc'[p] # "idle" => Undoing(p, own, w)'
  PROVE  RestoreInv(own, w)'
  <1>1. ASSUME NEW i \in Id \ {id} PROVE Restored(i, own, w)'
    <2>1. Restored(i, own, w) /\ journal'[i] = journal[i]
      BY DEF RestoreInv
    <2> QED BY <2>1, RolledBackPlan DEF Restored, Closed
  <1>2. ASSUME NEW q \in Proc \ {p}, pc'[q] # "idle" PROVE Undoing(q, own, w)'
    <2>1. Still(q) /\ pc[q] # "idle" /\ Undoing(q, own, w) /\ txn[q] \in Id /\ AtWork(q)
      BY <1>2, Busy DEF Still, RestoreInv
    <2>2. Closed(txn[q]) => Closed(txn[q])'
      <3>1. CASE txn[q] = id
        BY <2>1, <3>1 DEF Closed, Still
      <3>2. CASE txn[q] # id
        BY <2>1, <3>2 DEF Closed, Still
      <3> QED BY <3>1, <3>2
    <2>3. cmd[q] = "rollback" /\ pc[q] \in {"step", "stamp"} =>
             \A i \in DOMAIN todo[q] : todo[q][i].target \in Resource
      BY <2>1, RollbackUndoes, UndoneSteps DEF AtWork
    <2> QED BY <2>1, <2>2, <2>3 DEF Undoing, Still, Applying, Undone
  <1> QED BY <1>1, <1>2 DEF RestoreInv

\* What a process saves has the steps it holds; rolled_back is saved after the
\* last step of the plan.
LEMMA IntentSteps ==
  ASSUME CliInv, NEW p \in Proc, AtSave(p)
  PROVE  /\ Intent(p).steps = mem[p].steps
         /\ pc[p] = "saving" => Intent(p).status = "proposed"
         /\ Intent(p).status = "rolled_back" =>
               /\ cmd[p] = "rollback" /\ pc[p] = "step" /\ pos[p] > Len(todo[p])
               /\ base[p].status = "applied" /\ todo[p] = base[p].plan
               /\ Intent(p).plan = base[p].plan
  <1>1. pc[p] # "idle" /\ AtWork(p) /\ DocOK(mem[p])
    BY AtSaveFacts DEF AtWork
  <1>2. ASSUME NEW to \in Status, Intent(p) = Marked(mem[p], to)
        PROVE  /\ Intent(p).steps = mem[p].steps /\ Intent(p).status = to
               /\ to # "applied" => Intent(p).plan = mem[p].plan
    BY <1>1, <1>2, MarkedFields
  <1>3. CASE pc[p] = "saving"
    <2>1. Intent(p) = mem[p]
      BY <1>3 DEF Intent, ApplyStarts, ApplyEnds, RollbackEnds, Resolves
    <2> QED BY <1>1, <1>3, <2>1 DEF AtWork
  <1>4. CASE ApplyStarts(p)
    <2>1. Intent(p) = Marked(mem[p], "applying") /\ pc[p] # "saving"
      BY <1>4 DEF Intent, ApplyStarts, ApplyEnds, RollbackEnds, Resolves
    <2> QED BY <1>2, <2>1 DEF Status
  <1>5. CASE ApplyEnds(p)
    <2>1. Intent(p) = Marked(mem[p], Verdict(p)) /\ pc[p] # "saving"
      BY <1>5 DEF Intent, ApplyStarts, ApplyEnds, RollbackEnds, Resolves
    <2>2. Verdict(p) \in Status /\ Verdict(p) # "rolled_back"
      BY DEF Verdict, Status
    <2> QED BY <1>2, <2>1, <2>2
  <1>6. CASE RollbackEnds(p) /\ mem[p].status = "applied"
    <2>1. Intent(p) = Marked(mem[p], "rolled_back") /\ pc[p] = "step" /\ cmd[p] = "rollback"
          /\ pos[p] > Len(todo[p])
      BY <1>6 DEF Intent, ApplyStarts, ApplyEnds, RollbackEnds, Resolves
    <2>2. mem[p] = base[p] /\ todo[p] = RollbackSteps(base[p])
      BY <1>1, <2>1 DEF AtWork
    <2> QED BY <1>2, <1>6, <2>1, <2>2 DEF Status, RollbackSteps
  <1>7. CASE Resolves(p)
    <2>1. Intent(p) = Marked(mem[p], "failed") /\ pc[p] # "saving"
      BY <1>7 DEF Intent, ApplyStarts, ApplyEnds, RollbackEnds, Resolves
    <2> QED BY <1>2, <2>1 DEF Status
  <1> QED BY <1>3, <1>4, <1>5, <1>6, <1>7 DEF AtSave

LEMMA SavedBack ==
  ASSUME CliInv, NEW own, NEW w, RestoreInv(own, w), NEW p \in Proc, AtSave(p),
         NEW id \in Id, id = txn[p],
         NEW doc \in {base[p], Intent(p), Garbled}, Save(p, doc), world' = world
  PROVE  /\ Restored(id, own, w)'
         /\ Closed(id) => Closed(id)'
         /\ \A i \in Id \ {id} : journal'[i] = journal[i]
  <1>1. id = txn[p]
    OBVIOUS
  <1>2. /\ AtWork(p) /\ journal[id] = base[p] /\ journal' = [journal EXCEPT ![id] = doc]
        /\ journal'[id] = doc /\ \A i \in Id \ {id} : journal'[i] = journal[i]
        /\ pc[p] # "idle" /\ Undoing(p, own, w) /\ Restored(id, own, w)
    BY <1>1, AtSaveFacts DEF Save, Unchanged, CliInv, Shape, RestoreInv
  <1>3. CASE doc = base[p]
    <2>1. Restored(id, own, w)' /\ (Closed(id) => Closed(id)')
      BY <1>2, <1>3 DEF Restored, Closed
    <2> QED BY <1>2, <2>1
  <1>4. CASE doc = Garbled
    <2>1. Restored(id, own, w)' /\ Closed(id)'
      BY <1>2, <1>4, BareDocs DEF Restored, Closed, Fits
    <2> QED BY <1>2, <2>1
  <1>5. CASE doc = Intent(p)
    <2>1. /\ DocOK(doc) /\ doc.steps = mem[p].steps
          /\ doc.status = "proposed" <=> base[p].status = "proposed" /\ pc[p] = "saving"
      BY <1>2, <1>5, IntentFacts, IntentSteps
    <2>2. doc.status # "none" /\ base[p].status \in Status
      BY <1>2, <2>1, DocType DEF Status, AtWork
    <2>3. Closed(id) => Closed(id)'
      BY <1>2, <2>1, <2>2 DEF Closed
    <2>4. Fits(doc.steps, id, own, w)
      <3>1. CASE pc[p] = "saving"
        <4>1. ~Closed(id)
          BY <1>2, <3>1 DEF AtWork, Closed
        <4> QED BY <1>1, <1>2, <2>1, <4>1 DEF Undoing
      <3>2. CASE pc[p] # "saving"
        BY <1>1, <1>2, <2>1, <3>2 DEF Undoing
      <3> QED BY <3>1, <3>2
    <2>5. ~Closed(id)' => ~Closed(id)
      BY <2>3
    <2>6. doc.status = "rolled_back" =>
             \A i \in DOMAIN doc.plan : world[doc.plan[i].target] = w[doc.plan[i].target]
      <3> SUFFICES ASSUME doc.status = "rolled_back", NEW i \in DOMAIN doc.plan
                   PROVE  world[doc.plan[i].target] = w[doc.plan[i].target]
        OBVIOUS
      <3>1. /\ cmd[p] = "rollback" /\ pc[p] = "step" /\ pos[p] > Len(todo[p])
            /\ base[p].status = "applied" /\ todo[p] = doc.plan
        BY <1>5, IntentSteps
      <3>2. doc.plan \in Seq(Step) /\ pos[p] \in Nat
        BY <1>2, <2>1, DocType, PlanUndoes, Busy DEF Undoes
      <3>3. i <= pos[p] - 1
        BY <3>1, <3>2
      <3> QED BY <1>2, <3>1, <3>3 DEF Undoing, Undone
    <2>7. Restored(id, own, w)'
      BY <1>2, <2>4, <2>5, <2>6 DEF Restored
    <2> QED BY <1>2, <2>3, <2>7
  <1> QED BY <1>3, <1>4, <1>5

LEMMA EndsBack ==
  ASSUME CliInv, NEW own, NEW w, RestoreInv(own, w), NEW p \in Proc,
         \/ SaveProposal(p) \/ FinishApply(p) \/ FinishRollback(p) \/ Resolve(p)
         \/ Fail(p) \/ SaveFails(p) \/ Reject(p) \/ Crash(p)
  PROVE  RestoreInv(own, w)'
  <1>1. Gone(p) /\ world' = world
    BY DEF SaveProposal, FinishApply, FinishRollback, Resolve, Fail, SaveFails, Reject, Crash
  <1>2. pc[p] # "idle"
    BY DEF SaveProposal, FinishApply, FinishRollback, Resolve, Fail, SaveFails, Reject, Crash,
           ApplyEnds, RollbackEnds, Resolves, OutOfPlace, AtSave, ApplyStarts
  <1>3. PICK id \in Id : id = txn[p]
    BY <1>2, Busy
  <1>4. CASE UNCHANGED journal
    <2>1. Restored(id, own, w)' /\ (Closed(id) => Closed(id)')
      BY <1>1, <1>4 DEF RestoreInv, Restored, Closed
    <2> QED BY <1>1, <1>4, <2>1, GoneFacts, RestoreStep
  <1>5. CASE AtSave(p) /\ \E doc \in {base[p], Intent(p), Garbled} : Save(p, doc)
    BY <1>1, <1>3, <1>5, SavedBack, GoneFacts, RestoreStep
  <1> QED BY <1>4, <1>5
          DEF SaveProposal, FinishApply, FinishRollback, Resolve, Fail, SaveFails, Reject,
              Crash, AtSave, docs

\* The steps that leave world alone and whose process goes on.
LEMMA QuietBack ==
  ASSUME CliInv, NEW own, NEW w, RestoreInv(own, w), NEW p \in Proc, NEW id \in Id,
         \A q \in Proc \ {p} : Still(q), UNCHANGED <<journal, world>>,
         pc'[p] # "idle" => Undoing(p, own, w)'
  PROVE  RestoreInv(own, w)'
  <1>1. Restored(id, own, w)' /\ (Closed(id) => Closed(id)')
    BY DEF RestoreInv, Restored, Closed
  <1> QED BY <1>1, RestoreStep

LEMMA BeginBack ==
  ASSUME CliInv, NEW own, NEW w, RestoreInv(own, w), NEW p \in Proc, NEW id \in Id,
         Begin(p, id)
  PROVE  RestoreInv(own, w)'
  <1>1. /\ journal[id] = NoDoc /\ journal' = [journal EXCEPT ![id] = NewDoc]
        /\ journal'[id] = NewDoc /\ world' = world
        /\ pc[p] = "idle" /\ pc'[p] = "idle" /\ \A q \in Proc \ {p} : Still(q)
    BY DEF Begin, proc, CliInv, Shape, Still
  <1>2. Restored(id, own, w)' /\ ~Closed(id)
    BY <1>1, BareDocs DEF RestoreInv, Restored, Closed, Fits
  <1> QED BY <1>1, <1>2, RestoreStep

LEMMA OpenBack ==
  ASSUME CliInv, NEW own, NEW w, RestoreInv(own, w), NEW p \in Proc, NEW id \in Id,
         NEW c \in Command, Open(p, c, id)
  PROVE  RestoreInv(own, w)'
  <1>1. /\ pc'[p] = "loaded" /\ txn'[p] = id /\ mem'[p] = journal[id]
        /\ UNCHANGED <<journal, world>> /\ \A q \in Proc \ {p} : Still(q)
    BY DEF Open, docs, CliInv, Shape, Still
  <1>2. Undoing(p, own, w)'
    BY <1>1 DEF Undoing, RestoreInv, Restored, Applying
  <1> QED BY <1>1, <1>2, QuietBack

\* The snapshot of a new step is the value of the beginning as long as the
\* transaction is open; a proposal to a transaction no longer open is not saved.
LEMMA ProposeBack ==
  ASSUME CliInv, NEW own, NEW w, RestoreInv(own, w), Apart(own)', NEW p \in Proc,
         NEW r \in Resource, NEW v \in Value, Propose(p, r, v)
  PROVE  RestoreInv(own, w)'
  <1>1. PICK id \in Id : id = txn[p]
    BY Busy DEF Propose
  <1> DEFINE before == IF r \in Silent THEN NoSnapshot ELSE world[r]
             s == [target |-> r, before |-> before, after |-> v, failed |-> FALSE]
  <1>2. /\ pc[p] = "loaded" /\ pc'[p] = "saving" /\ cmd'[p] = "propose"
        /\ mem'[p] = Appended(mem[p], s) /\ txn'[p] = id
        /\ UNCHANGED <<journal, world>> /\ \A q \in Proc \ {p} : Still(q)
        /\ cmd[p] = "propose"
    BY <1>1 DEF Propose, docs, CliInv, Shape, Still
  <1>3. DocOK(mem[p]) /\ mem[p].steps \in Seq(Step)
    BY <1>2, Busy
  <1>4. s \in NewStep
    BY DEF CliInv, Shape, NewStep, Step
  <1>5. s.target = r /\ s.before = before
    OBVIOUS
  <1> HIDE DEF s
  <1>6. mem'[p].steps = Append(mem[p].steps, s)
    BY <1>2, <1>3, <1>4, AppendedFields
  <1> DEFINE n == Len(mem[p].steps) + 1
  <1>7. /\ n \in DOMAIN mem'[p].steps /\ mem'[p].steps[n] = s
        /\ \A k \in DOMAIN mem'[p].steps :
              k = n \/ (k \in DOMAIN mem[p].steps /\ mem'[p].steps[k] = mem[p].steps[k])
    <2>1. s \in Step
      BY <1>4 DEF NewStep
    <2> QED BY <1>3, <1>6, <2>1
  <1> HIDE DEF n
  <1>8. own[r] = id
    BY <1>2, <1>5, <1>7 DEF Apart
  <1>9. CASE ~Closed(id)
    <2>1. world[r] = w[r]
      BY <1>8, <1>9 DEF RestoreInv, Restored
    <2>2. Fits(mem[p].steps, id, own, w)
      BY <1>1, <1>2 DEF RestoreInv, Undoing
    <2>3. before \in {w[r], NoSnapshot}
      BY <2>1
    <2> HIDE DEF before
    <2>4. Fits(mem'[p].steps, id, own, w)
      <3> SUFFICES ASSUME NEW k \in DOMAIN mem'[p].steps
                   PROVE  /\ own[mem'[p].steps[k].target] = id
                          /\ mem'[p].steps[k].before \in {w[mem'[p].steps[k].target], NoSnapshot}
        BY DEF Fits
      <3>1. CASE k = n
        BY <1>5, <1>7, <1>8, <2>3, <3>1
      <3>2. CASE k # n
        BY <1>7, <2>2, <3>2 DEF Fits
      <3> QED BY <3>1, <3>2
    <2>5. Undoing(p, own, w)'
      BY <1>2, <2>4 DEF Undoing, Applying
    <2> QED BY <1>2, <2>5, QuietBack
  <1>10. CASE Closed(id)
    <2>1. Undoing(p, own, w)'
      BY <1>2, <1>10 DEF Undoing, Applying, Closed
    <2> QED BY <1>2, <2>1, QuietBack
  <1> QED BY <1>9, <1>10

LEMMA StartApplyBack ==
  ASSUME CliInv, NEW own, NEW w, RestoreInv(own, w), NEW p \in Proc, StartApply(p)
  PROVE  RestoreInv(own, w)'
  <1>1. AtSave(p) /\ Save(p, Intent(p)) /\ world' = world /\ pc[p] = "loaded"
    BY DEF StartApply, Started, AtSave, ApplyStarts
  <1>2. PICK id \in Id : id = txn[p]
    BY <1>1, AtSaveFacts
  <1>3. /\ pc'[p] = "step" /\ cmd'[p] = "apply" /\ txn'[p] = id
        /\ mem'[p] = Intent(p) /\ todo'[p] = mem[p].steps
        /\ \A q \in Proc \ {p} : Still(q)
    BY <1>2 DEF StartApply, Started, ApplyStarts, CliInv, Shape, Still
  <1>4. Fits(mem[p].steps, id, own, w)
    BY <1>1, <1>2 DEF RestoreInv, Undoing
  <1>5. Undoing(p, own, w)'
    BY <1>1, <1>3, <1>4, IntentSteps DEF Undoing, Fits
  <1>6. /\ Restored(id, own, w)'
        /\ Closed(id) => Closed(id)'
        /\ \A i \in Id \ {id} : journal'[i] = journal[i]
    BY <1>1, <1>2, SavedBack
  <1>7. \A r \in Resource : world'[r] \in {world[r], w[r]}
    BY <1>1
  <1> QED BY <1>3, <1>5, <1>6, <1>7, RestoreStep

LEMMA StartRollbackBack ==
  ASSUME CliInv, NEW own, NEW w, RestoreInv(own, w), NEW p \in Proc, StartRollback(p)
  PROVE  RestoreInv(own, w)'
  <1>1. pc[p] = "loaded" /\ cmd[p] = "rollback"
    BY DEF StartRollback
  <1>2. PICK id \in Id : id = txn[p]
    BY <1>1, Busy
  <1>3. /\ pc'[p] = "step" /\ cmd'[p] = "rollback" /\ txn'[p] = txn[p] /\ mem'[p] = mem[p]
        /\ pos'[p] = 1 /\ todo'[p] = Plan(mem[p]) /\ base'[p] = base[p]
        /\ UNCHANGED <<journal, world>> /\ \A q \in Proc \ {p} : Still(q)
    BY <1>1, Busy DEF StartRollback, AtWork, docs, CliInv, Shape, Still
  <1>4. \A i \in DOMAIN todo'[p] : ~(i <= 0)
    <2>1. DocOK(mem[p])
      BY <1>1, Busy
    <2>2. todo'[p] \in Seq(Step)
      BY <1>3, <2>1, RollbackUndoes DEF Undoes, Plan
    <2> QED BY <2>2, Listed
  <1>5. Undoing(p, own, w)'
    BY <1>1, <1>2, <1>3, <1>4 DEF RestoreInv, Undoing, Applying, Undone
  <1> QED BY <1>2, <1>3, <1>5, QuietBack

LEMMA StampStepBack ==
  ASSUME CliInv, NEW own, NEW w, RestoreInv(own, w), NEW p \in Proc, StampStep(p)
  PROVE  RestoreInv(own, w)'
  <1>1. pc[p] = "stamp"
    BY DEF StampStep
  <1>2. PICK id \in Id : id = txn[p]
    BY <1>1, Busy
  <1>3. /\ pc'[p] \in {"step", "end"} /\ cmd'[p] = cmd[p] /\ txn'[p] = txn[p]
        /\ mem'[p] = mem[p] /\ pos'[p] = pos[p] + 1 /\ todo'[p] = todo[p]
        /\ base'[p] = base[p]
        /\ UNCHANGED <<journal, world>> /\ \A q \in Proc \ {p} : Still(q)
    BY DEF StampStep, docs, CliInv, Shape, Still
  <1>4. Undone(p)' = Undone(p) \/ pc'[p] = "end"
    <2>1. pos[p] \in Nat
      BY <1>1, Busy
    <2> QED BY <1>1, <1>3, <2>1 DEF Undone
  <1>5. Undoing(p, own, w)'
    <2>1. Undoing(p, own, w)
      BY <1>1 DEF RestoreInv
    <2> QED BY <1>1, <1>3, <1>4, <2>1 DEF Undoing, Applying
  <1> QED BY <1>2, <1>3, <1>5, QuietBack

\* An undo that does not fail puts the value of the beginning back.
LEMMA UndoStepBack ==
  ASSUME CliInv, NEW own, NEW w, RestoreInv(own, w), "undo" \notin Faults, NEW p \in Proc,
         UndoStep(p)
  PROVE  RestoreInv(own, w)'
  <1>1. pc[p] = "step" /\ cmd[p] = "rollback" /\ pos[p] <= Len(todo[p])
    BY DEF UndoStep
  <1>2. PICK id \in Id : id = txn[p]
    BY <1>1, Busy
  <1> DEFINE s == todo[p][pos[p]]
  <1>3. /\ pc'[p] = "stamp" /\ \A q \in Proc \ {p} : Still(q)
        /\ UNCHANGED <<journal, cmd, txn, mem, base, todo, pos>>
        /\ world' = [world EXCEPT ![s.target] = s.before]
    BY DEF UndoStep, docs, proc, CliInv, Shape, Still
  <1>4. /\ AtWork(p) /\ DocOK(base[p]) /\ mem[p] = base[p] /\ todo[p] = RollbackSteps(base[p])
        /\ pos[p] \in Nat \ {0} /\ Undoing(p, own, w)
    BY <1>1, Busy DEF AtWork, RestoreInv
  <1>5. Undoes(todo[p], base[p].steps) /\ todo[p] \in Seq(Step)
    BY <1>4, RollbackUndoes DEF Undoes
  <1>6. pos[p] \in DOMAIN todo[p]
    BY <1>1, <1>4, <1>5
  <1>7. s.target \in Resource /\ s.before \in Value /\ s.before = w[s.target]
    <2>1. s.target \in Resource /\ s.before \in Value
          /\ \E k \in DOMAIN base[p].steps : s = base[p].steps[k]
      BY <1>5, <1>6, UndoneSteps
    <2> QED BY <1>1, <1>4, <2>1 DEF Undoing, Fits
  <1> HIDE DEF s
  <1>8. /\ \A r \in Resource : world'[r] \in {world[r], w[r]}
        /\ world'[s.target] = w[s.target]
    BY <1>3, <1>7 DEF CliInv, Shape
  <1>9. Restored(id, own, w)' /\ (Closed(id) => Closed(id)')
    <2>1. Restored(id, own, w) /\ journal'[id] = journal[id]
      BY <1>3 DEF RestoreInv
    <2> QED BY <1>8, <2>1, RolledBackPlan DEF Restored, Closed
  <1>10. Undoing(p, own, w)'
    <2>1. ASSUME base[p].status = "applied", NEW i \in DOMAIN todo[p], i <= pos[p]
          PROVE  world'[todo[p][i].target] = w[todo[p][i].target]
      <3>1. CASE i = pos[p]
        BY <1>8, <3>1 DEF s
      <3>2. CASE i # pos[p]
        <4>1. i <= pos[p] - 1
          BY <1>4, <1>5, <2>1, <3>2
        <4>2. world[todo[p][i].target] = w[todo[p][i].target]
          BY <1>1, <1>4, <2>1, <4>1 DEF Undoing, Undone
        <4>3. todo[p][i].target \in Resource
          BY <1>5, UndoneSteps
        <4> QED BY <1>8, <4>2, <4>3
      <3> QED BY <3>1, <3>2
    <2> QED BY <1>1, <1>3, <1>4, <2>1 DEF Undoing, Applying, Undone
  <1> QED BY <1>3, <1>8, <1>9, <1>10, RestoreStep

\* A forward step writes a resource of a transaction that has no verdict yet, and
\* that no rollback of a verdict is at work on.
LEMMA ApplyStepBack ==
  ASSUME CliInv, NEW own, NEW w, RestoreInv(own, w), NEW p \in Proc, ApplyStep(p)
  PROVE  RestoreInv(own, w)'
  <1>1. pc[p] = "step" /\ cmd[p] = "apply" /\ pos[p] <= Len(todo[p]) /\ Applying(p)
    BY DEF ApplyStep, Applying
  <1>2. PICK id \in Id : id = txn[p]
    BY <1>1, Busy
  <1> DEFINE s == todo[p][pos[p]]
  <1>3. /\ pc'[p] = "stamp" /\ \A q \in Proc \ {p} : Still(q)
        /\ UNCHANGED <<journal, cmd, txn, base, todo, pos>>
        /\ mem'[p] = mem[p] \/ mem'[p] = WithFailure(mem[p], pos[p])
        /\ world' = world \/ world' = [world EXCEPT ![s.target] = s.after]
    BY DEF ApplyStep, docs, CliInv, Shape, Still
  <1>4. /\ Progress(p) /\ DocOK(mem[p]) /\ pos[p] \in Nat \ {0} /\ Undoing(p, own, w)
        /\ mem[p].steps \in Seq(Step)
        /\ base[p].status # "proposed" => Closed(id)
    BY <1>1, <1>2, Busy DEF AtWork, RestoreInv
  <1>5. /\ todo[p] \in Seq(Step) /\ pos[p] \in DOMAIN todo[p] /\ pos[p] \in DOMAIN mem[p].steps
        /\ mem[p].status = "applying" /\ Closed(id)
    BY <1>1, <1>4 DEF Progress
  <1>6. own[s.target] = id
    BY <1>1, <1>2, <1>4, <1>5 DEF Undoing
  <1> HIDE DEF s
  <1>7. \A r \in Resource : own[r] # id => world'[r] = world[r]
    BY <1>3, <1>6 DEF CliInv, Shape
  <1>8. Fits(mem'[p].steps, id, own, w)
    <2>1. Fits(mem[p].steps, id, own, w)
      BY <1>1, <1>2, <1>4 DEF Undoing
    <2>2. CASE mem'[p] = WithFailure(mem[p], pos[p])
      <3>1. /\ DOMAIN mem'[p].steps = DOMAIN mem[p].steps
            /\ \A j \in DOMAIN mem[p].steps : mem'[p].steps[j] =
                  [mem[p].steps[j] EXCEPT !.failed = mem'[p].steps[j].failed]
        <4>1. DocOK(mem[p]) /\ mem[p].status = "applying" /\ pos[p] \in DOMAIN mem[p].steps
          BY <1>4, <1>5
        <4>2. OnlyFails(WithFailure(mem[p], pos[p]), mem[p])
          BY <4>1, WithFailureKeeps, Zenon
        <4>3. OnlyFails(mem'[p], mem[p])
          BY <2>2, <4>2, Zenon
        <4> QED BY <4>3, Zenon DEF OnlyFails
      <3>2. \A j \in DOMAIN mem[p].steps : mem[p].steps[j] \in Step
        BY <1>4, Listed
      <3>3. \A j \in DOMAIN mem[p].steps : /\ mem'[p].steps[j].target = mem[p].steps[j].target
                                           /\ mem'[p].steps[j].before = mem[p].steps[j].before
        <4> TAKE j \in DOMAIN mem[p].steps
        <4>1. PICK f : mem'[p].steps[j] = [mem[p].steps[j] EXCEPT !.failed = f]
          BY <3>1
        <4> QED BY <3>2, <4>1 DEF Step
      <3> QED BY <2>1, <3>1, <3>3 DEF Fits
    <2> QED BY <1>3, <2>1, <2>2
  <1>9. Undoing(p, own, w)'
    BY <1>1, <1>2, <1>3, <1>4, <1>8 DEF Undoing, Applying
  <1>10. ASSUME NEW q \in Proc \ {p}, pc'[q] # "idle" PROVE Undoing(q, own, w)'
    <2>1. Still(q) /\ pc[q] # "idle" /\ Undoing(q, own, w) /\ txn[q] \in Id /\ AtWork(q)
      BY <1>3, <1>10, Busy DEF Still, RestoreInv
    <2>2. Closed(txn[q]) => Closed(txn[q])'
      BY <1>3, <2>1 DEF Closed
    <2>3. ASSUME cmd[q] = "rollback", pc[q] \in {"step", "stamp"}, base[q].status = "applied"
          PROVE  \A i \in DOMAIN todo[q] :
                    i <= Undone(q) => world'[todo[q][i].target] = w[todo[q][i].target]
      <3>1. txn[q] # id
        BY <1>1, <1>2, <2>1, <2>3 DEF AtWork, Over, NoApplier
      <3>2. /\ Undoes(todo[q], base[q].steps) /\ mem[q] = base[q]
            /\ Fits(base[q].steps, txn[q], own, w)
        BY <2>1, <2>3, RollbackUndoes DEF AtWork, Undoing
      <3>3. \A i \in DOMAIN todo[q] : todo[q][i].target \in Resource /\ own[todo[q][i].target] = txn[q]
        BY <3>2, UndoneSteps DEF Fits
      <3> QED BY <1>7, <2>1, <2>3, <3>1, <3>3 DEF Undoing
    <2> QED BY <2>1, <2>2, <2>3 DEF Undoing, Still, Applying, Undone
  <1>11. ASSUME NEW i \in Id PROVE Restored(i, own, w)'
    <2>1. Restored(i, own, w) /\ journal'[i] = journal[i]
      BY <1>3 DEF RestoreInv
    <2>2. CASE i = id
      <3>1. journal[i].status # "rolled_back"
        <4>1. Over(journal[i]) => NoApplier(i)
          BY DEF CliInv, Journaled
        <4> QED BY <1>1, <1>2, <2>2, <4>1 DEF Over, NoApplier
      <3> QED BY <1>5, <2>1, <2>2, <3>1 DEF Restored, Closed
    <2>3. CASE i # id
      <3>1. ~Closed(i) => \A r \in Resource : own[r] = i => world'[r] = w[r]
        BY <1>7, <2>1, <2>3 DEF Restored
      <3>2. journal[i].status = "rolled_back" =>
               \A k \in DOMAIN journal[i].plan :
                  world'[journal[i].plan[k].target] = w[journal[i].plan[k].target]
        BY <1>7, <2>1, <2>3, RolledBackPlan DEF Restored, Fits
      <3> QED BY <2>1, <3>1, <3>2 DEF Restored, Closed
    <2> QED BY <2>2, <2>3
  <1> QED BY <1>9, <1>10, <1>11 DEF RestoreInv

Restorable(own) == \E w \in [Resource -> Value] : RestoreInv(own, w)

LEMMA RestoreInit == ASSUME NEW own PROVE Init => Restorable(own)
  <1> SUFFICES ASSUME Init PROVE RestoreInv(own, world)
    BY DEF Init, Restorable
  <1> QED BY BareDocs DEF Init, RestoreInv, Restored, Fits

LEMMA RestoreNext ==
  ASSUME NEW own, "undo" \notin Faults
  PROVE  CliInv /\ Restorable(own) /\ Apart(own)' /\ [Next]_vars => Restorable(own)'
  <1> SUFFICES ASSUME CliInv, Apart(own)', [Next]_vars, NEW w \in [Resource -> Value],
                      RestoreInv(own, w)
               PROVE  RestoreInv(own, w)'
    BY DEF Restorable
  <1>1. CASE UNCHANGED vars
    BY <1>1 DEF vars, docs, proc, RestoreInv, Restored, Undoing, Closed, Applying, Undone
  <1>2. ASSUME NEW p \in Proc, NEW id \in Id, Begin(p, id) PROVE RestoreInv(own, w)'
    BY <1>2, BeginBack
  <1>3. ASSUME NEW p \in Proc, NEW id \in Id, NEW c \in Command, Open(p, c, id)
        PROVE  RestoreInv(own, w)'
    BY <1>3, OpenBack
  <1>4. ASSUME NEW p \in Proc, Run(p) PROVE RestoreInv(own, w)'
    BY <1>4, ProposeBack, StartApplyBack, ApplyStepBack, StampStepBack, StartRollbackBack,
       UndoStepBack, EndsBack DEF Run, Work
  <1>5. ASSUME NEW p \in Proc, Crash(p) PROVE RestoreInv(own, w)'
    BY <1>5, EndsBack
  <1> QED BY <1>1, <1>2, <1>3, <1>4, <1>5 DEF Next

LEMMA RestoreFacts ==
  ASSUME NEW own
  PROVE  CliInv /\ Restorable(own) => RolledBackRestores
  <1> SUFFICES ASSUME CliInv, NEW w, RestoreInv(own, w), NEW id \in Id,
                      journal[id].status = "rolled_back", NEW i \in DOMAIN journal[id].plan
               PROVE  world[journal[id].plan[i].target] = journal[id].plan[i].before
    BY DEF Restorable, RolledBackRestores
  <1>1. DocOK(journal[id])
    BY StatusOfDoc DEF CliInv, Shape, Status
  <1>2. Undoes(journal[id].plan, journal[id].steps)
    BY <1>1, DocType, PlanUndoes
  <1> DEFINE s == journal[id].plan[i]
  <1>3. s.before # NoSnapshot /\ \E k \in DOMAIN journal[id].steps : s = journal[id].steps[k]
    BY <1>2 DEF Undoes
  <1>4. Restored(id, own, w)
    BY DEF RestoreInv
  <1> QED BY <1>3, <1>4 DEF Restored, Fits

\* While the transactions write different resources and the adapters can restore
\* what they reported, a transaction that is rolled back has given every resource
\* its plan names the value of its snapshot, whoever dies, fails to save or runs at
\* the same time (cmdRollback, BuildRollbackPlan).
THEOREM RollbackRestores ==
  ASSUME NEW own, "undo" \notin Faults
  PROVE  Spec /\ []Apart(own) => []RolledBackRestores
  BY RestoreInit, RestoreNext, RestoreFacts, CliInvariance, PTL DEF Spec

\* In particular with one transaction.
COROLLARY OneRestores ==
  ASSUME \A i, j \in Id : i = j, "undo" \notin Faults
  PROVE  Spec => []RolledBackRestores
  <1> DEFINE own == [r \in Resource |-> CHOOSE id : id \in Id]
  <1>1. CliInv => Apart(own)
    <2> SUFFICES ASSUME CliInv, NEW p \in Proc, pc[p] # "idle", NEW k \in DOMAIN mem[p].steps
                 PROVE  own[mem[p].steps[k].target] = txn[p]
      BY DEF Apart
    <2>1. txn[p] \in Id /\ mem[p].steps \in Seq(Step)
      BY Busy
    <2>2. mem[p].steps[k].target \in Resource
      <3>1. mem[p].steps[k] \in Step
        BY <2>1, Listed
      <3> QED BY <3>1 DEF Step
    <2> QED BY <2>1, <2>2
  <1> HIDE DEF own
  <1>2. Init => Restorable(own)
    BY RestoreInit
  <1>3. CliInv /\ Restorable(own) /\ Apart(own)' /\ [Next]_vars => Restorable(own)'
    BY RestoreNext
  <1>4. CliInv /\ Restorable(own) => RolledBackRestores
    BY RestoreFacts
  <1> QED BY <1>1, <1>2, <1>3, <1>4, CliInvariance, PTL DEF Spec
============================================================================
