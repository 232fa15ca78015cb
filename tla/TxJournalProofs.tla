-------------------------- MODULE TxJournalProofs --------------------------
(***************************************************************************)
(* The journal's safety, for any number of processes, transactions and     *)
(* steps, with or without faults.  The inductive invariant is the          *)
(* conjunction of TypeOK with what the lock, the baseline comparison and   *)
(* the exclusive creation each guarantee while a save is under way.        *)
(***************************************************************************)
EXTENDS TxJournal, TxDocProofs

IInv == TypeOK /\ LockProtectsFile /\ NoLostUpdate /\ MemoryFollowsDisk /\ InFlight

USE SnapshotAssumption, JournalAssumption
----------------------------------------------------------------------------
(* The inductive invariant. *)

\* The initial state satisfies it.
LEMMA InitInv == Init => IInv
  BY NotWhole DEF Init, IInv, TypeOK, Holds, LockProtectsFile, NoLostUpdate,
                  MemoryFollowsDisk, InFlight, Creating, Alone, OneChange

\* An applying process only adds outcomes, so what it holds stays a document.
LEMMA SameDoc ==
  ASSUME NEW old, NEW new, DocOK(old), new = NoDoc \/ DocOK(new), SameButOutcomes(old, new)
  PROVE  DocOK(new)
  BY DocOKWhole DEF SameButOutcomes, NoDoc

\* One Append or one mark of a document is a document.
LEMMA StepDoc ==
  ASSUME NEW old, NEW new, DocOK(old), StepOf(old, new)
  PROVE  DocOK(new)
  BY AppendedOK, MarkedOK DEF StepOf

\* What is known between the truncation and the write.
LEMMA TruncatedFacts ==
  ASSUME IInv, NEW p \in Proc, pc[p] = "truncated"
  PROVE  /\ txn[p] \in Id /\ holder[txn[p]] = p
         /\ DocOK(mem[p]) /\ Whole(mem[p]) /\ mem[p] # NoDoc
         /\ base[p] # NoDoc => /\ DocOK(base[p]) /\ Whole(base[p])
                               /\ DocOK(prev[p]) /\ SameButOutcomes(base[p], prev[p])
                               /\ StepOf(prev[p], mem[p])
  <1>1. txn[p] \in Id /\ holder[txn[p]] = p
    BY DEF IInv, TypeOK, LockProtectsFile
  <1>2. CASE base[p] = NoDoc
    BY <1>1, <1>2, NewDocOK, DocOKWhole DEF IInv, NoLostUpdate
  <1>3. CASE base[p] # NoDoc
    <2>1. DocOK(base[p]) /\ SameButOutcomes(base[p], prev[p]) /\ StepOf(prev[p], mem[p])
      BY <1>3 DEF IInv, TypeOK, Holds, NoLostUpdate
    <2>2. DocOK(prev[p])
      BY <2>1, SameDoc DEF IInv, TypeOK, Holds
    <2>3. DocOK(mem[p])
      BY <2>1, <2>2, StepDoc
    <2> QED BY <1>1, <1>3, <2>1, <2>2, <2>3, DocOKWhole
  <1> QED BY <1>2, <1>3

\* Begin's open(O_EXCL) preserves it: nobody else can have this transaction.
LEMMA BeginOpenInv ==
  ASSUME IInv, NEW p \in Proc, NEW id \in Id, BeginOpen(p, id)
  PROVE  IInv'
  <1> USE DEF IInv, BeginOpen
  <1>1. TypeOK'
    BY NewDocOK DEF TypeOK, Holds
  <1>2. LockProtectsFile'
    BY NotWhole DEF TypeOK, LockProtectsFile, InFlight
  <1>3. NoLostUpdate'
    BY DEF TypeOK, Holds, NoLostUpdate
  <1>4. MemoryFollowsDisk'
    BY DEF TypeOK, Holds, MemoryFollowsDisk
  <1>5. InFlight'
    <2> SUFFICES ASSUME NEW q \in Proc
                 PROVE  /\ pc'[q] = "idle" <=> txn'[q] = NoId
                        /\ pc'[q] \in {"idle", "creating"} => base'[q] = NoDoc
                        /\ Alone(q)' /\ OneChange(q)'
      BY NotWhole DEF TypeOK, InFlight
    <2>1. CASE q = p
      BY <2>1 DEF TypeOK, Holds, InFlight, Creating, Alone, OneChange
    <2>2. CASE q # p
      BY <2>2 DEF TypeOK, Holds, InFlight, Creating, Alone, OneChange
    <2> QED BY <2>1, <2>2
  <1> QED BY <1>1, <1>2, <1>3, <1>4, <1>5

\* So does Load: it takes a whole document while nobody holds the lock.
LEMMA LoadInv ==
  ASSUME IInv, NEW p \in Proc, NEW id \in Id, Load(p, id)
  PROVE  IInv'
  <1> USE DEF IInv, Load
  <1>1. disk[id] # NoDoc /\ disk[id] # Garbled
    BY NotWhole
  <1>2. SameButOutcomes(disk[id], disk[id])
    BY DEF SameButOutcomes
  <1>3. TypeOK'
    BY <1>1 DEF TypeOK, Holds
  <1>4. LockProtectsFile'
    BY DEF TypeOK, LockProtectsFile
  <1>5. NoLostUpdate'
    BY DEF TypeOK, Holds, NoLostUpdate
  <1>6. MemoryFollowsDisk'
    BY <1>2 DEF TypeOK, Holds, MemoryFollowsDisk
  <1>7. InFlight'
    <2> SUFFICES ASSUME NEW q \in Proc
                 PROVE  /\ pc'[q] = "idle" <=> txn'[q] = NoId
                        /\ pc'[q] \in {"idle", "creating"} => base'[q] = NoDoc
                        /\ Alone(q)' /\ OneChange(q)'
      BY <1>1 DEF TypeOK, InFlight
    <2>1. CASE q = p
      BY <1>1, <2>1 DEF TypeOK, Holds, InFlight, Creating, Alone, OneChange
    <2>2. CASE q # p
      BY <1>1, <2>2 DEF TypeOK, Holds, InFlight, Creating, Alone, OneChange
    <2> QED BY <2>1, <2>2
  <1> QED BY <1>3, <1>4, <1>5, <1>6, <1>7

\* A save that starts from a document in hand preserves it.
LEMMA StartSaveInv ==
  ASSUME IInv, NEW p \in Proc, pc[p] = "ready", NEW doc, StepOf(mem[p], doc),
         StartSave(p, doc)
  PROVE  IInv'
  <1> USE DEF IInv, StartSave
  <1>1. /\ DocOK(base[p]) /\ base[p] # NoDoc /\ DocOK(mem[p])
        /\ SameButOutcomes(base[p], mem[p])
    BY NotWhole, SameDoc DEF TypeOK, Holds, MemoryFollowsDisk
  <1>2. DocOK(doc)
    BY <1>1, StepDoc
  <1>3. TypeOK'
    BY <1>1, <1>2 DEF TypeOK, Holds
  <1>4. LockProtectsFile'
    BY DEF TypeOK, LockProtectsFile
  <1>5. NoLostUpdate'
    BY DEF TypeOK, Holds, NoLostUpdate
  <1>6. MemoryFollowsDisk'
    BY DEF TypeOK, Holds, MemoryFollowsDisk
  <1>7. InFlight'
    <2> SUFFICES ASSUME NEW q \in Proc
                 PROVE  /\ pc'[q] = "idle" <=> txn'[q] = NoId
                        /\ pc'[q] \in {"idle", "creating"} => base'[q] = NoDoc
                        /\ Alone(q)' /\ OneChange(q)'
      BY DEF TypeOK, InFlight
    <2>1. CASE q = p
      BY <1>1, <2>1 DEF TypeOK, Holds, InFlight, Creating, Alone, OneChange
    <2>2. CASE q # p
      BY <2>2 DEF TypeOK, Holds, InFlight, Creating, Alone, OneChange
    <2> QED BY <2>1, <2>2
  <1> QED BY <1>3, <1>4, <1>5, <1>6, <1>7

\* Noting a failure while applying preserves it.
LEMMA RecordFailureInv ==
  ASSUME IInv, NEW p \in Proc, NEW i, RecordFailure(p, i)
  PROVE  IInv'
  <1> DEFINE new == WithFailure(mem[p], i)
  <1> USE DEF IInv, RecordFailure
  <1>1. DocOK(base[p]) /\ DocOK(mem[p]) /\ SameButOutcomes(base[p], mem[p])
    BY NotWhole, SameDoc DEF TypeOK, Holds, MemoryFollowsDisk
  <1>2. /\ DocOK(new) /\ new.status = "applying" /\ new.plan = mem[p].plan
        /\ DOMAIN new.steps = DOMAIN mem[p].steps
        /\ \A j \in DOMAIN mem[p].steps :
              new.steps[j] = [mem[p].steps[j] EXCEPT !.failed = new.steps[j].failed]
    <2>1. mem[p].status = "applying" /\ i \in DOMAIN mem[p].steps
      OBVIOUS
    <2> QED BY ONLY <1>1, <2>1, WithFailureOK
  <1> HIDE DEF new
  <1>3. SameButOutcomes(base[p], new)
    <2>1. CASE mem[p] = base[p]
      BY <1>2, <2>1 DEF SameButOutcomes
    <2>2. CASE mem[p] # base[p]
      <3>1. \A j \in DOMAIN base[p].steps :
               mem[p].steps[j] = [base[p].steps[j] EXCEPT !.failed = mem[p].steps[j].failed]
        BY <1>1, <2>2 DEF SameButOutcomes
      <3>2. \A j \in DOMAIN base[p].steps : base[p].steps[j] \in Step
        BY <1>1, DocType
      <3>3. ASSUME NEW j \in DOMAIN base[p].steps, NEW s \in Step, s = base[p].steps[j],
                   NEW m, m = [s EXCEPT !.failed = m.failed],
                   NEW n, n = [m EXCEPT !.failed = n.failed]
            PROVE  n = [s EXCEPT !.failed = n.failed]
        BY <3>3 DEF Step
      <3>4. \A j \in DOMAIN base[p].steps :
               new.steps[j] = [base[p].steps[j] EXCEPT !.failed = new.steps[j].failed]
        <4>1. DOMAIN mem[p].steps = DOMAIN base[p].steps
          BY <1>1, <2>2 DEF SameButOutcomes
        <4> TAKE j \in DOMAIN base[p].steps
        <4>2. new.steps[j] = [mem[p].steps[j] EXCEPT !.failed = new.steps[j].failed]
          BY <1>2, <4>1
        <4>3. mem[p].steps[j] = [base[p].steps[j] EXCEPT !.failed = mem[p].steps[j].failed]
          BY <3>1
        <4> QED BY ONLY <3>2, <3>3, <4>2, <4>3
      <3> QED BY <1>1, <1>2, <2>2, <3>4 DEF SameButOutcomes
    <2> QED BY <2>1, <2>2
  <1>4. mem' = [mem EXCEPT ![p] = new] /\ prev' = [prev EXCEPT ![p] = new]
    BY DEF new
  <1>5. TypeOK'
    BY <1>2, <1>4 DEF TypeOK, Holds
  <1>6. LockProtectsFile'
    BY DEF TypeOK, LockProtectsFile
  <1>7. NoLostUpdate'
    BY <1>4 DEF TypeOK, Holds, NoLostUpdate
  <1>8. MemoryFollowsDisk'
    BY <1>3, <1>4 DEF TypeOK, Holds, MemoryFollowsDisk
  <1>9. InFlight'
    BY <1>4 DEF TypeOK, Holds, InFlight, Creating, Alone, OneChange
  <1> QED BY <1>5, <1>6, <1>7, <1>8, <1>9

\* Truncating after the comparison preserves it: the document given up is the
\* baseline, which is the last one completely written.
LEMMA TruncateInv ==
  ASSUME IInv, NEW p \in Proc, Truncate(p)
  PROVE  IInv'
  <1> USE DEF IInv, Truncate
  <1>1. /\ txn[p] \in Id /\ base[p] # NoDoc /\ DocOK(base[p])
        /\ SameButOutcomes(base[p], prev[p]) /\ StepOf(prev[p], mem[p])
    BY DEF TypeOK, Holds, InFlight, OneChange
  <1>2. committed[txn[p]] = base[p]
    BY <1>1, DocOKWhole DEF LockProtectsFile
  <1>3. TypeOK'
    BY <1>1 DEF TypeOK, Holds
  <1>4. LockProtectsFile'
    BY <1>1, NotWhole DEF TypeOK, LockProtectsFile
  <1>5. NoLostUpdate'
    BY <1>1, <1>2 DEF TypeOK, Holds, NoLostUpdate
  <1>6. MemoryFollowsDisk'
    BY DEF TypeOK, Holds, MemoryFollowsDisk
  <1>7. InFlight'
    <2> SUFFICES ASSUME NEW q \in Proc
                 PROVE  /\ pc'[q] = "idle" <=> txn'[q] = NoId
                        /\ pc'[q] \in {"idle", "creating"} => base'[q] = NoDoc
                        /\ Alone(q)' /\ OneChange(q)'
      BY <1>1, NotWhole DEF TypeOK, InFlight
    <2>1. CASE q = p
      BY <1>1, NotWhole, <2>1 DEF TypeOK, Holds, InFlight, Creating, Alone, OneChange
    <2>2. CASE q # p
      BY <1>1, NotWhole, <2>2 DEF TypeOK, Holds, InFlight, Creating, Alone, OneChange
    <2> QED BY <2>1, <2>2
  <1> QED BY <1>3, <1>4, <1>5, <1>6, <1>7

\* A refused save puts memory back and preserves it.
LEMMA RefuseInv ==
  ASSUME IInv, NEW p \in Proc, Refuse(p)
  PROVE  IInv'
  <1> USE DEF IInv, Refuse
  <1>1. /\ Whole(base[p]) /\ base[p] # NoDoc
        /\ SameButOutcomes(base[p], prev[p])
    BY DocOKWhole DEF TypeOK, Holds, InFlight, OneChange
  <1>2. TypeOK'
    BY DEF TypeOK, Holds
  <1>3. LockProtectsFile'
    BY DEF TypeOK, LockProtectsFile
  <1>4. NoLostUpdate'
    BY DEF TypeOK, Holds, NoLostUpdate
  <1>5. MemoryFollowsDisk'
    BY <1>1 DEF TypeOK, Holds, MemoryFollowsDisk
  <1>6. InFlight'
    <2> SUFFICES ASSUME NEW q \in Proc
                 PROVE  /\ pc'[q] = "idle" <=> txn'[q] = NoId
                        /\ pc'[q] \in {"idle", "creating"} => base'[q] = NoDoc
                        /\ Alone(q)' /\ OneChange(q)'
      BY <1>1 DEF TypeOK, InFlight
    <2>1. CASE q = p
      BY <1>1, <2>1 DEF TypeOK, Holds, InFlight, Creating, Alone, OneChange
    <2>2. CASE q # p
      BY <1>1, <2>2 DEF TypeOK, Holds, InFlight, Creating, Alone, OneChange
    <2> QED BY <2>1, <2>2
  <1> QED BY <1>2, <1>3, <1>4, <1>5, <1>6

\* The creator takes the lock of a file nothing was ever written to.
LEMMA CreateLockInv ==
  ASSUME IInv, NEW p \in Proc, CreateLock(p)
  PROVE  IInv'
  <1> USE DEF IInv, CreateLock
  <1>1. /\ txn[p] \in Id /\ base[p] = NoDoc /\ mem[p] = NewDoc
        /\ disk[txn[p]] = Garbled /\ committed[txn[p]] = NoDoc
    BY DEF TypeOK, InFlight, Alone, Creating
  <1>2. TypeOK'
    BY DEF TypeOK, Holds
  <1>3. LockProtectsFile'
    BY <1>1, NotWhole DEF TypeOK, LockProtectsFile
  <1>4. NoLostUpdate'
    BY <1>1 DEF TypeOK, Holds, NoLostUpdate
  <1>5. MemoryFollowsDisk'
    BY DEF TypeOK, Holds, MemoryFollowsDisk
  <1>6. InFlight'
    <2> SUFFICES ASSUME NEW q \in Proc
                 PROVE  /\ pc'[q] = "idle" <=> txn'[q] = NoId
                        /\ pc'[q] \in {"idle", "creating"} => base'[q] = NoDoc
                        /\ Alone(q)' /\ OneChange(q)'
      BY <1>1 DEF TypeOK, InFlight
    <2>1. CASE q = p
      BY <1>1, <2>1 DEF TypeOK, Holds, InFlight, Creating, Alone, OneChange
    <2>2. CASE q # p
      BY <1>1, <2>2 DEF TypeOK, Holds, InFlight, Creating, Alone, OneChange
    <2> QED BY <2>1, <2>2
  <1> QED BY <1>2, <1>3, <1>4, <1>5, <1>6

\* A complete write makes memory, baseline and file one document again.
LEMMA WriteInv ==
  ASSUME IInv, NEW p \in Proc, Write(p)
  PROVE  IInv'
  <1> USE DEF IInv, Write, Unlock
  <1>1. /\ txn[p] \in Id /\ holder[txn[p]] = p
        /\ DocOK(mem[p]) /\ Whole(mem[p]) /\ mem[p] # NoDoc
    BY TruncatedFacts
  <1>2. SameButOutcomes(mem[p], mem[p])
    BY DEF SameButOutcomes
  <1>3. TypeOK'
    BY <1>1 DEF TypeOK, Holds
  <1>4. LockProtectsFile'
    BY <1>1 DEF TypeOK, Holds, LockProtectsFile
  <1>5. NoLostUpdate'
    BY <1>1 DEF TypeOK, Holds, NoLostUpdate, LockProtectsFile
  <1>6. MemoryFollowsDisk'
    BY <1>1, <1>2 DEF TypeOK, Holds, MemoryFollowsDisk
  <1>7. InFlight'
    <2> SUFFICES ASSUME NEW q \in Proc
                 PROVE  /\ pc'[q] = "idle" <=> txn'[q] = NoId
                        /\ pc'[q] \in {"idle", "creating"} => base'[q] = NoDoc
                        /\ Alone(q)' /\ OneChange(q)'
      BY <1>1 DEF TypeOK, InFlight
    <2>1. CASE q = p
      BY <1>1, <2>1 DEF TypeOK, Holds, InFlight, Creating, Alone, OneChange
    <2>2. CASE q # p
      BY <1>1, <2>2 DEF TypeOK, Holds, InFlight, Creating, Alone, OneChange
    <2> QED BY <2>1, <2>2
  <1> QED BY <1>3, <1>4, <1>5, <1>6, <1>7

\* A failed write leaves the file garbled and the lock free.
LEMMA WriteErrorInv ==
  ASSUME IInv, NEW p \in Proc, WriteError(p)
  PROVE  IInv'
  <1> USE DEF IInv, WriteError, Unlock, AfterError, Drop
  <1>1. /\ txn[p] \in Id /\ holder[txn[p]] = p
        /\ base[p] # NoDoc => /\ DocOK(prev[p]) /\ Whole(base[p])
                              /\ SameButOutcomes(base[p], prev[p])
    BY TruncatedFacts
  <1>2. TypeOK'
    BY <1>1 DEF TypeOK, Holds
  <1>3. LockProtectsFile'
    BY <1>1 DEF TypeOK, Holds, LockProtectsFile
  <1>4. NoLostUpdate'
    BY <1>1 DEF TypeOK, Holds, NoLostUpdate, LockProtectsFile
  <1>5. MemoryFollowsDisk'
    BY <1>1 DEF TypeOK, Holds, MemoryFollowsDisk
  <1>6. InFlight'
    <2> SUFFICES ASSUME NEW q \in Proc
                 PROVE  /\ pc'[q] = "idle" <=> txn'[q] = NoId
                        /\ pc'[q] \in {"idle", "creating"} => base'[q] = NoDoc
                        /\ Alone(q)' /\ OneChange(q)'
      BY <1>1 DEF TypeOK, InFlight
    <2>1. CASE q = p
      BY <1>1, <2>1 DEF TypeOK, Holds, InFlight, Creating, Alone, OneChange
    <2>2. CASE q # p
      BY <1>1, <2>2 DEF TypeOK, Holds, InFlight, Creating, Alone, OneChange
    <2> QED BY <2>1, <2>2
  <1> QED BY <1>2, <1>3, <1>4, <1>5, <1>6

\* A failed sync leaves the new document in the file and the old in memory.
LEMMA SyncErrorInv ==
  ASSUME IInv, NEW p \in Proc, SyncError(p)
  PROVE  IInv'
  <1> USE DEF IInv, SyncError, Unlock, AfterError, Drop
  <1>1. /\ txn[p] \in Id /\ holder[txn[p]] = p
        /\ DocOK(mem[p]) /\ Whole(mem[p]) /\ mem[p] # NoDoc
        /\ base[p] # NoDoc => /\ DocOK(prev[p]) /\ Whole(base[p])
                              /\ SameButOutcomes(base[p], prev[p])
    BY TruncatedFacts
  <1>2. TypeOK'
    BY <1>1 DEF TypeOK, Holds
  <1>3. LockProtectsFile'
    BY <1>1 DEF TypeOK, Holds, LockProtectsFile
  <1>4. NoLostUpdate'
    BY <1>1 DEF TypeOK, Holds, NoLostUpdate, LockProtectsFile
  <1>5. MemoryFollowsDisk'
    BY <1>1 DEF TypeOK, Holds, MemoryFollowsDisk
  <1>6. InFlight'
    <2> SUFFICES ASSUME NEW q \in Proc
                 PROVE  /\ pc'[q] = "idle" <=> txn'[q] = NoId
                        /\ pc'[q] \in {"idle", "creating"} => base'[q] = NoDoc
                        /\ Alone(q)' /\ OneChange(q)'
      BY <1>1 DEF TypeOK, InFlight
    <2>1. CASE q = p
      BY <1>1, <2>1 DEF TypeOK, Holds, InFlight, Creating, Alone, OneChange
    <2>2. CASE q # p
      BY <1>1, <2>2 DEF TypeOK, Holds, InFlight, Creating, Alone, OneChange
    <2> QED BY <2>1, <2>2
  <1> QED BY <1>2, <1>3, <1>4, <1>5, <1>6

\* A process that ends, or dies in the middle of a save, leaves nothing behind
\* but the file.
LEMMA DropInv ==
  ASSUME IInv, NEW p \in Proc, pc[p] # "idle",
         Drop(p), UNCHANGED <<disk, committed>>,
         (holder' = holder /\ pc[p] = "ready") \/ Unlock(p)
  PROVE  IInv'
  <1> USE DEF IInv, Unlock, Drop
  <1>1. \A id \in Id : /\ holder'[id] # NoProc => holder'[id] = holder[id]
                       /\ holder'[id] # p
                       /\ \A q \in Proc \ {p} : holder'[id] = q <=> holder[id] = q
                       /\ holder[id] = NoProc => holder'[id] = NoProc
    BY DEF TypeOK, LockProtectsFile
  <1>2. holder' \in [Id -> Proc \cup {NoProc}]
    BY DEF TypeOK
  <1>3. TypeOK'
    BY <1>2 DEF TypeOK, Holds
  <1>4. LockProtectsFile'
    BY <1>1 DEF TypeOK, Holds, LockProtectsFile
  <1>5. NoLostUpdate'
    BY <1>1 DEF TypeOK, Holds, NoLostUpdate, LockProtectsFile
  <1>6. MemoryFollowsDisk'
    BY <1>1 DEF TypeOK, Holds, MemoryFollowsDisk
  <1>7. InFlight'
    <2> SUFFICES ASSUME NEW q \in Proc
                 PROVE  /\ pc'[q] = "idle" <=> txn'[q] = NoId
                        /\ pc'[q] \in {"idle", "creating"} => base'[q] = NoDoc
                        /\ Alone(q)' /\ OneChange(q)'
      BY <1>1 DEF TypeOK, InFlight
    <2>1. CASE q = p
      BY <1>1, <2>1 DEF TypeOK, Holds, InFlight, Creating, Alone, OneChange
    <2>2. CASE q # p
      BY <1>1, <2>2 DEF TypeOK, Holds, InFlight, Creating, Alone, OneChange
    <2> QED BY <2>1, <2>2
  <1> QED BY <1>3, <1>4, <1>5, <1>6, <1>7

\* Every step preserves the inductive invariant.
LEMMA NextInv == IInv /\ [Next]_vars => IInv'
  <1> SUFFICES ASSUME IInv, [Next]_vars PROVE IInv'
    OBVIOUS
  <1>1. CASE UNCHANGED vars
    BY <1>1 DEF vars, IInv, TypeOK, Holds, LockProtectsFile, NoLostUpdate,
                MemoryFollowsDisk, InFlight, Creating, Alone, OneChange
  <1>2. ASSUME NEW p \in Proc, NEW id \in Id, BeginOpen(p, id) \/ Load(p, id)
        PROVE  IInv'
    BY <1>2, BeginOpenInv, LoadInv
  <1>3. ASSUME NEW p \in Proc, NEW s \in NewStep, AppendStep(p, s)
        PROVE  IInv'
    <2>1. pc[p] = "ready" /\ StepOf(mem[p], Appended(mem[p], s))
          /\ StartSave(p, Appended(mem[p], s))
      BY <1>3 DEF AppendStep, StepOf
    <2> QED BY <2>1, StartSaveInv
  <1>4. ASSUME NEW p \in Proc, NEW to \in Status, Mark(p, to)
        PROVE  IInv'
    <2>1. pc[p] = "ready" /\ StepOf(mem[p], Marked(mem[p], to))
          /\ StartSave(p, Marked(mem[p], to))
      BY <1>4 DEF Mark, StepOf
    <2> QED BY <2>1, StartSaveInv
  <1>5. ASSUME NEW p \in Proc, NEW i \in 1..MaxSteps, RecordFailure(p, i)
        PROVE  IInv'
    BY <1>5, RecordFailureInv
  <1>6. ASSUME NEW p \in Proc,
               \/ Truncate(p) \/ Refuse(p) \/ CreateLock(p) \/ Write(p)
               \/ WriteError(p) \/ SyncError(p)
        PROVE  IInv'
    BY <1>6, TruncateInv, RefuseInv, CreateLockInv, WriteInv, WriteErrorInv, SyncErrorInv
  <1>7. ASSUME NEW p \in Proc, Exit(p) \/ Crash(p)
        PROVE  IInv'
    <2>1. CASE Exit(p)
      <3>1. /\ pc[p] # "idle" /\ pc[p] = "ready" /\ Drop(p)
            /\ holder' = holder /\ UNCHANGED <<disk, committed>>
        BY <2>1 DEF Exit
      <3> QED BY <3>1, DropInv
    <2>2. CASE Crash(p)
      <3>1. pc[p] # "idle" /\ Drop(p) /\ Unlock(p) /\ UNCHANGED <<disk, committed>>
        BY <2>2 DEF Crash
      <3> QED BY <3>1, DropInv
    <2> QED BY <1>7, <2>1, <2>2
  <1> QED BY <1>1, <1>2, <1>3, <1>4, <1>5, <1>6, <1>7 DEF Next

\* The inductive invariant holds throughout.
THEOREM Invariance == Spec => []IInv
  BY InitInv, NextInv, PTL DEF Spec

\* Types, and with them the frozen rollback plan: whatever a document in memory
\* or on disk went through, its plan is the inverse of its steps from applied
\* on and empty before (tx.go, mark; rollback.go).
THEOREM TypeCorrect == Spec => []TypeOK
  BY Invariance, PTL DEF IInv

\* A journal is truncated under its lock only, and outside of the lock it holds
\* the last document completely written (tx.go, persist).
THEOREM LockProtects == Spec => []LockProtectsFile
  BY Invariance, PTL DEF IInv

\* The comparison with the baseline excludes lost updates: what is being written
\* replaces the document it was derived from (tx.go, persist and readLocked).
THEOREM NoUpdateLost == Spec => []NoLostUpdate
  BY Invariance, PTL DEF IInv

\* Memory and journal do not fork, whether a save succeeds or not (tx.go, mark
\* and Append).
THEOREM NoFork == Spec => []MemoryFollowsDisk
  BY Invariance, PTL DEF IInv
----------------------------------------------------------------------------
(* Refinement: the complete documents written to a journal are a behaviour   *)
(* of the abstract life cycle.                                               *)

\* What an applying process holds is one of the outcomes of the document on disk.
LEMMA OutcomeOf ==
  ASSUME NEW old, NEW new, DocOK(old), DocOK(new), SameButOutcomes(old, new)
  PROVE  new \in Lifecycle!Outcomes(old)
  <1>1. CASE old.status # "applying"
    BY <1>1 DEF SameButOutcomes, Lifecycle!Outcomes
  <1>2. CASE old.status = "applying"
    <2> DEFINE f == [i \in DOMAIN old.steps |-> new.steps[i].failed]
               steps == [i \in DOMAIN old.steps |-> [old.steps[i] EXCEPT !.failed = f[i]]]
    <2>1. old.steps \in Seq(Step) /\ new.steps \in Seq(Step) /\ new.plan = old.plan
          /\ new.status = old.status /\ DOMAIN new.steps = DOMAIN old.steps
      BY DocType DEF SameButOutcomes
    <2>2. \A i \in DOMAIN old.steps : old.steps[i] \in Step /\ new.steps[i] \in Step
      BY <2>1
    <2>3. f \in [DOMAIN old.steps -> BOOLEAN]
      BY <2>2 DEF Step
    <2>4. \A i \in DOMAIN old.steps : steps[i] = new.steps[i]
      BY <2>2 DEF SameButOutcomes, Step
    <2>5. steps = new.steps
      <3>1. new.steps = [i \in DOMAIN old.steps |-> new.steps[i]]
        BY <2>1
      <3>2. steps = [i \in DOMAIN old.steps |-> new.steps[i]]
        <4> HIDE DEF f
        <4> QED BY <2>4
      <3> QED BY <3>1, <3>2, Zenon
    <2>6. new = [old EXCEPT !.steps = new.steps]
      BY <2>1, DocType
    <2>7. new = [old EXCEPT !.steps = steps]
      <3> HIDE DEF steps
      <3> QED BY <2>5, <2>6
    <2>8. \E g \in [DOMAIN old.steps -> BOOLEAN] :
             new = [old EXCEPT !.steps = [i \in DOMAIN old.steps |->
                                             [old.steps[i] EXCEPT !.failed = g[i]]]]
      BY <2>3, <2>7, Zenon
    <2> QED BY <1>2, <2>8, Zenon DEF Lifecycle!Outcomes
  <1> QED BY <1>1, <1>2

\* The abstract specification reads the same definitions of documents.
LEMMA Vocabulary ==
  /\ Lifecycle!NoDoc = NoDoc /\ Lifecycle!NewDoc = NewDoc
  /\ Lifecycle!Status = Status /\ Lifecycle!NewStep = NewStep
  /\ \A doc : Lifecycle!Whole(doc) = Whole(doc)
  /\ \A doc : Lifecycle!CanAppend(doc) = CanAppend(doc)
  /\ \A doc, s : Lifecycle!Appended(doc, s) = Appended(doc, s)
  /\ \A doc, to : Lifecycle!CanMark(doc, to) = CanMark(doc, to)
  /\ \A doc, to : Lifecycle!Marked(doc, to) = Marked(doc, to)
  <1>1. Lifecycle!NoDoc = NoDoc /\ Lifecycle!NewDoc = NewDoc
    BY DEF Lifecycle!NoDoc, NoDoc, Lifecycle!NewDoc, NewDoc
  <1>2. Lifecycle!Status = Status
    BY DEF Lifecycle!Status, Status
  <1>3. Lifecycle!NewStep = NewStep
    BY DEF Lifecycle!NewStep, NewStep, Lifecycle!Step, Step
  <1>4. ASSUME NEW doc
        PROVE  /\ Lifecycle!Whole(doc) = Whole(doc)
               /\ Lifecycle!CanAppend(doc) = CanAppend(doc)
    BY <1>2 DEF Lifecycle!Whole, Whole, Lifecycle!CanAppend, CanAppend
  <1>5. ASSUME NEW doc, NEW s PROVE Lifecycle!Appended(doc, s) = Appended(doc, s)
    BY DEF Lifecycle!Appended, Appended
  <1>6. ASSUME NEW doc, NEW to PROVE Lifecycle!CanMark(doc, to) = CanMark(doc, to)
    BY DEF Lifecycle!CanMark, CanMark, Lifecycle!LegalTransitions, LegalTransitions
  <1>7. ASSUME NEW doc, NEW to PROVE Lifecycle!Marked(doc, to) = Marked(doc, to)
    <2>1. ASSUME NEW steps
          PROVE  Lifecycle!BuildRollbackPlan(steps) = BuildRollbackPlan(steps)
      BY Zenon DEF Lifecycle!BuildRollbackPlan, BuildRollbackPlan
    <2> QED BY <2>1, Zenon DEF Lifecycle!Marked, Marked
  <1> QED BY <1>1, <1>2, <1>3, <1>4, <1>5, <1>6, <1>7

\* A complete write is one step of the life cycle.
LEMMA WriteMaps ==
  ASSUME IInv, NEW p \in Proc, pc[p] = "truncated",
         committed' = [committed EXCEPT ![txn[p]] = mem[p]]
  PROVE  Lifecycle!Next
  <1> DEFINE id == txn[p]
  <1>1. id \in Id
    BY TruncatedFacts
  <1>2. CASE base[p] = NoDoc
    <2>1. committed[id] = NoDoc /\ mem[p] = NewDoc
      BY <1>2 DEF IInv, NoLostUpdate
    <2>2. Lifecycle!Begin(id)
      BY <2>1, Vocabulary DEF Lifecycle!Begin
    <2> QED BY <1>1, <2>2 DEF Lifecycle!Next
  <1>3. CASE base[p] # NoDoc
    <2>1. /\ committed[id] = base[p] /\ DocOK(base[p]) /\ Whole(base[p])
          /\ DocOK(prev[p]) /\ SameButOutcomes(base[p], prev[p]) /\ StepOf(prev[p], mem[p])
      BY <1>3, TruncatedFacts DEF IInv, NoLostUpdate
    <2>2. CASE \E s \in NewStep : CanAppend(prev[p]) /\ mem[p] = Appended(prev[p], s)
      <3>1. PICK s \in NewStep : CanAppend(prev[p]) /\ mem[p] = Appended(prev[p], s)
        BY <2>2
      <3>2. prev[p] = base[p]
        BY <2>1, <3>1 DEF CanAppend, SameButOutcomes
      <3>3. Lifecycle!Propose(id, s)
        BY <2>1, <3>1, <3>2, Vocabulary DEF Lifecycle!Propose
      <3> QED BY <1>1, <3>3, Vocabulary DEF Lifecycle!Next
    <2>3. CASE \E to \in Status : CanMark(prev[p], to) /\ mem[p] = Marked(prev[p], to)
      <3>1. PICK to \in Status : CanMark(prev[p], to) /\ mem[p] = Marked(prev[p], to)
        BY <2>3
      <3>2. prev[p] \in Lifecycle!Outcomes(committed[id])
        BY <2>1, OutcomeOf
      <3>3. prev[p].status = committed[id].status
        BY <2>1 DEF SameButOutcomes
      <3>4. CanMark(committed[id], to)
        BY <3>1, <3>3 DEF CanMark
      <3>5. Lifecycle!Move(id, to)
        BY <2>1, <3>1, <3>2, <3>4, Vocabulary DEF Lifecycle!Move
      <3> QED BY <1>1, <3>5, Vocabulary DEF Lifecycle!Next
    <2> QED BY <2>1, <2>2, <2>3 DEF StepOf
  <1> QED BY <1>2, <1>3

\* Every step of the journal is a step of the life cycle or leaves it alone.
LEMMA StepMaps == IInv /\ [Next]_vars => [Lifecycle!Next]_committed
  <1> SUFFICES ASSUME IInv, [Next]_vars PROVE Lifecycle!Next \/ UNCHANGED committed
    OBVIOUS
  <1>1. CASE UNCHANGED vars
    BY <1>1 DEF vars
  <1>2. ASSUME NEW p \in Proc, Write(p) \/ SyncError(p)
        PROVE  Lifecycle!Next
    BY <1>2, WriteMaps DEF Write, SyncError
  <1>3. ASSUME NEW p \in Proc,
               \/ \E id \in Id : BeginOpen(p, id) \/ Load(p, id)
               \/ \E s \in NewStep : AppendStep(p, s)
               \/ \E to \in Status : Mark(p, to)
               \/ \E i \in 1..MaxSteps : RecordFailure(p, i)
               \/ Truncate(p) \/ Refuse(p) \/ CreateLock(p)
               \/ WriteError(p) \/ Exit(p) \/ Crash(p)
        PROVE  UNCHANGED committed
    BY <1>3 DEF BeginOpen, Load, AppendStep, Mark, StartSave, RecordFailure, Truncate,
                Refuse, CreateLock, WriteError, Exit, Crash
  <1> QED BY <1>1, <1>2, <1>3 DEF Next

\* The journal implements the life cycle its users rely on: created once, then
\* appended to while proposed or moved along the transition table, each change
\* starting from the document that is there (tx.go, package comment and
\* legalTransitions).
THEOREM Refinement == Spec => Implements
  <1>1. Init => Lifecycle!Init
    BY Vocabulary DEF Init, Lifecycle!Init
  <1> QED BY <1>1, StepMaps, Invariance, PTL DEF Spec, Implements, Lifecycle!Spec
============================================================================
