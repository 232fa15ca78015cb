------------------------------- MODULE TxDoc -------------------------------
(***************************************************************************)
(* The transaction document of internal/tx: its statuses, the legal        *)
(* transitions, the steps, and the pure functions that derive one document *)
(* from another.  What a step does (adapter and args) is abstracted to the *)
(* resource it writes and the value it writes there; before_state is the   *)
(* value found when the step was proposed, or NoSnapshot when the adapter  *)
(* reports nothing to restore.                                             *)
(***************************************************************************)
EXTENDS Naturals, Sequences, SequencesExt

CONSTANTS
    Resource,    \* what adapters write: a unit, a package, a file, ...
    Value,       \* the states a resource can be in
    NoSnapshot   \* an empty before_state

ASSUME SnapshotAssumption == NoSnapshot \notin Value

Status == {"proposed", "applying", "applied", "rolled_back", "failed"}

\* The transition table; a status with no row has no way out.
LegalTransitions ==
    [proposed    |-> {"applying", "failed"},
     applying    |-> {"applied", "failed"},
     applied     |-> {"rolled_back"},
     rolled_back |-> {},
     failed      |-> {}]

\* failed stands for op_result: a step that was never executed and one that
\* succeeded both read {"returncode":0}, so a single Boolean tells all there is.
Step == [target : Resource,
         before : Value \cup {NoSnapshot},
         after  : Value,
         failed : BOOLEAN]

\* Steps as Append stores them: not executed yet.
NewStep == {s \in Step : ~s.failed}

\* Inverse order, without the steps that have nothing to restore.
BuildRollbackPlan(steps) ==
    LET plan[k \in 0..Len(steps)] ==
            IF k = 0 THEN <<>>
            ELSE IF steps[k].before = NoSnapshot THEN plan[k - 1]
            ELSE <<steps[k]>> \o plan[k - 1]
    IN  plan[Len(steps)]

\* The document Begin writes; no document at all; and what is left of a file
\* that holds no whole document (empty, or cut short).
NewDoc  == [status |-> "proposed", steps |-> <<>>, plan |-> <<>>]
NoDoc   == [status |-> "none",     steps |-> <<>>, plan |-> <<>>]
Garbled == [status |-> "garbled",  steps |-> <<>>, plan |-> <<>>]

\* readLocked and Load accept nothing else (validStatus).
Whole(doc) == doc.status \in Status

CanAppend(doc) == doc.status = "proposed"

Appended(doc, s) == [doc EXCEPT !.steps = Append(doc.steps, s)]

CanMark(doc, to) == to \in LegalTransitions[doc.status]

\* Mutant: the plan is left for rollback to compute.
MarkedWithoutPlan(doc, to) == [doc EXCEPT !.status = to]

\* mark: the rollback plan is fixed at the moment the status becomes applied.
Marked(doc, to) ==
    [doc EXCEPT !.status = to,
                !.plan = IF to = "applied" THEN BuildRollbackPlan(doc.steps)
                                           ELSE doc.plan]

\* Mutant: the outcome overwrites that of the steps before, too.
WithFailureSpread(doc, i) ==
    [doc EXCEPT !.steps = [k \in DOMAIN doc.steps |->
        [doc.steps[k] EXCEPT !.failed = @ \/ k <= i]]]

\* cmdApply writes the outcome of step i into the document it holds.
WithFailure(doc, i) == [doc EXCEPT !.steps[i].failed = TRUE]

\* The position of the first failed step, 0 when there is none.
FirstFailed(steps) == SelectInSeq(steps, LAMBDA s : s.failed)

\* The steps cmdRollback will undo, in the order it undoes them.
RollbackSteps(doc) ==
    IF doc.status = "applied" THEN doc.plan
    ELSE LET i == FirstFailed(doc.steps)
         IN  IF i > 0 THEN BuildRollbackPlan(SubSeq(doc.steps, 1, i - 1))
                      ELSE <<>>

\* Documents as the library builds them: the plan is the inverse of the steps
\* from applied on, and empty before.
DocOK(doc) ==
    /\ doc \in [status : Status, steps : Seq(Step),
                plan : {<<>>, BuildRollbackPlan(doc.steps)}]
    /\ doc.plan = IF doc.status \in {"applied", "rolled_back"}
                  THEN BuildRollbackPlan(doc.steps) ELSE <<>>
============================================================================
