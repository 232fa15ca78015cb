---------------------------- MODULE TxLifecycle ----------------------------
(***************************************************************************)
(* What the transaction journal promises to its users: one document per    *)
(* transaction, created once, then changed only by appending a step to a   *)
(* proposed transaction or by one legal status transition, each starting   *)
(* from the document that is there.  No lock, no file, no stale copy: this *)
(* is the abstract specification that TxJournal implements.                *)
(***************************************************************************)
EXTENDS TxDoc

CONSTANT Id      \* transaction ids

VARIABLE journal     \* [Id -> document, or NoDoc before Begin]

\* Step outcomes become known while a transaction is applying, so the
\* transition out of applying may rewrite them; nothing else in a step moves.
Outcomes(doc) ==
    IF doc.status = "applying"
    THEN { [doc EXCEPT !.steps = [i \in DOMAIN doc.steps |->
                                     [doc.steps[i] EXCEPT !.failed = f[i]]]] :
           f \in [DOMAIN doc.steps -> BOOLEAN] }
    ELSE {doc}

Begin(id) ==
    /\ journal[id] = NoDoc
    /\ journal' = [journal EXCEPT ![id] = NewDoc]

Propose(id, s) ==
    /\ Whole(journal[id])
    /\ CanAppend(journal[id])
    /\ journal' = [journal EXCEPT ![id] = Appended(journal[id], s)]

Move(id, to) ==
    /\ Whole(journal[id])
    /\ CanMark(journal[id], to)
    /\ \E doc \in Outcomes(journal[id]) :
           journal' = [journal EXCEPT ![id] = Marked(doc, to)]

Init == journal = [id \in Id |-> NoDoc]

Next == \E id \in Id : \/ Begin(id)
                       \/ \E s \in NewStep : Propose(id, s)
                       \/ \E to \in Status : Move(id, to)

Spec == Init /\ [][Next]_journal
============================================================================
