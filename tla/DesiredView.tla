---------------------------- MODULE DesiredView ----------------------------
(***************************************************************************)
(* internal/tx List and internal/desiredview: what the daemons take for    *)
(* the desired state is a replay of all journals.  The replay lists the    *)
(* directory and then reads the files one by one, each under its own       *)
(* shared lock, while the commands of TxCli go on; the rows of the view    *)
(* are those of the applied transactions, in the order of created_at.      *)
(***************************************************************************)
EXTENDS TxCli

CONSTANTS
    Mapped,      \* the resources whose adapter is in adapterKinds
    LoadValue,   \* bounds while loads go on: the values in use,
    LoadSteps,   \* the steps per transaction
    LoadLog,     \* and the stamped audit entries;
    CalmSteps,   \* bounds under the discipline: all steps proposed
    CalmLog      \* and the stamped audit entries

ASSUME MappedAssumption == Mapped \subseteq Resource /\ LoadValue \subseteq Value

VARIABLES
    rpc,         \* the reader: idle | reading | failed
    toRead,      \* journals listed and not read yet
    got,         \* [journals read -> document]
    orderly,     \* chosen at the start: the operator keeps a discipline, and the
                 \* loads, which change nothing, are left out
    hand,        \* history: [Mapped -> the transaction that is half-way there]
    sometime,    \* history: transactions applied at some moment of the load
    throughout   \* history: transactions applied during the whole load

reader == <<rpc, toRead, got>>
history == <<sometime, throughout>>
dvars == <<vars, reader, orderly, hand, history>>

Applied(j) == {id \in Id : j[id].status = "applied"}
----------------------------------------------------------------------------
(* Project: a later row of the same resource replaces an earlier one. *)

Row(id, s) == [value |-> s.after, source |-> id]

\* The map f after f[x] = v.
Override(f, x, v) == [y \in DOMAIN f \cup {x} |-> IF y = x THEN v ELSE f[y]]

\* Mutant: the first writer of a resource keeps it.
PutOnce(rows, id, s) ==
    IF s.target \in Mapped \ DOMAIN rows THEN Override(rows, s.target, Row(id, s)) ELSE rows

\* An adapter without a kind contributes nothing.
Put(rows, id, s) ==
    IF s.target \in Mapped THEN Override(rows, s.target, Row(id, s)) ELSE rows

\* Mutant: a transaction contributes from MarkApplying on.
ContributesEarly(doc) == doc.status \in {"applying", "applied"}

Contributes(doc) == doc.status = "applied"

\* The steps of one transaction, in order.
PutAll(rows, id, steps) ==
    LET put[k \in 0..Len(steps)] ==
            IF k = 0 THEN rows ELSE Put(put[k - 1], id, steps[k])
    IN  put[Len(steps)]

\* Of what List has read, sorted by created_at, that which contributes.
Project(read) ==
    LET view[k \in 0..Len(order)] ==
            IF k = 0 THEN <<>>
            ELSE IF order[k] \in DOMAIN read /\ Contributes(read[order[k]])
                 THEN PutAll(view[k - 1], order[k], read[order[k]].steps)
                 ELSE view[k - 1]
    IN  view[Len(order)]
----------------------------------------------------------------------------
DInit ==
    /\ Init
    /\ rpc = "idle" /\ toRead = {} /\ got = <<>>
    /\ orderly \in BOOLEAN /\ (orderly \/ world \in [Resource -> LoadValue])
    /\ hand = [r \in Mapped |-> NoId]
    /\ sometime = {} /\ throughout = {}

\* os.ReadDir: the names are fixed here, the contents are not.
ListDir ==
    /\ rpc = "idle"
    /\ rpc' = "reading"
    /\ toRead' = {id \in Id : journal[id] # NoDoc}
    /\ got' = <<>>
    /\ sometime' = Applied(journal)
    /\ throughout' = Applied(journal)
    /\ UNCHANGED vars

\* Load of one journal; file names are random, so any order is possible.
ReadJournal(id) ==
    /\ rpc = "reading" /\ id \in toRead
    /\ Whole(journal[id])
    /\ got' = Override(got, id, journal[id])
    /\ toRead' = toRead \ {id}
    /\ UNCHANGED <<vars, rpc, history>>

\* The load is over, with a view or, after one journal that cannot be read,
\* with none.
LoadOver(outcome) ==
    /\ rpc' = outcome
    /\ toRead' = {} /\ got' = <<>>
    /\ sometime' = {} /\ throughout' = {}
    /\ UNCHANGED vars

LoadFails(id) ==
    /\ rpc = "reading" /\ id \in toRead
    /\ ~Whole(journal[id])
    /\ LoadOver("failed")

LoadEnds == rpc = "reading" /\ toRead = {} /\ LoadOver("idle")

\* The commands go on; the history keeps track of what becomes applied.
Watch ==
    LET now == Applied(journal')
    IN  /\ sometime' = IF rpc = "reading" THEN sometime \cup now ELSE {}
        /\ throughout' = throughout \cap now

Before(a, b) == \E j, k \in DOMAIN order : j < k /\ order[j] = a /\ order[k] = b

\* The transactions in S with a step on r, and what a list of steps is about.
Writers(r, S, doc) == {id \in S : \E s \in Range(doc[id].steps) : s.target = r}
About(steps) == {r \in Mapped : \E s \in Range(steps) : s.target = r}

\* A transaction takes a resource in hand with the first step it executes, or
\* undoes, there.  It gives back what it has when it comes to be applied or rolled
\* back, and after a failed apply what a rollback that ran to its end restored; one
\* that is killed, or whose verdict cannot be saved, keeps what it has.
Takes(p, r) == pc[p] = "step" /\ pc'[p] = "stamp" /\ todo[p][pos[p]].target = r

Concludes(id) ==
    journal'[id].status \in {"applied", "rolled_back"} \ {journal[id].status}

Restores(p, r) ==
    /\ RollbackEnds(p) /\ pc'[p] = "idle" /\ mem[p].status = "failed"
    /\ r \in About(todo[p])

Handed(r) ==
    IF \E p \in Proc : Takes(p, r) THEN txn[CHOOSE p \in Proc : Takes(p, r)]
    ELSE IF \/ hand[r] # NoId /\ Concludes(hand[r])
            \/ \E p \in Proc : Restores(p, r)
         THEN NoId ELSE hand[r]

\* The discipline under which desired and actual state agree; the code enforces
\* none of it.  A transaction has one command at a time, and commands that work at
\* once are about different resources.
OneEach ==
    \A p \in Proc : pc[p] = "idle" /\ pc'[p] = "loaded" =>
        \A q \in Proc : txn[q] # txn'[p]

Separate(p) ==
    \A q \in Proc \ {p} : About(todo[q]) \cap About(todo'[p]) = {}

\* Nothing is applied or undone beneath a transaction begun later, nor where another
\* one is half-way.
OnTop(p) ==
    \A r \in About(todo'[p]) :
        /\ \A other \in Writers(r, Applied(journal), journal) : ~Before(txn[p], other)
        /\ hand[r] \in {NoId, txn[p]}

\* What is applied was proposed against the present state; a failed transaction is
\* not rolled back once more after a rollback that ran to its end.
Timely(p) ==
    IF cmd[p] = "apply"
    THEN \A s \in Range(todo'[p]) : s.target \in Mapped => s.before = world[s.target]
    ELSE mem[p].status = "failed" => \A r \in About(todo'[p]) : hand[r] = txn[p]

Discipline ==
    /\ OneEach
    /\ \A p \in Proc : pc[p] = "loaded" /\ pc'[p] = "step" => Separate(p) /\ OnTop(p) /\ Timely(p)

LoadBounds ==
    \A p \in Proc :
        /\ pc[p] = "idle" /\ pc'[p] = "loaded" =>
              Len(log) + LoadSteps <= LoadLog /\ \A q \in Proc : pc[q] = "idle"
        /\ Len(mem'[p].steps) <= LoadSteps
        /\ \A s \in Range(mem'[p].steps) : s.after \in LoadValue

CalmBounds ==
    /\ Len(log') <= CalmLog
    /\ Cardinality(UNION {{id} \X DOMAIN journal'[id].steps : id \in Id}) <= CalmSteps

Commands ==
    /\ Next
    /\ IF orderly THEN Discipline /\ CalmBounds ELSE LoadBounds
    /\ hand' = [r \in Mapped |-> IF orderly THEN Handed(r) ELSE NoId]
    /\ Watch /\ UNCHANGED <<reader, orderly>>

DNext ==
    \/ Commands
    \/ /\ ~orderly /\ UNCHANGED <<orderly, hand>>
       /\ \/ ListDir \/ LoadEnds
          \/ \E id \in Id : ReadJournal(id) \/ LoadFails(id)

DSpec == DInit /\ [][DNext]_dvars
----------------------------------------------------------------------------
\* What the view ought to be when exactly the transactions in S are applied:
\* the last step on a resource of the latest of them that has one.
LastIndex(steps, r) == SelectLastInSeq(steps, LAMBDA s : s.target = r)

Asked(r, S, doc) ==
    LET ws == Writers(r, S, doc)
        w  == CHOOSE id \in ws : \A other \in ws \ {id} : Before(other, id)
    IN  Row(w, doc[w].steps[LastIndex(doc[w].steps, r)])

Expected(S, doc) == [r \in {r \in Mapped : Writers(r, S, doc) # {}} |-> Asked(r, S, doc)]

\* However the commands interleave with a load, the view is the replay of all
\* that was applied from beginning to end and of some of what was applied for a
\* part of it; alone, it is the replay of exactly what is applied (Load).
ViewIsOfSomeCut ==
    rpc = "reading" /\ toRead = {} =>
        \E S \in SUBSET (sometime \cap DOMAIN got) :
            throughout \subseteq S /\ Project(got) = Expected(S, got)

\* The view a load would give while no command runs.
Current == Project(journal)

\* Under the discipline, whatever fails or is killed, every resource on which no
\* transaction stopped half-way is at all times in the state the applied
\* transactions ask for (the anchor case T1, T2, rollback of T2).
DesiredIsActual ==
    orderly => \A r \in DOMAIN Current : hand[r] = NoId => world[r] = Current[r].value
============================================================================
