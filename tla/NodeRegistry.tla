---------------------------- MODULE NodeRegistry ----------------------------
(***************************************************************************)
(* internal/fleet/registry.go with several processes at work on one        *)
(* nodes.jsonl: node add, schedulers that re-register machines and note    *)
(* when they were seen.  Every operation loads the whole table, changes    *)
(* its copy, writes that to a file of its own and renames it over the      *)
(* table.  Nothing is locked.                                              *)
(***************************************************************************)
EXTENDS Naturals

CONSTANTS
    Writer,      \* processes with a Registry
    Node,        \* node ids
    Content,     \* what a row says, last_seen apart
    Torn,        \* the content of a file that does not parse
    StoreFaults, \* what may go wrong: a subset of StoreFaultKinds
    MaxStores    \* bound: operations

StoreFaultKinds == {"io",      \* a read, a write, a sync or a rename fails
                    "crash"}   \* a process dies

ASSUME RegistryAssumption == StoreFaults \subseteq StoreFaultKinds /\ MaxStores \in Nat

VARIABLES
    table,       \* nodes.jsonl: [Node -> row], or Torn
    step,        \* [Writer -> idle | loaded | writing | written]
    op,          \* [Writer -> the operation]
    copy,        \* [Writer -> the table it is to store]
    derived,     \* [Writer -> the table that was loaded]
    stores,      \* how many operations there have been
    told,        \* history: the table the operations reported so far add up to
    overrun      \* history: a store has replaced a table it was not derived from

nvars == <<table, step, op, copy, derived, stores, told, overrun>>

NoEntry == [is |-> FALSE]
Entry(c, s) == [is |-> TRUE, content |-> c, seen |-> s]
Table == [Node -> {NoEntry} \cup [is : {TRUE}, content : Content, seen : BOOLEAN]]
Empty == [n \in Node |-> NoEntry]

ASSUME TornAssumption == Torn \notin Table

Operation == [kind : {"put"}, node : Node, content : Content]
             \cup [kind : {"delete", "seen"}, node : Node]

\* Delete and MarkSeen make a mistake of a node that is not there.
Applicable(o, t) == o.kind = "put" \/ t[o.node] # NoEntry

\* Put replaces the row of the same node id or adds one, Delete takes it away,
\* MarkSeen stamps it.
Effect(o, t) ==
    CASE o.kind = "put"    -> [t EXCEPT ![o.node] = Entry(o.content, FALSE)]
      [] o.kind = "delete" -> [t EXCEPT ![o.node] = NoEntry]
      [] o.kind = "seen"   -> IF t[o.node] = NoEntry THEN t
                              ELSE [t EXCEPT ![o.node] = Entry(@.content, TRUE)]

NInit ==
    /\ table = Empty                    \* no file: a table without rows
    /\ step = [p \in Writer |-> "idle"]
    /\ op = [p \in Writer |-> [kind |-> "none"]]
    /\ copy = [p \in Writer |-> Empty] /\ derived = [p \in Writer |-> Empty]
    /\ stores = 0
    /\ told = Empty /\ overrun = FALSE

\* The operation is over.
Idle(p) ==
    /\ step' = [step EXCEPT ![p] = "idle"]
    /\ op' = [op EXCEPT ![p] = [kind |-> "none"]]
    /\ copy' = [copy EXCEPT ![p] = Empty] /\ derived' = [derived EXCEPT ![p] = Empty]

Loaded(p, o, t) ==
    /\ step' = [step EXCEPT ![p] = "loaded"]
    /\ op' = [op EXCEPT ![p] = o]
    /\ derived' = [derived EXCEPT ![p] = t]
    /\ copy' = [copy EXCEPT ![p] = Effect(o, t)]
    /\ stores' = stores + 1
    /\ UNCHANGED <<table, told, overrun>>

\* load, and the change of the copy in memory.  An operation that fails here
\* leaves no trace and is left out.
LoadTable(p, o) ==
    /\ step[p] = "idle" /\ stores < MaxStores
    /\ table # Torn /\ Applicable(o, table)
    /\ Loaded(p, o, table)

\* store, into a temporary file of its own.
WriteTemp(p) ==
    /\ \/ step[p] = "loaded" /\ step' = [step EXCEPT ![p] = "writing"]
       \/ step[p] = "writing" /\ step' = [step EXCEPT ![p] = "written"]
    /\ UNCHANGED <<table, op, copy, derived, stores, told, overrun>>

\* Mutant: the table itself is written.
RenameEarly(p) ==
    /\ \/ /\ step[p] = "writing"
          /\ table' = Torn /\ step' = [step EXCEPT ![p] = "written"]
          /\ UNCHANGED <<op, copy, derived, told, overrun>>
       \/ /\ step[p] = "written"
          /\ table' = copy[p] /\ told' = Effect(op[p], told)
          /\ overrun' = (overrun \/ table # Torn)
          /\ Idle(p)
    /\ UNCHANGED stores

\* The rename, once the temporary file is complete and synced.
Rename(p) ==
    /\ step[p] = "written"
    /\ table' = copy[p]
    /\ told' = Effect(op[p], told)
    /\ overrun' = (overrun \/ table # derived[p])
    /\ Idle(p)
    /\ UNCHANGED stores

\* An error before the rename, or the death of the process: the table stays.
Abandon(p) ==
    /\ step[p] # "idle" /\ StoreFaults # {}
    /\ Idle(p)
    /\ UNCHANGED <<table, stores, told, overrun>>

NNext ==
    \E p \in Writer :
       \/ \E o \in Operation : LoadTable(p, o)
       \/ WriteTemp(p) \/ Rename(p) \/ Abandon(p)

NSpec == NInit /\ [][NNext]_nvars
----------------------------------------------------------------------------
\* Every variable has its type; what a process is to store is the effect of its
\* operation on the table it loaded.
NTypeOK ==
    /\ table \in Table \cup {Torn} /\ told \in Table
    /\ step \in [Writer -> {"idle", "loaded", "writing", "written"}]
    /\ copy \in [Writer -> Table] /\ derived \in [Writer -> Table]
    /\ stores \in 0..MaxStores /\ overrun \in BOOLEAN
    /\ DOMAIN op = Writer
    /\ \A p \in Writer : step[p] # "idle" =>
          op[p] \in Operation /\ copy[p] = Effect(op[p], derived[p])

\* Put, Delete, MarkSeen, store: what was reported done is what the table
\* holds, whole, and nothing else, over failures and deaths at any point, until
\* one process stores a table it has loaded before another one stored.
ReportedIsStored == table # Torn /\ (overrun \/ table = told)
=============================================================================
