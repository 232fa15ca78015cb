-------------------------- MODULE FleetScheduler ---------------------------
(***************************************************************************)
(* internal/fleet: Scheduler.Run drives a plan batch by batch, machine by  *)
(* machine, intent by intent, one RPC at a time, against agents that       *)
(* fail, lose answers and get new node ids, and keeps the node registry    *)
(* (nodes.jsonl) in step with them.  The agents are modelled from how this *)
(* code uses them.  A registry operation replaces the file by a rename, so *)
(* it is one step; markSeen writes only last_seen and its errors are       *)
(* ignored, so it is left out.                                             *)
(***************************************************************************)
EXTENDS FleetPlan, FiniteSetsExt, SequencesExt

CONSTANTS
    Strategies, Sizes,   \* the batching a plan may ask for
    Classes,             \* the risks policy.toml may give an intent
    Levels,              \* the support levels the machines may have
    Capabilities,        \* what agents report
    RetryMax,            \* retries of a low-risk intent
    Faults               \* what may go wrong: a subset of FaultKinds

FaultKinds == {"transient",  \* an agent fails without effect and says so
               "lost",       \* an answer is lost, whether or not the agent acted
               "refused",    \* an agent fails for good, whether or not it acted
               "rotate",     \* an agent gets a new node id
               "rpc",        \* a Register call fails
               "io",         \* a registry write fails
               "crash"}      \* the control plane dies: any state may be the last of a run

ASSUME SchedulerAssumption ==
    /\ Capabilities \subseteq Capability /\ Classes \subseteq Risk
    /\ Levels \subseteq [Machine -> Level]
    /\ Strategies \subseteq Strategy /\ Sizes \subseteq Nat
    /\ RetryMax \in Nat
    /\ Faults \subseteq FaultKinds

VARIABLES
    registry,    \* [NodeId -> row]: nodes.jsonl
    agent,       \* [Machine -> [id, cap, known]], known: registered under this id
    plan,        \* the plan
    phase,       \* idle | open | send | register | delete | put | ended
    batches,     \* the batches of this run
    nodes,       \* [Machine -> target]: rows read when the run started
    at,          \* [b, j, i]: batch, machine in the batch, intent
    target,      \* t.Node: the row the dispatch uses
    fresh,       \* the row a Register brought back
    retries,     \* retriesLeft
    again,       \* reRegistered
    results,     \* run.Results
    status,      \* run.Status
    stopped,     \* run.StoppedAt, 0 for nil
    effects      \* history: [Machine -> [Intent -> how often the agent applied it]]

run == <<phase, batches, nodes, at, target, fresh, retries, again, results,
         status, stopped>>
vars == <<registry, agent, plan, run, effects>>

NoRow == [box |-> 0, cap |-> "none"]
NoTarget == [id |-> NoNode, box |-> 0, cap |-> "none"]
Target(id) == [id |-> id, box |-> registry[id].box, cap |-> registry[id].cap]
RowsOf(m) == {id \in NodeId : registry[id].box = m}
Ids == {agent[m].id : m \in Machine} \cup {NumMachines}

\* node add has registered every machine, under the id the plan gives it.
Init ==
    /\ plan \in PlanOf(Strategies, Sizes, Classes, Levels)
    /\ \E cap \in [Machine -> Capabilities] :
          /\ agent = [m \in Machine |-> [id |-> m, cap |-> cap[m], known |-> TRUE]]
          /\ registry = [id \in NodeId |->
                IF id \in Machine THEN [box |-> id, cap |-> Normalized(cap[id])] ELSE NoRow]
    /\ phase = "idle"
    /\ batches = <<>> /\ nodes = <<>> /\ at = [b |-> 1, j |-> 1, i |-> 1]
    /\ target = NoTarget /\ fresh = NoTarget
    /\ retries = 0 /\ again = FALSE
    /\ results = <<>> /\ status = "none" /\ stopped = 0
    /\ effects = [m \in Machine |-> [i \in Intent |-> 0]]

Here == batches[at.b][at.j]                   \* the machine being served
High(i) == EffectiveRisk(plan, i) = "high"
----------------------------------------------------------------------------
(* Scheduler.Run *)

\* The rows of all machines are read before anything is sent; a machine that
\* is not registered, or a batching that is not implemented, stops the run.
StartRun(ms) ==
    /\ phase = "idle"
    /\ \A k \in DOMAIN ms : registry[ms[k]] # NoRow
    /\ Splittable(plan)
    /\ batches' = SplitBatches(ms, plan)
    /\ nodes' = [m \in {ms[k] : k \in DOMAIN ms} |-> Target(m)]
    /\ at' = [b |-> 1, j |-> 1, i |-> 1]
    /\ phase' = "open"
    /\ results' = <<>> /\ status' = "running" /\ stopped' = 0
    /\ target' = NoTarget /\ fresh' = NoTarget /\ retries' = 0 /\ again' = FALSE
    /\ UNCHANGED <<registry, agent, plan, effects>>

\* Mutant: the loop over a batch goes one machine too far.
StepTooFar(cur) ==
    IF cur.i < NumIntents THEN [cur EXCEPT !.i = @ + 1]
    ELSE IF cur.j <= Len(batches[cur.b]) THEN [b |-> cur.b, j |-> cur.j + 1, i |-> 1]
    ELSE [b |-> cur.b + 1, j |-> 1, i |-> 1]

\* The loops of Run: the next intent, else machine, else batch, else the end.
Step(cur) ==
    IF cur.i < NumIntents THEN [cur EXCEPT !.i = @ + 1]
    ELSE IF cur.j < Len(batches[cur.b]) THEN [b |-> cur.b, j |-> cur.j + 1, i |-> 1]
    ELSE [b |-> cur.b + 1, j |-> 1, i |-> 1]

\* Mutant: a failure ends the machine's turn, not the run.
ConcludeOnward(outcome, why) ==
    /\ results' = Append(results, [m |-> Here, i |-> at.i, node |-> target'.id,
                                   outcome |-> outcome, why |-> why])
    /\ LET next == Step(at)
           over == next.b > Len(batches)
       IN  /\ at' = IF over THEN at ELSE next
           /\ phase' = IF over THEN "ended" ELSE "open"
           /\ status' = IF outcome = "N3" THEN "dirty" ELSE IF over THEN "complete" ELSE status
           /\ stopped' = stopped

\* runOne has returned: Run notes the result, stops the whole plan at a
\* failure and names the batch that is not started, or goes on.
Conclude(outcome, why) ==
    /\ results' = Append(results, [m |-> Here, i |-> at.i, node |-> target'.id,
                                   outcome |-> outcome, why |-> why])
    /\ LET next == Step(at)
           over == next.b > Len(batches)
       IN  IF outcome = "N3"
           THEN /\ phase' = "ended" /\ status' = "dirty" /\ at' = at
                /\ stopped' = IF at.b < Len(batches) THEN at.b + 1 ELSE 0
           ELSE /\ at' = IF over THEN at ELSE next
                /\ phase' = IF over THEN "ended" ELSE "open"
                /\ status' = IF over THEN "complete" ELSE status
                /\ stopped' = stopped

GoesOn(ph) == phase' = ph /\ UNCHANGED <<at, results, status, stopped>>
----------------------------------------------------------------------------
(* Scheduler.runOne *)

\* A high-risk intent is refused before any RPC when the row that was read at
\* the start of the run shows no rollback point.
Refuse ==
    /\ phase = "open"
    /\ High(at.i) /\ ~HasRollbackPoint(nodes[Here].cap)
    /\ target' = nodes[Here]
    /\ Conclude("N3", "noRollbackPoint")
    /\ UNCHANGED <<registry, agent, plan, batches, nodes, fresh, retries, again, effects>>

\* Mutant: every intent gets the retries.
OpenGenerously ==
    /\ phase = "open"
    /\ High(at.i) => HasRollbackPoint(nodes[Here].cap)
    /\ target' = nodes[Here]
    /\ retries' = RetryMax
    /\ again' = FALSE
    /\ GoesOn("send")
    /\ UNCHANGED <<registry, agent, plan, batches, nodes, fresh, effects>>

\* Only low-risk intents get retries.
Open ==
    /\ phase = "open"
    /\ High(at.i) => HasRollbackPoint(nodes[Here].cap)
    /\ target' = nodes[Here]
    /\ retries' = IF High(at.i) THEN 0 ELSE RetryMax
    /\ again' = FALSE
    /\ GoesOn("send")
    /\ UNCHANGED <<registry, agent, plan, batches, nodes, fresh, effects>>

\* What the agent at the target's address may answer: it does not know the
\* control plane under an id that is not registered with it.
Answers ==
    IF agent[target.box].known
    THEN {"success"} \cup (Faults \cap {"transient", "lost", "refused"})
    ELSE {"mismatch"}

\* Whether the agent has acted on the call.  A lost answer does not tell, nor does
\* a final code: Internal or Unknown may come from an agent that has acted.
Acted(answer) ==
    CASE answer = "success"             -> {TRUE}
      [] answer \in {"lost", "refused"} -> BOOLEAN
      [] OTHER                          -> {FALSE}

\* Mutant: a retry is not counted.
RetryFreely == retries' = retries /\ GoesOn("send")

\* N2 with retries left.
Retry == retries' = retries - 1 /\ GoesOn("send")

\* One round of the loop of runOne: Dispatch, and what its bucket leads to.
Dispatch ==
    /\ phase = "send"
    /\ \E answer \in Answers : \E acted \in Acted(answer) :
          /\ effects' = IF acted THEN [effects EXCEPT ![target.box][at.i] = @ + 1] ELSE effects
          /\ target' = target
          /\ LET bucket == Classify(answer)
             IN  \/ /\ bucket = "N1"
                    /\ Conclude("N1", "success")
                    /\ UNCHANGED <<retries, again>>
                 \/ /\ bucket = "reRegister" /\ again
                    /\ Conclude("N3", "mismatch")
                    /\ UNCHANGED <<retries, again>>
                 \/ /\ bucket = "reRegister" /\ ~again
                    /\ again' = TRUE
                    /\ GoesOn("register")
                    /\ UNCHANGED retries
                 \/ /\ bucket = "N2" /\ retries > 0
                    /\ Retry
                    /\ UNCHANGED again
                 \/ /\ bucket = "N2" /\ retries = 0
                    /\ Conclude("N3", "exhausted")
                    /\ UNCHANGED <<retries, again>>
                 \/ /\ bucket = "N3"
                    /\ Conclude("N3", "refused")
                    /\ UNCHANGED <<retries, again>>
    /\ UNCHANGED <<registry, agent, plan, batches, nodes, fresh>>
----------------------------------------------------------------------------
(* Scheduler.reRegister *)

\* The Register call: the agent tells its id and capability and is known again.
Register ==
    /\ phase = "register"
    /\ agent' = [agent EXCEPT ![target.box].known = TRUE]
    /\ fresh' = [id |-> agent[target.box].id, box |-> target.box,
                 cap |-> Normalized(agent[target.box].cap)]
    /\ GoesOn(IF fresh'.id # target.id THEN "delete" ELSE "put")
    /\ UNCHANGED <<registry, plan, batches, nodes, target, retries, again, effects>>

\* Registry.Delete: the row of the old id goes first.
Delete ==
    /\ phase = "delete"
    /\ registry[target.id] # NoRow
    /\ registry' = [registry EXCEPT ![target.id] = NoRow]
    /\ GoesOn("put")
    /\ UNCHANGED <<agent, plan, batches, nodes, target, fresh, retries, again, effects>>

\* Mutant: an error of Put is ignored.
PutUnchecked ==
    /\ phase = "put"
    /\ \/ registry' = [registry EXCEPT ![fresh.id] = [box |-> fresh.box, cap |-> fresh.cap]]
       \/ "io" \in Faults /\ registry' = registry
    /\ target' = fresh
    /\ GoesOn("send")
    /\ UNCHANGED <<agent, plan, batches, nodes, fresh, retries, again, effects>>

\* Registry.Put of the new row, which the dispatch is repeated with.
Put ==
    /\ phase = "put"
    /\ registry' = [registry EXCEPT ![fresh.id] = [box |-> fresh.box, cap |-> fresh.cap]]
    /\ target' = fresh
    /\ GoesOn("send")
    /\ UNCHANGED <<agent, plan, batches, nodes, fresh, retries, again, effects>>

\* A failing step of reRegister fails the intent.  Register may fail before or
\* after the agent has taken it; Delete fails when there is no such row.
ReRegisterFails ==
    /\ \/ /\ phase = "register" /\ "rpc" \in Faults
          /\ \E taken \in BOOLEAN :
                agent' = [agent EXCEPT ![target.box].known = @ \/ taken]
       \/ /\ phase = "delete" /\ (registry[target.id] = NoRow \/ "io" \in Faults)
          /\ agent' = agent
       \/ /\ phase = "put" /\ "io" \in Faults
          /\ agent' = agent
    /\ target' = target
    /\ Conclude("N3", "reRegister")
    /\ UNCHANGED <<registry, plan, batches, nodes, fresh, retries, again, effects>>
----------------------------------------------------------------------------
\* A machine is enrolled anew: another node id, perhaps another capability.
Rotate(m) ==
    /\ "rotate" \in Faults
    /\ Max(Ids) + 1 \in NodeId
    /\ \E cap \in Capabilities :
          agent' = [agent EXCEPT ![m] = [id |-> Max(Ids) + 1, cap |-> cap, known |-> FALSE]]
    /\ UNCHANGED <<registry, plan, run, effects>>

Running == phase \in {"open", "send", "register", "delete", "put"}

Scheduling == Refuse \/ Open \/ Dispatch \/ Register \/ Delete \/ Put \/ ReRegisterFails

Everyone == [k \in Machine |-> k]             \* plan.Machines

Next ==
    \/ StartRun(Everyone)
    \/ Scheduling
    \/ \E m \in Machine : Rotate(m)

Spec == Init /\ [][Next]_vars
----------------------------------------------------------------------------
AnyTarget == [id : NodeId \cup {NoNode}, box : Machine \cup {0}, cap : Capability]

\* Every variable has its type, and the position of a run under way is one of
\* its batches.
TypeOK ==
    /\ registry \in [NodeId -> [box : Machine \cup {0}, cap : {"btrfs", "none"}]]
    /\ agent \in [Machine -> [id : NodeId, cap : Capability, known : BOOLEAN]]
    /\ plan \in PlanOf(Strategies, Sizes, Classes, Levels)
    /\ phase \in {"idle", "open", "send", "register", "delete", "put", "ended"}
    /\ target \in AnyTarget /\ fresh \in AnyTarget
    /\ retries \in 0..RetryMax /\ again \in BOOLEAN
    /\ status \in {"none", "running", "complete", "dirty"}
    /\ stopped \in 0..NumMachines
    /\ effects \in [Machine -> [Intent -> Nat]]
    /\ Running => /\ at.b \in DOMAIN batches /\ at.j \in DOMAIN batches[at.b]
                  /\ at.i \in Intent /\ Here \in DOMAIN nodes
    /\ phase \in {"send", "register", "delete", "put"} => target.box = Here

\* The (machine, intent) pairs of a run in the order of its loops.
Agenda ==
    LET machines == FlattenSeq(batches)
    IN  [k \in 1..(Len(machines) * NumIntents) |->
            [m |-> machines[1 + (k - 1) \div NumIntents], i |-> 1 + ((k - 1) % NumIntents)]]

\* A run serves every machine of the plan exactly once whatever the batching,
\* in the order of its batches, and nothing is sent past a failure: the
\* results are the agenda so far, only the last of them may be a failure, and
\* what the agents have done goes no further than the pair now being served.
NothingPastAFailure ==
    phase # "idle" =>
      LET agenda == Agenda
          served == Len(results) + (IF Running THEN 1 ELSE 0)
      IN  /\ Len(agenda) = NumMachines * NumIntents
          /\ Range(agenda) = [m : Machine, i : Intent]
          /\ \A k \in DOMAIN results :
                /\ [m |-> results[k].m, i |-> results[k].i] = agenda[k]
                /\ results[k].outcome = "N3" => k = Len(results)
          /\ \A k \in DOMAIN agenda : k > served => effects[agenda[k].m][agenda[k].i] = 0

\* The verdict of Run: complete only when every machine has applied every
\* intent, dirty only when the last result failed, and then StoppedAt is the
\* first batch no machine of which was touched, if there is one.
VerdictIsEarned ==
    /\ status = "complete" => \A m \in Machine, i \in Intent : effects[m][i] > 0
    /\ status = "dirty" =>
         /\ results[Len(results)].outcome = "N3"
         /\ stopped = 0 => results[Len(results)].m \in Range(batches[Len(batches)])
         /\ stopped > 0 =>
              /\ \A b \in stopped..Len(batches) : \A m \in Range(batches[b]) :
                    \A i \in Intent : effects[m][i] = 0
              /\ results[Len(results)].m \in Range(batches[stopped - 1])

\* scheduler.go, risk buckets: an agent applies a high-risk intent at most once
\* in a run, however answers are lost and ids rotate, and a low-risk one no
\* more often than one call and its retries allow.
AppliedWithinBudget ==
    \A m \in Machine, i \in Intent :
       effects[m][i] <= 1 + (IF High(i) THEN 0 ELSE RetryMax)

\* The re-registration of m is between Delete and Put, or the run has ended there,
\* with m as its last, failed result.
InBetween(m) ==
    \/ phase = "put" /\ m = Here
    \/ /\ phase = "ended" /\ status = "dirty"
       /\ results[Len(results)].m = m /\ results[Len(results)].why = "reRegister"

\* Registry.Delete, reRegister: a machine never has two rows, and it has none only
\* between the Delete and the Put of its own re-registration, or when the run has
\* ended there: no machine is forgotten without the run failing on it.
OneRowPerMachine ==
    \A m \in Machine :
       /\ Cardinality(RowsOf(m)) <= 1
       /\ RowsOf(m) = {} => InBetween(m)

\* Not met by the code, no run checks it (see README.md).
\* scheduler.go, head of the file: an agent is made to apply a high-risk intent
\* only while the registry shows a rollback point for its machine.
HighNeedsSnapshot ==
    [][\A m \in Machine, i \in Intent :
          High(i) /\ effects'[m][i] > effects[m][i] =>
            \E id \in RowsOf(m) : HasRollbackPoint(registry[id].cap)]_vars

\* Not met by the code, no run checks it (see README.md).
\* OutcomeReRegister, "not a persistent failure": where new node ids are all
\* that goes wrong, re-registering a machine never fails the intent.
RotationIsNoFailure ==
    \A k \in DOMAIN results : results[k].why # "reRegister"

\* How far a run is from its end: the pairs not concluded, whether the present
\* one is sent yet, whether it has its re-registration left, its retries, and
\* the steps up to the next call.
Distance ==
    LET ahead == Len(Agenda) - Len(results)
        unsent == IF phase = "open" THEN 1 ELSE 0
        spare  == IF again THEN 0 ELSE 1
        toCall == CASE phase = "register" -> 3 [] phase = "delete" -> 2
                    [] phase = "put" -> 1 [] OTHER -> 0
    IN  (((2 * ahead + unsent) * 2 + spare) * (RetryMax + 1) + retries) * 4 + toCall

\* Every run ends, whatever the agents answer and however often they change
\* their id: each step of the scheduler brings it nearer to its end (the loops
\* of Run and runOne).
RunEnds == [][Scheduling => Distance' < Distance /\ Distance \in Nat]_vars
============================================================================
