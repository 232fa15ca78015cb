--------------------------- MODULE PlanRecovery ----------------------------
(***************************************************************************)
(* cmd/daedalus-host/plan.go: plan submit and plan advance, the commands   *)
(* around Scheduler.Run.  A run is known to a later command only by the    *)
(* last line plans.jsonl holds for the plan; a person reads it and decides *)
(* to skip a machine or to force the plan on.  One command at a time.      *)
(***************************************************************************)
EXTENDS FleetScheduler

CONSTANTS
    Moves,        \* what the person does beyond submitting the plan once
    MaxCommands   \* bound: commands that start or resume the plan

ASSUME RecoveryAssumption ==
    Moves \subseteq {"skip", "force", "resubmit"} /\ MaxCommands \in Nat

VARIABLES
    record,      \* the last line of plans.jsonl: [status, results]
    command,     \* none | submit | advance
    skipping,    \* the machine --skip names, NoNode for --force
    merged,      \* the results carried over from the last record
    commands,    \* how many commands there have been
    human,       \* history: the machines a recorded advance has skipped
    lost         \* history: an answer or a record was lost, or the plan submitted again

history == <<human, lost>>
recovery == <<record, command, skipping, merged, commands, history>>
rvars == <<vars, recovery>>

RInit ==
    /\ Init
    /\ record = [status |-> "none", results |-> <<>>]
    /\ command = "none" /\ skipping = NoNode /\ merged = <<>>
    /\ commands = 0 /\ human = {} /\ lost = FALSE
----------------------------------------------------------------------------
\* renderRun: what a record keeps of a result; m stands for the machine in the
\* intent id, node for the node id.
Render(res) ==
    [k \in DOMAIN res |-> [m |-> res[k].m, node |-> res[k].node,
                           ok |-> res[k].outcome = "N1", accepted |-> FALSE]]

\* markSkippedResults: the results under this node id are accepted.
MarkSkipped(res, skip) ==
    [k \in DOMAIN res |-> [res[k] EXCEPT !.accepted = @ \/ res[k].node = skip]]

Successes(res, m) == Cardinality({k \in DOMAIN res : res[k].m = m /\ res[k].ok})

\* Mutant: the machines that are not done are run again, the half-done ones too.
PendingUnfinished(res) ==
    Those(Everyone, {m \in Machine : Successes(res, m) < NumIntents})

\* planPendingMachines: the machines without any success; one that is half
\* done is not run again.
Pending(res) == Those(Everyone, {m \in Machine : Successes(res, m) = 0})

\* Mutant: one success is enough.
AllTouched(res) ==
    \A m \in Machine :
       \/ Successes(res, m) > 0
       \/ \E k \in DOMAIN res : res[k].m = m /\ res[k].accepted

\* planAllSettled
AllSettled(res) ==
    \A m \in Machine :
       \/ Successes(res, m) >= NumIntents
       \/ \E k \in DOMAIN res : res[k].m = m /\ res[k].accepted

Without(ms, skip) == Those(ms, Machine \ {skip})

NoRun ==
    /\ phase' = "idle" /\ batches' = <<>> /\ nodes' = <<>>
    /\ at' = [b |-> 1, j |-> 1, i |-> 1]
    /\ target' = NoTarget /\ fresh' = NoTarget /\ retries' = 0 /\ again' = FALSE
    /\ results' = <<>> /\ status' = "none" /\ stopped' = 0

Idle == command' = "none" /\ skipping' = NoNode /\ merged' = <<>>
----------------------------------------------------------------------------
\* cmdPlanSubmit: what plans.jsonl says of the plan is not looked at.
Submit ==
    /\ command = "none" /\ commands < MaxCommands
    /\ commands = 0 \/ "resubmit" \in Moves
    /\ StartRun(Everyone)
    /\ command' = "submit" /\ commands' = commands + 1
    /\ lost' = (lost \/ commands > 0)
    /\ UNCHANGED <<record, skipping, merged, human>>

\* cmdPlanAdvance with machines left to run; it does nothing when Run refuses
\* to start, as it does when one of them has a new node id.
Advance(skip) ==
    /\ command = "none" /\ commands < MaxCommands
    /\ record.status = "dirty"
    /\ LET res == MarkSkipped(record.results, skip)
           ms  == Without(Pending(res), skip)
       IN  /\ ms # <<>>
           /\ StartRun(ms)
           /\ merged' = res
    /\ command' = "advance" /\ skipping' = skip /\ commands' = commands + 1
    /\ UNCHANGED <<record, history>>

\* cmdPlanAdvance with none left: only the record changes.
AdvanceNobody(skip) ==
    /\ command = "none" /\ commands < MaxCommands
    /\ record.status = "dirty"
    /\ LET res == MarkSkipped(record.results, skip)
       IN  /\ Without(Pending(res), skip) = <<>>
           /\ record' = [status |-> IF AllSettled(res) THEN "complete" ELSE "dirty",
                         results |-> res]
    /\ human' = human \cup ({skip} \ {NoNode})
    /\ commands' = commands + 1
    /\ UNCHANGED <<vars, command, skipping, merged, lost>>

\* Mutant: the results of the runs before are not carried over.
ReplaceRecord ==
    record' = [status |-> IF status = "complete" /\ AllSettled(merged \o Render(results))
                          THEN "complete" ELSE "dirty",
               results |-> Render(results)]

\* The record of a run that has ended: its own verdict counts only together
\* with what earlier runs have left.
NewRecord ==
    record' = [status |-> IF status = "complete" /\ AllSettled(merged \o Render(results))
                          THEN "complete" ELSE "dirty",
               results |-> merged \o Render(results)]

\* A line after one that is cut is not read either.
NothingReadable == record.status = "torn" /\ record' = record

\* appendPlanRecord
Record ==
    /\ phase = "ended"
    /\ \/ record.status # "torn" /\ NewRecord
       \/ NothingReadable
    /\ human' = human \cup ({skipping} \ {NoNode})
    /\ NoRun /\ Idle
    /\ UNCHANGED <<registry, agent, plan, effects, commands, lost>>

\* The command is gone without a record: it dies, or appending fails; the line
\* it was writing may be cut, and then no command can read the file again.
Forgotten ==
    /\ \/ Running /\ "crash" \in Faults
       \/ phase = "ended" /\ Faults \cap {"crash", "io"} # {}
    /\ \/ record' = record
       \/ phase = "ended" /\ record' = [record EXCEPT !.status = "torn"]
    /\ NoRun /\ Idle
    /\ lost' = TRUE
    /\ UNCHANGED <<registry, agent, plan, effects, commands, human>>

\* The scheduler goes on; an intent applied without a success to show for it is
\* an answer lost.
Schedule ==
    /\ Scheduling
    /\ lost' = \/ lost
               \/ effects' # effects /\ phase' = "send"
               \/ effects' # effects /\ Last(results').outcome # "N1"
    /\ UNCHANGED <<record, command, skipping, merged, commands, human>>

Person ==
    \/ "force" \in Moves /\ (Advance(NoNode) \/ AdvanceNobody(NoNode))
    \/ "skip" \in Moves /\ \E m \in Machine : Advance(m) \/ AdvanceNobody(m)

RNext ==
    \/ Submit
    \/ Person
    \/ Schedule
    \/ Record
    \/ Forgotten
    \/ (\E m \in Machine : Rotate(m)) /\ UNCHANGED recovery

RSpec == RInit /\ [][RNext]_rvars
----------------------------------------------------------------------------
\* planPendingMachines: whatever a person skips and forces, in any order, no
\* agent applies the same intent of the plan twice, so long as the plan is
\* submitted once and neither an answer nor a record is lost.
AppliedOnce == lost \/ \A m \in Machine, i \in Intent : effects[m][i] <= 1

\* recoveryFor: between commands, and so long as nothing is lost, the last record
\* holds a success, and with it a rollback command, for everything the agents
\* have applied.
NothingUnaccounted ==
    command = "none" /\ ~lost =>
      \A m \in Machine :
         Successes(record.results, m) = Cardinality({i \in Intent : effects[m][i] > 0})

\* planAllSettled: a plan is recorded complete only if each machine has applied
\* all of it or a person has skipped that machine, also over crashes, lost
\* answers and repeated submissions.
CompleteMeansSettled ==
    record.status = "complete" =>
      \A m \in Machine : m \in human \/ \A i \in Intent : effects[m][i] > 0

\* cmdPlanAdvance: --skip takes a machine out of what is still to be run; only
\* --force may bring it back.
SkipStays ==
    [][\A m \in human, i \in Intent : effects'[m][i] = effects[m][i]]_rvars

\* Not met by the code, no run checks it (see README.md): machineOfIntentID, a
\* skipped machine's results are accepted although its node id has changed.
SkipAccepts ==
    command = "none" =>
      \A k \in DOMAIN record.results :
         record.results[k].m \in human => record.results[k].accepted
============================================================================
