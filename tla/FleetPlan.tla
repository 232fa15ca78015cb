----------------------------- MODULE FleetPlan -----------------------------
(***************************************************************************)
(* The pure part of internal/fleet: batches, risk, capabilities and the    *)
(* buckets an answer falls into.  Machines are numbered in the order the   *)
(* plan lists them, and a machine's number is the node id the plan gives   *)
(* it; ids above NumMachines are those a machine gets later.               *)
(***************************************************************************)
EXTENDS Naturals, Sequences

CONSTANTS
    NumMachines,    \* machines of the plan
    NumIntents,     \* intents of the plan, every machine gets all of them
    MaxRotations    \* bound: how often a machine gets a new node id

ASSUME FleetAssumption ==
    /\ NumMachines \in Nat \ {0} /\ NumIntents \in Nat \ {0}
    /\ MaxRotations \in Nat

Machine == 1..NumMachines
Intent == 1..NumIntents
NodeId == 1..(NumMachines + MaxRotations)
NoNode == 0

Risk == {"low", "high"}
Level == {"supported", "experimental"}
Capability == {"btrfs", "none", "unspecified"}
Strategy == {"count", "importance", "custom"}

\* What a plan may be: per intent the declared risk and the one policy.toml
\* gives it, per machine the support level, which only importance looks at.
PlanOf(strategies, sizes, classes, levels) ==
    [declared : [Intent -> Risk], classified : [Intent -> classes],
     level : levels, strategy : strategies, size : sizes]

----------------------------------------------------------------------------
(* batching.go *)

Least(a, b) == IF a <= b THEN a ELSE b

\* chunkBySize: consecutive chunks of size machines, the last one may be short.
ChunkBySize(ms, size) ==
    [k \in 1..((Len(ms) + size - 1) \div size) |->
        SubSeq(ms, (k - 1) * size + 1, Least(k * size, Len(ms)))]

\* The machines of a set in the order of the list, as a function of how far
\* the loop over the list has come.
Those(ms, S) ==
    LET kept[k \in 0..Len(ms)] ==
          IF k = 0 THEN <<>>
          ELSE IF ms[k] \in S THEN Append(kept[k - 1], ms[k]) ELSE kept[k - 1]
    IN  kept[Len(ms)]

\* chunkByImportance: the supported machines first, the others after; no
\* batch is empty.
ChunkByImportance(ms, level) ==
    LET BatchOf(group) == IF group = <<>> THEN <<>> ELSE <<group>>
    IN  BatchOf(Those(ms, {m \in Machine : level[m] = "supported"}))
          \o BatchOf(Those(ms, {m \in Machine : level[m] # "supported"}))

\* The strategies SplitBatches accepts; custom and a size of zero are errors.
Splittable(plan) ==
    \/ plan.strategy = "count" /\ plan.size > 0
    \/ plan.strategy = "importance"

SplitBatches(ms, plan) ==
    IF plan.strategy = "count" THEN ChunkBySize(ms, plan.size)
    ELSE ChunkByImportance(ms, plan.level)

----------------------------------------------------------------------------
(* risk.go, scheduler.go *)

\* effectiveRisk: the stricter of what the intent says and what the policy says.
EffectiveRisk(plan, i) ==
    IF plan.declared[i] = "high" \/ plan.classified[i] = "high" THEN "high" ELSE "low"

\* normalizeSnapshotCap: an agent that does not say has none.
Normalized(cap) == IF cap = "unspecified" THEN "none" ELSE cap

\* nodeHasRollbackPoint
HasRollbackPoint(cap) == cap \notin {"none", "unspecified"}

\* ClassifyApply: the bucket of an answer.  "lost" is an answer that did not
\* arrive (Unavailable, DeadlineExceeded, Aborted), "mismatch" is
\* FailedPrecondition, anything else but a success is final.
Classify(answer) ==
    CASE answer = "success"               -> "N1"
      [] answer \in {"transient", "lost"} -> "N2"
      [] answer = "mismatch"              -> "reRegister"
      [] OTHER                            -> "N3"
============================================================================
