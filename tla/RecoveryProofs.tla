--------------------------- MODULE RecoveryProofs --------------------------
(* Proofs about PlanRecovery: what the records of a plan say of what its     *)
(* machines have applied, over the runs that submit and advance start, with  *)
(* machines skipped or forced on between them.                               *)
EXTENDS PlanRecovery, FleetProofs

USE FleetAssumption, SchedulerAssumption, RecoveryAssumption
----------------------------------------------------------------------------
(* The shape of commands and records. *)

Rendered == [m : Machine, node : NodeId \cup {NoNode}, ok : BOOLEAN, accepted : BOOLEAN]

\* A command runs the plan for as long as the scheduler does; between commands
\* nothing of it is left but the record.
Commanded ==
    /\ command = "none" <=> phase = "idle"
    /\ command = "none" => merged = <<>>
    /\ record \in [status : {"none", "dirty", "complete", "torn"}, results : Seq(Rendered)]
    /\ merged \in Seq(Rendered)
    /\ skipping \in Machine \cup {NoNode} /\ human \subseteq Machine
    /\ lost \in BOOLEAN /\ commands \in Nat
    /\ commands = 0 => command = "none"
    /\ record.status = "torn" => lost

\* The node id of a result is the one the plan gives its machine or a later one,
\* so that no other machine is skipped under it.
OwnNode(res) == \A k \in DOMAIN res : res[k].node = res[k].m \/ res[k].node > NumMachines

Named ==
    /\ phase \in ServePhases => target.id = Here \/ target.id > NumMachines
    /\ OwnNode(results) /\ OwnNode(record.results) /\ OwnNode(merged)

(* What the results of a run stand for. *)

IsOf(r, m, i) == r.m = m /\ r.i = i /\ r.outcome = "N1"

\* The results of a run are of different pairs, those the run has come past, and
\* a success is of an intent the machine has applied.
Noted ==
    phase # "idle" =>
      /\ \A k \in DOMAIN results :
            /\ results[k].m \in DOMAIN nodes
            /\ \E p \in Place : /\ Who(p) = results[k].m /\ p.i = results[k].i
                                /\ Before(p, at) \/ (p = at /\ phase = "ended")
            /\ results[k].outcome = "N1" => effects[results[k].m][results[k].i] > 0
      /\ \A k, l \in DOMAIN results :
            results[k].m = results[l].m /\ results[k].i = results[l].i => k = l

(* What records say of the machines. *)

Touched(m) == {i \in Intent : effects[m][i] > 0}

\* No machine has more successes on record than it has intents applied, and a
\* run leaves out the machines that have any.
Counted ==
    /\ \A m \in Machine : /\ Successes(record.results, m) <= Cardinality(Touched(m))
                          /\ Successes(merged, m) <= Cardinality(Touched(m))
    /\ phase # "idle" => \A m \in DOMAIN nodes : Successes(merged, m) = 0

\* What is accepted is of a machine that has been skipped, or is being skipped.
AcceptedOf(res, S) == \A k \in DOMAIN res : res[k].accepted => res[k].m \in S

Accepted ==
    /\ AcceptedOf(record.results, human)
    /\ AcceptedOf(merged, human \cup {skipping})

\* So long as nothing is lost every intent applied is a success on record, or
\* of the run under way, and none is applied twice.
Accounted ==
    ~lost =>
      /\ AppliedOnce
      /\ NothingUnaccounted
      /\ commands = 0 => \A m \in Machine, i \in Intent : effects[m][i] = 0
      /\ phase # "idle" =>
           /\ \A m \in Machine \ DOMAIN nodes : Successes(merged, m) = Cardinality(Touched(m))
           /\ \A m \in DOMAIN nodes, i \in Intent :
                 effects[m][i] > 0 => \E k \in DOMAIN results : IsOf(results[k], m, i)

RecoveryInv == /\ Shape /\ Rows /\ Commanded /\ Named /\ Noted
               /\ Counted /\ Accepted /\ CompleteMeansSettled /\ Accounted
----------------------------------------------------------------------------
(* Counting what has been applied. *)

EffectTypes == effects \in [Machine -> [Intent -> Nat]]

LEMMA TouchedFinite ==
  ASSUME NEW m \in Machine
  PROVE  /\ IsFiniteSet(Touched(m)) /\ Cardinality(Touched(m)) \in Nat
         /\ Cardinality(Touched(m)) >= NumIntents => Touched(m) = Intent
         /\ Cardinality(Touched(m)) = 0 => Touched(m) = {}
  <1>1. IsFiniteSet(Intent) /\ Cardinality(Intent) = NumIntents
    BY FS_Interval DEF Intent
  <1>2. Touched(m) \in SUBSET Intent
    BY DEF Touched
  <1> HIDE DEF Touched
  <1>3. /\ IsFiniteSet(Touched(m)) /\ Cardinality(Touched(m)) <= Cardinality(Intent)
        /\ Cardinality(Intent) = Cardinality(Touched(m)) => Intent = Touched(m)
    BY <1>1, <1>2, FS_Subset
  <1>4. Cardinality(Touched(m)) \in Nat
    BY <1>3, FS_CardinalityType
  <1>5. Cardinality(Touched(m)) = 0 => Touched(m) = {}
    BY <1>3, FS_EmptySet
  <1> QED BY <1>1, <1>3, <1>4, <1>5

\* What has been applied stays so.
Growing == \A m \in Machine, i \in Intent : effects[m][i] > 0 => effects'[m][i] > 0

LEMMA TouchedGrows ==
  ASSUME NEW m \in Machine, NEW S, NEW T, S \in SUBSET T, T \in SUBSET Intent
  PROVE  Cardinality(S) <= Cardinality(T)
  <1>1. IsFiniteSet(Intent)
    BY FS_Interval DEF Intent
  <1>2. IsFiniteSet(T)
    BY <1>1, FS_Subset
  <1> QED BY <1>2, FS_Subset

----------------------------------------------------------------------------
(* Counting successes. *)

\* The results that are successes of a machine.
Wins(res, m) == {k \in DOMAIN res : res[k].m = m /\ res[k].ok}

LEMMA WinsFinite ==
  ASSUME NEW res \in Seq(Rendered), NEW m
  PROVE  /\ Successes(res, m) = Cardinality(Wins(res, m)) /\ Successes(res, m) \in Nat
         /\ IsFiniteSet(Wins(res, m)) /\ Wins(res, m) \subseteq 1..Len(res)
         /\ Successes(res, m) = 0 <=> Wins(res, m) = {}
  <1>1. DOMAIN res = 1..Len(res) /\ Len(res) \in Nat
    OBVIOUS
  <1>2. Successes(res, m) = Cardinality(Wins(res, m))
    BY DEF Successes, Wins
  <1>3. Wins(res, m) \in SUBSET (1..Len(res))
    BY <1>1 DEF Wins
  <1> HIDE DEF Wins
  <1>4. IsFiniteSet(1..Len(res))
    BY <1>1, FS_Interval
  <1>5. IsFiniteSet(Wins(res, m))
    BY <1>3, <1>4, FS_Subset
  <1>6. Cardinality(Wins(res, m)) \in Nat
    BY <1>5, FS_CardinalityType
  <1>7. Cardinality(Wins(res, m)) = 0 <=> Wins(res, m) = {}
    BY <1>5, FS_EmptySet
  <1> QED BY <1>2, <1>3, <1>5, <1>6, <1>7

\* As many numbers after they are all moved by n.
LEMMA Moved ==
  ASSUME NEW S, S \subseteq Nat, IsFiniteSet(S), NEW n \in Nat
  PROVE  /\ IsFiniteSet({n + k : k \in S})
         /\ Cardinality({n + k : k \in S}) = Cardinality(S)
  <1> DEFINE T == {n + k : k \in S}
             f == [k \in S |-> n + k]
  <1>1. f \in [S -> T]
    OBVIOUS
  <1>2. \A j, k \in S : f[j] = f[k] => j = k
    OBVIOUS
  <1>3. \A y \in T : \E k \in S : f[k] = y
    OBVIOUS
  <1> HIDE DEF T, f
  <1>4. f \in Bijection(S, T)
    BY <1>1, <1>2, <1>3 DEF Bijection, Injection, Surjection, IsInjective
  <1>5. ExistsBijection(S, T)
    BY <1>4 DEF ExistsBijection
  <1>6. IsFiniteSet(T) /\ Cardinality(T) = Cardinality(S)
    BY <1>5, FS_Bijection
  <1> QED BY <1>6 DEF T

\* The successes of two lists of results.
LEMMA SuccessesAdd ==
  ASSUME NEW a \in Seq(Rendered), NEW b \in Seq(Rendered), NEW m
  PROVE  /\ a \o b \in Seq(Rendered)
         /\ Successes(a \o b, m) = Successes(a, m) + Successes(b, m)
  <1> DEFINE c == a \o b
             n == Len(a)
             A == Wins(a, m)
             B == Wins(b, m)
             T == {n + k : k \in B}
  <1>1. /\ c \in Seq(Rendered) /\ Len(c) = n + Len(b) /\ n \in Nat /\ Len(b) \in Nat
        /\ DOMAIN c = 1..(n + Len(b)) /\ DOMAIN a = 1..n /\ DOMAIN b = 1..Len(b)
        /\ \A k \in 1..n : c[k] = a[k]
        /\ \A k \in 1..Len(b) : c[n + k] = b[k]
    OBVIOUS
  <1>2. A \subseteq 1..n /\ B \subseteq 1..Len(b) /\ IsFiniteSet(A) /\ IsFiniteSet(B)
    BY WinsFinite
  <1> HIDE DEF c, n
  <1>3. IsFiniteSet(T) /\ Cardinality(T) = Cardinality(B)
    <2>1. B \subseteq Nat /\ IsFiniteSet(B) /\ n \in Nat
      BY <1>1, <1>2
    <2> HIDE DEF B
    <2> QED BY <2>1, Moved, Zenon
  <1>4. Wins(c, m) = A \cup T
    <2>1. ASSUME NEW k \in Wins(c, m) PROVE k \in A \cup T
      <3>1. k \in 1..(n + Len(b)) /\ c[k].m = m /\ c[k].ok
        BY <1>1, <2>1 DEF Wins
      <3>2. CASE k \in 1..n
        BY <1>1, <3>1, <3>2 DEF Wins
      <3>3. CASE ~(k \in 1..n)
        <4>1. k - n \in 1..Len(b) /\ n + (k - n) = k
          BY <1>1, <3>1, <3>3
        <4>2. k - n \in B
          <5>1. c[n + (k - n)] = b[k - n]
            BY <1>1, <4>1, Zenon
          <5> QED BY <1>1, <3>1, <4>1, <5>1 DEF Wins
        <4> QED BY <4>1, <4>2
      <3> QED BY <3>2, <3>3
    <2>2. ASSUME NEW k \in A PROVE k \in Wins(c, m)
      <3>1. k \in 1..n /\ a[k].m = m /\ a[k].ok
        BY <1>1, <2>2 DEF Wins
      <3>2. k \in 1..(n + Len(b))
        BY <1>1, <3>1
      <3> QED BY <1>1, <3>1, <3>2 DEF Wins
    <2>3. ASSUME NEW k \in B PROVE n + k \in Wins(c, m)
      <3>1. k \in 1..Len(b) /\ b[k].m = m /\ b[k].ok
        BY <1>1, <2>3 DEF Wins
      <3>2. n + k \in 1..(n + Len(b))
        BY <1>1, <3>1
      <3> QED BY <1>1, <3>1, <3>2 DEF Wins
    <2> QED BY <2>1, <2>2, <2>3
  <1>5. A \cap T = {}
    <2>1. \A k \in B : ~(n + k \in 1..n)
      BY <1>1, <1>2
    <2> QED BY <1>2, <2>1
  <1> HIDE DEF A, B, T
  <1>6. Cardinality(A \cup T) = Cardinality(A) + Cardinality(T) - Cardinality(A \cap T)
    BY <1>2, <1>3, FS_Union
  <1>7. Cardinality(A \cap T) = 0
    BY <1>5, FS_EmptySet
  <1>8. Cardinality(A) \in Nat /\ Cardinality(B) \in Nat
    BY <1>2, FS_CardinalityType
  <1>9. Cardinality(Wins(c, m)) = Cardinality(A) + Cardinality(B)
    BY <1>3, <1>4, <1>6, <1>7, <1>8
  <1>10. Successes(c, m) = Cardinality(Wins(c, m))
    BY <1>1, WinsFinite
  <1>11. Successes(a, m) = Cardinality(A) /\ Successes(b, m) = Cardinality(B)
    BY WinsFinite DEF A, B
  <1> QED BY <1>1, <1>9, <1>10, <1>11 DEF c

----------------------------------------------------------------------------
(* What the commands make of results. *)

\* markSkippedResults accepts what is under the node id that is skipped, which
\* is of that machine, and changes nothing else.
LEMMA SkipMarks ==
  ASSUME NEW res \in Seq(Rendered), OwnNode(res), NEW skip \in Machine \cup {NoNode},
         NEW S, AcceptedOf(res, S)
  PROVE  /\ MarkSkipped(res, skip) \in Seq(Rendered) /\ OwnNode(MarkSkipped(res, skip))
         /\ AcceptedOf(MarkSkipped(res, skip), S \cup ({skip} \ {NoNode}))
         /\ \A m : Successes(MarkSkipped(res, skip), m) = Successes(res, m)
  <1> DEFINE r == MarkSkipped(res, skip)
             mark(k) == [res[k] EXCEPT !.accepted = res[k].accepted \/ res[k].node = skip]
  <1>1. DOMAIN res = 1..Len(res) /\ Len(res) \in Nat /\ \A k \in 1..Len(res) : res[k] \in Rendered
    OBVIOUS
  <1>2. r = [k \in DOMAIN res |-> mark(k)]
    BY DEF MarkSkipped
  <1>3. ASSUME NEW k \in 1..Len(res)
        PROVE  /\ mark(k) \in Rendered /\ mark(k).m = res[k].m /\ mark(k).node = res[k].node
               /\ mark(k).ok = res[k].ok
               /\ mark(k).accepted = (res[k].accepted \/ res[k].node = skip)
    BY <1>1 DEF Rendered
  <1> HIDE DEF mark
  <1>4. r \in [1..Len(res) -> Rendered]
    BY <1>1, <1>2, <1>3
  <1> HIDE DEF r
  <1>5. r \in Seq(Rendered) /\ DOMAIN r = 1..Len(res)
    BY <1>1, <1>4, FunctionIsSequence
  <1>6. \A k \in 1..Len(res) : /\ r[k].m = res[k].m /\ r[k].node = res[k].node
                               /\ r[k].ok = res[k].ok
                               /\ r[k].accepted = (res[k].accepted \/ res[k].node = skip)
    BY <1>1, <1>2, <1>3
  <1>7. OwnNode(r)
    BY <1>1, <1>5, <1>6 DEF OwnNode
  <1>8. AcceptedOf(r, S \cup ({skip} \ {NoNode}))
    <2> SUFFICES ASSUME NEW k \in 1..Len(res), r[k].accepted
                 PROVE  res[k].m \in S \cup ({skip} \ {NoNode})
      BY <1>5, <1>6 DEF AcceptedOf
    <2>1. CASE res[k].accepted
      BY <1>1, <2>1 DEF AcceptedOf
    <2>2. CASE res[k].node = skip
      <3>1. res[k].node = res[k].m \/ res[k].node > NumMachines
        BY <1>1 DEF OwnNode
      <3>2. res[k].m \in Machine /\ skip <= NumMachines
        BY <1>1 DEF Rendered, Machine, NoNode
      <3>3. res[k].m = skip
        <4>1. ~(skip > NumMachines)
          BY <3>2 DEF Machine, NoNode
        <4> QED BY <2>2, <3>1, <4>1
      <3> QED BY <3>2, <3>3 DEF Machine, NoNode
    <2> QED BY <1>6, <2>1, <2>2
  <1>9. \A m : Wins(r, m) = Wins(res, m)
    BY <1>1, <1>5, <1>6 DEF Wins
  <1>10. \A m : Successes(r, m) = Successes(res, m)
    BY <1>9, Zenon DEF Successes, Wins
  <1> QED BY <1>5, <1>7, <1>8, <1>10 DEF r

\* planPendingMachines and --skip leave a list of the machines without a success.
LEMMA PendingLists ==
  ASSUME NEW res, NEW skip
  PROVE  Lists(Without(Pending(res), skip),
               {m \in Machine : m # skip /\ Successes(res, m) = 0})
  <1> DEFINE P == {m \in Machine : Successes(res, m) = 0}
             Q == Machine \ {skip}
  <1>1. Lists(Pending(res), P \cap Machine)
    BY ThoseLists, EveryoneLists DEF Pending
  <1>2. P \cap Machine \subseteq Machine
    OBVIOUS
  <1>3. Lists(Without(Pending(res), skip), Q \cap (P \cap Machine))
    BY <1>1, <1>2, ThoseLists DEF Without
  <1>4. Q \cap (P \cap Machine) = {m \in Machine : m # skip /\ Successes(res, m) = 0}
    OBVIOUS
  <1> QED BY <1>3, <1>4

\* planAllSettled: a machine whose successes are all of it has applied all of it.
LEMMA SettledApplied ==
  ASSUME EffectTypes, NEW res, AllSettled(res), NEW S, AcceptedOf(res, S),
         NEW m \in Machine, Successes(res, m) <= Cardinality(Touched(m)),
         Successes(res, m) \in Nat
  PROVE  m \in S \/ \A i \in Intent : effects[m][i] > 0
  <1>1. CASE Successes(res, m) >= NumIntents
    <2>1. Cardinality(Touched(m)) \in Nat
      BY TouchedFinite
    <2>2. Cardinality(Touched(m)) >= NumIntents
      BY <1>1, <2>1
    <2>3. Touched(m) = Intent
      BY <2>2, TouchedFinite
    <2> QED BY <2>3 DEF Touched
  <1>2. CASE \E k \in DOMAIN res : res[k].m = m /\ res[k].accepted
    BY <1>2 DEF AcceptedOf
  <1> QED BY <1>1, <1>2 DEF AllSettled

\* renderRun keeps of each result its machine, its node id and whether it is a
\* success; nothing of it is accepted.
LEMMA RenderKeeps ==
  ASSUME results \in Seq(Result), OwnNode(results)
  PROVE  /\ Render(results) \in Seq(Rendered) /\ OwnNode(Render(results))
         /\ AcceptedOf(Render(results), {})
         /\ \A m : Wins(Render(results), m) =
                     {k \in DOMAIN results : results[k].m = m /\ results[k].outcome = "N1"}
  <1> DEFINE r == Render(results)
             row(k) == [m |-> results[k].m, node |-> results[k].node,
                        ok |-> results[k].outcome = "N1", accepted |-> FALSE]
  <1>1. /\ DOMAIN results = 1..Len(results) /\ Len(results) \in Nat
        /\ \A k \in 1..Len(results) : results[k] \in Result
    OBVIOUS
  <1>2. r = [k \in DOMAIN results |-> row(k)]
    BY DEF Render
  <1>3. ASSUME NEW k \in 1..Len(results)
        PROVE  /\ row(k) \in Rendered /\ row(k).m = results[k].m /\ row(k).node = results[k].node
               /\ row(k).ok = (results[k].outcome = "N1") /\ row(k).accepted = FALSE
    BY <1>1 DEF Rendered, Result
  <1> HIDE DEF row
  <1>4. r \in [1..Len(results) -> Rendered]
    BY <1>1, <1>2, <1>3
  <1> HIDE DEF r
  <1>5. r \in Seq(Rendered) /\ DOMAIN r = 1..Len(results)
    BY <1>1, <1>4, FunctionIsSequence
  <1>6. \A k \in 1..Len(results) : /\ r[k].m = results[k].m /\ r[k].node = results[k].node
                                   /\ r[k].ok = (results[k].outcome = "N1")
                                   /\ r[k].accepted = FALSE
    BY <1>1, <1>2, <1>3
  <1>7. OwnNode(r) /\ AcceptedOf(r, {})
    BY <1>1, <1>5, <1>6 DEF OwnNode, AcceptedOf
  <1>8. \A m : Wins(r, m) = {k \in DOMAIN results : results[k].m = m /\ results[k].outcome = "N1"}
    BY <1>1, <1>5, <1>6 DEF Wins
  <1> QED BY <1>5, <1>7, <1>8 DEF r

\* What a run has to show for a machine: no more successes than intents applied,
\* as many when each applied intent is a success, none for a machine left out.
LEMMA RunShows ==
  ASSUME results \in Seq(Result), OwnNode(results), phase # "idle", Noted,
         EffectTypes, NEW m \in Machine
  PROVE  /\ Successes(Render(results), m) \in Nat
         /\ Successes(Render(results), m) <= Cardinality(Touched(m))
         /\ m \notin DOMAIN nodes => Successes(Render(results), m) = 0
         /\ (\A i \in Intent : effects[m][i] > 0 => \E k \in DOMAIN results : IsOf(results[k], m, i))
              => Successes(Render(results), m) = Cardinality(Touched(m))
  <1> DEFINE W == {k \in DOMAIN results : results[k].m = m /\ results[k].outcome = "N1"}
             T == Touched(m)
             f == [k \in W |-> results[k].i]
  <1>1. /\ Render(results) \in Seq(Rendered) /\ Wins(Render(results), m) = W
    BY RenderKeeps
  <1>2. /\ Successes(Render(results), m) = Cardinality(W) /\ Cardinality(W) \in Nat
        /\ IsFiniteSet(W) /\ (Cardinality(W) = 0 <=> W = {})
    <2> HIDE DEF W
    <2> DEFINE r == Render(results)
    <2>1. r \in Seq(Rendered) /\ Wins(r, m) = W
      BY <1>1
    <2> HIDE DEF r
    <2>2. /\ Successes(r, m) = Cardinality(Wins(r, m)) /\ Successes(r, m) \in Nat
          /\ IsFiniteSet(Wins(r, m)) /\ (Successes(r, m) = 0 <=> Wins(r, m) = {})
      BY <2>1, WinsFinite
    <2> QED BY <2>1, <2>2 DEF r
  <1>3. \A k \in DOMAIN results : results[k].i \in Intent
    <2>1. \A k \in DOMAIN results : results[k] \in Result
      OBVIOUS
    <2> QED BY <2>1 DEF Result
  <1>4. \A k \in W : results[k].i \in T
    BY <1>3 DEF Noted, Touched
  <1>5. \A j, k \in W : results[j].i = results[k].i => j = k
    BY DEF Noted
  <1>6. f \in Injection(W, T)
    <2>1. f \in [W -> T]
      BY <1>4
    <2>2. \A j, k \in W : f[j] = f[k] => j = k
      BY <1>5
    <2> HIDE DEF f, W, T
    <2> QED BY <2>1, <2>2 DEF Injection, IsInjective
  <1>7. IsFiniteSet(T)
    BY TouchedFinite
  <1>8. m \notin DOMAIN nodes => W = {}
    BY DEF Noted
  <1>9. ASSUME \A i \in Intent : effects[m][i] > 0 => \E k \in DOMAIN results : IsOf(results[k], m, i)
        PROVE  f \in Surjection(W, T)
    <2>1. f \in [W -> T]
      BY <1>4
    <2>2. \A i \in T : \E k \in W : f[k] = i
      BY <1>9 DEF Touched, IsOf
    <2> HIDE DEF f, W, T
    <2> QED BY <2>1, <2>2 DEF Surjection
  <1> HIDE DEF W, T, f
  <1>10. /\ Cardinality(W) <= Cardinality(T)
         /\ Cardinality(W) = Cardinality(T) <=> f \in Surjection(W, T)
    BY <1>6, <1>7, FS_Injection
  <1> QED BY <1>2, <1>8, <1>9, <1>10 DEF T

----------------------------------------------------------------------------
(* A step of the scheduler. *)

\* It concludes the present pair or goes on with it; an agent acts in a send only.
LEMMA StepKinds ==
  ASSUME Shape, Scheduling
  PROVE  /\ Busy /\ phase # "idle" /\ phase # "ended" /\ UNCHANGED <<batches, nodes>>
         /\ effects' \in {effects, Applied} /\ (effects' # effects => phase = "send")
         /\ \/ Conclude("N1", "success") /\ effects' = Applied /\ phase = "send"
            \/ \E why \in Why : Conclude("N3", why)
            \/ \E ph \in ServePhases : GoesOn(ph) /\ (effects' # effects => ph = "send")
  <1>1. CASE Refuse \/ ReRegisterFails
    BY <1>1 DEF Refuse, ReRegisterFails, Busy, ServePhases, Why
  <1>2. CASE Open \/ Register \/ Delete \/ Put
    BY <1>2 DEF Open, Register, Delete, Put, GoesOn, Busy, ServePhases
  <1>3. CASE Dispatch
    BY <1>3, DispatchCases DEF Busy, ServePhases, Why
  <1> QED BY <1>1, <1>2, <1>3 DEF Scheduling

\* The row a result names is the one the plan gives the machine or a later one.
LEMMA TargetNamed ==
  ASSUME Shape, Rows, Named, Scheduling
  PROVE  target'.id = Here \/ target'.id > NumMachines
  <1>1. phase # "idle"
    BY StepKinds
  <1>2. nodes[Here].id = Here
    BY <1>1, HereTypes
  <1>3. phase \in ServePhases => target.id = Here \/ target.id > NumMachines
    BY DEF Named
  <1>4. CASE Refuse \/ Open
    <2>1. target' = nodes[Here]
      BY <1>4 DEF Refuse, Open
    <2> QED BY <1>2, <2>1
  <1>5. CASE Dispatch \/ Register \/ Delete \/ ReRegisterFails
    <2>1. target' = target /\ phase \in ServePhases
      BY <1>5, DispatchCases DEF Register, Delete, ReRegisterFails, ServePhases
    <2> QED BY <1>3, <2>1
  <1>6. CASE Put
    <2>1. target' = fresh /\ phase = "put"
      BY <1>6 DEF Put
    <2>2. fresh.id = Here \/ Later(fresh.id, Here)
      BY <2>1 DEF Rows, Rejoining
    <2> QED BY <2>1, <2>2 DEF Later
  <1> QED BY <1>4, <1>5, <1>6 DEF Scheduling

\* An agent acts on the present pair only, and nothing it has done is undone.
LEMMA Grown ==
  ASSUME Shape, Scheduling
  PROVE  /\ EffectTypes /\ EffectTypes' /\ Growing
         /\ Here \in Machine /\ at.i \in Intent
         /\ \A m \in Machine, i \in Intent :
               m # Here \/ i # at.i => effects'[m][i] = effects[m][i]
         /\ effects' = Applied /\ phase = "send" =>
               effects'[Here][at.i] = effects[Here][at.i] + 1
  <1>1. /\ phase # "idle" /\ effects' \in {effects, Applied} /\ (effects' # effects => phase = "send")
    BY StepKinds
  <1>2. Here \in Machine /\ at.i \in Intent
    BY <1>1, HereTypes
  <1>3. EffectTypes
    BY DEF Shape, Typed, EffectTypes
  <1>4. CASE effects' = effects
    <2>1. ASSUME effects' = Applied, phase = "send"
          PROVE  effects'[Here][at.i] = effects[Here][at.i] + 1
      <3>1. target.box = Here
        BY <2>1 DEF Shape, Serving, ServePhases
      <3> QED BY <1>2, <1>3, <2>1, <3>1 DEF Applied, EffectTypes
    <2> QED BY <1>2, <1>3, <1>4, <2>1 DEF EffectTypes, Growing
  <1>5. CASE effects' # effects
    <2>1. target.box = Here /\ effects' = Applied
      BY <1>1, <1>5 DEF Shape, Serving, ServePhases
    <2>2. effects' = [effects EXCEPT ![Here][at.i] = effects[Here][at.i] + 1]
      BY <2>1 DEF Applied
    <2>3. effects[Here][at.i] \in Nat
      BY <1>2, <1>3 DEF EffectTypes
    <2>4. EffectTypes'
      BY <1>2, <1>3, <2>2, <2>3 DEF EffectTypes
    <2>5. effects'[Here][at.i] = effects[Here][at.i] + 1
      BY <1>2, <1>3, <2>2 DEF EffectTypes
    <2>6. \A m \in Machine, i \in Intent : m # Here \/ i # at.i => effects'[m][i] = effects[m][i]
      BY <1>2, <1>3, <2>2 DEF EffectTypes
    <2>7. Growing
      <3> SUFFICES ASSUME NEW m \in Machine, NEW i \in Intent, effects[m][i] > 0
                   PROVE  effects'[m][i] > 0
        BY DEF Growing
      <3>1. CASE m = Here /\ i = at.i
        BY <2>3, <2>5, <3>1
      <3> QED BY <2>6, <3>1
    <2> QED BY <1>2, <1>3, <2>4, <2>5, <2>6, <2>7
  <1> QED BY <1>4, <1>5

LEMMA SamePlace ==
  ASSUME Divided(batches), NEW p \in Place, NEW q \in Place, Who(p) = Who(q), p.i = q.i
  PROVE  p = q
  <1>1. p = [b |-> p.b, j |-> p.j, i |-> p.i] /\ q = [b |-> q.b, j |-> q.j, i |-> q.i]
    BY PlaceTypes
  <1>2. /\ p.b \in DOMAIN batches /\ p.j \in DOMAIN batches[p.b]
        /\ q.b \in DOMAIN batches /\ q.j \in DOMAIN batches[q.b]
    BY DEF Place
  <1>3. p.b = q.b /\ p.j = q.j
    BY <1>2 DEF Divided, Who
  <1> QED BY <1>1, <1>3, Zenon

\* The result that is noted where the present pair is concluded.
LEMMA NewResult ==
  ASSUME Shape, NEW outcome, NEW why, Conclude(outcome, why)
  PROVE  LET n == Len(results)
         IN  /\ n \in Nat /\ DOMAIN results = 1..n /\ DOMAIN results' = 1..(n + 1)
             /\ Len(results') = n + 1
             /\ \A k \in 1..n : results'[k] = results[k]
             /\ results'[n + 1].m = Here /\ results'[n + 1].i = at.i
             /\ results'[n + 1].node = target'.id /\ results'[n + 1].outcome = outcome
  <1> DEFINE r == [m |-> Here, i |-> at.i, node |-> target'.id, outcome |-> outcome, why |-> why]
  <1>1. r.m = Here /\ r.i = at.i /\ r.node = target'.id /\ r.outcome = outcome
    OBVIOUS
  <1>2. results \in Seq(Result) /\ results' = Append(results, r)
    BY DEF Shape, Typed, Conclude
  <1> HIDE DEF r
  <1>3. results \in Seq(Result \cup {r}) /\ r \in Result \cup {r}
    BY <1>2
  <1>4. /\ Len(results) \in Nat /\ DOMAIN results = 1..Len(results)
        /\ Len(results') = Len(results) + 1 /\ DOMAIN results' = 1..(Len(results) + 1)
        /\ results'[Len(results) + 1] = r
        /\ \A k \in 1..Len(results) : results'[k] = results[k]
    BY <1>2, <1>3
  <1> QED BY <1>1, <1>4

LEMMA ConcludeNoted ==
  ASSUME Shape, Noted, Scheduling, NEW outcome, NEW why, Conclude(outcome, why),
         outcome = "N1" => effects' = Applied /\ phase = "send"
  PROVE  Noted'
  <1> DEFINE n == Len(results)
  <1>1. /\ n \in Nat /\ DOMAIN results = 1..n /\ DOMAIN results' = 1..(n + 1)
        /\ \A k \in 1..n : results'[k] = results[k]
        /\ results'[n + 1].m = Here /\ results'[n + 1].i = at.i
        /\ results'[n + 1].outcome = outcome
    BY NewResult
  <1>2. phase # "idle" /\ phase # "ended" /\ UNCHANGED <<batches, nodes>>
    BY StepKinds
  <1>3. /\ Divided(batches) /\ at \in Place /\ Here = Who(at) /\ Here \in DOMAIN nodes
        /\ Here \in Machine /\ at.i \in Intent /\ DOMAIN nodes \subseteq Machine
    BY <1>2, HereTypes DEF Shape, Placed
  <1>4. Place' = Place /\ \A p : Who(p)' = Who(p)
    BY <1>2 DEF Place, Who
  <1>5. \/ phase' = "ended" /\ at' = at
        \/ phase' = "ended" /\ at' = at /\ Step(at).b > Len(batches)
        \/ phase' = "open" /\ at' = Step(at) /\ ~(Step(at).b > Len(batches))
    BY DEF Conclude
  <1>6. \A p \in Place : Before(p, at) \/ p = at => Before(p, at') \/ (p = at' /\ phase' = "ended")
    <2>1. CASE phase' = "ended" /\ at' = at
      BY <2>1
    <2>2. CASE at' = Step(at) /\ ~(Step(at).b > Len(batches))
      BY <1>3, <2>2, StepOrder
    <2> QED BY <1>5, <2>1, <2>2
  <1>7. ASSUME NEW k \in 1..n
        PROVE  /\ results[k].m \in DOMAIN nodes /\ results[k].i \in Intent
               /\ \E p \in Place : /\ Who(p) = results[k].m /\ p.i = results[k].i
                                   /\ Before(p, at)
               /\ results[k].outcome = "N1" => effects[results[k].m][results[k].i] > 0
               /\ ~(results[k].m = Here /\ results[k].i = at.i)
    <2>1. PICK p \in Place : Who(p) = results[k].m /\ p.i = results[k].i /\ Before(p, at)
      BY <1>1, <1>2 DEF Noted
    <2>2. p.i \in Intent
      BY <1>3, PlaceTypes
    <2>3. ~(results[k].m = Here /\ results[k].i = at.i)
      <3> SUFFICES ASSUME results[k].m = Here, results[k].i = at.i PROVE FALSE
        OBVIOUS
      <3>1. p = at
        BY <1>3, <2>1, SamePlace
      <3> QED BY <1>3, <2>1, <3>1, StepOrder
    <2> QED BY <1>1, <1>2, <2>1, <2>2, <2>3 DEF Noted
  <1>8. /\ Growing
        /\ effects' = Applied /\ phase = "send" => effects'[Here][at.i] > 0
    <2>1. effects[Here][at.i] \in Nat
      BY <1>3, Grown DEF EffectTypes
    <2> QED BY <2>1, Grown
  <1>9. ASSUME NEW k \in 1..(n + 1)
        PROVE  /\ results'[k].m \in DOMAIN nodes
               /\ \E p \in Place : /\ Who(p) = results'[k].m /\ p.i = results'[k].i
                                   /\ Before(p, at') \/ (p = at' /\ phase' = "ended")
               /\ results'[k].outcome = "N1" => effects'[results'[k].m][results'[k].i] > 0
    <2>1. CASE k \in 1..n
      <3>1. results'[k] = results[k] /\ results[k].m \in Machine
        BY <1>1, <1>3, <1>7, <2>1
      <3>2. PICK p \in Place : Who(p) = results[k].m /\ p.i = results[k].i /\ Before(p, at)
        BY <1>7, <2>1
      <3>3. Before(p, at') \/ (p = at' /\ phase' = "ended")
        BY <1>6, <3>2
      <3>4. results[k].outcome = "N1" => effects'[results[k].m][results[k].i] > 0
        BY <1>7, <1>8, <2>1, <3>1 DEF Growing
      <3> QED BY <1>7, <2>1, <3>1, <3>2, <3>3, <3>4
    <2>2. CASE k = n + 1
      BY <1>1, <1>3, <1>6, <1>8, <2>2
    <2>3. k \in 1..n \/ k = n + 1
      BY <1>1
    <2> QED BY <2>1, <2>2, <2>3
  <1>10. ASSUME NEW k \in 1..(n + 1), NEW l \in 1..(n + 1),
                results'[k].m = results'[l].m, results'[k].i = results'[l].i
         PROVE  k = l
    <2>1. (k \in 1..n \/ k = n + 1) /\ (l \in 1..n \/ l = n + 1)
      BY <1>1
    <2>2. CASE k \in 1..n /\ l \in 1..n
      BY <1>1, <1>2, <1>10, <2>2 DEF Noted
    <2>3. CASE k \in 1..n /\ l = n + 1
      BY <1>1, <1>7, <1>10, <2>3
    <2>4. CASE k = n + 1 /\ l \in 1..n
      BY <1>1, <1>7, <1>10, <2>4
    <2> QED BY <2>1, <2>2, <2>3, <2>4
  <1> HIDE DEF n
  <1> QED BY <1>1, <1>2, <1>4, <1>9, <1>10 DEF Noted

LEMMA NotedStep ==
  ASSUME Shape, Noted, Scheduling
  PROVE  Noted'
  <1>1. CASE Conclude("N1", "success") /\ effects' = Applied /\ phase = "send"
    BY <1>1, ConcludeNoted
  <1>2. CASE \E why \in Why : Conclude("N3", why)
    <2>1. PICK why \in Why : Conclude("N3", why)
      BY <1>2
    <2>2. "N3" # "N1"
      OBVIOUS
    <2> QED BY <2>1, <2>2, ConcludeNoted
  <1>3. CASE \E ph \in ServePhases : GoesOn(ph)
    <2>1. /\ UNCHANGED <<batches, nodes, at, results>> /\ phase # "idle" /\ phase # "ended"
      BY <1>3, StepKinds DEF GoesOn
    <2>2. Place' = Place /\ \A p : Who(p)' = Who(p)
      BY <2>1 DEF Place, Who
    <2>3. \A k \in DOMAIN results : results[k].m \in Machine /\ results[k].i \in Intent
      <3>1. \A k \in DOMAIN results : results[k] \in Result
        BY DEF Shape, Typed
      <3> QED BY <3>1 DEF Result
    <2>4. \A k \in DOMAIN results :
             results[k].outcome = "N1" => effects'[results[k].m][results[k].i] > 0
      BY <2>1, <2>3, Grown DEF Noted, Growing
    <2> QED BY <2>1, <2>2, <2>4 DEF Noted
  <1> QED BY <1>1, <1>2, <1>3, StepKinds

LEMMA NamedStep ==
  ASSUME Shape, Rows, Named, Schedule
  PROVE  Named'
  <1>1. Scheduling /\ UNCHANGED <<record, merged>>
    BY DEF Schedule
  <1>2. target'.id = Here \/ target'.id > NumMachines
    BY <1>1, TargetNamed
  <1>3. OwnNode(results) /\ OwnNode(record.results) /\ OwnNode(merged)
    BY DEF Named
  <1>4. OwnNode(record'.results) /\ OwnNode(merged')
    BY <1>1, <1>3
  <1>5. ASSUME NEW outcome, NEW why, Conclude(outcome, why)
        PROVE  OwnNode(results') /\ phase' \notin ServePhases
    <2> DEFINE n == Len(results)
    <2>1. /\ n \in Nat /\ DOMAIN results = 1..n /\ DOMAIN results' = 1..(n + 1)
          /\ \A k \in 1..n : results'[k] = results[k]
          /\ results'[n + 1].m = Here /\ results'[n + 1].node = target'.id
      BY <1>5, NewResult
    <2> HIDE DEF n
    <2>2. \A k \in 1..(n + 1) : k \in 1..n \/ k = n + 1
      BY <2>1
    <2>3. OwnNode(results')
      BY <1>2, <1>3, <2>1, <2>2 DEF OwnNode
    <2>4. phase' \notin ServePhases
      BY <1>5 DEF Conclude, ServePhases
    <2> QED BY <2>3, <2>4
  <1>6. CASE \E ph \in ServePhases : GoesOn(ph)
    <2>1. UNCHANGED <<batches, at, results>>
      BY <1>1, <1>6, StepKinds DEF GoesOn
    <2>2. Here' = Here
      BY <2>1 DEF Here
    <2> QED BY <1>2, <1>3, <1>4, <2>1, <2>2 DEF Named
  <1>7. CASE \E outcome, why : Conclude(outcome, why)
    BY <1>4, <1>5, <1>7 DEF Named
  <1> QED BY <1>1, <1>6, <1>7, StepKinds

\* What records say stays true, however much the agents go on to apply.
LEMMA CountedStep ==
  ASSUME Commanded, Counted, CompleteMeansSettled, Growing, UNCHANGED <<record, merged, nodes, human>>,
         phase' # "idle" => phase # "idle"
  PROVE  Counted' /\ CompleteMeansSettled'
  <1>1. ASSUME NEW m \in Machine
        PROVE  Cardinality(Touched(m)) <= Cardinality(Touched(m)')
    <2>1. Touched(m) \in SUBSET Touched(m)' /\ Touched(m)' \in SUBSET Intent
      BY DEF Touched, Growing
    <2> QED BY <2>1, TouchedGrows
  <1>2. ASSUME NEW m \in Machine
        PROVE  /\ Cardinality(Touched(m)) \in Nat /\ Cardinality(Touched(m)') \in Nat
    <2>1. Touched(m)' \in SUBSET Intent /\ IsFiniteSet(Intent)
      BY FS_Interval DEF Touched, Intent
    <2>2. IsFiniteSet(Touched(m)')
      BY <2>1, FS_Subset
    <2> QED BY <2>2, TouchedFinite, FS_CardinalityType
  <1>3. ASSUME NEW m \in Machine
        PROVE  /\ Successes(record.results, m) <= Cardinality(Touched(m)')
               /\ Successes(merged, m) <= Cardinality(Touched(m)')
    <2>1. Successes(record.results, m) \in Nat /\ Successes(merged, m) \in Nat
      BY WinsFinite DEF Commanded
    <2>2. /\ Successes(record.results, m) <= Cardinality(Touched(m))
          /\ Successes(merged, m) <= Cardinality(Touched(m))
      BY DEF Counted
    <2> QED BY <1>1, <1>2, <2>1, <2>2
  <1>4. Counted'
    BY <1>3 DEF Counted
  <1>5. CompleteMeansSettled'
    BY DEF CompleteMeansSettled, Growing
  <1> QED BY <1>4, <1>5

\* The scheduler keeps the accounts: what an agent applies is the success of the
\* present pair, which had none before, or it is lost.
LEMMA AccountedStep ==
  ASSUME Shape, Commanded, Noted, Accounted, Schedule
  PROVE  Accounted'
  <1> SUFFICES ASSUME ~lost' PROVE
        /\ AppliedOnce' /\ NothingUnaccounted'
        /\ commands' = 0 => \A m \in Machine, i \in Intent : effects'[m][i] = 0
        /\ phase' # "idle" =>
             /\ \A m \in Machine \ DOMAIN nodes' :
                   Successes(merged', m) = Cardinality(Touched(m)')
             /\ \A m \in DOMAIN nodes', i \in Intent :
                   effects'[m][i] > 0 => \E k \in DOMAIN results' : IsOf(results'[k], m, i)
    BY DEF Accounted
  <1>1. /\ Scheduling /\ UNCHANGED <<record, command, skipping, merged, commands, human>>
        /\ ~lost
        /\ ~(effects' # effects /\ phase' = "send")
        /\ ~(effects' # effects /\ Last(results').outcome # "N1")
    BY DEF Schedule, Commanded
  <1>2. /\ phase # "idle" /\ phase # "ended" /\ UNCHANGED <<batches, nodes>>
        /\ effects' \in {effects, Applied}
    BY <1>1, StepKinds
  <1>3. /\ Divided(batches) /\ at \in Place /\ Here = Who(at) /\ Here \in DOMAIN nodes
        /\ Here \in Machine /\ at.i \in Intent /\ DOMAIN nodes \subseteq Machine
    BY <1>2, HereTypes DEF Shape, Placed
  <1>4. command # "none" /\ commands # 0 /\ command' # "none" /\ commands' # 0
    BY <1>1, <1>2 DEF Commanded
  <1>5. /\ \A m \in Machine, i \in Intent : effects[m][i] <= 1
        /\ \A m \in Machine \ DOMAIN nodes : Successes(merged, m) = Cardinality(Touched(m))
        /\ \A m \in DOMAIN nodes, i \in Intent :
              effects[m][i] > 0 => \E k \in DOMAIN results : IsOf(results[k], m, i)
    BY <1>1, <1>2 DEF Accounted, AppliedOnce
  <1>6. NothingUnaccounted' /\ (commands' = 0 => \A m \in Machine, i \in Intent : effects'[m][i] = 0)
    BY <1>4 DEF NothingUnaccounted
  <1>7. \/ effects' = effects /\ ((\E outcome, why : Conclude(outcome, why)) \/ UNCHANGED results)
        \/ effects' = Applied /\ phase = "send" /\ Conclude("N1", "success")
    <2>1. CASE Conclude("N1", "success") /\ effects' = Applied /\ phase = "send"
      BY <2>1
    <2>2. ASSUME NEW why \in Why, Conclude("N3", why)
          PROVE  effects' = effects
      <3> DEFINE n == Len(results)
      <3>1. n \in Nat /\ Len(results') = n + 1 /\ results'[n + 1].outcome = "N3"
        BY <2>2, NewResult
      <3>2. Last(results').outcome = "N3"
        BY <3>1 DEF Last
      <3> QED BY <1>1, <3>2
    <2>3. ASSUME NEW ph \in ServePhases, GoesOn(ph), effects' # effects => ph = "send"
          PROVE  effects' = effects /\ UNCHANGED results
      BY <1>1, <2>3 DEF GoesOn
    <2> QED BY <1>1, <2>1, <2>2, <2>3, StepKinds
  <1>8. ASSUME NEW outcome, NEW why, Conclude(outcome, why), NEW m, NEW i,
               \E k \in DOMAIN results : IsOf(results[k], m, i)
        PROVE  \E k \in DOMAIN results' : IsOf(results'[k], m, i)
    <2> DEFINE n == Len(results)
    <2>1. /\ n \in Nat /\ DOMAIN results = 1..n /\ DOMAIN results' = 1..(n + 1)
          /\ \A k \in 1..n : results'[k] = results[k]
      BY <1>8, NewResult
    <2> HIDE DEF n
    <2>2. PICK k \in 1..n : IsOf(results[k], m, i)
      BY <1>8, <2>1
    <2>3. k \in 1..(n + 1) /\ results'[k] = results[k]
      BY <2>1
    <2> QED BY <2>1, <2>2, <2>3
  <1>9. CASE effects' = effects
    <2>1. AppliedOnce' /\ \A m : Touched(m)' = Touched(m)
      BY <1>5, <1>9 DEF AppliedOnce, Touched
    <2>2. \A m \in DOMAIN nodes, i \in Intent :
             effects[m][i] > 0 => \E k \in DOMAIN results' : IsOf(results'[k], m, i)
      <3>1. CASE \E outcome, why : Conclude(outcome, why)
        BY <1>5, <1>8, <3>1
      <3>2. CASE UNCHANGED results
        BY <1>5, <3>2
      <3>3. Conclude("N1", "success") => \E outcome, why : Conclude(outcome, why)
        OBVIOUS
      <3> QED BY <1>7, <3>1, <3>2, <3>3
    <2>3. \A m \in Machine \ DOMAIN nodes : Successes(merged, m) = Cardinality(Touched(m)')
      BY <1>5, <2>1
    <2> QED BY <1>1, <1>2, <1>6, <1>9, <2>1, <2>2, <2>3
  <1>10. CASE effects' = Applied /\ phase = "send" /\ Conclude("N1", "success")
    <2>1. effects[Here][at.i] = 0
      <3>1. ~(\E k \in DOMAIN results : IsOf(results[k], Here, at.i))
        <4> SUFFICES ASSUME NEW k \in DOMAIN results, IsOf(results[k], Here, at.i) PROVE FALSE
          OBVIOUS
        <4>1. PICK p \in Place : Who(p) = Here /\ p.i = at.i /\ Before(p, at)
          BY <1>2 DEF Noted, IsOf
        <4>2. p = at
          BY <1>3, <4>1, SamePlace
        <4> QED BY <1>3, <4>1, <4>2, StepOrder
      <3>2. effects[Here][at.i] \in Nat
        BY <1>1, <1>3, Grown DEF EffectTypes
      <3> QED BY <1>3, <1>5, <3>1, <3>2
    <2>2. /\ effects'[Here][at.i] = 1
          /\ \A m \in Machine, i \in Intent :
                m # Here \/ i # at.i => effects'[m][i] = effects[m][i]
      BY <1>1, <1>10, <2>1, Grown
    <2>3. AppliedOnce'
      <3> SUFFICES ASSUME NEW m \in Machine, NEW i \in Intent PROVE effects'[m][i] <= 1
        BY DEF AppliedOnce
      <3>1. CASE m = Here /\ i = at.i
        BY <2>2, <3>1
      <3>2. CASE m # Here \/ i # at.i
        BY <1>5, <2>2, <3>2
      <3> QED BY <3>1, <3>2
    <2>4. ASSUME NEW m \in Machine \ DOMAIN nodes
          PROVE  Successes(merged, m) = Cardinality(Touched(m)')
      <3>1. m # Here /\ \A i \in Intent : effects'[m][i] = effects[m][i]
        BY <1>3, <2>2
      <3>2. Touched(m)' = Touched(m)
        BY <3>1 DEF Touched
      <3> QED BY <1>5, <3>2
    <2>5. ASSUME NEW m \in DOMAIN nodes, NEW i \in Intent, effects'[m][i] > 0
          PROVE  \E k \in DOMAIN results' : IsOf(results'[k], m, i)
      <3>1. CASE m = Here /\ i = at.i
        <4> DEFINE n == Len(results)
        <4>1. /\ n \in Nat /\ DOMAIN results' = 1..(n + 1)
              /\ results'[n + 1].m = Here /\ results'[n + 1].i = at.i
              /\ results'[n + 1].outcome = "N1"
          BY <1>10, NewResult
        <4> HIDE DEF n
        <4>2. n + 1 \in DOMAIN results'
          BY <4>1
        <4> QED BY <3>1, <4>1, <4>2 DEF IsOf
      <3>2. CASE m # Here \/ i # at.i
        <4>1. m \in Machine /\ effects[m][i] > 0
          BY <1>3, <2>2, <2>5, <3>2
        <4> QED BY <1>5, <1>8, <1>10, <4>1
      <3> QED BY <3>1, <3>2
    <2> QED BY <1>1, <1>2, <1>6, <2>3, <2>4, <2>5
  <1> QED BY <1>7, <1>9, <1>10

----------------------------------------------------------------------------
(* The commands. *)

LEMMA NoSuccess == /\ <<>> \in Seq(Rendered) /\ OwnNode(<<>>) /\ \A S : AcceptedOf(<<>>, S)
                   /\ \A m : Successes(<<>>, m) = 0
  <1>1. DOMAIN <<>> = {} /\ <<>> \in Seq(Rendered)
    OBVIOUS
  <1>2. OwnNode(<<>>) /\ \A S : AcceptedOf(<<>>, S)
    BY <1>1 DEF OwnNode, AcceptedOf
  <1>3. ASSUME NEW m PROVE Successes(<<>>, m) = 0
    <2>1. Wins(<<>>, m) = {}
      BY <1>1 DEF Wins
    <2> QED BY <1>1, <2>1, WinsFinite
  <1> QED BY <1>1, <1>2, <1>3

\* Results that are put together keep what was said of them.
LEMMA PutTogether ==
  ASSUME NEW a \in Seq(Rendered), NEW b \in Seq(Rendered), OwnNode(a), OwnNode(b),
         NEW S, AcceptedOf(a, S), AcceptedOf(b, S)
  PROVE  OwnNode(a \o b) /\ AcceptedOf(a \o b, S)
  <1> DEFINE c == a \o b
             n == Len(a)
  <1>1. /\ n \in Nat /\ Len(b) \in Nat
        /\ DOMAIN c = 1..(n + Len(b)) /\ DOMAIN a = 1..n /\ DOMAIN b = 1..Len(b)
        /\ \A k \in 1..n : c[k] = a[k]
        /\ \A k \in (n + 1)..(n + Len(b)) : c[k] = b[k - n]
    OBVIOUS
  <1> HIDE DEF c, n
  <1>2. ASSUME NEW k \in DOMAIN c
        PROVE  (k \in DOMAIN a /\ c[k] = a[k]) \/ \E l \in DOMAIN b : c[k] = b[l]
    <2>1. CASE k \in 1..n
      BY <1>1, <2>1
    <2>2. CASE ~(k \in 1..n)
      <3>1. k \in (n + 1)..(n + Len(b)) /\ k - n \in 1..Len(b)
        BY <1>1, <1>2, <2>2
      <3> QED BY <1>1, <3>1
    <2> QED BY <2>1, <2>2
  <1>3. OwnNode(c) /\ AcceptedOf(c, S)
    BY <1>2 DEF OwnNode, AcceptedOf
  <1> QED BY <1>3 DEF c

LEMMA RecoveryInit == RInit => RecoveryInv
  <1> SUFFICES ASSUME RInit PROVE RecoveryInv
    OBVIOUS
  <1>1. /\ Init /\ phase = "idle" /\ results = <<>>
        /\ record = [status |-> "none", results |-> <<>>]
        /\ command = "none" /\ skipping = NoNode /\ merged = <<>>
        /\ commands = 0 /\ human = {} /\ lost = FALSE
        /\ effects = [m \in Machine |-> [i \in Intent |-> 0]]
    BY DEF RInit, Init
  <1>2. Shape /\ Rows
    BY <1>1, ShapeInit, RowsInit
  <1>3. record.results = <<>> /\ record.status = "none"
    BY <1>1
  <1>4. Commanded /\ Named /\ Noted /\ Accepted /\ CompleteMeansSettled
    <2>1. Commanded
      BY <1>1, NoSuccess DEF Commanded
    <2>2. Named
      BY <1>1, <1>3, NoSuccess DEF Named, ServePhases
    <2>3. Noted
      BY <1>1 DEF Noted
    <2>4. Accepted
      BY <1>1, <1>3, NoSuccess DEF Accepted
    <2>5. CompleteMeansSettled
      BY <1>3 DEF CompleteMeansSettled
    <2> QED BY <2>1, <2>2, <2>3, <2>4, <2>5
  <1>5. \A m \in Machine, i \in Intent : effects[m][i] = 0
    BY <1>1
  <1>6. ASSUME NEW m \in Machine PROVE Cardinality(Touched(m)) = 0
    <2>1. Touched(m) = {}
      BY <1>5 DEF Touched
    <2> QED BY <2>1, FS_EmptySet
  <1>7. Counted
    BY <1>1, <1>3, <1>6, NoSuccess DEF Counted
  <1>8. Accounted
    <2>1. AppliedOnce
      BY <1>5 DEF AppliedOnce
    <2>2. NothingUnaccounted
      BY <1>3, <1>6, NoSuccess DEF NothingUnaccounted, Touched
    <2> QED BY <1>1, <1>5, <2>1, <2>2 DEF Accounted
  <1> QED BY <1>2, <1>4, <1>7, <1>8 DEF RecoveryInv

\* What a run that starts takes over.
LEMMA RunStarts ==
  ASSUME Shape, Rows, NEW S, S \subseteq Machine, NEW ms, Lists(ms, S), ms # <<>>, StartRun(ms)
  PROVE  /\ Shape' /\ Rows' /\ Noted' /\ DOMAIN nodes' = S
         /\ phase = "idle" /\ phase' # "idle" /\ phase' \notin ServePhases
         /\ OwnNode(results') /\ effects' = effects
  <1>1. /\ phase = "idle" /\ phase' = "open" /\ results' = <<>> /\ effects' = effects
    BY DEF StartRun
  <1>2. Noted'
    BY <1>1 DEF Noted
  <1> QED BY <1>1, <1>2, RowsStart, NoSuccess DEF ServePhases

LEMMA SubmitKeeps ==
  ASSUME RecoveryInv, Submit
  PROVE  RecoveryInv'
  <1>1. /\ command = "none" /\ StartRun(Everyone)
        /\ command' = "submit" /\ commands' = commands + 1
        /\ lost' = (lost \/ commands > 0)
        /\ UNCHANGED <<record, skipping, merged, human>>
    BY DEF Submit
  <1>2. /\ Shape /\ Rows /\ Commanded /\ Named /\ Counted /\ Accepted
        /\ CompleteMeansSettled /\ Accounted
    BY DEF RecoveryInv
  <1>3. /\ Shape' /\ Rows' /\ Noted' /\ DOMAIN nodes' = Machine
        /\ phase' # "idle" /\ phase' \notin ServePhases /\ OwnNode(results') /\ effects' = effects
    BY <1>1, <1>2, RunStarts, EveryoneStarts
  <1>4. merged = <<>> /\ merged' = <<>>
    BY <1>1, <1>2 DEF Commanded
  <1>5. Commanded'
    BY <1>1, <1>2, <1>3 DEF Commanded
  <1>6. Named'
    BY <1>1, <1>2, <1>3 DEF Named
  <1>7. \A m : Touched(m)' = Touched(m)
    BY <1>3 DEF Touched
  <1>8. Counted'
    BY <1>1, <1>2, <1>4, <1>7, NoSuccess DEF Counted
  <1>9. Accepted' /\ CompleteMeansSettled'
    BY <1>1, <1>2, <1>3 DEF Accepted, CompleteMeansSettled
  <1>10. Accounted'
    <2> SUFFICES ASSUME ~lost' PROVE Accounted'
      BY DEF Accounted
    <2>1. ~lost /\ commands = 0
      <3>1. ~lost /\ ~(commands > 0)
        BY <1>1, Zenon
      <3>2. commands \in Nat
        BY <1>2 DEF Commanded
      <3> QED BY <3>1, <3>2
    <2>2. \A m \in Machine, i \in Intent : effects[m][i] = 0
      BY <1>2, <2>1 DEF Accounted
    <2>3. AppliedOnce' /\ NothingUnaccounted' /\ commands' # 0
      BY <1>1, <1>2, <1>3, <2>1, <2>2 DEF AppliedOnce, NothingUnaccounted
    <2> QED BY <1>3, <2>2, <2>3 DEF Accounted
  <1> QED BY <1>3, <1>5, <1>6, <1>8, <1>9, <1>10 DEF RecoveryInv

\* The results as plan advance has marked them.
LEMMA AdvanceMarks ==
  ASSUME RecoveryInv, command = "none", NEW skip \in Machine \cup {NoNode}
  PROVE  LET res == MarkSkipped(record.results, skip)
         IN  /\ res \in Seq(Rendered) /\ OwnNode(res)
             /\ AcceptedOf(res, human \cup ({skip} \ {NoNode}))
             /\ \A m \in Machine :
                   /\ Successes(res, m) \in Nat
                   /\ Successes(res, m) <= Cardinality(Touched(m))
                   /\ ~lost => Successes(res, m) = Cardinality(Touched(m))
  <1> DEFINE old == record.results
             res == MarkSkipped(old, skip)
  <1>1. /\ old \in Seq(Rendered) /\ OwnNode(old) /\ AcceptedOf(old, human)
    BY DEF RecoveryInv, Commanded, Named, Accepted
  <1>2. \A m \in Machine : Successes(old, m) <= Cardinality(Touched(m))
    BY DEF RecoveryInv, Counted
  <1>3. \A m \in Machine : ~lost => Successes(old, m) = Cardinality(Touched(m))
    BY DEF RecoveryInv, Accounted, NothingUnaccounted, Touched
  <1> HIDE DEF old
  <1>4. \A m : Successes(old, m) \in Nat
    BY <1>1, WinsFinite
  <1>5. /\ res \in Seq(Rendered) /\ OwnNode(res)
        /\ AcceptedOf(res, human \cup ({skip} \ {NoNode}))
        /\ \A m : Successes(res, m) = Successes(old, m)
    BY <1>1, SkipMarks
  <1> HIDE DEF res
  <1>6. \A m \in Machine : /\ Successes(res, m) \in Nat
                           /\ Successes(res, m) <= Cardinality(Touched(m))
                           /\ ~lost => Successes(res, m) = Cardinality(Touched(m))
    BY <1>2, <1>3, <1>4, <1>5
  <1> QED BY <1>5, <1>6 DEF res, old

LEMMA AdvanceKeeps ==
  ASSUME RecoveryInv, NEW skip \in Machine \cup {NoNode}, Advance(skip)
  PROVE  RecoveryInv'
  <1> DEFINE res == MarkSkipped(record.results, skip)
             ms == Without(Pending(res), skip)
             S == {m \in Machine : m # skip /\ Successes(res, m) = 0}
  <1>1. /\ command = "none" /\ ms # <<>> /\ StartRun(ms) /\ merged' = res
        /\ command' = "advance" /\ skipping' = skip /\ commands' = commands + 1
        /\ UNCHANGED <<record, human, lost>>
    BY DEF Advance, history
  <1>2. /\ res \in Seq(Rendered) /\ OwnNode(res)
        /\ AcceptedOf(res, human \cup ({skip} \ {NoNode}))
        /\ \A m \in Machine :
              /\ Successes(res, m) \in Nat
              /\ Successes(res, m) <= Cardinality(Touched(m))
              /\ ~lost => Successes(res, m) = Cardinality(Touched(m))
    BY <1>1, AdvanceMarks
  <1>3. Lists(ms, S) /\ S \subseteq Machine
    BY PendingLists
  <1> HIDE DEF res
  <1>4. \A m \in S : m \in Machine /\ Successes(res, m) = 0
    OBVIOUS
  <1> HIDE DEF ms, S
  <1>5. /\ Shape /\ Rows /\ Commanded /\ Named /\ Counted /\ Accepted
        /\ CompleteMeansSettled /\ Accounted
    BY DEF RecoveryInv
  <1>6. /\ Shape' /\ Rows' /\ Noted' /\ DOMAIN nodes' = S
        /\ phase' # "idle" /\ phase' \notin ServePhases /\ OwnNode(results') /\ effects' = effects
    BY <1>1, <1>3, <1>5, RunStarts
  <1>7. Commanded'
    BY <1>1, <1>2, <1>5, <1>6 DEF Commanded
  <1>8. Named'
    BY <1>1, <1>2, <1>5, <1>6 DEF Named
  <1>9. \A m : Touched(m)' = Touched(m)
    BY <1>6 DEF Touched
  <1>10. Counted'
    BY <1>1, <1>2, <1>4, <1>5, <1>6, <1>9 DEF Counted
  <1>11. Accepted' /\ CompleteMeansSettled'
    BY <1>1, <1>2, <1>5, <1>6 DEF Accepted, AcceptedOf, CompleteMeansSettled
  <1>12. Accounted'
    <2> SUFFICES ASSUME ~lost PROVE Accounted'
      BY <1>1 DEF Accounted
    <2>1. AppliedOnce' /\ NothingUnaccounted' /\ commands' # 0
      BY <1>1, <1>5, <1>6 DEF Accounted, AppliedOnce, NothingUnaccounted, Commanded
    <2>2. \A m \in Machine \ DOMAIN nodes' : Successes(merged', m) = Cardinality(Touched(m)')
      BY <1>1, <1>2, <1>9
    <2>3. ASSUME NEW m \in DOMAIN nodes', NEW i \in Intent PROVE ~(effects'[m][i] > 0)
      <3>1. m \in Machine /\ Cardinality(Touched(m)) = 0
        BY <1>2, <1>4, <1>6, <2>3
      <3>2. Touched(m) = {}
        BY <3>1, TouchedFinite
      <3> QED BY <1>6, <3>2 DEF Touched
    <2> QED BY <2>1, <2>2, <2>3 DEF Accounted
  <1> QED BY <1>6, <1>7, <1>8, <1>10, <1>11, <1>12 DEF RecoveryInv

LEMMA AdvanceNobodyKeeps ==
  ASSUME RecoveryInv, NEW skip \in Machine \cup {NoNode}, AdvanceNobody(skip)
  PROVE  RecoveryInv'
  <1> DEFINE res == MarkSkipped(record.results, skip)
  <1>1. /\ command = "none"
        /\ record' = [status |-> IF AllSettled(res) THEN "complete" ELSE "dirty", results |-> res]
        /\ human' = human \cup ({skip} \ {NoNode}) /\ commands' = commands + 1
        /\ UNCHANGED <<vars, command, skipping, merged, lost>>
    BY DEF AdvanceNobody
  <1>2. /\ res \in Seq(Rendered) /\ OwnNode(res)
        /\ AcceptedOf(res, human')
        /\ \A m \in Machine :
              /\ Successes(res, m) \in Nat
              /\ Successes(res, m) <= Cardinality(Touched(m))
              /\ ~lost => Successes(res, m) = Cardinality(Touched(m))
    BY <1>1, AdvanceMarks
  <1> HIDE DEF res
  <1>3. /\ record'.results = res /\ record'.status \in {"complete", "dirty"}
        /\ record'.status = "complete" => AllSettled(res)
    BY <1>1
  <1>4. /\ Shape /\ Rows /\ Commanded /\ Named /\ Noted /\ Counted /\ Accepted
        /\ CompleteMeansSettled /\ Accounted
    BY DEF RecoveryInv
  <1>5. UNCHANGED <<registry, agent, plan, phase, batches, nodes, at, target, fresh, retries,
                    again, results, status, stopped, effects, command, skipping, merged, lost>>
    BY <1>1 DEF vars, run
  <1>6. Shape' /\ Rows'
    BY <1>1, <1>4, StillShape
  <1>7. Commanded'
    <2>1. record' \in [status : {"none", "dirty", "complete", "torn"}, results : Seq(Rendered)]
      BY <1>1, <1>2
    <2>2. human' \subseteq Machine
      BY <1>1, <1>4 DEF Commanded
    <2>3. commands' \in Nat /\ (commands' = 0 => command' = "none")
      BY <1>1, <1>4 DEF Commanded
    <2> QED BY <1>3, <1>4, <1>5, <2>1, <2>2, <2>3 DEF Commanded
  <1>8. Named'
    BY <1>2, <1>3, <1>4, <1>5 DEF Named, Here
  <1>9. Noted'
    BY <1>4, <1>5 DEF Noted, Place, Who
  <1>10. \A m : Touched(m)' = Touched(m)
    BY <1>5 DEF Touched
  <1>11. Counted'
    BY <1>2, <1>3, <1>4, <1>5, <1>10 DEF Counted
  <1>12. Accepted'
    BY <1>1, <1>2, <1>3, <1>4, <1>5 DEF Accepted, AcceptedOf
  <1>13. CompleteMeansSettled'
    <2>1. EffectTypes
      BY <1>4 DEF Shape, Typed, EffectTypes
    <2>2. ASSUME AllSettled(res), NEW m \in Machine
          PROVE  m \in human' \/ \A i \in Intent : effects[m][i] > 0
      BY <1>2, <2>1, <2>2, SettledApplied
    <2> QED BY <1>3, <1>5, <2>2 DEF CompleteMeansSettled
  <1>14. Accounted'
    <2> SUFFICES ASSUME ~lost PROVE Accounted'
      BY <1>5 DEF Accounted
    <2>1. AppliedOnce'
      BY <1>4, <1>5 DEF Accounted, AppliedOnce
    <2>2. NothingUnaccounted'
      BY <1>2, <1>3, <1>5 DEF NothingUnaccounted, Touched
    <2>3. phase = "idle" /\ commands' # 0
      BY <1>1, <1>4 DEF Commanded
    <2> QED BY <1>5, <2>1, <2>2, <2>3 DEF Accounted
  <1> QED BY <1>6, <1>7, <1>8, <1>9, <1>11, <1>12, <1>13, <1>14 DEF RecoveryInv

\* The end of a command.
LEMMA RunIsOver ==
  ASSUME Shape, Rows, NoRun, Idle, UNCHANGED <<registry, agent, plan, effects>>
  PROVE  /\ Shape' /\ Rows' /\ Noted' /\ phase' = "idle" /\ phase' \notin ServePhases
         /\ OwnNode(results') /\ command' = "none" /\ skipping' = NoNode /\ merged' = <<>>
  <1>1. /\ phase' = "idle" /\ results' = <<>> /\ status' = "none" /\ stopped' = 0
        /\ target' = NoTarget /\ fresh' = NoTarget /\ retries' = 0 /\ again' = FALSE
        /\ command' = "none" /\ skipping' = NoNode /\ merged' = <<>>
    BY DEF NoRun, Idle
  <1>2. NoTarget \in AnyTarget
    BY DEF NoTarget, AnyTarget, NoNode, Capability
  <1>3. Typed'
    <2>1. /\ registry' \in [NodeId -> [box : Machine \cup {0}, cap : {"btrfs", "none"}]]
          /\ agent' \in [Machine -> [id : NodeId, cap : Capability, known : BOOLEAN]]
          /\ plan' \in PlanOf(Strategies, Sizes, Classes, Levels)
          /\ effects' \in [Machine -> [Intent -> Nat]]
      BY DEF Shape, Typed
    <2>2. results' \in Seq(Result) /\ retries' \in 0..RetryMax /\ again' \in BOOLEAN
      <3>1. <<>> \in Seq(Result) /\ 0 \in 0..RetryMax
        OBVIOUS
      <3>2. retries' \in 0..RetryMax /\ again' \in BOOLEAN
        BY <1>1, <3>1
      <3>3. results' \in Seq(Result)
        BY <1>1, <3>1, Zenon
      <3> QED BY <3>2, <3>3
    <2> QED BY <1>1, <1>2, <2>1, <2>2 DEF Typed
  <1>4. Placed' /\ Serving' /\ Verdict'
    BY <1>1 DEF Placed, Serving, Verdict, ServePhases
  <1>5. Owned' /\ OneRow'
    BY SameRows DEF Rows
  <1>6. Rejoining' /\ Noted'
    BY <1>1 DEF Rejoining, Noted
  <1> QED BY <1>1, <1>3, <1>4, <1>5, <1>6, NoSuccess DEF Shape, Rows, ServePhases

\* A record counts what the run has added to what was there before it.
LEMMA RecordKeeps ==
  ASSUME RecoveryInv, Record, NewRecord
  PROVE  RecoveryInv'
  <1> DEFINE new == Render(results)
             all == merged \o new
  <1>1. /\ phase = "ended" /\ NoRun /\ Idle
        /\ record' = [status |-> IF status = "complete" /\ AllSettled(all)
                                 THEN "complete" ELSE "dirty",
                      results |-> all]
        /\ human' = human \cup ({skipping} \ {NoNode})
        /\ UNCHANGED <<registry, agent, plan, effects, commands, lost>>
    BY DEF Record, NewRecord
  <1>2. /\ Shape /\ Rows /\ Commanded /\ Named /\ Noted /\ Counted /\ Accepted
        /\ CompleteMeansSettled /\ Accounted
    BY DEF RecoveryInv
  <1>3. /\ Shape' /\ Rows' /\ Noted' /\ phase' = "idle" /\ phase' \notin ServePhases
        /\ OwnNode(results') /\ command' = "none" /\ skipping' = NoNode /\ merged' = <<>>
    BY <1>1, <1>2, RunIsOver
  <1>4. /\ phase # "idle" /\ EffectTypes /\ results \in Seq(Result) /\ OwnNode(results)
        /\ DOMAIN nodes \subseteq Machine
    BY <1>1, <1>2 DEF Shape, Typed, Placed, EffectTypes, Named
  <1>5. /\ new \in Seq(Rendered) /\ OwnNode(new) /\ AcceptedOf(new, {})
    BY <1>4, RenderKeeps
  <1>6. ASSUME NEW m \in Machine
        PROVE  /\ Successes(new, m) \in Nat /\ Successes(new, m) <= Cardinality(Touched(m))
               /\ m \notin DOMAIN nodes => Successes(new, m) = 0
               /\ (\A i \in Intent : effects[m][i] > 0 => \E k \in DOMAIN results : IsOf(results[k], m, i))
                    => Successes(new, m) = Cardinality(Touched(m))
    BY <1>2, <1>4, RunShows
  <1> HIDE DEF new
  <1>7. /\ merged \in Seq(Rendered) /\ OwnNode(merged) /\ skipping \in Machine \cup {NoNode}
        /\ human \subseteq Machine /\ AcceptedOf(merged, human \cup {skipping})
        /\ \A m \in Machine : Successes(merged, m) <= Cardinality(Touched(m))
        /\ \A m \in DOMAIN nodes : Successes(merged, m) = 0
    BY <1>2, <1>4 DEF Commanded, Named, Accepted, Counted
  <1>8. AcceptedOf(merged, human') /\ AcceptedOf(new, human')
    <2>1. \A k \in DOMAIN merged : merged[k].m \in Machine
      <3>1. \A k \in DOMAIN merged : merged[k] \in Rendered
        BY <1>7
      <3> QED BY <3>1 DEF Rendered
    <2>2. ~(NoNode \in Machine)
      BY DEF NoNode, Machine
    <2> QED BY <1>1, <1>5, <1>7, <2>1, <2>2 DEF AcceptedOf
  <1>9. OwnNode(all) /\ AcceptedOf(all, human')
    BY <1>5, <1>7, <1>8, PutTogether
  <1>10. /\ all \in Seq(Rendered)
         /\ \A m : Successes(all, m) = Successes(merged, m) + Successes(new, m)
    BY <1>5, <1>7, SuccessesAdd
  <1>11. \A m \in Machine : Successes(merged, m) \in Nat
    BY <1>7, WinsFinite
  <1> HIDE DEF all
  <1>12. ASSUME NEW m \in Machine
         PROVE  /\ Successes(all, m) \in Nat /\ Successes(all, m) <= Cardinality(Touched(m))
                /\ ~lost => Successes(all, m) = Cardinality(Touched(m))
    <2>1. Cardinality(Touched(m)) \in Nat
      BY TouchedFinite
    <2>2. CASE m \in DOMAIN nodes
      <3>1. Successes(all, m) = Successes(new, m)
        BY <1>6, <1>7, <1>10, <2>2
      <3>2. ~lost => Successes(new, m) = Cardinality(Touched(m))
        BY <1>2, <1>4, <1>6, <2>2 DEF Accounted
      <3> QED BY <1>6, <3>1, <3>2
    <2>3. CASE m \notin DOMAIN nodes
      <3>1. Successes(all, m) = Successes(merged, m)
        BY <1>6, <1>10, <1>11, <2>3
      <3>2. ~lost => Successes(merged, m) = Cardinality(Touched(m))
        BY <1>2, <1>4, <2>3 DEF Accounted
      <3> QED BY <1>7, <1>11, <3>1, <3>2
    <2> QED BY <2>2, <2>3
  <1>13. /\ record'.results = all /\ record'.status \in {"complete", "dirty"}
         /\ record'.status = "complete" => AllSettled(all)
    BY <1>1
  <1>14. \A m : Touched(m)' = Touched(m)
    BY <1>1 DEF Touched
  <1>15. Commanded'
    <2>1. record' \in [status : {"none", "dirty", "complete", "torn"}, results : Seq(Rendered)]
      BY <1>1, <1>10
    <2>2. human' \subseteq Machine /\ commands' \in Nat /\ lost' \in BOOLEAN
      BY <1>1, <1>2, <1>7 DEF Commanded
    <2>3. skipping' \in Machine \cup {NoNode} /\ merged' \in Seq(Rendered)
      BY <1>3
    <2>4. record'.status # "torn"
      BY <1>13
    <2> QED BY <1>3, <2>1, <2>2, <2>3, <2>4 DEF Commanded
  <1>16. Named'
    BY <1>3, <1>9, <1>13, NoSuccess DEF Named
  <1>17. Counted'
    <2>1. \A m \in Machine : Successes(<<>>, m) <= Cardinality(Touched(m))
      BY NoSuccess, TouchedFinite
    <2> QED BY <1>3, <1>12, <1>13, <1>14, <2>1 DEF Counted
  <1>18. Accepted'
    BY <1>3, <1>9, <1>13, NoSuccess DEF Accepted
  <1>19. CompleteMeansSettled'
    <2>1. ASSUME AllSettled(all), NEW m \in Machine
          PROVE  m \in human' \/ \A i \in Intent : effects[m][i] > 0
      BY <1>4, <1>9, <1>12, <2>1, SettledApplied
    <2> QED BY <1>1, <1>13, <2>1 DEF CompleteMeansSettled
  <1>20. Accounted'
    <2> SUFFICES ASSUME ~lost PROVE Accounted'
      BY <1>1 DEF Accounted
    <2>1. AppliedOnce' /\ commands' # 0
      BY <1>1, <1>2, <1>4 DEF Accounted, AppliedOnce, Commanded
    <2>2. NothingUnaccounted'
      BY <1>1, <1>12, <1>13 DEF NothingUnaccounted, Touched
    <2> QED BY <1>3, <2>1, <2>2 DEF Accounted
  <1> QED BY <1>3, <1>15, <1>16, <1>17, <1>18, <1>19, <1>20 DEF RecoveryInv

\* A record nobody can read changes nothing.
LEMMA UnreadKeeps ==
  ASSUME RecoveryInv, Record, NothingReadable
  PROVE  RecoveryInv'
  <1>1. /\ phase = "ended" /\ NoRun /\ Idle /\ record.status = "torn" /\ record' = record
        /\ human' = human \cup ({skipping} \ {NoNode})
        /\ UNCHANGED <<registry, agent, plan, effects, commands, lost>>
    BY DEF Record, NothingReadable
  <1>2. /\ Shape /\ Rows /\ Commanded /\ Named /\ Counted /\ Accepted /\ lost
    BY <1>1 DEF RecoveryInv, Commanded
  <1>3. /\ Shape' /\ Rows' /\ Noted' /\ phase' = "idle" /\ phase' \notin ServePhases
        /\ OwnNode(results') /\ command' = "none" /\ skipping' = NoNode /\ merged' = <<>>
    BY <1>1, <1>2, RunIsOver
  <1>4. \A m : Touched(m)' = Touched(m)
    BY <1>1 DEF Touched
  <1>5. Commanded'
    BY <1>1, <1>2, <1>3 DEF Commanded
  <1>6. Named' /\ Accepted'
    BY <1>1, <1>2, <1>3, NoSuccess DEF Named, Accepted, AcceptedOf
  <1>7. Counted'
    <2>1. \A m \in Machine : Successes(<<>>, m) <= Cardinality(Touched(m))
      BY NoSuccess, TouchedFinite
    <2> QED BY <1>1, <1>2, <1>3, <1>4, <2>1 DEF Counted
  <1>8. CompleteMeansSettled' /\ Accounted'
    BY <1>1, <1>2 DEF CompleteMeansSettled, Accounted
  <1> QED BY <1>3, <1>5, <1>6, <1>7, <1>8 DEF RecoveryInv

\* A command that leaves no record leaves the last one, or nothing to be read.
LEMMA ForgottenKeeps ==
  ASSUME RecoveryInv, Forgotten
  PROVE  RecoveryInv'
  <1>1. /\ NoRun /\ Idle /\ lost' = TRUE
        /\ record' = record \/ record' = [record EXCEPT !.status = "torn"]
        /\ UNCHANGED <<registry, agent, plan, effects, commands, human>>
    BY DEF Forgotten
  <1>2. /\ Shape /\ Rows /\ Commanded /\ Named /\ Counted /\ Accepted
        /\ CompleteMeansSettled
    BY DEF RecoveryInv
  <1>3. /\ Shape' /\ Rows' /\ Noted' /\ phase' = "idle" /\ phase' \notin ServePhases
        /\ OwnNode(results') /\ command' = "none" /\ skipping' = NoNode /\ merged' = <<>>
    BY <1>1, <1>2, RunIsOver
  <1>4. /\ record'.results = record.results
        /\ record'.status = record.status \/ record'.status = "torn"
        /\ record' \in [status : {"none", "dirty", "complete", "torn"}, results : Seq(Rendered)]
    BY <1>1, <1>2 DEF Commanded
  <1>5. \A m : Touched(m)' = Touched(m)
    BY <1>1 DEF Touched
  <1>6. Commanded'
    BY <1>1, <1>2, <1>3, <1>4 DEF Commanded
  <1>7. Named' /\ Accepted'
    BY <1>1, <1>2, <1>3, <1>4, NoSuccess DEF Named, Accepted
  <1>8. Counted'
    <2>1. \A m \in Machine : Successes(<<>>, m) <= Cardinality(Touched(m))
      BY NoSuccess, TouchedFinite
    <2> QED BY <1>2, <1>3, <1>4, <1>5, <2>1 DEF Counted
  <1>9. CompleteMeansSettled'
    BY <1>1, <1>2, <1>4 DEF CompleteMeansSettled
  <1>10. Accounted'
    BY <1>1 DEF Accounted
  <1> QED BY <1>3, <1>6, <1>7, <1>8, <1>9, <1>10 DEF RecoveryInv

----------------------------------------------------------------------------
(* All steps. *)

LEMMA ScheduleKeeps ==
  ASSUME RecoveryInv, Schedule
  PROVE  RecoveryInv'
  <1>1. /\ Scheduling /\ UNCHANGED <<record, command, skipping, merged, commands, human>>
        /\ lost' \in BOOLEAN /\ (lost => lost')
    BY DEF Schedule, RecoveryInv, Commanded
  <1>2. /\ Shape /\ Rows /\ Commanded /\ Named /\ Noted /\ Counted /\ Accepted
        /\ CompleteMeansSettled /\ Accounted
    BY DEF RecoveryInv
  <1>3. Shape' /\ Rows'
    BY <1>1, <1>2, RowsStep
  <1>4. /\ UNCHANGED <<batches, nodes>> /\ (phase = "idle" <=> phase' = "idle")
    BY <1>1, <1>2, RunGoesOn
  <1>5. Commanded'
    BY <1>1, <1>2, <1>4 DEF Commanded
  <1>6. Named' /\ Noted' /\ Accounted'
    BY <1>1, <1>2, NamedStep, NotedStep, AccountedStep
  <1>7. Counted' /\ CompleteMeansSettled'
    <2>1. Growing
      BY <1>1, <1>2, Grown
    <2> QED BY <1>1, <1>2, <1>4, <2>1, CountedStep
  <1>8. Accepted'
    BY <1>1, <1>2 DEF Accepted
  <1> QED BY <1>3, <1>5, <1>6, <1>7, <1>8 DEF RecoveryInv

\* A machine enrolled anew changes nothing in what is on record.
LEMMA RotationKeeps ==
  ASSUME RecoveryInv, NEW x \in Machine, Rotate(x), UNCHANGED recovery
  PROVE  RecoveryInv'
  <1>1. /\ Shape /\ Rows /\ Commanded /\ Named /\ Noted /\ Counted /\ Accepted
        /\ CompleteMeansSettled /\ Accounted
    BY DEF RecoveryInv
  <1>2. Shape' /\ Rows'
    BY <1>1, RowsStep
  <1>3. UNCHANGED <<phase, batches, nodes, at, target, fresh, retries, again, results,
                    status, stopped, effects, record, command, skipping, merged, commands,
                    human, lost>>
    BY DEF Rotate, run, recovery, history
  <1>4. Commanded'
    BY <1>1, <1>3 DEF Commanded
  <1>5. Named' /\ Accepted' /\ CompleteMeansSettled'
    BY <1>1, <1>3 DEF Named, Here, Accepted, CompleteMeansSettled
  <1>6. Noted'
    BY <1>1, <1>3 DEF Noted, Place, Who
  <1>7. Counted' /\ Accounted'
    BY <1>1, <1>3 DEF Counted, Accounted, Touched, AppliedOnce, NothingUnaccounted
  <1> QED BY <1>1, <1>2, <1>4, <1>5, <1>6, <1>7 DEF RecoveryInv

LEMMA RecoveryStutter ==
  ASSUME RecoveryInv, UNCHANGED rvars
  PROVE  RecoveryInv'
  <1>1. /\ Shape /\ Rows /\ Commanded /\ Named /\ Noted /\ Counted /\ Accepted
        /\ CompleteMeansSettled /\ Accounted
    BY DEF RecoveryInv
  <1>2. Shape' /\ Rows'
    BY <1>1, StillShape DEF rvars
  <1>3. UNCHANGED <<phase, batches, nodes, at, target, fresh, retries, again, results,
                    status, stopped, effects, record, command, skipping, merged, commands,
                    human, lost>>
    BY DEF rvars, vars, run, recovery, history
  <1>4. Commanded'
    BY <1>1, <1>3 DEF Commanded
  <1>5. Named' /\ Accepted' /\ CompleteMeansSettled'
    BY <1>1, <1>3 DEF Named, Here, Accepted, CompleteMeansSettled
  <1>6. Noted'
    BY <1>1, <1>3 DEF Noted, Place, Who
  <1>7. Counted' /\ Accounted'
    BY <1>1, <1>3 DEF Counted, Accounted, Touched, AppliedOnce, NothingUnaccounted
  <1> QED BY <1>1, <1>2, <1>4, <1>5, <1>6, <1>7 DEF RecoveryInv

\* plan submit, plan advance and the scheduler keep what is said above of the
\* run, of the results of it and of the last record, through every step, a
\* person's decisions and the losses included.
THEOREM RecoveryInvariance == RSpec => []RecoveryInv
  <1>1. ASSUME RecoveryInv, [RNext]_rvars PROVE RecoveryInv'
    <2>1. CASE Submit
      BY <1>1, <2>1, SubmitKeeps
    <2>2. CASE Person
      <3>1. NoNode \in Machine \cup {NoNode}
        OBVIOUS
      <3>2. PICK skip \in Machine \cup {NoNode} : Advance(skip) \/ AdvanceNobody(skip)
        BY <2>2, <3>1 DEF Person
      <3> QED BY <1>1, <3>2, AdvanceKeeps, AdvanceNobodyKeeps
    <2>3. CASE Schedule
      BY <1>1, <2>3, ScheduleKeeps
    <2>4. CASE Record
      BY <1>1, <2>4, RecordKeeps, UnreadKeeps DEF Record
    <2>5. CASE Forgotten
      BY <1>1, <2>5, ForgottenKeeps
    <2>6. CASE (\E m \in Machine : Rotate(m)) /\ UNCHANGED recovery
      BY <1>1, <2>6, RotationKeeps
    <2>7. CASE UNCHANGED rvars
      BY <1>1, <2>7, RecoveryStutter
    <2> QED BY <1>1, <2>1, <2>2, <2>3, <2>4, <2>5, <2>6, <2>7 DEF RNext
  <1> QED BY <1>1, RecoveryInit, PTL DEF RSpec

\* planPendingMachines: whatever a person skips and forces, in any order, and
\* however many machines, intents and commands there are, no agent applies an
\* intent twice, so long as the plan is submitted once and nothing is lost.
THEOREM EachAppliedOnce == RSpec => []AppliedOnce
  <1>1. RecoveryInv => AppliedOnce
    BY DEF RecoveryInv, Accounted, AppliedOnce
  <1> QED BY <1>1, RecoveryInvariance, PTL

\* recoveryFor: between commands the last record has a success, and with it a
\* rollback command, for every intent an agent has applied, so long as nothing
\* is lost.
THEOREM AllOnRecord == RSpec => []NothingUnaccounted
  <1>1. RecoveryInv => NothingUnaccounted
    BY DEF RecoveryInv, Accounted, NothingUnaccounted
  <1> QED BY <1>1, RecoveryInvariance, PTL

\* planAllSettled: a plan on record as complete has been applied whole by every
\* machine no one has skipped, over crashes, lost answers, failing writes and
\* repeated submissions.
THEOREM CompleteIsSettled == RSpec => []CompleteMeansSettled
  <1>1. RecoveryInv => CompleteMeansSettled
    BY DEF RecoveryInv
  <1> QED BY <1>1, RecoveryInvariance, PTL

============================================================================
