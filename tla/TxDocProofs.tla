---------------------------- MODULE TxDocProofs ----------------------------
(* Lemmas about the pure functions on transaction documents (internal/tx).    *)
EXTENDS TxDoc, NaturalsInduction, WellFoundedInduction, TLAPS

USE SnapshotAssumption
----------------------------------------------------------------------------
(* The pure functions on documents. *)

\* NoDoc and Garbled are not documents.
LEMMA NotWhole == ~Whole(NoDoc) /\ ~Whole(Garbled) /\ NoDoc # Garbled
  BY DEF Whole, NoDoc, Garbled, Status

\* Begin's document is one.
LEMMA NewDocOK == DocOK(NewDoc) /\ NewDoc # NoDoc /\ NewDoc # Garbled
  BY DEF DocOK, NewDoc, NoDoc, Garbled, Status

\* A document is never mistaken for a missing or a garbled file.
LEMMA DocOKWhole ==
  ASSUME NEW doc, DocOK(doc)
  PROVE  Whole(doc) /\ doc # NoDoc /\ doc # Garbled
  BY DEF DocOK, Whole, NoDoc, Garbled, Status

\* What a document's type says.
LEMMA DocType ==
  ASSUME NEW doc, DocOK(doc)
  PROVE  /\ doc \in [status : Status, steps : Seq(Step),
                     plan : {<<>>, BuildRollbackPlan(doc.steps)}]
         /\ doc.status \in Status /\ doc.steps \in Seq(Step)
         /\ doc.plan = IF doc.status \in {"applied", "rolled_back"}
                       THEN BuildRollbackPlan(doc.steps) ELSE <<>>
  BY DEF DocOK

\* EXCEPT on a record with the three fields of a document.
LEMMA StepsExcept ==
  ASSUME NEW S, NEW T, NEW U, NEW doc \in [status : S, steps : T, plan : U], NEW x \in T
  PROVE  LET new == [doc EXCEPT !.steps = x]
         IN  /\ new \in [status : S, steps : T, plan : U]
             /\ new.status = doc.status /\ new.steps = x /\ new.plan = doc.plan
  OBVIOUS

\* EXCEPT on the status of a document leaves its other fields.
LEMMA StatusExcept ==
  ASSUME NEW S, NEW T, NEW U, NEW doc \in [status : S, steps : T, plan : U],
         NEW x \in S, NEW y \in U
  PROVE  LET new == [doc EXCEPT !.status = x, !.plan = y]
         IN  /\ new \in [status : S, steps : T, plan : U]
             /\ new.status = x /\ new.steps = doc.steps /\ new.plan = y
  OBVIOUS

\* The fields Append and mark produce.
LEMMA AppendedFields ==
  ASSUME NEW doc, DocOK(doc), NEW s \in NewStep
  PROVE  /\ Appended(doc, s) \in [status : Status, steps : Seq(Step),
                                  plan : {<<>>, BuildRollbackPlan(doc.steps)}]
         /\ Appended(doc, s).status = doc.status
         /\ Appended(doc, s).steps = Append(doc.steps, s)
         /\ Appended(doc, s).plan = doc.plan
  <1>1. Append(doc.steps, s) \in Seq(Step)
    BY DocType DEF NewStep
  <1>2. doc \in [status : Status, steps : Seq(Step),
                 plan : {<<>>, BuildRollbackPlan(doc.steps)}]
    BY DocType
  <1> QED BY <1>1, <1>2, StepsExcept, Zenon DEF Appended

\* The fields mark produces, with the plan for applied only.
LEMMA MarkedFields ==
  ASSUME NEW doc, DocOK(doc), NEW to \in Status
  PROVE  /\ Marked(doc, to) \in [status : Status, steps : Seq(Step),
                                 plan : {<<>>, BuildRollbackPlan(doc.steps)}]
         /\ Marked(doc, to).status = to
         /\ Marked(doc, to).steps = doc.steps
         /\ Marked(doc, to).plan = IF to = "applied" THEN BuildRollbackPlan(doc.steps)
                                                     ELSE doc.plan
  <1>1. doc \in [status : Status, steps : Seq(Step),
                 plan : {<<>>, BuildRollbackPlan(doc.steps)}]
    BY DocType
  <1>2. (IF to = "applied" THEN BuildRollbackPlan(doc.steps) ELSE doc.plan)
           \in {<<>>, BuildRollbackPlan(doc.steps)}
    BY DocType
  <1> QED BY <1>1, <1>2, StatusExcept, Zenon DEF Marked

\* Append keeps documents well formed.
LEMMA AppendedOK ==
  ASSUME NEW doc, DocOK(doc), CanAppend(doc), NEW s \in NewStep
  PROVE  DocOK(Appended(doc, s))
  <1>1. doc.plan = <<>> /\ doc.status = "proposed"
    BY DocType DEF CanAppend
  <1>2. Appended(doc, s) \in [status : Status, steps : Seq(Step),
                              plan : {<<>>, BuildRollbackPlan(Appended(doc, s).steps)}]
    BY <1>1, AppendedFields
  <1> QED BY <1>1, <1>2, AppendedFields DEF DocOK

\* mark keeps them well formed: the plan appears with applied and stays.
LEMMA MarkedOK ==
  ASSUME NEW doc, DocOK(doc), NEW to \in Status, CanMark(doc, to)
  PROVE  DocOK(Marked(doc, to))
  <1>1. \/ doc.status = "proposed" /\ to \in {"applying", "failed"}
        \/ doc.status = "applying" /\ to \in {"applied", "failed"}
        \/ doc.status = "applied" /\ to = "rolled_back"
    BY DocType DEF CanMark, LegalTransitions, Status
  <1>2. Marked(doc, to).plan = IF to \in {"applied", "rolled_back"}
                               THEN BuildRollbackPlan(doc.steps) ELSE <<>>
    BY <1>1, DocType, MarkedFields
  <1> QED BY <1>2, MarkedFields DEF DocOK

\* Noting a failed step keeps them well formed and changes outcomes only.
LEMMA WithFailureOK ==
  ASSUME NEW doc, DocOK(doc), doc.status = "applying", NEW i \in DOMAIN doc.steps
  PROVE  /\ DocOK(WithFailure(doc, i))
         /\ WithFailure(doc, i).status = "applying"
         /\ WithFailure(doc, i).plan = doc.plan
         /\ DOMAIN WithFailure(doc, i).steps = DOMAIN doc.steps
         /\ \A j \in DOMAIN doc.steps : WithFailure(doc, i).steps[j] =
               [doc.steps[j] EXCEPT !.failed = WithFailure(doc, i).steps[j].failed]
  <1> DEFINE step == [doc.steps[i] EXCEPT !.failed = TRUE]
             steps == [doc.steps EXCEPT ![i] = step]
  <1>1. doc.steps \in Seq(Step) /\ doc.plan = <<>>
    BY DocType
  <1>2. \A j \in DOMAIN doc.steps : doc.steps[j] \in Step
    BY <1>1
  <1>3. step \in Step
    BY <1>2 DEF Step
  <1>4. steps \in Seq(Step) /\ DOMAIN steps = DOMAIN doc.steps
    BY <1>1, <1>3
  <1>5. \A j \in DOMAIN doc.steps :
           steps[j] = [doc.steps[j] EXCEPT !.failed = steps[j].failed]
    BY <1>2, <1>3, <1>4 DEF Step
  <1>6. WithFailure(doc, i) = [doc EXCEPT !.steps = steps]
    BY DocType DEF WithFailure
  <1> HIDE DEF steps
  <1>7. /\ WithFailure(doc, i) \in [status : Status, steps : Seq(Step), plan : {<<>>}]
        /\ WithFailure(doc, i).status = "applying"
        /\ WithFailure(doc, i).steps = steps
        /\ WithFailure(doc, i).plan = <<>>
    BY <1>1, <1>4, <1>6, DocType
  <1>8. DocOK(WithFailure(doc, i))
    BY <1>4, <1>7 DEF DocOK, Status
  <1> QED BY <1>1, <1>4, <1>5, <1>7, <1>8

\* The steps of two documents differ in their failure only.
OnlyFails(d, doc) ==
  /\ DOMAIN d.steps = DOMAIN doc.steps
  /\ \A j \in DOMAIN doc.steps :
        d.steps[j] = [doc.steps[j] EXCEPT !.failed = d.steps[j].failed]

LEMMA WithFailureKeeps ==
  ASSUME NEW doc, DocOK(doc), doc.status = "applying", NEW i \in DOMAIN doc.steps
  PROVE  OnlyFails(WithFailure(doc, i), doc)
  BY WithFailureOK, Zenon DEF OnlyFails

\* The first failed step when there is none, and when there is one only.
LEMMA FirstFailedNone ==
  ASSUME NEW steps \in Seq(Step), \A k \in DOMAIN steps : ~steps[k].failed
  PROVE  FirstFailed(steps) = 0
  BY DEF FirstFailed, SelectInSeq

LEMMA FirstFailedOnly ==
  ASSUME NEW steps \in Seq(Step), NEW n \in DOMAIN steps,
         \A k \in DOMAIN steps : steps[k].failed <=> k = n
  PROVE  FirstFailed(steps) = n
  <1>1. {k \in 1..Len(steps) : steps[k].failed} = {n}
    OBVIOUS
  <1>2. Min({n}) = n
    BY DEF Min
  <1> QED BY <1>1, <1>2 DEF FirstFailed, SelectInSeq
----------------------------------------------------------------------------
(* The rollback plan. *)

\* A set of natural numbers has a least one.
LEMMA LeastNumber ==
  ASSUME NEW S, S \subseteq Nat, S # {}
  PROVE  \E x \in S : \A y \in S : x <= y
  <1> DEFINE R == {ss \in Nat \X Nat : ss[1] < ss[2]}
  <1>1. IsWellFoundedOn(R, Nat)
    BY NatLessThanWellFounded DEF OpToRel
  <1>2. \E x \in S : \A y \in S : ~(<<y, x>> \in R)
    BY <1>1, WFMin
  <1>3. \A x, y \in S : ~(<<y, x>> \in R) => x <= y
    OBVIOUS
  <1> HIDE DEF R
  <1> QED BY <1>2, <1>3

\* The plan of the first k steps, from that of one step less.
Back(f, steps, k) ==
    IF k = 0 THEN <<>>
    ELSE IF steps[k].before = NoSnapshot THEN f[k - 1]
    ELSE <<steps[k]>> \o f[k - 1]

\* There is such a function, and BuildRollbackPlan is its last value.
LEMMA PlanUnfolded ==
  ASSUME NEW steps, Len(steps) \in Nat
  PROVE  \E f : /\ f = [k \in 0..Len(steps) |-> Back(f, steps, k)]
                /\ BuildRollbackPlan(steps) = f[Len(steps)]
  <1> DEFINE Is(f, n) == f = [k \in 0..n |-> Back(f, steps, k)]
             Bad == {n \in 0..Len(steps) : ~ \E f : Is(f, n)}
  <1>1. Bad = {}
    <2> SUFFICES ASSUME Bad # {} PROVE FALSE
      OBVIOUS
    <2>1. PICK n \in Bad : \A y \in Bad : n <= y
      <3>1. Bad \subseteq Nat
        OBVIOUS
      <3> HIDE DEF Bad
      <3> QED BY <3>1, LeastNumber
    <2>2. CASE n = 0
      <3>1. Is([k \in 0..0 |-> <<>>], 0)
        BY DEF Back
      <3> QED BY <2>2, <3>1
    <2>3. CASE n > 0
      <3>1. PICK f : Is(f, n - 1)
        BY <2>1, <2>3
      <3> DEFINE g == [k \in 0..n |-> IF k = n THEN Back(f, steps, n) ELSE f[k]]
      <3>2. \A k \in 0..(n - 1) : g[k] = f[k]
        BY <2>1
      <3>3. \A k \in 0..n : g[k] = Back(g, steps, k)
        <4> TAKE k \in 0..n
        <4>1. CASE k = n
          BY <4>1, <3>2, <2>3, <2>1 DEF Back
        <4>2. CASE k < n
          <5>1. k \in 0..(n - 1)
            BY <4>2, <2>1
          <5>2. f[k] = Back(f, steps, k)
            <6> HIDE DEF Back
            <6> QED BY <5>1, <3>1
          <5>3. g[k] = f[k]
            BY <5>1, <3>2
          <5>4. k = 0 \/ g[k - 1] = f[k - 1]
            BY <4>2, <3>2, <2>1
          <5> QED BY <5>2, <5>3, <5>4 DEF Back
        <4> QED BY <4>1, <4>2, <2>1
      <3>4. Is(g, n)
        <4> HIDE DEF Back
        <4> QED BY <3>3, Zenon
      <3> QED BY <3>4
    <2> QED BY <2>1, <2>2, <2>3
  <1>2. \E f : Is(f, Len(steps))
    BY <1>1
  <1>3. BuildRollbackPlan(steps) = (CHOOSE f : Is(f, Len(steps)))[Len(steps)]
    BY Zenon DEF BuildRollbackPlan, Back
  <1> DEFINE f == CHOOSE f : Is(f, Len(steps))
  <1>4. Is(f, Len(steps))
    BY <1>2
  <1> QED BY <1>3, <1>4

\* Of the steps of q, in some order: each has a snapshot and is one of the steps.
Undoes(q, steps) ==
    /\ q \in Seq(Step)
    /\ \A i \in DOMAIN q :
          q[i].before # NoSnapshot /\ \E k \in DOMAIN steps : q[i] = steps[k]

\* The plan is made of the steps that have something to restore.
LEMMA PlanUndoes ==
  ASSUME NEW steps \in Seq(Step)
  PROVE  Undoes(BuildRollbackPlan(steps), steps)
  <1>1. PICK f : /\ f = [k \in 0..Len(steps) |-> Back(f, steps, k)]
                 /\ BuildRollbackPlan(steps) = f[Len(steps)]
    BY PlanUnfolded
  <1>2. \A k \in 0..Len(steps) : f[k] = Back(f, steps, k)
    BY <1>1
  <1> DEFINE Bad == {k \in 0..Len(steps) : ~Undoes(f[k], steps)}
  <1>3. Bad = {}
    <2> SUFFICES ASSUME Bad # {} PROVE FALSE
      OBVIOUS
    <2>1. PICK n \in Bad : \A y \in Bad : n <= y
      <3>1. Bad \subseteq Nat
        OBVIOUS
      <3> HIDE DEF Bad
      <3> QED BY <3>1, LeastNumber
    <2>2. n \in 0..Len(steps) /\ ~Undoes(f[n], steps) /\ f[n] = Back(f, steps, n)
      BY <1>2, <2>1
    <2>3. CASE n = 0
      BY <2>2, <2>3 DEF Back, Undoes
    <2>4. CASE n > 0
      <3>1. n - 1 \in 0..Len(steps) /\ n - 1 \notin Bad
        BY <2>1, <2>2, <2>4
      <3>2. Undoes(f[n - 1], steps)
        BY <3>1
      <3>3. n \in DOMAIN steps /\ steps[n] \in Step
        BY <2>2, <2>4
      <3>4. CASE steps[n].before = NoSnapshot
        BY <2>2, <2>4, <3>2, <3>4 DEF Back
      <3>5. CASE steps[n].before # NoSnapshot
        <4> DEFINE q == f[n - 1]
                   r == <<steps[n]>> \o q
        <4>1. f[n] = r
          BY <2>2, <2>4, <3>5 DEF Back
        <4>2. q \in Seq(Step)
          BY <3>2 DEF Undoes
        <4>3. r \in Seq(Step) /\ Len(r) = Len(q) + 1 /\ r[1] = steps[n]
              /\ \A i \in 2..Len(r) : i - 1 \in DOMAIN q /\ r[i] = q[i - 1]
          <5> HIDE DEF q
          <5> QED BY <3>3, <4>2
        <4>4. ASSUME NEW i \in DOMAIN r
              PROVE  r[i].before # NoSnapshot /\ \E k \in DOMAIN steps : r[i] = steps[k]
          <5>1. CASE i = 1
            BY <3>3, <3>5, <4>3, <5>1
          <5>2. CASE i # 1
            <6>1. i \in 2..Len(r)
              BY <4>3, <5>2
            <6> HIDE DEF r
            <6> QED BY <3>2, <4>3, <6>1 DEF Undoes
          <5> QED BY <5>1, <5>2
        <4> QED BY <2>2, <4>1, <4>3, <4>4 DEF Undoes
      <3> QED BY <3>4, <3>5
    <2> QED BY <2>2, <2>3, <2>4
  <1> QED BY <1>1, <1>3

\* And all of them are in it.
LEMMA PlanCovers ==
  ASSUME NEW steps \in Seq(Step), NEW s \in DOMAIN steps, steps[s].before # NoSnapshot
  PROVE  \E i \in DOMAIN BuildRollbackPlan(steps) : BuildRollbackPlan(steps)[i] = steps[s]
  <1>1. PICK f : /\ f = [k \in 0..Len(steps) |-> Back(f, steps, k)]
                 /\ BuildRollbackPlan(steps) = f[Len(steps)]
    BY PlanUnfolded
  <1>2. \A k \in 0..Len(steps) : f[k] = Back(f, steps, k)
    BY <1>1
  <1> DEFINE Good(k) == /\ f[k] \in Seq(Step)
                        /\ s <= k => \E i \in DOMAIN f[k] : f[k][i] = steps[s]
             Bad == {k \in 0..Len(steps) : ~Good(k)}
  <1>3. Bad = {}
    <2> SUFFICES ASSUME Bad # {} PROVE FALSE
      OBVIOUS
    <2>1. PICK n \in Bad : \A y \in Bad : n <= y
      <3>1. Bad \subseteq Nat
        OBVIOUS
      <3> HIDE DEF Bad
      <3> QED BY <3>1, LeastNumber
    <2>2. n \in 0..Len(steps) /\ ~Good(n) /\ f[n] = Back(f, steps, n)
      BY <1>2, <2>1
    <2>3. CASE n = 0
      BY <2>2, <2>3 DEF Back
    <2>4. CASE n > 0
      <3>1. n - 1 \in 0..Len(steps) /\ n - 1 \notin Bad
        BY <2>1, <2>2, <2>4
      <3>2. Good(n - 1)
        BY <3>1
      <3>3. n \in DOMAIN steps /\ steps[n] \in Step
        BY <2>2, <2>4
      <3>4. CASE steps[n].before = NoSnapshot
        <4>1. f[n] = f[n - 1]
          BY <2>2, <2>4, <3>4 DEF Back
        <4>2. s <= n => s <= n - 1
          BY <2>2, <3>4
        <4> QED BY <2>2, <3>2, <4>1, <4>2
      <3>5. CASE steps[n].before # NoSnapshot
        <4> DEFINE q == f[n - 1]
                   r == <<steps[n]>> \o q
        <4>1. f[n] = r
          BY <2>2, <2>4, <3>5 DEF Back
        <4>2. q \in Seq(Step)
          BY <3>2
        <4>3. r \in Seq(Step) /\ 1 \in DOMAIN r /\ r[1] = steps[n]
              /\ \A i \in DOMAIN q : i + 1 \in DOMAIN r /\ r[i + 1] = q[i]
          <5> HIDE DEF q
          <5> QED BY <3>3, <4>2
        <4>4. CASE s = n
          BY <2>2, <4>1, <4>3, <4>4
        <4>5. CASE s # n
          <5>1. s <= n => \E i \in DOMAIN q : q[i] = steps[s]
            BY <2>2, <3>2, <4>5
          <5> HIDE DEF q, r
          <5>2. s <= n => \E i \in DOMAIN r : r[i] = steps[s]
            BY <4>3, <5>1
          <5> QED BY <2>2, <4>1, <4>3, <5>2
        <4> QED BY <4>4, <4>5
      <3> QED BY <3>4, <3>5
    <2> QED BY <2>2, <2>3, <2>4
  <1>4. Good(Len(steps))
    BY <1>3
  <1> QED BY <1>1, <1>4

\* The first failed step is one of the steps, if there is one.
LEMMA FirstFailedRange ==
  ASSUME NEW steps \in Seq(Step)
  PROVE  FirstFailed(steps) \in 0..Len(steps)
  <1> DEFINE I == {i \in 1..Len(steps) : steps[i].failed}
  <1>1. CASE I = {}
    BY <1>1 DEF FirstFailed, SelectInSeq
  <1>2. CASE I # {}
    <2>1. I \subseteq Nat
      OBVIOUS
    <2> HIDE DEF I
    <2>2. \E i \in I : \A j \in I : i <= j
      BY <1>2, <2>1, LeastNumber
    <2>3. Min(I) \in I
      BY <2>2 DEF Min
    <2>4. FirstFailed(steps) = Min(I)
      BY <1>2, Zenon DEF FirstFailed, SelectInSeq, I
    <2> QED BY <2>3, <2>4 DEF I
  <1> QED BY <1>1, <1>2

\* What a rollback undoes has a snapshot and is one of the document's steps.
LEMMA RollbackUndoes ==
  ASSUME NEW doc, DocOK(doc)
  PROVE  Undoes(RollbackSteps(doc), doc.steps)
  <1>1. doc.steps \in Seq(Step)
    BY DocType
  <1>2. CASE doc.status = "applied"
    BY <1>1, <1>2, DocType, PlanUndoes DEF RollbackSteps
  <1>3. CASE doc.status # "applied" /\ FirstFailed(doc.steps) = 0
    BY <1>1, <1>3 DEF RollbackSteps, Undoes
  <1>4. CASE doc.status # "applied" /\ FirstFailed(doc.steps) # 0
    <2> DEFINE i == FirstFailed(doc.steps)
               part == SubSeq(doc.steps, 1, i - 1)
    <2>1. i \in 1..Len(doc.steps)
      BY <1>1, <1>4, FirstFailedRange
    <2>2. RollbackSteps(doc) = BuildRollbackPlan(part)
      BY <1>4, <2>1 DEF RollbackSteps
    <2> HIDE DEF i
    <2>3. /\ part \in Seq(Step)
          /\ \A k \in DOMAIN part : k \in DOMAIN doc.steps /\ part[k] = doc.steps[k]
      BY <1>1, <2>1
    <2> HIDE DEF part
    <2>4. Undoes(BuildRollbackPlan(part), part)
      BY <2>3, PlanUndoes
    <2> QED BY <2>2, <2>3, <2>4 DEF Undoes
  <1> QED BY <1>2, <1>3, <1>4
============================================================================
