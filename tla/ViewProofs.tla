----------------------------- MODULE ViewProofs -----------------------------
(***************************************************************************)
(* What the desired view is: the replay of List and Project, row by row,   *)
(* what a load sees of the commands that run beside it, and, under a       *)
(* discipline the operator keeps, that the state of the machine is the one *)
(* the view tells wherever no transaction stopped half-way.                *)
(***************************************************************************)
EXTENDS DesiredView, TxCliProofs

USE MappedAssumption
----------------------------------------------------------------------------
(* Replay. *)

\* A function is its values.
IsMap(f) == f = [x \in DOMAIN f |-> f[x]]

\* Of the first n steps, k is the last on r.
LastOn(steps, r, k, n) ==
    k \in 1..n /\ steps[k].target = r /\ \A j \in (k + 1)..n : steps[j].target # r

\* The largest of some of the first n numbers.
LEMMA GreatestNumber ==
  ASSUME NEW n \in Nat, NEW S, S \subseteq 1..n, S # {}
  PROVE  \E x \in S : \A y \in S : y <= x
  <1> DEFINE T == {n - x : x \in S}
  <1>1. T \subseteq Nat /\ T # {}
    <2>1. \A x \in S : n - x \in T /\ n - x \in Nat
      OBVIOUS
    <2> QED BY <2>1
  <1>2. PICK t \in T : \A y \in T : t <= y
    <2> HIDE DEF T
    <2> QED BY <1>1, LeastNumber
  <1>3. PICK x \in S : t = n - x
    BY <1>2
  <1>4. \A y \in S : t <= n - y
    BY <1>2
  <1> QED BY <1>3, <1>4

\* A resource that is written has a last step.
LEMMA LastStep ==
  ASSUME NEW n \in Nat, NEW steps, NEW r, \E k \in 1..n : steps[k].target = r
  PROVE  \E k : LastOn(steps, r, k, n)
  <1> DEFINE S == {k \in 1..n : steps[k].target = r}
  <1>1. S \subseteq 1..n /\ S # {}
    OBVIOUS
  <1>2. PICK k \in S : \A j \in S : j <= k
    <2> HIDE DEF S
    <2> QED BY <1>1, GreatestNumber
  <1>3. LastOn(steps, r, k, n)
    BY <1>2 DEF LastOn
  <1> QED BY <1>3

\* The rows after the first k steps, from those after one step less.
Laid(f, rows, id, steps, k) == IF k = 0 THEN rows ELSE Put(f[k - 1], id, steps[k])

LEMMA PutAllUnfolded ==
  ASSUME NEW rows, NEW id, NEW steps, Len(steps) \in Nat
  PROVE  \E f : /\ f = [k \in 0..Len(steps) |-> Laid(f, rows, id, steps, k)]
                /\ PutAll(rows, id, steps) = f[Len(steps)]
  <1> DEFINE Is(f, n) == f = [k \in 0..n |-> Laid(f, rows, id, steps, k)]
             Bad == {n \in 0..Len(steps) : ~ \E f : Is(f, n)}
  <1>1. Bad = {}
    <2> SUFFICES ASSUME Bad # {} PROVE FALSE
      OBVIOUS
    <2>1. PICK n \in Bad : \A y \in Bad : n <= y
      <3>1. Bad \subseteq Nat
        OBVIOUS
      <3> HIDE DEF Bad
      <3> QED BY <3>1, LeastNumber
    <2>2. CASE n = 0
      <3>1. Is([k \in 0..0 |-> rows], 0)
        BY DEF Laid
      <3> QED BY <2>2, <3>1
    <2>3. CASE n > 0
      <3>1. PICK f : Is(f, n - 1)
        BY <2>1, <2>3
      <3> DEFINE g == [k \in 0..n |-> IF k = n THEN Laid(f, rows, id, steps, n) ELSE f[k]]
      <3>2. \A k \in 0..(n - 1) : g[k] = f[k]
        BY <2>1
      <3>3. \A k \in 0..n : g[k] = Laid(g, rows, id, steps, k)
        <4> TAKE k \in 0..n
        <4>1. CASE k = n
          BY <4>1, <3>2, <2>3, <2>1 DEF Laid
        <4>2. CASE k < n
          <5>1. k \in 0..(n - 1)
            BY <4>2, <2>1
          <5>2. f[k] = Laid(f, rows, id, steps, k)
            <6> HIDE DEF Laid
            <6> QED BY <5>1, <3>1
          <5>3. g[k] = f[k]
            BY <5>1, <3>2
          <5>4. k = 0 \/ g[k - 1] = f[k - 1]
            BY <4>2, <3>2, <2>1
          <5> QED BY <5>2, <5>3, <5>4 DEF Laid
        <4> QED BY <4>1, <4>2, <2>1
      <3>4. Is(g, n)
        <4> HIDE DEF Laid
        <4> QED BY <3>3, Zenon
      <3> QED BY <3>4
    <2> QED BY <2>1, <2>2, <2>3
  <1>2. \E f : Is(f, Len(steps))
    BY <1>1
  <1>3. PutAll(rows, id, steps) = (CHOOSE f : Is(f, Len(steps)))[Len(steps)]
    BY Zenon DEF PutAll, Laid
  <1> DEFINE f == CHOOSE f : Is(f, Len(steps))
  <1>4. Is(f, Len(steps))
    BY <1>2
  <1> QED BY <1>3, <1>4

\* What the rows are after the first n steps: those that were there, and for a
\* resource with a step the row of the last one.
After(out, rows, id, steps, n) ==
    /\ DOMAIN out = DOMAIN rows \cup {r \in Mapped : \E k \in 1..n : steps[k].target = r}
    /\ \A r \in DOMAIN rows : (\A k \in 1..n : steps[k].target # r) => out[r] = rows[r]
    /\ \A r \in Mapped : \A k : LastOn(steps, r, k, n) => out[r] = Row(id, steps[k])
    /\ IsMap(rows) => IsMap(out)

LEMMA AfterNone ==
  ASSUME NEW rows, NEW id, NEW steps
  PROVE  After(rows, rows, id, steps, 0)
  <1>1. 1..0 = {}
    OBVIOUS
  <1>2. DOMAIN rows = DOMAIN rows \cup {r \in Mapped : \E k \in 1..0 : steps[k].target = r}
    BY <1>1
  <1>3. \A r \in Mapped : \A k : ~LastOn(steps, r, k, 0)
    BY <1>1 DEF LastOn
  <1> QED BY <1>2, <1>3 DEF After

LEMMA AfterStep ==
  ASSUME NEW n \in Nat \ {0}, NEW out, NEW rows, NEW id, NEW steps,
         After(out, rows, id, steps, n - 1)
  PROVE  After(Put(out, id, steps[n]), rows, id, steps, n)
  <1> DEFINE s == steps[n]
             new == Put(out, id, s)
  <1>1. \A k \in 1..n : k = n \/ k \in 1..(n - 1)
    OBVIOUS
  <1>2. CASE s.target \notin Mapped
    <2>1. new = out
      BY <1>2 DEF Put
    <2>2. \A r \in Mapped : \A k : LastOn(steps, r, k, n) => LastOn(steps, r, k, n - 1)
      BY <1>1, <1>2 DEF LastOn
    <2> HIDE DEF s, new
    <2>3. \A r \in Mapped : (\E k \in 1..n : steps[k].target = r)
                            <=> (\E k \in 1..(n - 1) : steps[k].target = r)
      BY <1>1, <1>2 DEF s
    <2>4. \A r : (\A k \in 1..n : steps[k].target # r) => \A k \in 1..(n - 1) : steps[k].target # r
      OBVIOUS
    <2> QED BY <2>1, <2>2, <2>3, <2>4 DEF After, new, s
  <1>3. CASE s.target \in Mapped
    <2>1. /\ DOMAIN new = DOMAIN out \cup {s.target} /\ IsMap(new)
          /\ new[s.target] = Row(id, s)
          /\ \A r \in DOMAIN out : r # s.target => new[r] = out[r]
      BY <1>3 DEF Put, Override, IsMap
    <2> HIDE DEF s, new
    <2>2. DOMAIN new = DOMAIN rows \cup {r \in Mapped : \E k \in 1..n : steps[k].target = r}
      BY <1>1, <1>3, <2>1 DEF After, s
    <2>3. \A r \in DOMAIN rows : (\A k \in 1..n : steps[k].target # r) => new[r] = rows[r]
      BY <2>1 DEF After, s
    <2>4. ASSUME NEW r \in Mapped, NEW k, LastOn(steps, r, k, n) PROVE new[r] = Row(id, steps[k])
      <3>1. CASE k = n
        BY <2>1, <2>4, <3>1 DEF LastOn, s
      <3>2. CASE k # n
        <4>1. LastOn(steps, r, k, n - 1) /\ s.target # r
          BY <2>4, <3>2 DEF LastOn, s
        <4>2. k \in 1..(n - 1) /\ steps[k].target = r
          BY <4>1 DEF LastOn
        <4>3. r \in DOMAIN out /\ out[r] = Row(id, steps[k])
          BY <4>1, <4>2 DEF After
        <4> QED BY <2>1, <4>1, <4>3
      <3> QED BY <3>1, <3>2
    <2>5. After(new, rows, id, steps, n)
      BY <2>1, <2>2, <2>3, <2>4 DEF After
    <2> QED BY <2>5 DEF new, s
  <1> QED BY <1>2, <1>3

\* What PutAll makes of the rows.
LEMMA PutAllRows ==
  ASSUME NEW rows, NEW id, NEW steps \in Seq(Step)
  PROVE  After(PutAll(rows, id, steps), rows, id, steps, Len(steps))
  <1>1. PICK f : /\ f = [k \in 0..Len(steps) |-> Laid(f, rows, id, steps, k)]
                 /\ PutAll(rows, id, steps) = f[Len(steps)]
    BY PutAllUnfolded
  <1>2. \A k \in 0..Len(steps) : f[k] = Laid(f, rows, id, steps, k)
    BY <1>1
  <1> DEFINE Bad == {k \in 0..Len(steps) : ~After(f[k], rows, id, steps, k)}
  <1>3. Bad = {}
    <2> SUFFICES ASSUME Bad # {} PROVE FALSE
      OBVIOUS
    <2>1. PICK n \in Bad : \A y \in Bad : n <= y
      <3>1. Bad \subseteq Nat
        OBVIOUS
      <3> HIDE DEF Bad
      <3> QED BY <3>1, LeastNumber
    <2>2. n \in 0..Len(steps) /\ ~After(f[n], rows, id, steps, n)
          /\ f[n] = Laid(f, rows, id, steps, n)
      BY <1>2, <2>1
    <2>3. CASE n = 0
      <3>1. f[n] = rows
        BY <2>2, <2>3 DEF Laid
      <3>2. After(rows, rows, id, steps, 0)
        BY AfterNone
      <3> QED BY <2>2, <2>3, <3>1, <3>2
    <2>4. CASE n > 0
      <3>1. n - 1 \in 0..Len(steps) /\ n - 1 \notin Bad /\ n \in Nat \ {0}
        BY <2>1, <2>2, <2>4
      <3>2. After(f[n - 1], rows, id, steps, n - 1)
        BY <3>1
      <3>3. f[n] = Put(f[n - 1], id, steps[n])
        BY <2>2, <2>4 DEF Laid
      <3> QED BY <2>2, <3>1, <3>2, <3>3, AfterStep
    <2> QED BY <2>2, <2>3, <2>4
  <1>4. Len(steps) \in 0..Len(steps)
    OBVIOUS
  <1> QED BY <1>1, <1>3, <1>4
----------------------------------------------------------------------------
(* Project. *)

\* The i-th transaction counts, and has a step on r.
Counts(read, i) == order[i] \in DOMAIN read /\ Contributes(read[order[i]])
Has(read, i, r) == Counts(read, i) /\ \E s \in Range(read[order[i]].steps) : s.target = r

\* The rows after the first k transactions, from those after one less.
Replayed(f, read, k) ==
    IF k = 0 THEN <<>>
    ELSE IF order[k] \in DOMAIN read /\ Contributes(read[order[k]])
         THEN PutAll(f[k - 1], order[k], read[order[k]].steps)
         ELSE f[k - 1]

LEMMA ProjectUnfolded ==
  ASSUME NEW read, Len(order) \in Nat
  PROVE  \E f : /\ f = [k \in 0..Len(order) |-> Replayed(f, read, k)]
                /\ Project(read) = f[Len(order)]
  <1> DEFINE Is(f, n) == f = [k \in 0..n |-> Replayed(f, read, k)]
             Bad == {n \in 0..Len(order) : ~ \E f : Is(f, n)}
  <1>1. Bad = {}
    <2> SUFFICES ASSUME Bad # {} PROVE FALSE
      OBVIOUS
    <2>1. PICK n \in Bad : \A y \in Bad : n <= y
      <3>1. Bad \subseteq Nat
        OBVIOUS
      <3> HIDE DEF Bad
      <3> QED BY <3>1, LeastNumber
    <2>2. CASE n = 0
      <3>1. Is([k \in 0..0 |-> <<>>], 0)
        BY DEF Replayed
      <3> QED BY <2>2, <3>1
    <2>3. CASE n > 0
      <3>1. PICK f : Is(f, n - 1)
        BY <2>1, <2>3
      <3> DEFINE g == [k \in 0..n |-> IF k = n THEN Replayed(f, read, n) ELSE f[k]]
      <3>2. \A k \in 0..(n - 1) : g[k] = f[k]
        BY <2>1
      <3>3. \A k \in 0..n : g[k] = Replayed(g, read, k)
        <4> TAKE k \in 0..n
        <4>1. CASE k = n
          BY <4>1, <3>2, <2>3, <2>1 DEF Replayed
        <4>2. CASE k < n
          <5>1. k \in 0..(n - 1)
            BY <4>2, <2>1
          <5>2. f[k] = Replayed(f, read, k)
            <6> HIDE DEF Replayed
            <6> QED BY <5>1, <3>1
          <5>3. g[k] = f[k]
            BY <5>1, <3>2
          <5>4. k = 0 \/ g[k - 1] = f[k - 1]
            BY <4>2, <3>2, <2>1
          <5> QED BY <5>2, <5>3, <5>4 DEF Replayed
        <4> QED BY <4>1, <4>2, <2>1
      <3>4. Is(g, n)
        <4> HIDE DEF Replayed
        <4> QED BY <3>3, Zenon
      <3> QED BY <3>4
    <2> QED BY <2>1, <2>2, <2>3
  <1>2. \E f : Is(f, Len(order))
    BY <1>1
  <1>3. Project(read) = (CHOOSE f : Is(f, Len(order)))[Len(order)]
    BY Zenon DEF Project, Replayed
  <1> DEFINE f == CHOOSE f : Is(f, Len(order))
  <1>4. Is(f, Len(order))
    BY <1>2
  <1> QED BY <1>3, <1>4

\* The documents that count are lists of steps.
Readable(read) ==
    \A id \in DOMAIN read : Contributes(read[id]) => read[id].steps \in Seq(Step)

\* The rows after the first n transactions: of each resource the last step of the
\* last transaction that has one.
Tell(out, read, n) ==
    /\ IsMap(out)
    /\ DOMAIN out = {r \in Mapped : \E i \in 1..n : Has(read, i, r)}
    /\ \A r \in Mapped : \A i \in 1..n : \A k :
          /\ Has(read, i, r) /\ \A j \in (i + 1)..n : ~Has(read, j, r)
          /\ LastOn(read[order[i]].steps, r, k, Len(read[order[i]].steps))
          => out[r] = Row(order[i], read[order[i]].steps[k])

LEMMA TellNone == ASSUME NEW read PROVE Tell(<<>>, read, 0)
  <1>1. 1..0 = {} /\ DOMAIN <<>> = {} /\ IsMap(<<>>)
    BY DEF IsMap
  <1>2. {r \in Mapped : \E i \in 1..0 : Has(read, i, r)} = {}
    BY <1>1
  <1> QED BY <1>1, <1>2 DEF Tell

LEMMA TellStep ==
  ASSUME NEW read, Readable(read), NEW n \in Nat \ {0}, NEW out, Tell(out, read, n - 1)
  PROVE  Tell(IF Counts(read, n) THEN PutAll(out, order[n], read[order[n]].steps) ELSE out, read, n)
  <1>0. \A k \in 1..n : k = n \/ k \in 1..(n - 1)
    OBVIOUS
  <1>1. CASE ~Counts(read, n)
    <2>1. \A r : ~Has(read, n, r)
      BY <1>1 DEF Has
    <2>2. \A r : (\E i \in 1..n : Has(read, i, r)) <=> \E i \in 1..(n - 1) : Has(read, i, r)
      BY <1>0, <2>1
    <2>3. ASSUME NEW r, NEW i \in 1..n, Has(read, i, r), \A j \in (i + 1)..n : ~Has(read, j, r)
          PROVE  i \in 1..(n - 1) /\ \A j \in (i + 1)..(n - 1) : ~Has(read, j, r)
      <3>1. i # n
        BY <2>1, <2>3
      <3>2. \A j \in (i + 1)..(n - 1) : j \in (i + 1)..n
        OBVIOUS
      <3> QED BY <1>0, <2>3, <3>1, <3>2
    <2>4. Tell(out, read, n)
      BY <2>2, <2>3 DEF Tell
    <2> QED BY <1>1, <2>4
  <1>2. CASE Counts(read, n)
    <2> DEFINE id == order[n]
               steps == read[id].steps
               new == PutAll(out, id, steps)
    <2>1. steps \in Seq(Step)
      BY <1>2 DEF Counts, Readable
    <2>2. After(new, out, id, steps, Len(steps))
      BY <2>1, PutAllRows
    <2>3. DOMAIN steps = 1..Len(steps)
      BY <2>1
    <2>4. \A r : Has(read, n, r) <=> \E k \in 1..Len(steps) : steps[k].target = r
      BY <1>2, <2>3 DEF Has, Range
    <2> HIDE DEF new
    <2>5. DOMAIN new = {r \in Mapped : \E i \in 1..n : Has(read, i, r)}
      <3>1. DOMAIN new = DOMAIN out \cup {r \in Mapped : Has(read, n, r)}
        BY <2>2, <2>4 DEF After
      <3>2. DOMAIN out = {r \in Mapped : \E i \in 1..(n - 1) : Has(read, i, r)}
        BY DEF Tell
      <3>3. n \in 1..n /\ \A i \in 1..(n - 1) : i \in 1..n
        OBVIOUS
      <3> QED BY <1>0, <3>1, <3>2, <3>3
    <2>6. ASSUME NEW r \in Mapped, NEW i \in 1..n, NEW k, Has(read, i, r),
                 \A j \in (i + 1)..n : ~Has(read, j, r),
                 LastOn(read[order[i]].steps, r, k, Len(read[order[i]].steps))
          PROVE  new[r] = Row(order[i], read[order[i]].steps[k])
      <3>1. CASE i = n
        BY <2>2, <2>6, <3>1 DEF After
      <3>2. CASE i # n
        <4>1. i \in 1..(n - 1) /\ \A j \in (i + 1)..(n - 1) : j \in (i + 1)..n
          BY <1>0, <3>2
        <4>2. n \in (i + 1)..n
          BY <4>1
        <4>3. out[r] = Row(order[i], read[order[i]].steps[k]) /\ r \in DOMAIN out
          BY <2>6, <4>1 DEF Tell
        <4>4. \A x \in 1..Len(steps) : steps[x].target # r
          BY <2>4, <2>6, <4>2
        <4> QED BY <2>2, <4>3, <4>4 DEF After
      <3> QED BY <3>1, <3>2
    <2>7. IsMap(new)
      BY <2>2 DEF After, Tell
    <2>8. Tell(new, read, n)
      BY <2>5, <2>6, <2>7 DEF Tell
    <2> QED BY <1>2, <2>8 DEF new
  <1> QED BY <1>1, <1>2

LEMMA ProjectTells ==
  ASSUME NEW read, Readable(read), Len(order) \in Nat
  PROVE  Tell(Project(read), read, Len(order))
  <1>1. PICK f : /\ f = [k \in 0..Len(order) |-> Replayed(f, read, k)]
                 /\ Project(read) = f[Len(order)]
    BY ProjectUnfolded
  <1>2. \A k \in 0..Len(order) : f[k] = Replayed(f, read, k)
    BY <1>1
  <1> DEFINE Bad == {k \in 0..Len(order) : ~Tell(f[k], read, k)}
  <1>3. Bad = {}
    <2> SUFFICES ASSUME Bad # {} PROVE FALSE
      OBVIOUS
    <2>1. PICK n \in Bad : \A y \in Bad : n <= y
      <3>1. Bad \subseteq Nat
        OBVIOUS
      <3> HIDE DEF Bad
      <3> QED BY <3>1, LeastNumber
    <2>2. n \in 0..Len(order) /\ ~Tell(f[n], read, n) /\ f[n] = Replayed(f, read, n)
      BY <1>2, <2>1
    <2>3. CASE n = 0
      BY <2>2, <2>3, TellNone DEF Replayed
    <2>4. CASE n > 0
      <3>1. n - 1 \in 0..Len(order) /\ n - 1 \notin Bad /\ n \in Nat \ {0}
        BY <2>1, <2>2, <2>4
      <3>2. Tell(f[n - 1], read, n - 1)
        BY <3>1
      <3>3. f[n] = IF Counts(read, n) THEN PutAll(f[n - 1], order[n], read[order[n]].steps)
                   ELSE f[n - 1]
        BY <2>2, <2>4 DEF Replayed, Counts
      <3> QED BY <2>2, <3>1, <3>2, <3>3, TellStep
    <2> QED BY <2>2, <2>3, <2>4
  <1>4. Len(order) \in 0..Len(order)
    OBVIOUS
  <1> QED BY <1>1, <1>3, <1>4
----------------------------------------------------------------------------
(* The replay is what the transactions that count ask for. *)

\* No transaction is listed twice.
Distinct == \A i, j \in DOMAIN order : order[i] = order[j] => i = j

Counted(read) == {id \in DOMAIN read : Contributes(read[id])}

\* w is the latest of the transactions S that have a step on r.
Latest(w, r, S, doc) ==
    w \in Writers(r, S, doc) /\ \A other \in Writers(r, S, doc) \ {w} : Before(other, w)

\* In the order of created_at exactly one of two is before the other.
LEMMA OneBefore ==
  ASSUME order \in Seq(Id), Distinct, NEW a \in Range(order), NEW b \in Range(order), a # b
  PROVE  (Before(a, b) \/ Before(b, a)) /\ ~(Before(a, b) /\ Before(b, a))
  <1>1. PICK i \in DOMAIN order : order[i] = a
    BY DEF Range
  <1>2. PICK j \in DOMAIN order : order[j] = b
    BY DEF Range
  <1>3. DOMAIN order = 1..Len(order) /\ Len(order) \in Nat
    OBVIOUS
  <1>4. i < j \/ j < i
    BY <1>1, <1>2, <1>3
  <1>5. \A k \in DOMAIN order : (order[k] = a => k = i) /\ (order[k] = b => k = j)
    BY <1>1, <1>2 DEF Distinct
  <1> QED BY <1>1, <1>2, <1>3, <1>4, <1>5 DEF Before

LEMMA NeverBeforeItself ==
  ASSUME order \in Seq(Id), Distinct, NEW a
  PROVE  ~Before(a, a)
  <1>1. DOMAIN order \subseteq Nat
    OBVIOUS
  <1> QED BY <1>1 DEF Before, Distinct

\* So there is one latest writer at most.
LEMMA LatestIsOne ==
  ASSUME order \in Seq(Id), Distinct, NEW S \in SUBSET Range(order), NEW r, NEW doc,
         NEW v, NEW w, Latest(v, r, S, doc), Latest(w, r, S, doc)
  PROVE  v = w
  <1>1. v \in Range(order) /\ w \in Range(order)
    BY DEF Latest, Writers
  <1>2. v # w => Before(v, w) /\ Before(w, v)
    BY DEF Latest
  <1> QED BY <1>1, <1>2, OneBefore

\* And one at least, if there is a writer.
LEMMA LatestExists ==
  ASSUME order \in Seq(Id), NEW S \in SUBSET Range(order), NEW r, NEW doc,
         Writers(r, S, doc) # {}
  PROVE  \E i \in 1..Len(order) :
            /\ Latest(order[i], r, S, doc)
            /\ \A j \in (i + 1)..Len(order) : order[j] \notin Writers(r, S, doc)
  <1> DEFINE I == {i \in 1..Len(order) : order[i] \in Writers(r, S, doc)}
  <1>1. DOMAIN order = 1..Len(order) /\ Len(order) \in Nat
    OBVIOUS
  <1>2. \A id \in Writers(r, S, doc) : \E i \in I : order[i] = id
    <2> TAKE id \in Writers(r, S, doc)
    <2>1. id \in Range(order)
      BY DEF Writers
    <2>2. PICK i \in DOMAIN order : order[i] = id
      BY <2>1 DEF Range
    <2> QED BY <1>1, <2>2
  <1>3. I \subseteq 1..Len(order) /\ I # {}
    BY <1>2
  <1>4. PICK i \in I : \A j \in I : j <= i
    <2> HIDE DEF I
    <2> QED BY <1>1, <1>3, GreatestNumber
  <1>5. \A j \in (i + 1)..Len(order) : order[j] \notin Writers(r, S, doc)
    <2> TAKE j \in (i + 1)..Len(order)
    <2>1. j \in 1..Len(order) /\ ~(j <= i)
      BY <1>1, <1>3
    <2> QED BY <1>4, <2>1
  <1>6. ASSUME NEW other \in Writers(r, S, doc), other # order[i] PROVE Before(other, order[i])
    <2>1. PICK j \in I : order[j] = other
      BY <1>2
    <2>2. j < i /\ i \in DOMAIN order /\ j \in DOMAIN order
      BY <1>1, <1>3, <1>4, <1>6, <2>1
    <2> QED BY <2>1, <2>2 DEF Before
  <1>7. order[i] \in Writers(r, S, doc) /\ i \in 1..Len(order)
    OBVIOUS
  <1> QED BY <1>5, <1>6, <1>7 DEF Latest

\* LastIndex finds the last step on r.
LEMMA LastSelected ==
  ASSUME NEW steps \in Seq(Step), NEW r, \E s \in Range(steps) : s.target = r
  PROVE  LastOn(steps, r, LastIndex(steps, r), Len(steps))
  <1> DEFINE I == {i \in 1..Len(steps) : steps[i].target = r}
  <1>1. DOMAIN steps = 1..Len(steps) /\ Len(steps) \in Nat
    OBVIOUS
  <1>2. I # {} /\ I \subseteq 1..Len(steps)
    BY <1>1 DEF Range
  <1>3. \E k \in I : \A j \in I : k >= j
    <2> HIDE DEF I
    <2>1. PICK k \in I : \A j \in I : j <= k
      BY <1>1, <1>2, GreatestNumber
    <2> QED BY <1>1, <1>2, <2>1
  <1>4. LastIndex(steps, r) = Max(I)
    BY <1>2, Zenon DEF SelectLastInSeq, LastIndex
  <1>5. Max(I) \in I /\ \A j \in I : Max(I) >= j
    BY <1>3, Zenon DEF Max
  <1> DEFINE k == Max(I)
  <1>6. k \in 1..Len(steps) /\ steps[k].target = r
    BY <1>5
  <1>7. \A j \in (k + 1)..Len(steps) : steps[j].target # r
    <2> TAKE j \in (k + 1)..Len(steps)
    <2>1. j \in 1..Len(steps) /\ ~(k >= j)
      BY <1>6
    <2> QED BY <1>5, <2>1
  <1> QED BY <1>4, <1>6, <1>7 DEF LastOn

\* What Project makes of what was read: of each resource in a known kind the last
\* step of the latest transaction that has one.
THEOREM ProjectIsReplay ==
  ASSUME NEW read, Readable(read), order \in Seq(Id), Distinct, Counted(read) \subseteq Range(order)
  PROVE  Project(read) = Expected(Counted(read), read)
  <1> DEFINE S == Counted(read)
             N == Len(order)
             view == Project(read)
             want == Expected(S, read)
  <1>1. N \in Nat /\ DOMAIN order = 1..N
    OBVIOUS
  <1>2. Tell(view, read, N)
    BY <1>1, ProjectTells
  <1>3. \A r : \A i \in 1..N : Has(read, i, r) <=> order[i] \in Writers(r, S, read)
    BY DEF Has, Counts, Writers, Counted
  <1>4. \A r : (\E i \in 1..N : Has(read, i, r)) <=> Writers(r, S, read) # {}
    <2>1. ASSUME NEW r, NEW id \in Writers(r, S, read) PROVE \E i \in 1..N : order[i] = id
      <3>1. id \in Range(order)
        BY DEF Writers
      <3> QED BY <1>1, <3>1 DEF Range
    <2> QED BY <1>3, <2>1
  <1> HIDE DEF S, N, view, want
  <1>5. IsMap(want) /\ DOMAIN want = {r \in Mapped : Writers(r, S, read) # {}}
    BY DEF want, Expected, IsMap
  <1>6. IsMap(view) /\ DOMAIN view = DOMAIN want
    BY <1>2, <1>4, <1>5 DEF Tell
  <1>7. ASSUME NEW r \in DOMAIN want PROVE view[r] = want[r]
    <2> DEFINE ws == Writers(r, S, read)
               w == CHOOSE id \in ws : \A other \in ws \ {id} : Before(other, id)
               k == LastIndex(read[w].steps, r)
    <2>1. r \in Mapped /\ ws # {}
      BY <1>5
    <2>2. want[r] = Row(w, read[w].steps[k])
      BY <1>5, <2>1, Zenon DEF want, Expected, Asked
    <2>3. S \in SUBSET Range(order)
      BY DEF S
    <2>4. PICK i \in 1..Len(order) :
            /\ Latest(order[i], r, S, read)
            /\ \A j \in (i + 1)..Len(order) : order[j] \notin ws
      BY <2>1, <2>3, LatestExists
    <2>5. Latest(w, r, S, read)
      <3>1. \E id \in ws : \A other \in ws \ {id} : Before(other, id)
        BY <2>4 DEF Latest
      <3> HIDE DEF ws
      <3>2. w \in ws /\ \A other \in ws \ {w} : Before(other, w)
        BY <3>1, Zenon
      <3> QED BY <3>2 DEF Latest, ws
    <2> HIDE DEF w
    <2>6. w = order[i]
      BY <2>3, <2>4, <2>5, LatestIsOne
    <2>7. i \in 1..N /\ Has(read, i, r) /\ \A j \in (i + 1)..N : ~Has(read, j, r)
      <3>1. i \in 1..N /\ order[i] \in ws
        BY <2>4 DEF Latest, N
      <3>2. \A j \in (i + 1)..N : j \in 1..N
        BY <1>1, <3>1
      <3> QED BY <1>3, <2>4, <3>1, <3>2 DEF N
    <2>8. read[w].steps \in Seq(Step) /\ \E s \in Range(read[w].steps) : s.target = r
      BY <2>6, <2>7 DEF Has, Counts, Readable
    <2>9. LastOn(read[w].steps, r, k, Len(read[w].steps))
      BY <2>8, LastSelected
    <2> HIDE DEF k
    <2>10. view[r] = Row(order[i], read[order[i]].steps[k])
      BY <1>2, <2>1, <2>6, <2>7, <2>9 DEF Tell
    <2> QED BY <2>2, <2>6, <2>10
  <1>8. view = want
    <2>1. [r \in DOMAIN view |-> view[r]] = [r \in DOMAIN want |-> want[r]]
      BY <1>6, <1>7
    <2> QED BY <1>5, <1>6, <2>1 DEF IsMap
  <1> QED BY <1>8 DEF view, want, S
----------------------------------------------------------------------------
(* The order of created_at. *)

\* Where a is before b in a sequence.
Precedes(s, a, b) == \E j, k \in DOMAIN s : j < k /\ s[j] = a /\ s[k] = b

\* A new element goes in without changing the order of the others.
LEMMA InsertedOrder ==
  ASSUME NEW S, NEW s \in Seq(S), NEW e \in S, NEW k \in 1..(Len(s) + 1), e \notin Range(s),
         \A i, j \in DOMAIN s : s[i] = s[j] => i = j
  PROVE  LET r == InsertAt(s, k, e)
         IN  /\ \A i, j \in DOMAIN r : r[i] = r[j] => i = j
             /\ \A a, b \in Range(s) : Precedes(r, a, b) <=> Precedes(s, a, b)
  <1> DEFINE r == InsertAt(s, k, e)
             up == [i \in DOMAIN s |-> IF i < k THEN i ELSE i + 1]
             down == [i \in DOMAIN r \ {k} |-> IF i < k THEN i ELSE i - 1]
  <1>1. /\ r \in Seq(S) /\ Len(r) = Len(s) + 1 /\ r[k] = e
        /\ \A i \in 1..(k - 1) : r[i] = s[i]
        /\ \A i \in (k + 1)..(Len(s) + 1) : r[i] = s[i - 1]
    BY InsertedAt
  <1> HIDE DEF r
  <1>2. /\ DOMAIN r = 1..(Len(s) + 1) /\ DOMAIN s = 1..Len(s) /\ Len(s) \in Nat
        /\ k \in 1..(Len(s) + 1)
    BY <1>1
  <1>3. ASSUME NEW i \in DOMAIN r \ {k}
        PROVE  down[i] \in DOMAIN s /\ r[i] = s[down[i]]
    <2>1. CASE i < k
      <3>1. i \in 1..(k - 1) /\ down[i] = i /\ i \in DOMAIN s
        BY <1>2, <2>1
      <3> QED BY <1>1, <3>1
    <2>2. CASE i > k
      <3>1. i \in (k + 1)..(Len(s) + 1) /\ down[i] = i - 1 /\ i - 1 \in DOMAIN s
        BY <1>2, <2>2
      <3> QED BY <1>1, <3>1
    <2> QED BY <1>2, <2>1, <2>2
  <1>4. ASSUME NEW i \in DOMAIN s PROVE up[i] \in DOMAIN r \ {k} /\ r[up[i]] = s[i]
    <2>1. CASE i < k
      <3>1. i \in 1..(k - 1) /\ up[i] = i /\ i \in DOMAIN r /\ i # k
        BY <1>2, <2>1
      <3> QED BY <1>1, <3>1
    <2>2. CASE i >= k
      <3>1. i + 1 \in (k + 1)..(Len(s) + 1) /\ up[i] = i + 1 /\ i + 1 \in DOMAIN r /\ i + 1 # k
            /\ (i + 1) - 1 = i
        BY <1>2, <2>2
      <3>2. r[i + 1] = s[(i + 1) - 1]
        BY <1>1, <3>1
      <3> QED BY <3>1, <3>2
    <2> QED BY <1>2, <2>1, <2>2
  <1>5. \A i, j \in DOMAIN r \ {k} : (i < j <=> down[i] < down[j])
    BY <1>2
  <1>6. \A i, j \in DOMAIN s : i < j => up[i] < up[j]
    BY <1>2
  <1> HIDE DEF up, down
  <1>7. \A i \in DOMAIN r : r[i] = e => i = k
    <2> TAKE i \in DOMAIN r
    <2>1. i # k => r[i] \in Range(s)
      BY <1>3 DEF Range
    <2> QED BY <2>1
  <1>8. ASSUME NEW i \in DOMAIN r, NEW j \in DOMAIN r, r[i] = r[j] PROVE i = j
    <2>1. CASE i = k \/ j = k
      BY <1>1, <1>7, <1>8, <2>1
    <2>2. CASE i # k /\ j # k
      <3>1. down[i] = down[j]
        BY <1>3, <1>8, <2>2
      <3>2. ~(i < j) /\ ~(j < i)
        <4>1. down[i] \in Nat /\ down[j] \in Nat
          BY <1>2, <1>3, <2>2
        <4>2. ~(down[i] < down[j]) /\ ~(down[j] < down[i])
          BY <3>1, <4>1
        <4> QED BY <1>5, <2>2, <4>2
      <3> QED BY <1>2, <3>2
    <2> QED BY <2>1, <2>2
  <1>9. ASSUME NEW a \in Range(s), NEW b \in Range(s), Precedes(s, a, b) PROVE Precedes(r, a, b)
    <2>1. PICK i, j \in DOMAIN s : i < j /\ s[i] = a /\ s[j] = b
      BY <1>9 DEF Precedes
    <2>2. /\ up[i] \in DOMAIN r /\ up[j] \in DOMAIN r /\ up[i] < up[j]
          /\ r[up[i]] = a /\ r[up[j]] = b
      BY <1>4, <1>6, <2>1
    <2> QED BY <2>2 DEF Precedes
  <1>10. ASSUME NEW a \in Range(s), NEW b \in Range(s), Precedes(r, a, b) PROVE Precedes(s, a, b)
    <2>1. PICK i, j \in DOMAIN r : i < j /\ r[i] = a /\ r[j] = b
      BY <1>10 DEF Precedes
    <2>2. i # k /\ j # k
      BY <1>1, <2>1
    <2>3. /\ down[i] \in DOMAIN s /\ down[j] \in DOMAIN s /\ down[i] < down[j]
          /\ s[down[i]] = a /\ s[down[j]] = b
      BY <1>3, <1>5, <2>1, <2>2
    <2> QED BY <2>3 DEF Precedes
  <1> QED BY <1>8, <1>9, <1>10 DEF r

\* Transactions only come in, and those that are there keep their order.
OrderGrows ==
    /\ Range(order) \subseteq Range(order')
    /\ \A a, b \in Range(order) : Before(a, b)' <=> Before(a, b)

LEMMA OrderStays ==
  ASSUME order' = order
  PROVE  OrderGrows /\ (Distinct => Distinct')
  BY DEF OrderGrows, Before, Distinct

LEMMA BeginOrder ==
  ASSUME LogInv, Distinct, NEW p \in Proc, NEW id \in Id, Begin(p, id)
  PROVE  OrderGrows /\ Distinct'
  <1>1. PICK k \in 1..(Len(order) + 1) : order' = InsertAt(order, k, id)
    BY DEF Begin
  <1>2. order \in Seq(Id) /\ id \notin Range(order)
    BY DEF Begin, LogInv
  <1>3. \A i, j \in DOMAIN order : order[i] = order[j] => i = j
    BY DEF Distinct
  <1>4. /\ \A i, j \in DOMAIN order' : order'[i] = order'[j] => i = j
        /\ \A a, b \in Range(order) : Precedes(order', a, b) <=> Precedes(order, a, b)
    BY <1>1, <1>2, <1>3, InsertedOrder
  <1>5. Range(order') = Range(order) \cup {id}
    BY <1>1, <1>2, Inserted
  <1> QED BY <1>4, <1>5 DEF OrderGrows, Distinct, Before, Precedes

LEMMA OrderNext ==
  ASSUME LogInv, Distinct, [Next]_vars
  PROVE  OrderGrows /\ Distinct'
  <1>1. CASE \E p \in Proc, id \in Id : Begin(p, id)
    BY <1>1, BeginOrder
  <1>2. CASE order' = order
    BY <1>2, OrderStays
  <1>3. CASE UNCHANGED vars
    BY <1>2, <1>3 DEF vars, docs
  <1>4. ASSUME NEW p \in Proc, NEW id \in Id, NEW c \in Command, Open(p, c, id)
        PROVE  order' = order
    BY <1>4 DEF Open, docs
  <1>5. ASSUME NEW p \in Proc, Run(p) \/ Crash(p) PROVE order' = order
    BY <1>5 DEF Run, Work, Propose, SaveProposal, StartApply, Started, ApplyStep, StampStep, FinishApply,
                StartRollback, UndoStep, FinishRollback, Resolve, Fail, SaveFails, Reject, Crash,
                docs
  <1> QED BY <1>1, <1>2, <1>3, <1>4, <1>5 DEF Next
----------------------------------------------------------------------------
(* A load beside the commands. *)

LEMMA ReaderIsApart == DNext \/ UNCHANGED dvars => [Next]_vars
  BY DEF DNext, Commands, ListDir, LoadEnds, LoadFails, LoadOver, ReadJournal, dvars

\* A load changes nothing for the commands that run beside it: List and Project
\* only read (List, Load).
THEOREM ReaderIsNeutral == DSpec => Spec
  BY ReaderIsApart, PTL DEF DSpec, DInit, Spec

\* What was read was applied at some moment if it says so, and says so if it was
\* applied all the time; what has been applied all the time is read, or listed.
CutInv ==
    /\ Distinct
    /\ rpc = "reading" =>
         /\ throughout \subseteq Applied(journal) /\ Applied(journal) \subseteq sometime
         /\ throughout \subseteq toRead \cup DOMAIN got
         /\ DOMAIN got \subseteq Range(order)
         /\ \A id \in DOMAIN got :
               /\ DocOK(got[id])
               /\ got[id].status = "applied" => id \in sometime
               /\ id \in throughout => got[id].status = "applied"

LEMMA CutInit == DInit => CutInv
  <1> SUFFICES ASSUME DInit PROVE CutInv
    OBVIOUS
  <1>1. order = <<>> /\ rpc = "idle"
    BY DEF DInit, Init
  <1> QED BY <1>1 DEF CutInv, Distinct

LEMMA CutNext ==
  ASSUME CliInv, LogInv, CutInv, DNext \/ UNCHANGED dvars
  PROVE  CutInv'
  <1>1. OrderGrows /\ Distinct'
    BY ReaderIsApart, OrderNext DEF CutInv
  <1>2. CASE Commands
    <2>1. /\ UNCHANGED <<rpc, toRead, got>>
          /\ throughout' = throughout \cap Applied(journal')
          /\ rpc = "reading" => sometime' = sometime \cup Applied(journal')
      BY <1>2 DEF Commands, reader, Watch
    <2> QED BY <1>1, <2>1 DEF CutInv, OrderGrows, Applied
  <1>3. CASE ListDir
    <2>1. /\ rpc' = "reading" /\ got' = <<>> /\ UNCHANGED vars
          /\ sometime' = Applied(journal) /\ throughout' = Applied(journal)
          /\ toRead' = {id \in Id : journal[id] # NoDoc}
      BY <1>3 DEF ListDir
    <2>2. DOMAIN got' = {} /\ journal' = journal
      BY <2>1 DEF vars, docs
    <2>3. Applied(journal) \subseteq toRead'
      <3>1. \A id \in Applied(journal) : id \in Id /\ journal[id] # NoDoc
        BY BareDocs DEF Applied
      <3> QED BY <2>1, <3>1
    <2> QED BY <1>1, <2>1, <2>2, <2>3 DEF CutInv, Applied
  <1>4. ASSUME NEW id \in Id, ReadJournal(id) PROVE CutInv'
    <2>1. /\ rpc = "reading" /\ id \in toRead /\ Whole(journal[id])
          /\ got' = Override(got, id, journal[id]) /\ toRead' = toRead \ {id}
          /\ UNCHANGED <<journal, order, rpc, sometime, throughout>>
      BY <1>4 DEF ReadJournal, history, vars, docs
    <2>2. /\ DOMAIN got' = DOMAIN got \cup {id} /\ got'[id] = journal[id]
          /\ \A i \in DOMAIN got : i # id => got'[i] = got[i]
      BY <2>1 DEF Override
    <2>3. DocOK(journal[id]) /\ id \in Range(order)
      BY <2>1, NotWhole DEF CliInv, Shape, LogInv
    <2>4. journal[id].status = "applied" <=> id \in Applied(journal)
      BY DEF Applied
    <2>5. CutInv
      OBVIOUS
    <2> QED BY <1>1, <2>1, <2>2, <2>3, <2>4, <2>5 DEF CutInv, Applied
  <1>5. CASE LoadEnds \/ \E id \in Id : LoadFails(id)
    <2>1. rpc' # "reading"
      BY <1>5 DEF LoadEnds, LoadFails, LoadOver
    <2> QED BY <1>1, <2>1 DEF CutInv
  <1>6. CASE UNCHANGED dvars
    <2>1. UNCHANGED <<journal, order, rpc, toRead, got, sometime, throughout>>
      BY <1>6 DEF dvars, vars, docs, reader, history
    <2> QED BY <1>1, <2>1 DEF CutInv, Applied
  <1> QED BY <1>2, <1>3, <1>4, <1>5, <1>6 DEF DNext

LEMMA CutInvariance == DSpec => [](CliInv /\ LogInv /\ CutInv)
  <1>1. DSpec => [](CliInv /\ LogInv)
    BY ReaderIsNeutral, CliInvariance, LogInvariance, PTL
  <1> QED BY <1>1, CutInit, CutNext, PTL DEF DSpec

LEMMA CutFacts == LogInv /\ CutInv => ViewIsOfSomeCut
  <1> SUFFICES ASSUME LogInv, CutInv, rpc = "reading", toRead = {}
               PROVE  \E S \in SUBSET (sometime \cap DOMAIN got) :
                         throughout \subseteq S /\ Project(got) = Expected(S, got)
    BY DEF ViewIsOfSomeCut
  <1>1. Counted(got) \subseteq sometime \cap DOMAIN got /\ throughout \subseteq Counted(got)
    BY DEF CutInv, Counted, Contributes
  <1>2. Readable(got)
    BY DocType DEF CutInv, Readable
  <1>3. Counted(got) \subseteq Range(order)
    BY DEF CutInv, Counted
  <1>4. Project(got) = Expected(Counted(got), got)
    BY <1>2, <1>3, ProjectIsReplay DEF CutInv, LogInv
  <1> QED BY <1>1, <1>4

\* However the commands interleave with a load, and whatever fails, the view is
\* the replay of all that was applied from its beginning to its end and of some of
\* what was applied for a part of it (List, Project, Load).
THEOREM ViewIsOfACut == DSpec => []ViewIsOfSomeCut
  BY CutInvariance, CutFacts, PTL
----------------------------------------------------------------------------
(* The discipline: what the transactions ask of a resource. *)

\* v is what the transactions S ask of r, if they ask anything.
Meets(v, r, S, doc, ord) ==
    \A w \in Writers(r, S, doc) :
        (\A other \in Writers(r, S, doc) \ {w} : Precedes(ord, other, w)) =>
            \A k \in DOMAIN doc[w].steps :
                LastOn(doc[w].steps, r, k, Len(doc[w].steps)) => v = doc[w].steps[k].after

\* The applied transactions that were begun before id.
Earlier(id, doc, ord) == {other \in Applied(doc) : Precedes(ord, other, id)}

\* The snapshots that the steps of a transaction have of r are what the earlier
\* transactions ask.
Fitting(id, r, doc, ord) ==
    \A k \in DOMAIN doc[id].steps : doc[id].steps[k].target = r =>
        /\ doc[id].steps[k].before \in Value
        /\ Meets(doc[id].steps[k].before, r, Earlier(id, doc, ord), doc, ord)

\* What is asked depends on those with a step on r only, their steps and their order.
LEMMA MeetsSame ==
  ASSUME NEW r, NEW S, NEW T, NEW d, NEW e, NEW o, NEW u,
         Writers(r, T, e) = Writers(r, S, d),
         \A w \in Writers(r, S, d) : e[w].steps = d[w].steps,
         \A a, b \in Writers(r, S, d) : Precedes(u, a, b) <=> Precedes(o, a, b)
  PROVE  \A v : Meets(v, r, T, e, u) <=> Meets(v, r, S, d, o)
  <1>1. \A w \in Writers(r, S, d) :
           (\A other \in Writers(r, S, d) \ {w} : Precedes(u, other, w))
           <=> (\A other \in Writers(r, S, d) \ {w} : Precedes(o, other, w))
    OBVIOUS
  <1> QED BY <1>1 DEF Meets

\* If no other is later, the last step of one decides.
LEMMA MeetsLast ==
  ASSUME NEW r, NEW S, NEW d, NEW o, NEW v, NEW id \in Writers(r, S, d),
         \A other \in Writers(r, S, d) : ~Precedes(o, id, other),
         \A k \in DOMAIN d[id].steps :
            LastOn(d[id].steps, r, k, Len(d[id].steps)) => v = d[id].steps[k].after
  PROVE  Meets(v, r, S, d, o)
  <1>1. ASSUME NEW w \in Writers(r, S, d),
               \A other \in Writers(r, S, d) \ {w} : Precedes(o, other, w)
        PROVE  w = id
    BY <1>1
  <1> QED BY <1>1 DEF Meets

\* What a transaction does where it asks for as much as before concerns nobody.
LEMMA SameElsewhere ==
  ASSUME NEW id, NEW r, NEW d, NEW e, NEW ord, \A x \in Id \ {id} : e[x] = d[x],
         id \in Writers(r, Applied(e), e) <=> id \in Writers(r, Applied(d), d),
         id \in Applied(d) /\ id \in Applied(e) => e[id].steps = d[id].steps
  PROVE  /\ Writers(r, Applied(e), e) = Writers(r, Applied(d), d)
         /\ \A v : Meets(v, r, Applied(e), e, ord) <=> Meets(v, r, Applied(d), d, ord)
         /\ \A o : \A v : Meets(v, r, Earlier(o, e, ord), e, ord)
                           <=> Meets(v, r, Earlier(o, d, ord), d, ord)
         /\ \A o \in Id \ {id} : Fitting(o, r, e, ord) <=> Fitting(o, r, d, ord)
  <1>1. Writers(r, Applied(e), e) = Writers(r, Applied(d), d)
    <2>1. \A x \in Id \ {id} : x \in Writers(r, Applied(e), e) <=> x \in Writers(r, Applied(d), d)
      BY DEF Writers, Applied
    <2>2. Writers(r, Applied(e), e) \subseteq Id /\ Writers(r, Applied(d), d) \subseteq Id
      BY DEF Writers, Applied
    <2> QED BY <2>1, <2>2
  <1>2. \A w \in Writers(r, Applied(d), d) : e[w].steps = d[w].steps
    <2> TAKE w \in Writers(r, Applied(d), d)
    <2>1. w \in Applied(d) /\ w \in Applied(e) /\ w \in Id
      BY <1>1 DEF Writers, Applied
    <2> QED BY <2>1
  <1>3. \A v : Meets(v, r, Applied(e), e, ord) <=> Meets(v, r, Applied(d), d, ord)
    BY <1>1, <1>2, MeetsSame
  <1>4. ASSUME NEW o
        PROVE  \A v : Meets(v, r, Earlier(o, e, ord), e, ord)
                        <=> Meets(v, r, Earlier(o, d, ord), d, ord)
    <2>1. Writers(r, Earlier(o, e, ord), e) = {w \in Writers(r, Applied(e), e) : Precedes(ord, w, o)}
      BY DEF Writers, Earlier
    <2>2. Writers(r, Earlier(o, d, ord), d) = {w \in Writers(r, Applied(d), d) : Precedes(ord, w, o)}
      BY DEF Writers, Earlier
    <2> QED BY <1>1, <1>2, <2>1, <2>2, MeetsSame
  <1> QED BY <1>1, <1>3, <1>4 DEF Fitting

\* Nor does it concern those that were begun before it.
LEMMA EarlierKept ==
  ASSUME NEW id, NEW o, NEW d, NEW e, NEW ord, \A x \in Id \ {id} : e[x] = d[x],
         ~Precedes(ord, id, o)
  PROVE  /\ \A r : \A v : Meets(v, r, Earlier(o, e, ord), e, ord)
                           <=> Meets(v, r, Earlier(o, d, ord), d, ord)
         /\ e[o].steps = d[o].steps => \A r : Fitting(o, r, e, ord) <=> Fitting(o, r, d, ord)
  <1>1. Earlier(o, e, ord) = Earlier(o, d, ord)
    BY DEF Earlier, Applied
  <1>2. \A w \in Earlier(o, d, ord) : e[w] = d[w]
    BY DEF Earlier, Applied
  <1>3. ASSUME NEW r
        PROVE  \A v : Meets(v, r, Earlier(o, e, ord), e, ord)
                       <=> Meets(v, r, Earlier(o, d, ord), d, ord)
    <2>1. Writers(r, Earlier(o, e, ord), e) = Writers(r, Earlier(o, d, ord), d)
      BY <1>1, <1>2 DEF Writers
    <2>2. Writers(r, Earlier(o, d, ord), d) \subseteq Earlier(o, d, ord)
      BY DEF Writers
    <2> QED BY <1>2, <2>1, <2>2, MeetsSame
  <1> QED BY <1>3 DEF Fitting

\* Steps with the same targets and snapshots, or some of them.
Alike(new, old) ==
    \A k \in DOMAIN new : /\ k \in DOMAIN old
                          /\ new[k].target = old[k].target /\ new[k].before = old[k].before

LEMMA FittingKept ==
  ASSUME NEW id, NEW r, NEW d, NEW e, NEW ord, \A x \in Id \ {id} : e[x] = d[x],
         ~Precedes(ord, id, id), Fitting(id, r, d, ord), Alike(e[id].steps, d[id].steps)
  PROVE  Fitting(id, r, e, ord)
  <1>1. \A v : Meets(v, r, Earlier(id, e, ord), e, ord) <=> Meets(v, r, Earlier(id, d, ord), d, ord)
    BY EarlierKept
  <1> QED BY <1>1 DEF Fitting, Alike

\* Transactions that come in change nothing for those that are there.
LEMMA NewcomersAskNothing ==
  ASSUME NEW d, NEW e, NEW ord, NEW u, Applied(e) = Applied(d), Applied(d) \subseteq Range(ord),
         \A w \in Range(ord) : e[w] = d[w],
         \A a, b \in Range(ord) : Precedes(u, a, b) <=> Precedes(ord, a, b)
  PROVE  /\ \A r : Writers(r, Applied(e), e) = Writers(r, Applied(d), d)
         /\ \A r : \A v : Meets(v, r, Applied(e), e, u) <=> Meets(v, r, Applied(d), d, ord)
         /\ \A o \in Range(ord) : \A r :
               /\ \A v : Meets(v, r, Earlier(o, e, u), e, u)
                           <=> Meets(v, r, Earlier(o, d, ord), d, ord)
               /\ Fitting(o, r, e, u) <=> Fitting(o, r, d, ord)
  <1>0. \A r : Writers(r, Applied(e), e) = Writers(r, Applied(d), d)
               /\ Writers(r, Applied(d), d) \subseteq Range(ord)
    BY DEF Writers
  <1>1. \A r : \A v : Meets(v, r, Applied(e), e, u) <=> Meets(v, r, Applied(d), d, ord)
    BY <1>0, MeetsSame
  <1>2. ASSUME NEW o \in Range(ord), NEW r
        PROVE  \A v : Meets(v, r, Earlier(o, e, u), e, u) <=> Meets(v, r, Earlier(o, d, ord), d, ord)
    <2>1. Earlier(o, e, u) = Earlier(o, d, ord) /\ Earlier(o, d, ord) \subseteq Range(ord)
      BY DEF Earlier
    <2>2. /\ Writers(r, Earlier(o, e, u), e) = Writers(r, Earlier(o, d, ord), d)
          /\ Writers(r, Earlier(o, d, ord), d) \subseteq Range(ord)
      BY <2>1 DEF Writers
    <2> QED BY <2>2, MeetsSame
  <1>3. \A o \in Range(ord) : \A r : Fitting(o, r, e, u) <=> Fitting(o, r, d, ord)
    BY <1>2 DEF Fitting
  <1> QED BY <1>0, <1>1, <1>2, <1>3
----------------------------------------------------------------------------
(* The discipline: the invariant. *)

\* The resource is in the state the applied transactions ask for.
Agrees(r) == Meets(world[r], r, Applied(journal), journal, order)

\* No applied transaction with a step on r was begun after id.
NoneLater(id, r, doc, ord) == \A other \in Writers(r, Applied(doc), doc) : ~Precedes(ord, id, other)

\* A resource that nobody has in hand is as the transactions ask.  One that is in
\* hand can be put back where it was when its transaction was proposed.
Held(r) ==
    IF hand[r] = NoId THEN Agrees(r)
    ELSE /\ hand[r] \in Id /\ Closed(hand[r])
         /\ Fitting(hand[r], r, journal, order) /\ NoneLater(hand[r], r, journal, order)
         /\ journal[hand[r]].status \in {"applying", "applied"} =>
               r \in About(journal[hand[r]].steps)

\* One of the steps that p has executed is on r.
Reached(p, r) == \E k \in 1..Undone(p) : todo[p][k].target = r

\* What p has in hand it has brought to the last step executed there, unless one
\* failed, or back to what the earlier transactions ask.
Own(p, r) ==
    /\ hand[r] \in {NoId, txn[p]} /\ (Reached(p, r) => hand[r] = txn[p])
    /\ Fitting(txn[p], r, journal, order) /\ NoneLater(txn[p], r, journal, order)
    /\ cmd[p] = "apply" /\ NoFailure(mem[p]) =>
          \A k \in DOMAIN todo[p] :
              LastOn(todo[p], r, k, Undone(p)) => world[r] = todo[p][k].after
    /\ cmd[p] = "rollback" /\ Reached(p, r) =>
          Meets(world[r], r, Earlier(txn[p], journal, order), journal, order)

Engaged(p) ==
    /\ base[p] = journal[txn[p]]
    /\ pc[p] \in {"loaded", "saving"} => todo[p] = <<>>
    /\ Applying(p) => /\ todo[p] = base[p].steps /\ Alike(mem[p].steps, base[p].steps)
                      /\ NoFailure(mem[p]) => mem[p] = base[p]
    /\ \A r \in About(todo[p]) : Own(p, r)

OrderlyInv ==
    /\ \A p, q \in Proc : p # q => About(todo[p]) \cap About(todo[q]) = {}
    /\ \A p, q \in Proc : p # q /\ pc[p] # "idle" /\ pc[q] # "idle" => txn[p] # txn[q]
    /\ \A p \in Proc : IF pc[p] = "idle" THEN todo[p] = <<>> ELSE Engaged(p)
    /\ \A r \in Mapped : Held(r)
    /\ \A r \in Mapped : \A id \in Applied(journal) : Fitting(id, r, journal, order)

Disciplined == CliInv /\ LogInv /\ Distinct /\ OrderlyInv

\* The transactions that are there are those in the order.
LEMMA Present ==
  ASSUME CliInv, LogInv
  PROVE  /\ Applied(journal) \subseteq Range(order)
         /\ \A id \in Id : Closed(id) => id \in Range(order)
         /\ \A p \in Proc : pc[p] # "idle" => txn[p] \in Range(order) /\ txn[p] \in Id
  <1>1. \A id \in Applied(journal) : id \in Id /\ journal[id] # NoDoc
    BY BareDocs DEF Applied
  <1>2. \A p \in Proc : pc[p] # "idle" => txn[p] \in Id /\ journal[txn[p]] # NoDoc
    BY Busy DEF AtWork
  <1>3. \A id \in Id : Closed(id) => journal[id] # NoDoc
    BY BareDocs DEF Closed
  <1> QED BY <1>1, <1>2, <1>3 DEF LogInv

\* All that is applied and has a step on r, but for the transaction itself, is earlier.
LEMMA AllEarlier ==
  ASSUME Disciplined, NEW id \in Range(order), NEW r, NoneLater(id, r, journal, order)
  PROVE  \A v : Meets(v, r, Earlier(id, journal, order), journal, order)
                <=> Meets(v, r, Applied(journal) \ {id}, journal, order)
  <1>1. ASSUME NEW other \in Writers(r, Applied(journal), journal), other # id
        PROVE  Precedes(order, other, id)
    <2>1. other \in Range(order)
      BY Present DEF Disciplined, Writers
    <2>2. ~Precedes(order, id, other)
      BY DEF NoneLater
    <2>3. Before(other, id) \/ Before(id, other)
      BY <1>1, <2>1, OneBefore DEF Disciplined, LogInv
    <2> QED BY <2>2, <2>3 DEF Before, Precedes
  <1>2. ~Precedes(order, id, id)
    BY NeverBeforeItself DEF Disciplined, LogInv, Before, Precedes
  <1>3. Writers(r, Earlier(id, journal, order), journal) = Writers(r, Applied(journal) \ {id}, journal)
    BY <1>1, <1>2 DEF Writers, Earlier
  <1> QED BY <1>3, MeetsSame

\* A step of p on its transaction id has to see to the resources R it has to do with,
\* to id and to p; the others are not concerned.
LEMMA OwnStep ==
  ASSUME Disciplined, NEW p \in Proc, pc[p] # "idle", NEW id \in Id, id = txn[p],
         NEW R \in SUBSET Mapped, order' = order,
         \A q \in Proc \ {p} : Still(q) /\ About(todo[q]) \cap R = {},
         \A x \in Id \ {id} : journal'[x] = journal[x],
         id \in Applied(journal) /\ id \in Applied(journal') => journal'[id].steps = journal[id].steps,
         \A r \in R : NoneLater(id, r, journal, order) /\ Held(r)',
         \A r \in Mapped \ R :
            /\ world'[r] = world[r] /\ hand'[r] = hand[r]
            /\ id \in Writers(r, Applied(journal'), journal')
                  <=> id \in Writers(r, Applied(journal), journal)
            /\ hand[r] = id => Held(r)',
         id \in Applied(journal') => \A r \in Mapped : Fitting(id, r, journal', order'),
         IF pc'[p] = "idle" THEN todo'[p] = <<>>
         ELSE txn'[p] = id /\ Engaged(p)' /\ About(todo'[p]) \subseteq R
  PROVE  OrderlyInv'
  <1>1. ASSUME NEW r \in Mapped \ R
        PROVE  /\ Writers(r, Applied(journal'), journal') = Writers(r, Applied(journal), journal)
               /\ \A v : Meets(v, r, Applied(journal'), journal', order')
                          <=> Meets(v, r, Applied(journal), journal, order)
               /\ \A o : \A v : Meets(v, r, Earlier(o, journal', order'), journal', order')
                                 <=> Meets(v, r, Earlier(o, journal, order), journal, order)
               /\ \A o \in Id \ {id} :
                     Fitting(o, r, journal', order') <=> Fitting(o, r, journal, order)
    <2>1. id \in Writers(r, Applied(journal'), journal') <=> id \in Writers(r, Applied(journal), journal)
      OBVIOUS
    <2>2. /\ Writers(r, Applied(journal'), journal') = Writers(r, Applied(journal), journal)
          /\ \A v : Meets(v, r, Applied(journal'), journal', order)
                     <=> Meets(v, r, Applied(journal), journal, order)
          /\ \A o : \A v : Meets(v, r, Earlier(o, journal', order), journal', order)
                            <=> Meets(v, r, Earlier(o, journal, order), journal, order)
          /\ \A o \in Id \ {id} : Fitting(o, r, journal', order) <=> Fitting(o, r, journal, order)
      <3>1. \A x \in Id \ {id} : journal'[x] = journal[x]
        OBVIOUS
      <3>2. id \in Applied(journal) /\ id \in Applied(journal') => journal'[id].steps = journal[id].steps
        OBVIOUS
      <3> QED BY ONLY <2>1, <3>1, <3>2, SameElsewhere
    <2> QED BY <2>2
  <1>2. \A r \in Mapped \ R : \A o : NoneLater(o, r, journal', order') <=> NoneLater(o, r, journal, order)
    BY <1>1 DEF NoneLater
  <1>3. ASSUME NEW r \in Mapped PROVE Held(r)'
    <2>1. CASE r \in R
      BY <2>1
    <2>2. CASE r \notin R /\ hand[r] = id
      BY <2>2
    <2>3. CASE r \notin R /\ hand[r] = NoId
      <3>1. Agrees(r)
        BY <2>3 DEF Disciplined, OrderlyInv, Held
      <3>2. Agrees(r)' /\ hand'[r] = NoId
        BY <1>1, <2>3, <3>1 DEF Agrees
      <3> QED BY <3>2 DEF Held
    <2>4. CASE r \notin R /\ hand[r] # NoId /\ hand[r] # id
      <3> DEFINE o == hand[r]
      <3>1. /\ o \in Id \ {id} /\ Closed(o) /\ Fitting(o, r, journal, order) /\ NoneLater(o, r, journal, order)
            /\ journal[o].status \in {"applying", "applied"} => r \in About(journal[o].steps)
        BY <2>4 DEF Disciplined, OrderlyInv, Held
      <3>2. hand'[r] = o /\ journal'[o] = journal[o]
        BY <2>4, <3>1
      <3>3. Fitting(o, r, journal', order') /\ NoneLater(o, r, journal', order')
        BY <1>1, <1>2, <2>4, <3>1
      <3> HIDE DEF o
      <3> QED BY <2>4, <3>1, <3>2, <3>3 DEF Held, Closed, o, About
    <2> QED BY <2>1, <2>2, <2>3, <2>4
  <1>4. ASSUME NEW r \in Mapped, NEW o \in Applied(journal') PROVE Fitting(o, r, journal', order')
    <2>1. CASE o = id
      BY <2>1
    <2>2. CASE o # id
      <3>1. o \in Id \ {id} /\ o \in Applied(journal) /\ journal'[o] = journal[o]
        BY <2>2 DEF Applied
      <3>2. Fitting(o, r, journal, order)
        BY <3>1 DEF Disciplined, OrderlyInv
      <3>3. CASE r \notin R
        BY <1>1, <3>1, <3>2, <3>3
      <3>4. CASE r \in R /\ o \in Writers(r, Applied(journal), journal)
        <4>1. ~Precedes(order, id, o)
          BY <3>4 DEF NoneLater
        <4> QED BY <3>1, <3>2, <4>1, EarlierKept
      <3>5. CASE o \notin Writers(r, Applied(journal), journal)
        <4>1. \A k \in DOMAIN journal'[o].steps : journal'[o].steps[k].target # r
          BY <3>1, <3>5 DEF Writers, Range
        <4> QED BY <4>1 DEF Fitting
      <3> QED BY <3>3, <3>4, <3>5
    <2> QED BY <2>1, <2>2
  <1>5. ASSUME NEW q \in Proc \ {p}, pc'[q] # "idle" PROVE Engaged(q)'
    <2>1. Still(q) /\ pc[q] # "idle" /\ Engaged(q) /\ txn[q] # id /\ txn[q] \in Id
      BY <1>5, Busy DEF Still, Disciplined, OrderlyInv
    <2>2. journal'[txn[q]] = journal[txn[q]]
      BY <2>1
    <2>3. ASSUME NEW r \in About(todo[q]) PROVE Own(q, r)'
      <3>1. r \in Mapped \ R /\ Own(q, r)
        BY <2>1, <2>3 DEF Engaged, About
      <3> DEFINE o == txn[q]
      <3>2. /\ Fitting(o, r, journal, order) /\ NoneLater(o, r, journal, order) /\ o \in Id \ {id}
        BY <2>1, <3>1 DEF Own
      <3> HIDE DEF o
      <3>5. /\ Fitting(o, r, journal', order') /\ NoneLater(o, r, journal', order')
            /\ \A v : Meets(v, r, Earlier(o, journal', order'), journal', order')
                       <=> Meets(v, r, Earlier(o, journal, order), journal, order)
        <4>1. \A v : Meets(v, r, Earlier(o, journal', order'), journal', order')
                       <=> Meets(v, r, Earlier(o, journal, order), journal, order)
          BY <1>1, <3>1
        <4>2. Fitting(o, r, journal', order')
          BY <1>1, <3>1, <3>2
        <4>3. NoneLater(o, r, journal', order')
          BY <1>2, <3>1, <3>2
        <4> QED BY <4>1, <4>2, <4>3
      <3>3. /\ Undone(q)' = Undone(q) /\ todo'[q] = todo[q] /\ txn'[q] = txn[q]
            /\ mem'[q] = mem[q] /\ cmd'[q] = cmd[q] /\ world'[r] = world[r] /\ hand'[r] = hand[r]
        BY <2>1, <3>1 DEF Undone, Still
      <3>4. Reached(q, r)' <=> Reached(q, r)
        BY <3>3 DEF Reached
      <3>6. txn[q] = o /\ txn'[q] = o
        BY <3>3 DEF o
      <3> QED BY <3>1, <3>3, <3>4, <3>5, <3>6 DEF Own
    <2>4. Applying(q)' <=> Applying(q)
      BY <2>1 DEF Still, Applying
    <2> QED BY <2>1, <2>2, <2>3, <2>4 DEF Engaged, Still
  <1>6. ASSUME NEW q \in Proc, pc'[q] # "idle" PROVE Engaged(q)'
    BY <1>5, <1>6
  <1>7. ASSUME NEW q \in Proc, pc'[q] = "idle" PROVE todo'[q] = <<>>
    BY <1>7 DEF Still, Disciplined, OrderlyInv
  <1>8. ASSUME NEW q \in Proc \ {p} PROVE About(todo'[p]) \cap About(todo'[q]) = {}
    <2>1. About(todo'[p]) \subseteq R
      <3>1. About(<<>>) = {}
        BY DEF About, Range
      <3> QED BY <3>1
    <2> QED BY <2>1 DEF Still
  <1>9. ASSUME NEW q \in Proc, NEW s \in Proc, q # s
        PROVE  /\ About(todo'[q]) \cap About(todo'[s]) = {}
               /\ pc'[q] # "idle" /\ pc'[s] # "idle" => txn'[q] # txn'[s]
    <2>1. CASE q = p
      BY <1>8, <1>9, <2>1 DEF Still, Disciplined, OrderlyInv
    <2>2. CASE s = p
      BY <1>8, <1>9, <2>2 DEF Still, Disciplined, OrderlyInv
    <2>3. CASE q # p /\ s # p
      BY <1>9, <2>3 DEF Still, Disciplined, OrderlyInv
    <2> QED BY <2>1, <2>2, <2>3
  <1> QED BY <1>3, <1>4, <1>6, <1>7, <1>9 DEF OrderlyInv

\* What becomes of the history in a step of p on its transaction id.
LEMMA HandStep ==
  ASSUME Disciplined, NEW p \in Proc, NEW id \in Id, \A q \in Proc \ {p} : Still(q),
         \A x \in Id \ {id} : journal'[x] = journal[x],
         hand' = [r \in Mapped |-> Handed(r)], NEW r \in Mapped
  PROVE  hand'[r] = IF Takes(p, r) THEN txn[p]
                    ELSE IF (hand[r] = id /\ Concludes(id)) \/ Restores(p, r) THEN NoId ELSE hand[r]
  <1>1. ASSUME NEW q \in Proc, Takes(q, r) \/ Restores(q, r) PROVE q = p
    BY <1>1 DEF Takes, Restores, RollbackEnds, Still
  <1>2. hand'[r] = Handed(r)
    OBVIOUS
  <1>3. Takes(p, r) => (CHOOSE q \in Proc : Takes(q, r)) = p
    BY <1>1
  <1>4. hand[r] # NoId /\ Concludes(hand[r]) <=> hand[r] = id /\ Concludes(id)
    <2>1. hand[r] # NoId => hand[r] \in Id
      BY DEF Disciplined, OrderlyInv, Held
    <2>2. id # NoId
      BY CliAssumption
    <2> QED BY <2>1, <2>2 DEF Concludes
  <1>5. (\E q \in Proc : Takes(q, r)) <=> Takes(p, r)
    BY <1>1
  <1>6. (\E q \in Proc : Restores(q, r)) <=> Restores(p, r)
    BY <1>1
  <1> QED BY <1>2, <1>3, <1>4, <1>5, <1>6, Zenon DEF Handed

\* Where nothing changes.
LEMMA HeldStays ==
  ASSUME NEW r, order' = order, \A x \in Id : journal'[x] = journal[x],
         world'[r] = world[r], hand'[r] = hand[r]
  PROVE  Held(r)' <=> Held(r)
  <1>1. Applied(journal') = Applied(journal)
    BY DEF Applied
  <1>2. \A w \in Applied(journal) : journal'[w] = journal[w] /\ w \in Id
    BY DEF Applied
  <1>3. Writers(r, Applied(journal'), journal') = Writers(r, Applied(journal), journal)
    BY <1>1, <1>2 DEF Writers
  <1>4. Agrees(r)' <=> Agrees(r)
    <2>1. \A w \in Writers(r, Applied(journal), journal) : journal'[w] = journal[w]
      BY <1>2 DEF Writers
    <2>2. \A v : Meets(v, r, Applied(journal'), journal', order)
                 <=> Meets(v, r, Applied(journal), journal, order)
      BY <1>3, <2>1, MeetsSame
    <2> QED BY <2>2 DEF Agrees
  <1>5. \A o \in Id : Fitting(o, r, journal', order') <=> Fitting(o, r, journal, order)
    <2> TAKE o \in Id
    <2>1. Earlier(o, journal', order) = Earlier(o, journal, order)
          /\ Earlier(o, journal, order) \subseteq Applied(journal)
      BY <1>1 DEF Earlier
    <2>2. Writers(r, Earlier(o, journal', order), journal') = Writers(r, Earlier(o, journal, order), journal)
      BY <1>2, <2>1 DEF Writers
    <2>3. \A w \in Writers(r, Earlier(o, journal, order), journal) : journal'[w] = journal[w]
      BY <1>2, <2>1 DEF Writers
    <2>4. \A v : Meets(v, r, Earlier(o, journal', order), journal', order)
                 <=> Meets(v, r, Earlier(o, journal, order), journal, order)
      BY <2>2, <2>3, MeetsSame
    <2> QED BY <2>4 DEF Fitting
  <1>6. \A o : NoneLater(o, r, journal', order') <=> NoneLater(o, r, journal, order)
    BY <1>3 DEF NoneLater
  <1> QED BY <1>4, <1>5, <1>6 DEF Held, Closed, About

\* A step that leaves the journals alone.
LEMMA QuietStep ==
  ASSUME Disciplined, NEW p \in Proc, pc[p] # "idle", NEW id \in Id, id = txn[p],
         NEW R \in SUBSET Mapped, order' = order, \A x \in Id : journal'[x] = journal[x],
         \A q \in Proc \ {p} : Still(q) /\ About(todo[q]) \cap R = {},
         \A r \in R : NoneLater(id, r, journal, order) /\ Held(r)',
         \A r \in Mapped \ R : world'[r] = world[r] /\ hand'[r] = hand[r],
         IF pc'[p] = "idle" THEN todo'[p] = <<>>
         ELSE txn'[p] = id /\ Engaged(p)' /\ About(todo'[p]) \subseteq R
  PROVE  OrderlyInv'
  <1>1. \A r \in Mapped \ R : Held(r)'
    BY HeldStays DEF Disciplined, OrderlyInv
  <1>2. id \in Applied(journal') <=> id \in Applied(journal)
    BY DEF Applied
  <1>3. \A r : id \in Writers(r, Applied(journal'), journal') <=> id \in Writers(r, Applied(journal), journal)
    BY <1>2 DEF Writers
  <1>4. ASSUME id \in Applied(journal'), NEW r \in Mapped PROVE Fitting(id, r, journal', order')
    <2>1. ~Precedes(order, id, id)
      BY NeverBeforeItself DEF Disciplined, LogInv, Before, Precedes
    <2>2. Fitting(id, r, journal, order)
      BY <1>2, <1>4 DEF Disciplined, OrderlyInv
    <2> QED BY <2>1, <2>2, EarlierKept
  <1> QED BY <1>1, <1>2, <1>3, <1>4, OwnStep

\* What p has to do with, while others work.
LEMMA Mine ==
  ASSUME Disciplined, NEW p \in Proc, pc[p] # "idle"
  PROVE  /\ \A r \in About(todo[p]) : Own(p, r) /\ NoneLater(txn[p], r, journal, order) /\ r \in Mapped
         /\ \A q \in Proc \ {p} : About(todo[q]) \cap About(todo[p]) = {}
         /\ Engaged(p) /\ AtWork(p)
         /\ \A r \in Mapped : Held(r)
  BY Busy DEF Disciplined, OrderlyInv, Engaged, Own, About
----------------------------------------------------------------------------
(* The discipline: the steps of the commands. *)

LEMMA OrderlyBegin ==
  ASSUME Disciplined, NEW p \in Proc, NEW id \in Id, Begin(p, id),
         hand' = [r \in Mapped |-> Handed(r)]
  PROVE  OrderlyInv'
  <1>1. /\ journal[id] = NoDoc /\ journal' = [journal EXCEPT ![id] = NewDoc]
        /\ journal'[id] = NewDoc /\ \A x \in Id \ {id} : journal'[x] = journal[x]
        /\ UNCHANGED <<pc, cmd, txn, mem, base, todo, pos, world>>
        /\ \A q \in Proc : Still(q)
    BY DEF Begin, proc, Disciplined, CliInv, Shape, Still
  <1>2. OrderGrows
    BY BeginOrder DEF Disciplined
  <1>3. id \notin Range(order) /\ Range(order) \subseteq Id
    BY <1>1 DEF Disciplined, LogInv
  <1>4. Applied(journal') = Applied(journal) /\ Applied(journal) \subseteq Range(order)
    <2>1. NewDoc.status # "applied" /\ NoDoc.status # "applied"
      BY BareDocs
    <2>2. \A x \in Id : x \in Applied(journal') <=> x \in Applied(journal)
      BY <1>1, <2>1 DEF Applied
    <2>3. Applied(journal') \subseteq Id /\ Applied(journal) \subseteq Id
      BY DEF Applied
    <2> QED BY <2>2, <2>3, Present DEF Disciplined
  <1>5. /\ \A w \in Range(order) : journal'[w] = journal[w]
        /\ \A a, b \in Range(order) : Precedes(order', a, b) <=> Precedes(order, a, b)
    BY <1>1, <1>2, <1>3 DEF OrderGrows, Before, Precedes
  <1>6. /\ \A r : Writers(r, Applied(journal'), journal') = Writers(r, Applied(journal), journal)
        /\ \A r : \A v : Meets(v, r, Applied(journal'), journal', order')
                          <=> Meets(v, r, Applied(journal), journal, order)
        /\ \A o \in Range(order) : \A r :
              /\ \A v : Meets(v, r, Earlier(o, journal', order'), journal', order')
                          <=> Meets(v, r, Earlier(o, journal, order), journal, order)
              /\ Fitting(o, r, journal', order') <=> Fitting(o, r, journal, order)
    BY ONLY <1>4, <1>5, NewcomersAskNothing
  <1>7. \A o \in Range(order) : \A r :
           NoneLater(o, r, journal', order') <=> NoneLater(o, r, journal, order)
    <2>1. \A r : Writers(r, Applied(journal), journal) \subseteq Range(order)
      BY <1>4 DEF Writers
    <2> QED BY <1>5, <1>6, <2>1 DEF NoneLater
  <1>8. ASSUME NEW r \in Mapped PROVE Held(r)' /\ hand'[r] = hand[r]
    <2>1. Held(r)
      BY DEF Disciplined, OrderlyInv
    <2>2. hand'[r] = hand[r]
      <3>1. ~Takes(p, r) /\ ~Restores(p, r)
        BY <1>1 DEF Takes, Restores, RollbackEnds
      <3>2. ~Concludes(id)
        BY <1>1, BareDocs DEF Concludes
      <3> QED BY <1>1, <3>1, <3>2, HandStep
    <2>3. CASE hand[r] = NoId
      BY <1>1, <1>6, <2>1, <2>2, <2>3 DEF Held, Agrees
    <2>4. CASE hand[r] # NoId
      <3> DEFINE o == hand[r]
      <3>1. /\ o \in Id /\ Closed(o) /\ Fitting(o, r, journal, order)
            /\ NoneLater(o, r, journal, order)
            /\ journal[o].status \in {"applying", "applied"} => r \in About(journal[o].steps)
        BY <2>1, <2>4 DEF Held
      <3>2. hand'[r] = o
        BY <2>2
      <3> HIDE DEF o
      <3>3. o \in Range(order)
        BY <3>1, Present DEF Disciplined
      <3>4. journal'[o] = journal[o]
        BY <1>5, <3>3
      <3> QED BY <1>6, <1>7, <2>4, <3>1, <3>2, <3>3, <3>4 DEF Held, Closed, About, o
    <2> QED BY <2>2, <2>3, <2>4
  <1>9. ASSUME NEW r \in Mapped, NEW o \in Applied(journal') PROVE Fitting(o, r, journal', order')
    <2>1. Fitting(o, r, journal, order) /\ o \in Range(order)
      BY <1>4 DEF Disciplined, OrderlyInv
    <2> QED BY <1>6, <2>1
  <1>10. ASSUME NEW q \in Proc, pc[q] # "idle" PROVE Engaged(q)'
    <2>1. Engaged(q) /\ txn[q] \in Range(order)
      BY <1>10, Present DEF Disciplined, OrderlyInv
    <2>2. PICK o \in Range(order) : o = txn[q]
      BY <2>1
    <2>3. base'[q] = journal'[o]
      BY <1>1, <1>5, <2>1, <2>2 DEF Engaged
    <2>4. ASSUME NEW r \in About(todo[q]) PROVE Own(q, r)'
      <3>1. Own(q, r) /\ r \in Mapped
        BY <2>1, <2>4 DEF Engaged, About
      <3>2. /\ Undone(q)' = Undone(q) /\ todo'[q] = todo[q] /\ txn'[q] = o /\ txn[q] = o
            /\ mem'[q] = mem[q] /\ cmd'[q] = cmd[q] /\ world'[r] = world[r] /\ hand'[r] = hand[r]
        BY <1>1, <1>8, <2>2, <3>1 DEF Undone
      <3>3. Reached(q, r)' <=> Reached(q, r)
        BY <3>2 DEF Reached
      <3> QED BY <1>6, <1>7, <3>1, <3>2, <3>3 DEF Own
    <2>5. (Applying(q)' <=> Applying(q)) /\ txn'[q] = o
      BY <1>1, <2>2 DEF Applying
    <2> QED BY <1>1, <2>1, <2>3, <2>4, <2>5 DEF Engaged
  <1> QED BY <1>1, <1>8, <1>9, <1>10 DEF OrderlyInv, Disciplined

LEMMA OrderlyOpen ==
  ASSUME Disciplined, NEW p \in Proc, NEW id \in Id, NEW c \in Command, Open(p, c, id), OneEach,
         hand' = [r \in Mapped |-> Handed(r)]
  PROVE  OrderlyInv'
  <1>1. /\ pc[p] = "idle" /\ pc'[p] = "loaded" /\ txn'[p] = id /\ base'[p] = journal[id]
        /\ UNCHANGED <<journal, order, world, todo>> /\ \A q \in Proc \ {p} : Still(q)
    BY DEF Open, docs, Disciplined, CliInv, Shape, Still
  <1>2. \A q \in Proc : txn[q] # id
    BY <1>1 DEF OneEach
  <1>3. todo[p] = <<>> /\ About(<<>>) = {}
    BY <1>1 DEF Disciplined, OrderlyInv, About, Range
  <1>4. \A r \in Mapped : hand'[r] = hand[r]
    <2> TAKE r \in Mapped
    <2>1. ~Takes(p, r) /\ ~Restores(p, r) /\ ~Concludes(id)
      BY <1>1 DEF Takes, Restores, RollbackEnds, Concludes
    <2> QED BY <1>1, <2>1, HandStep
  <1>5. \A r \in Mapped : Held(r)'
    BY <1>1, <1>4, HeldStays DEF Disciplined, OrderlyInv
  <1>6. Engaged(p)'
    <2>1. ~Applying(p)'
      BY <1>1 DEF Applying
    <2> QED BY <1>1, <1>3, <2>1 DEF Engaged
  <1>7. ASSUME NEW q \in Proc \ {p}, pc[q] # "idle" PROVE Engaged(q)'
    <2>1. Engaged(q) /\ Still(q)
      BY <1>1, <1>7 DEF Disciplined, OrderlyInv
    <2>2. ASSUME NEW r \in About(todo[q]) PROVE Own(q, r)'
      <3>1. Own(q, r) /\ r \in Mapped
        BY <2>1, <2>2 DEF Engaged, About
      <3>2. /\ Undone(q)' = Undone(q) /\ todo'[q] = todo[q] /\ txn'[q] = txn[q]
            /\ mem'[q] = mem[q] /\ cmd'[q] = cmd[q] /\ world'[r] = world[r] /\ hand'[r] = hand[r]
        BY <1>1, <1>4, <2>1, <3>1 DEF Undone, Still
      <3>3. Reached(q, r)' <=> Reached(q, r)
        BY <3>2 DEF Reached
      <3> QED BY <1>1, <3>1, <3>2, <3>3 DEF Own
    <2>3. Applying(q)' <=> Applying(q)
      BY <2>1 DEF Still, Applying
    <2> QED BY <1>1, <2>1, <2>2, <2>3 DEF Engaged, Still
  <1>8. ASSUME NEW q \in Proc PROVE IF pc'[q] = "idle" THEN todo'[q] = <<>> ELSE Engaged(q)'
    BY <1>1, <1>6, <1>7 DEF Disciplined, OrderlyInv, Still
  <1>9. ASSUME NEW q \in Proc, NEW s \in Proc, q # s, pc'[q] # "idle", pc'[s] # "idle"
        PROVE  txn'[q] # txn'[s]
    BY <1>1, <1>2, <1>9 DEF Disciplined, OrderlyInv, Still
  <1> QED BY <1>1, <1>5, <1>8, <1>9 DEF OrderlyInv, Disciplined

\* In the middle of a command, only a step that is executed changes who has what.
LEMMA HandStays ==
  ASSUME Disciplined, NEW p \in Proc, pc[p] # "step" \/ pc'[p] \notin {"stamp", "idle"},
         \A q \in Proc \ {p} : Still(q), UNCHANGED journal,
         hand' = [r \in Mapped |-> Handed(r)], pc[p] # "idle"
  PROVE  \A r \in Mapped : hand'[r] = hand[r]
  <1> TAKE r \in Mapped
  <1>1. PICK id \in Id : id = txn[p]
    BY Busy DEF Disciplined
  <1>2. ~Takes(p, r) /\ ~Restores(p, r) /\ ~Concludes(id)
    BY DEF Takes, Restores, RollbackEnds, Concludes
  <1> QED BY <1>2, HandStep

\* A proposal and its snapshot.
LEMMA OrderlyPropose ==
  ASSUME Disciplined, NEW p \in Proc, NEW r \in Resource, NEW v \in Value, Propose(p, r, v),
         hand' = [x \in Mapped |-> Handed(x)]
  PROVE  OrderlyInv'
  <1>0. pc[p] = "loaded" /\ pc[p] # "idle"
    BY DEF Propose
  <1>1. PICK id \in Id : id = txn[p]
    BY <1>0, Busy DEF Disciplined
  <1>2. /\ pc'[p] = "saving" /\ txn'[p] = id /\ base'[p] = base[p] /\ cmd'[p] = "propose"
        /\ todo'[p] = todo[p]
        /\ UNCHANGED <<journal, order, world>> /\ \A q \in Proc \ {p} : Still(q)
    BY <1>1 DEF Propose, docs, Disciplined, CliInv, Shape, Still
  <1>3. todo[p] = <<>> /\ base[p] = journal[id] /\ About(<<>>) = {}
    BY <1>0, <1>1, Mine DEF Engaged, About, Range
  <1>4. \A x \in Mapped : hand'[x] = hand[x]
    BY <1>0, <1>2, HandStays
  <1>5. Engaged(p)'
    <2>1. ~Applying(p)'
      BY <1>2 DEF Applying
    <2> QED BY <1>2, <1>3, <2>1 DEF Engaged
  <1> QED BY <1>0, <1>1, <1>2, <1>3, <1>4, <1>5, QuietStep

\* A stamp changes nothing but the position.
LEMMA OrderlyStamp ==
  ASSUME Disciplined, NEW p \in Proc, StampStep(p), hand' = [r \in Mapped |-> Handed(r)]
  PROVE  OrderlyInv'
  <1>0. pc[p] = "stamp" /\ pc[p] # "idle"
    BY DEF StampStep
  <1>1. PICK id \in Id : id = txn[p]
    BY <1>0, Busy DEF Disciplined
  <1>2. /\ pc'[p] \in {"step", "end"} /\ cmd'[p] = cmd[p] /\ txn'[p] = id /\ pos'[p] = pos[p] + 1
        /\ base'[p] = base[p] /\ mem'[p] = mem[p] /\ todo'[p] = todo[p]
        /\ UNCHANGED <<journal, order, world>> /\ \A q \in Proc \ {p} : Still(q)
    BY <1>1 DEF StampStep, docs, Disciplined, CliInv, Shape, Still
  <1>3. \A r \in Mapped : hand'[r] = hand[r]
    BY <1>0, <1>2, HandStays
  <1>4. Engaged(p) /\ pos[p] \in Nat
    BY <1>0, Busy, Mine DEF Disciplined
  <1>5. Undone(p)' = Undone(p)
    BY <1>0, <1>2, <1>4 DEF Undone
  <1>6. ASSUME NEW r \in About(todo[p]) PROVE Own(p, r)'
    <2>1. Own(p, r) /\ r \in Mapped
      BY <1>4, <1>6 DEF Engaged, About
    <2>2. Reached(p, r)' <=> Reached(p, r)
      BY <1>2, <1>5 DEF Reached
    <2> QED BY <1>1, <1>2, <1>3, <1>5, <2>1, <2>2 DEF Own
  <1>7. Applying(p)' <=> Applying(p)
    BY <1>0, <1>2 DEF Applying
  <1>8. Engaged(p)'
    BY <1>1, <1>2, <1>4, <1>6, <1>7 DEF Engaged
  <1> DEFINE R == About(todo[p])
  <1>9. \A r \in R : NoneLater(id, r, journal, order) /\ r \in Mapped
    BY <1>0, <1>1, Mine
  <1>10. \A r \in R : Held(r)'
    BY <1>0, <1>2, <1>3, <1>9, HeldStays, Mine
  <1>11. \A q \in Proc \ {p} : Still(q) /\ About(todo[q]) \cap R = {}
    BY <1>0, <1>2, Mine
  <1>12. txn'[p] = id /\ About(todo'[p]) \subseteq R /\ pc'[p] # "idle"
    BY <1>2
  <1>13. R \in SUBSET Mapped
    BY <1>9
  <1> HIDE DEF R
  <1> QED BY <1>0, <1>1, <1>2, <1>3, <1>8, <1>9, <1>10, <1>11, <1>12, <1>13, QuietStep

\* What is not applied, and does not become it, asks nothing.
LEMMA NotAsking ==
  ASSUME NEW id \in Id, \A x \in Id \ {id} : journal'[x] = journal[x],
         id \notin Applied(journal), id \notin Applied(journal'), NEW r
  PROVE  /\ Writers(r, Applied(journal'), journal') = Writers(r, Applied(journal), journal)
         /\ \A v : Meets(v, r, Applied(journal'), journal', order)
                    <=> Meets(v, r, Applied(journal), journal, order)
  <1>1. id \in Writers(r, Applied(journal'), journal') <=> id \in Writers(r, Applied(journal), journal)
    BY DEF Writers
  <1>2. id \in Applied(journal) /\ id \in Applied(journal') => journal'[id].steps = journal[id].steps
    OBVIOUS
  <1> QED BY <1>1, <1>2, SameElsewhere

\* The status a process saves.
LEMMA IntentStatus ==
  ASSUME CliInv, NEW p \in Proc, AtSave(p)
  PROVE  /\ ApplyStarts(p) => Intent(p).status = "applying" /\ base[p].status = "proposed"
         /\ ApplyEnds(p) => Intent(p).status = Verdict(p)
         /\ RollbackEnds(p) => Intent(p).status = "rolled_back"
         /\ Resolves(p) => Intent(p).status = "failed" /\ base[p].status = "applying"
  <1>1. pc[p] # "idle" /\ AtWork(p) /\ DocOK(mem[p]) /\ mem[p].status \in Status
    BY AtSaveFacts, DocType DEF AtWork
  <1>2. \A to \in Status : Marked(mem[p], to).status = to
    BY <1>1, MarkedFields
  <1>3. CASE ApplyStarts(p)
    <2>1. Intent(p) = Marked(mem[p], "applying") /\ mem[p] = base[p] /\ mem[p].status = "proposed"
          /\ ~ApplyEnds(p) /\ ~RollbackEnds(p) /\ ~Resolves(p)
      BY <1>1, <1>3 DEF Intent, ApplyStarts, ApplyEnds, RollbackEnds, Resolves, AtWork, CanMark,
                        LegalTransitions, Status
    <2> QED BY <1>2, <2>1 DEF Status
  <1>4. CASE ApplyEnds(p)
    <2>1. Intent(p) = Marked(mem[p], Verdict(p))
          /\ ~ApplyStarts(p) /\ ~RollbackEnds(p) /\ ~Resolves(p)
      BY <1>4 DEF Intent, ApplyStarts, ApplyEnds, RollbackEnds, Resolves
    <2> QED BY <1>2, <2>1 DEF Status, Verdict
  <1>5. CASE RollbackEnds(p)
    <2>1. Intent(p) = Marked(mem[p], "rolled_back")
          /\ ~ApplyStarts(p) /\ ~ApplyEnds(p) /\ ~Resolves(p)
      BY <1>5 DEF Intent, ApplyStarts, ApplyEnds, RollbackEnds, Resolves
    <2> QED BY <1>2, <2>1 DEF Status
  <1>6. CASE Resolves(p)
    <2>1. Intent(p) = Marked(mem[p], "failed") /\ mem[p] = base[p]
          /\ ~ApplyStarts(p) /\ ~ApplyEnds(p) /\ ~RollbackEnds(p)
      BY <1>1, <1>6 DEF Intent, ApplyStarts, ApplyEnds, RollbackEnds, Resolves, AtWork
    <2> QED BY <1>2, <1>6, <2>1 DEF Status, Resolves
  <1> QED BY <1>3, <1>4, <1>5, <1>6

\* A transaction begins on what was proposed against the present state.
LEMMA OrderlyStartApply ==
  ASSUME Disciplined, NEW p \in Proc, StartApply(p), Separate(p), OnTop(p), Timely(p),
         hand' = [r \in Mapped |-> Handed(r)]
  PROVE  OrderlyInv'
  <1>0. ApplyStarts(p) /\ AtSave(p) /\ pc[p] = "loaded" /\ pc[p] # "idle" /\ cmd[p] = "apply"
    BY DEF StartApply, ApplyStarts, AtSave
  <1>1. PICK id \in Id : id = txn[p]
    BY <1>0, Busy DEF Disciplined
  <1>2. /\ pc'[p] = "step" /\ cmd'[p] = "apply" /\ txn'[p] = id /\ pos'[p] = pos[p]
        /\ mem'[p] = Intent(p) /\ base'[p] = Intent(p) /\ todo'[p] = mem[p].steps
        /\ journal'[id] = Intent(p) /\ \A x \in Id \ {id} : journal'[x] = journal[x]
        /\ UNCHANGED <<order, world>> /\ \A q \in Proc \ {p} : Still(q)
    BY <1>0, <1>1 DEF StartApply, Started, Save, Disciplined, CliInv, Shape, Still
  <1>3. /\ base[p] = journal[id] /\ mem[p] = base[p] /\ pos[p] = 1
        /\ base[p].status = "proposed" /\ Intent(p).status = "applying"
        /\ Intent(p).steps = mem[p].steps /\ mem[p].steps \in Seq(Step)
    BY <1>0, <1>1, Busy, IntentStatus, IntentSteps, Mine DEF AtWork, Disciplined, Engaged
  <1>4. /\ ~Closed(id) /\ id \in Range(order) /\ id \notin Applied(journal)
        /\ id \notin Applied(journal') /\ ~Precedes(order, id, id)
    BY <1>0, <1>1, <1>2, <1>3, Present, NeverBeforeItself
       DEF Closed, Applied, Disciplined, LogInv, Before, Precedes
  <1>5. \A r \in Mapped : hand'[r] = hand[r] /\ hand[r] # id
    <2> TAKE r \in Mapped
    <2>1. ~Takes(p, r) /\ ~Restores(p, r) /\ ~Concludes(id)
      BY <1>0, <1>2, <1>3 DEF Takes, Restores, RollbackEnds, Concludes
    <2>2. hand'[r] = hand[r]
      BY <1>2, <2>1, HandStep
    <2>3. hand[r] # id
      BY <1>4, CliAssumption DEF Disciplined, OrderlyInv, Held
    <2> QED BY <2>2, <2>3
  <1> DEFINE R == About(todo'[p])
  <1>6. ASSUME NEW r \in R
        PROVE  r \in Mapped /\ hand[r] = NoId /\ Agrees(r) /\ NoneLater(id, r, journal, order)
    <2>1. r \in Mapped
      BY DEF About
    <2>2. hand[r] = NoId /\ NoneLater(id, r, journal, order)
      BY <1>1, <1>5, <2>1 DEF OnTop, NoneLater, Before, Precedes
    <2> QED BY <2>1, <2>2 DEF Disciplined, OrderlyInv, Held
  <1>7. \A q \in Proc \ {p} : Still(q) /\ About(todo[q]) \cap R = {}
    BY <1>2 DEF Separate
  <1>8. R \in SUBSET Mapped
    BY DEF About
  <1>9. ASSUME NEW r
        PROVE  /\ Writers(r, Applied(journal'), journal') = Writers(r, Applied(journal), journal)
               /\ \A v : Meets(v, r, Applied(journal'), journal', order)
                          <=> Meets(v, r, Applied(journal), journal, order)
    BY <1>2, <1>4, NotAsking
  <1>10. ASSUME NEW r \in Mapped, hand[r] = NoId PROVE Held(r)'
    <2>1. Agrees(r)
      BY <1>10 DEF Disciplined, OrderlyInv, Held
    <2>2. Agrees(r)' /\ hand'[r] = NoId
      BY <1>2, <1>5, <1>9, <1>10, <2>1 DEF Agrees
    <2> QED BY <2>2 DEF Held
  <1>11. ASSUME NEW r \in R PROVE Own(p, r)'
    <2>1. Fitting(id, r, journal', order)
      <3> SUFFICES ASSUME NEW k \in DOMAIN journal'[id].steps, journal'[id].steps[k].target = r
                   PROVE  /\ journal'[id].steps[k].before \in Value
                          /\ Meets(journal'[id].steps[k].before, r, Earlier(id, journal', order),
                                   journal', order)
        BY DEF Fitting
      <3>1. journal'[id].steps = todo'[p] /\ r \in Mapped /\ r \in Resource
        BY <1>2, <1>3, <1>6, MappedAssumption
      <3>2. journal'[id].steps[k] \in Range(todo'[p])
        BY <3>1 DEF Range
      <3>3. journal'[id].steps[k].before = world[r]
        BY <1>0, <3>1, <3>2 DEF Timely
      <3>4. world[r] \in Value
        BY <3>1 DEF Disciplined, CliInv, Shape
      <3>5. Meets(world[r], r, Applied(journal), journal, order)
        BY <1>6 DEF Agrees
      <3>6. Applied(journal) \ {id} = Applied(journal)
        BY <1>4
      <3>7. Meets(world[r], r, Earlier(id, journal, order), journal, order)
        BY <1>4, <1>6, <3>5, <3>6, AllEarlier
      <3>8. Meets(world[r], r, Earlier(id, journal', order), journal', order)
        BY <1>2, <1>4, <3>7, EarlierKept
      <3> QED BY <3>3, <3>4, <3>8
    <2>2. NoneLater(id, r, journal', order)
      BY <1>6, <1>9 DEF NoneLater
    <2>3. Undone(p)' = 0 /\ 1..0 = {}
      BY <1>2, <1>3 DEF Undone
    <2>4. ~Reached(p, r)' /\ \A k : ~LastOn(todo'[p], r, k, Undone(p)')
      BY <2>3 DEF Reached, LastOn
    <2>5. hand'[r] = NoId /\ txn'[p] = id /\ order' = order /\ cmd'[p] # "rollback"
      BY <1>2, <1>5, <1>6
    <2> QED BY <2>1, <2>2, <2>4, <2>5 DEF Own
  <1>12. Engaged(p)'
    <2>1. Alike(mem'[p].steps, base'[p].steps)
      BY <1>2 DEF Alike
    <2> QED BY <1>2, <1>3, <1>11, <2>1 DEF Engaged
  <1>13. \A r \in R : NoneLater(id, r, journal, order) /\ Held(r)'
    BY <1>6, <1>10
  <1>14. \A r \in Mapped \ R :
            /\ world'[r] = world[r] /\ hand'[r] = hand[r] /\ hand[r] # id
            /\ id \in Writers(r, Applied(journal'), journal')
                  <=> id \in Writers(r, Applied(journal), journal)
    BY <1>2, <1>5, <1>9
  <1>15. txn'[p] = id /\ About(todo'[p]) \subseteq R /\ pc'[p] # "idle"
    BY <1>2
  <1> HIDE DEF R
  <1> QED BY <1>0, <1>1, <1>2, <1>4, <1>7, <1>8, <1>12, <1>13, <1>14, <1>15, OwnStep

\* A rollback begins on what can be put back.
LEMMA OrderlyStartRollback ==
  ASSUME Disciplined, NEW p \in Proc, StartRollback(p), Separate(p), OnTop(p), Timely(p),
         hand' = [r \in Mapped |-> Handed(r)]
  PROVE  OrderlyInv'
  <1>0. pc[p] = "loaded" /\ pc[p] # "idle" /\ cmd[p] = "rollback"
        /\ mem[p].status \in {"applied", "failed"}
    BY DEF StartRollback
  <1>1. PICK id \in Id : id = txn[p]
    BY <1>0, Busy DEF Disciplined
  <1>2. /\ pc'[p] = "step" /\ cmd'[p] = "rollback" /\ txn'[p] = id /\ pos'[p] = pos[p]
        /\ base'[p] = base[p] /\ mem'[p] = mem[p] /\ UNCHANGED <<journal, order, world>>
        /\ \A q \in Proc \ {p} : Still(q)
    BY <1>0, <1>1 DEF StartRollback, docs, Disciplined, CliInv, Shape, Still
  <1>3. pos[p] = 1 /\ base[p] = journal[id] /\ mem[p] = base[p]
    BY <1>0, <1>1, Busy, Mine DEF AtWork, Disciplined, Engaged
  <1>4. \A r \in Mapped : hand'[r] = hand[r]
    BY <1>0, <1>2, HandStays
  <1> DEFINE R == About(todo'[p])
  <1>5. \A r \in Mapped : Held(r) /\ Held(r)'
    BY <1>2, <1>4, HeldStays DEF Disciplined, OrderlyInv
  <1>6. ASSUME NEW r \in R
        PROVE  /\ r \in Mapped /\ hand[r] \in {NoId, id} /\ NoneLater(id, r, journal, order)
               /\ Fitting(id, r, journal, order)
    <2>1. r \in Mapped
      BY DEF About
    <2>2. hand[r] \in {NoId, id} /\ NoneLater(id, r, journal, order)
      BY <1>1, <1>2 DEF OnTop, NoneLater, Before, Precedes
    <2>3. CASE mem[p].status = "applied"
      <3>1. id \in Applied(journal)
        BY <1>3, <2>3 DEF Applied
      <3> QED BY <2>1, <2>2, <3>1 DEF Disciplined, OrderlyInv
    <2>4. CASE mem[p].status = "failed"
      <3>1. hand[r] = id
        BY <1>0, <1>1, <2>4 DEF Timely
      <3>2. id # NoId
        BY CliAssumption
      <3> QED BY <1>5, <2>1, <2>2, <3>1, <3>2 DEF Held
    <2> QED BY <1>0, <2>3, <2>4
  <1>7. \A q \in Proc \ {p} : Still(q) /\ About(todo[q]) \cap R = {}
    BY <1>2 DEF Separate
  <1>8. R \in SUBSET Mapped
    BY DEF About
  <1>9. ASSUME NEW r \in R PROVE Own(p, r)'
    <2>1. Undone(p)' = 0 /\ 1..0 = {}
      BY <1>2, <1>3 DEF Undone
    <2>2. ~Reached(p, r)'
      BY <2>1 DEF Reached
    <2>3. hand'[r] \in {NoId, id} /\ txn'[p] = id /\ cmd'[p] # "apply"
      BY <1>2, <1>4, <1>6
    <2> QED BY <1>2, <1>6, <2>2, <2>3 DEF Own
  <1>10. Engaged(p)'
    <2>1. ~Applying(p)'
      BY <1>2 DEF Applying
    <2> QED BY <1>2, <1>3, <1>9, <2>1 DEF Engaged
  <1>11. \A r \in R : NoneLater(id, r, journal, order) /\ Held(r)'
    BY <1>5, <1>6
  <1>12. txn'[p] = id /\ About(todo'[p]) \subseteq R /\ pc'[p] # "idle"
    BY <1>2
  <1> HIDE DEF R
  <1> QED BY <1>0, <1>1, <1>2, <1>4, <1>7, <1>8, <1>10, <1>11, <1>12, QuietStep

\* A forward step takes its resource in hand and brings it to what it asks.
LEMMA OrderlyApplyStep ==
  ASSUME Disciplined, NEW p \in Proc, ApplyStep(p), hand' = [r \in Mapped |-> Handed(r)]
  PROVE  OrderlyInv'
  <1>0. pc[p] = "step" /\ cmd[p] = "apply" /\ pos[p] <= Len(todo[p]) /\ pc[p] # "idle" /\ Applying(p)
    BY DEF ApplyStep, Applying
  <1>1. PICK id \in Id : id = txn[p]
    BY <1>0, Busy DEF Disciplined
  <1>2. /\ pc'[p] = "stamp" /\ cmd'[p] = "apply" /\ txn'[p] = id /\ pos'[p] = pos[p]
        /\ base'[p] = base[p] /\ todo'[p] = todo[p]
        /\ UNCHANGED <<journal, order>> /\ \A q \in Proc \ {p} : Still(q)
    BY <1>0, <1>1 DEF ApplyStep, docs, Disciplined, CliInv, Shape, Still
  <1>3. /\ Engaged(p) /\ AtWork(p) /\ Progress(p) /\ pos[p] \in Nat \ {0} /\ DocOK(mem[p])
        /\ mem[p].steps \in Seq(Step) /\ base[p] = journal[id]
        /\ journal[id].status = "applying"
    BY <1>0, <1>1, Busy, Mine DEF AtWork, Disciplined, Engaged, Progress
  <1>4. /\ pos[p] \in DOMAIN todo[p] /\ pos[p] \in DOMAIN mem[p].steps
        /\ todo[p] \in Seq(Step) /\ todo[p] = base[p].steps /\ Alike(mem[p].steps, base[p].steps)
        /\ NoFailure(mem[p]) => mem[p] = base[p]
    BY <1>0, <1>3 DEF Progress, Engaged
  <1> DEFINE s == todo[p][pos[p]]
             R == About(todo[p])
  <1>5. s \in Step /\ s.target \in Resource /\ s \in Range(todo[p])
    <2>1. s \in Step
      BY <1>4
    <2> QED BY <1>4, <2>1 DEF Step, Range
  <1>6. PICK ok \in BOOLEAN, touched \in BOOLEAN :
           /\ ok => touched
           /\ world' = IF touched THEN [world EXCEPT ![s.target] = s.after] ELSE world
           /\ mem' = IF ok THEN mem ELSE [mem EXCEPT ![p] = WithFailure(mem[p], pos[p])]
    BY DEF ApplyStep
  <1>7. /\ Alike(mem'[p].steps, base'[p].steps)
        /\ NoFailure(mem'[p]) => ok /\ mem'[p] = mem[p]
    <2>1. CASE ok
      BY <1>2, <1>4, <1>6, <2>1
    <2>2. CASE ~ok
      <3>1. mem'[p] = WithFailure(mem[p], pos[p])
        BY <1>6, <2>2 DEF Disciplined, CliInv, Shape
      <3>2. pos[p] \in DOMAIN mem'[p].steps /\ mem'[p].steps[pos[p]].failed
        BY <1>3, <1>4, <3>1, FailedStepOf
      <3>3. OnlyFails(mem'[p], mem[p])
        BY <1>3, <1>4, <3>1, WithFailureKeeps DEF Progress
      <3>4. \A k \in DOMAIN mem[p].steps : mem[p].steps[k] \in Step
        BY <1>3
      <3>5. Alike(mem'[p].steps, mem[p].steps)
        BY <3>3, <3>4 DEF OnlyFails, Alike, Step
      <3>6. Alike(mem'[p].steps, base[p].steps)
        BY <1>4, <3>5 DEF Alike
      <3> QED BY <1>2, <3>2, <3>6 DEF NoFailure
    <2> QED BY <2>1, <2>2
  <1>8. ASSUME NEW r \in Mapped
        PROVE  /\ hand'[r] = IF r = s.target THEN id ELSE hand[r]
               /\ r # s.target => world'[r] = world[r]
               /\ ok /\ r = s.target => world'[r] = s.after
    <2>1. Takes(p, r) <=> r = s.target
      BY <1>0, <1>2 DEF Takes
    <2>2. ~Restores(p, r) /\ ~Concludes(id)
      BY <1>2 DEF Restores, Concludes
    <2>3. hand'[r] = IF r = s.target THEN id ELSE hand[r]
      BY <1>1, <1>2, <2>1, <2>2, HandStep
    <2> HIDE DEF s
    <2>4. r \in Resource /\ world \in [Resource -> Value]
      BY MappedAssumption DEF Disciplined, CliInv, Shape
    <2> QED BY <1>5, <1>6, <2>3, <2>4
  <1>9. Undone(p) = pos[p] - 1 /\ Undone(p)' = pos[p]
    BY <1>0, <1>2 DEF Undone
  <1>10. ASSUME NEW r \in R PROVE r \in Mapped /\ Own(p, r) /\ NoneLater(id, r, journal, order)
    BY <1>0, <1>1, Mine
  <1>11. ASSUME NEW r \in R PROVE Held(r)'
    <2>1. CASE r # s.target
      BY <1>2, <1>8, <1>10, <2>1, HeldStays DEF Disciplined, OrderlyInv
    <2>2. CASE r = s.target
      <3>1. hand'[r] = id /\ id # NoId
        BY <1>8, <1>10, <2>2, CliAssumption
      <3>2. Fitting(id, r, journal, order) /\ NoneLater(id, r, journal, order)
        BY <1>1, <1>10 DEF Own
      <3>3. r \in About(journal[id].steps)
        BY <1>3, <1>4
      <3>4. Closed(id)'
        BY <1>2, <1>3 DEF Closed
      <3> QED BY <1>2, <3>1, <3>2, <3>3, <3>4 DEF Held
    <2> QED BY <2>1, <2>2
  <1>12. ASSUME NEW r \in R PROVE Own(p, r)'
    <2>1. Reached(p, r)' <=> Reached(p, r) \/ r = s.target
      <3>1. \A k \in 1..pos[p] : k = pos[p] \/ k \in 1..(pos[p] - 1)
        BY <1>3
      <3>2. pos[p] \in 1..pos[p] /\ \A k \in 1..(pos[p] - 1) : k \in 1..pos[p]
        BY <1>3
      <3> QED BY <1>2, <1>9, <3>1, <3>2 DEF Reached
    <2>2. hand'[r] \in {NoId, id} /\ (Reached(p, r)' => hand'[r] = id)
      BY <1>1, <1>8, <1>10, <2>1 DEF Own
    <2>3. ASSUME NoFailure(mem'[p]), NEW k \in DOMAIN todo[p], LastOn(todo[p], r, k, pos[p])
          PROVE  world'[r] = todo[p][k].after
      <3>1. CASE k = pos[p]
        <4>1. r = s.target
          BY <2>3, <3>1 DEF LastOn
        <4> QED BY <1>7, <1>8, <1>10, <2>3, <3>1, <4>1
      <3>2. CASE k # pos[p]
        <4>1. k \in 1..(pos[p] - 1) /\ pos[p] \in (k + 1)..pos[p]
          BY <1>3, <2>3, <3>2 DEF LastOn
        <4>2. r # s.target
          BY <2>3, <4>1 DEF LastOn
        <4>3. \A j \in (k + 1)..(pos[p] - 1) : j \in (k + 1)..pos[p]
          BY <1>3
        <4>4. LastOn(todo[p], r, k, Undone(p))
          BY <1>9, <2>3, <4>1, <4>3 DEF LastOn
        <4>5. world[r] = todo[p][k].after
          BY <1>0, <1>7, <1>10, <2>3, <4>4 DEF Own
        <4> QED BY <1>8, <1>10, <4>2, <4>5
      <3> QED BY <3>1, <3>2
    <2>4. Fitting(id, r, journal, order) /\ NoneLater(id, r, journal, order)
      BY <1>1, <1>10 DEF Own
    <2> HIDE DEF s
    <2> QED BY <1>2, <1>9, <2>2, <2>3, <2>4 DEF Own
  <1>13. Engaged(p)'
    BY <1>2, <1>3, <1>4, <1>7, <1>12 DEF Engaged
  <1>14. \A q \in Proc \ {p} : Still(q) /\ About(todo[q]) \cap R = {}
    BY <1>0, <1>2, Mine
  <1>15. ASSUME NEW r \in Mapped \ R PROVE world'[r] = world[r] /\ hand'[r] = hand[r]
    <2>1. r # s.target
      BY <1>5, <1>15 DEF About
    <2> QED BY <1>8, <1>15, <2>1
  <1>16. txn'[p] = id /\ About(todo'[p]) \subseteq R /\ pc'[p] # "idle"
    BY <1>2
  <1>17. R \in SUBSET Mapped
    BY <1>10
  <1> HIDE DEF R
  <1> QED BY <1>0, <1>1, <1>2, <1>10, <1>11, <1>13, <1>14, <1>15, <1>16, <1>17, QuietStep

\* An undo that does not fail brings its resource to what the earlier transactions ask.
LEMMA OrderlyUndo ==
  ASSUME Disciplined, "undo" \notin Faults, NEW p \in Proc, UndoStep(p),
         hand' = [r \in Mapped |-> Handed(r)]
  PROVE  OrderlyInv'
  <1>0. pc[p] = "step" /\ cmd[p] = "rollback" /\ pos[p] <= Len(todo[p]) /\ pc[p] # "idle"
    BY DEF UndoStep
  <1>1. PICK id \in Id : id = txn[p]
    BY <1>0, Busy DEF Disciplined
  <1> DEFINE s == todo[p][pos[p]]
             R == About(todo[p])
  <1>2. /\ pc'[p] = "stamp" /\ cmd'[p] = "rollback" /\ txn'[p] = id /\ pos'[p] = pos[p]
        /\ base'[p] = base[p] /\ todo'[p] = todo[p] /\ mem'[p] = mem[p]
        /\ UNCHANGED <<journal, order>> /\ \A q \in Proc \ {p} : Still(q)
        /\ world' = [world EXCEPT ![s.target] = s.before]
    BY <1>0, <1>1 DEF UndoStep, docs, proc, Disciplined, CliInv, Shape, Still
  <1>3. /\ Engaged(p) /\ AtWork(p) /\ pos[p] \in Nat \ {0} /\ DocOK(base[p])
        /\ base[p] = journal[id] /\ todo[p] = RollbackSteps(base[p])
        /\ journal[id].status \in {"applied", "failed"}
    BY <1>0, <1>1, Busy, Mine DEF AtWork, Disciplined, Engaged
  <1>4. Undoes(todo[p], base[p].steps) /\ todo[p] \in Seq(Step)
    BY <1>3, RollbackUndoes DEF Undoes
  <1>5. pos[p] \in DOMAIN todo[p] /\ s \in Range(todo[p])
    BY <1>0, <1>3, <1>4 DEF Range
  <1>6. s.target \in Resource /\ \E k \in DOMAIN base[p].steps : s = base[p].steps[k]
    BY <1>4, <1>5, UndoneSteps
  <1>7. ASSUME NEW r \in Mapped
        PROVE  /\ hand'[r] = IF r = s.target THEN id ELSE hand[r]
               /\ world'[r] = IF r = s.target THEN s.before ELSE world[r]
    <2>1. Takes(p, r) <=> r = s.target
      BY <1>0, <1>2 DEF Takes
    <2>2. ~Restores(p, r) /\ ~Concludes(id)
      BY <1>2 DEF Restores, Concludes
    <2>3. hand'[r] = IF r = s.target THEN id ELSE hand[r]
      BY <1>1, <1>2, <2>1, <2>2, HandStep
    <2> HIDE DEF s
    <2>4. r \in Resource /\ world \in [Resource -> Value]
      BY MappedAssumption DEF Disciplined, CliInv, Shape
    <2> QED BY <1>2, <1>6, <2>3, <2>4
  <1>8. Undone(p) = pos[p] - 1 /\ Undone(p)' = pos[p]
    BY <1>0, <1>2 DEF Undone
  <1>9. ASSUME NEW r \in R
        PROVE  /\ r \in Mapped /\ Own(p, r) /\ NoneLater(id, r, journal, order)
               /\ Fitting(id, r, journal, order)
    BY <1>0, <1>1, Mine DEF Own
  <1>10. ASSUME NEW r \in R PROVE Held(r)'
    <2>1. CASE r # s.target
      <3> HIDE DEF s
      <3>1. Held(r) /\ world'[r] = world[r] /\ hand'[r] = hand[r]
        BY <1>0, <1>7, <1>9, <2>1, Mine
      <3> QED BY <1>2, <3>1, HeldStays
    <2>2. CASE r = s.target
      <3>1. hand'[r] = id /\ id # NoId
        BY <1>7, <1>9, <2>2, CliAssumption
      <3>2. r \in About(journal[id].steps)
        BY <1>3, <1>6, <1>9, <2>2 DEF About, Range
      <3>3. Closed(id)'
        BY <1>2, <1>3 DEF Closed
      <3> QED BY <1>2, <1>9, <3>1, <3>2, <3>3 DEF Held
    <2> QED BY <2>1, <2>2
  <1>11. ASSUME NEW r \in R PROVE Own(p, r)'
    <2>1. Reached(p, r)' <=> Reached(p, r) \/ r = s.target
      <3>1. \A k \in 1..pos[p] : k = pos[p] \/ k \in 1..(pos[p] - 1)
        BY <1>3
      <3>2. pos[p] \in 1..pos[p] /\ \A k \in 1..(pos[p] - 1) : k \in 1..pos[p]
        BY <1>3
      <3> QED BY <1>2, <1>8, <3>1, <3>2 DEF Reached
    <2>2. hand'[r] \in {NoId, id} /\ (Reached(p, r)' => hand'[r] = id)
      BY <1>1, <1>7, <1>9, <2>1 DEF Own
    <2>3. ASSUME Reached(p, r)' PROVE Meets(world'[r], r, Earlier(id, journal, order), journal, order)
      <3>1. CASE r = s.target
        <4>1. PICK k \in DOMAIN base[p].steps : s = base[p].steps[k]
          BY <1>6
        <4>2. Meets(s.before, r, Earlier(id, journal, order), journal, order)
          BY <1>3, <1>9, <3>1, <4>1 DEF Fitting
        <4> QED BY <1>7, <1>9, <3>1, <4>2
      <3>2. CASE r # s.target
        BY <1>0, <1>1, <1>7, <1>9, <2>1, <2>3, <3>2 DEF Own
      <3> QED BY <3>1, <3>2
    <2> HIDE DEF s
    <2> QED BY <1>2, <1>9, <2>2, <2>3 DEF Own
  <1>12. Engaged(p)'
    <2>1. ~Applying(p)'
      BY <1>2 DEF Applying
    <2> QED BY <1>2, <1>3, <1>11, <2>1 DEF Engaged
  <1>13. \A q \in Proc \ {p} : Still(q) /\ About(todo[q]) \cap R = {}
    BY <1>0, <1>2, Mine
  <1>14. ASSUME NEW r \in Mapped \ R PROVE world'[r] = world[r] /\ hand'[r] = hand[r]
    <2>1. r # s.target
      BY <1>5, <1>14 DEF About
    <2> QED BY <1>7, <1>14, <2>1
  <1>15. txn'[p] = id /\ About(todo'[p]) \subseteq R /\ pc'[p] # "idle"
    BY <1>2
  <1>16. R \in SUBSET Mapped
    BY <1>9
  <1> HIDE DEF R
  <1> QED BY <1>0, <1>1, <1>2, <1>9, <1>10, <1>12, <1>13, <1>14, <1>15, <1>16, QuietStep
----------------------------------------------------------------------------
(* The discipline: how commands end. *)

\* What becomes of the history when p ends.
LEMMA EndHand ==
  ASSUME Disciplined, NEW p \in Proc, Gone(p), NEW id \in Id,
         \A x \in Id \ {id} : journal'[x] = journal[x],
         hand' = [r \in Mapped |-> Handed(r)], NEW r \in Mapped
  PROVE  hand'[r] = IF (hand[r] = id /\ Concludes(id)) \/ Restores(p, r) THEN NoId ELSE hand[r]
  <1>1. ~Takes(p, r)
    BY GoneFacts DEF Takes, Disciplined
  <1> QED BY <1>1, GoneFacts, HandStep DEF Disciplined

\* What there is to see to when p ends: the resources it had to do with and its
\* transaction.
LEMMA EndStep ==
  ASSUME Disciplined, NEW p \in Proc, pc[p] # "idle", Gone(p), UNCHANGED <<order, world>>,
         NEW id \in Id, id = txn[p], \A x \in Id \ {id} : journal'[x] = journal[x],
         id \in Applied(journal) /\ id \in Applied(journal') => journal'[id].steps = journal[id].steps,
         \A r \in About(todo[p]) : Held(r)',
         \A r \in Mapped \ About(todo[p]) :
            /\ hand'[r] = hand[r]
            /\ id \in Writers(r, Applied(journal'), journal')
                  <=> id \in Writers(r, Applied(journal), journal)
            /\ hand[r] = id => Held(r)',
         id \in Applied(journal') => \A r \in Mapped : Fitting(id, r, journal', order')
  PROVE  OrderlyInv'
  <1> DEFINE R == About(todo[p])
  <1>1. /\ \A r \in R : NoneLater(id, r, journal, order) /\ r \in Mapped
        /\ \A q \in Proc \ {p} : About(todo[q]) \cap R = {}
    BY Mine
  <1>2. /\ \A q \in Proc \ {p} : Still(q)
        /\ pc'[p] = "idle" /\ todo'[p] = <<>>
    BY GoneFacts DEF Gone, Disciplined, CliInv, Shape
  <1>3. R \in SUBSET Mapped
    BY <1>1
  <1>4. /\ \A r \in R : Held(r)'
        /\ \A r \in Mapped \ R :
              /\ world'[r] = world[r] /\ hand'[r] = hand[r]
              /\ id \in Writers(r, Applied(journal'), journal')
                    <=> id \in Writers(r, Applied(journal), journal)
              /\ hand[r] = id => Held(r)'
    OBVIOUS
  <1> HIDE DEF R
  <1> QED BY <1>1, <1>2, <1>3, <1>4, OwnStep

\* What a rollback that has come to its end has reached.
LEMMA AllReached ==
  ASSUME Disciplined, NEW p \in Proc, pc[p] = "step", pos[p] > Len(todo[p]), todo[p] \in Seq(Step),
         NEW r \in About(todo[p])
  PROVE  Reached(p, r) /\ r \in Mapped
  <1>1. PICK k \in DOMAIN todo[p] : todo[p][k].target = r
    BY DEF About, Range
  <1>2. pos[p] \in Nat
    BY Busy DEF Disciplined
  <1>3. k \in 1..Undone(p)
    BY <1>1, <1>2 DEF Undone
  <1> QED BY <1>1, <1>3 DEF Reached, About

\* The end of a command that leaves the journals alone.
LEMMA OrderlyUnsaved ==
  ASSUME Disciplined, NEW p \in Proc, pc[p] # "idle", Gone(p), UNCHANGED <<order, world>>,
         \A x \in Id : journal'[x] = journal[x], hand' = [r \in Mapped |-> Handed(r)]
  PROVE  OrderlyInv'
  <1>1. PICK id \in Id : id = txn[p]
    BY Busy DEF Disciplined
  <1>2. ASSUME NEW r \in Mapped
        PROVE  hand'[r] = IF Restores(p, r) THEN NoId ELSE hand[r]
    <2>1. ~Concludes(id)
      BY DEF Concludes
    <2> QED BY <2>1, EndHand
  <1>3. ASSUME NEW r \in Mapped PROVE Held(r)'
    <2>1. CASE ~Restores(p, r)
      BY <1>2, <2>1, HeldStays DEF Disciplined, OrderlyInv
    <2>2. CASE Restores(p, r)
      <3>1. /\ pc[p] = "step" /\ cmd[p] = "rollback" /\ pos[p] > Len(todo[p])
            /\ mem[p].status = "failed" /\ r \in About(todo[p])
        BY <2>2 DEF Restores, RollbackEnds
      <3>2. AtWork(p) /\ Engaged(p) /\ DocOK(base[p])
        BY Mine DEF AtWork
      <3>3. /\ todo[p] = RollbackSteps(base[p]) /\ journal[id].status = "failed"
        BY <1>1, <3>1, <3>2 DEF AtWork, Engaged
      <3>4. todo[p] \in Seq(Step)
        BY <3>2, <3>3, RollbackUndoes DEF Undoes
      <3>5. Reached(p, r)
        BY <3>1, <3>4, AllReached
      <3>6. /\ Meets(world[r], r, Earlier(id, journal, order), journal, order)
            /\ NoneLater(id, r, journal, order)
        BY <1>1, <3>1, <3>5, Mine DEF Own
      <3>7. id \notin Applied(journal) /\ id \notin Applied(journal') /\ id \in Range(order)
        BY <1>1, <3>3, Present DEF Applied, Disciplined
      <3>8. Applied(journal) \ {id} = Applied(journal)
        BY <3>7
      <3>9. Meets(world[r], r, Applied(journal), journal, order)
        BY <3>6, <3>7, <3>8, AllEarlier
      <3>10. Meets(world[r], r, Applied(journal'), journal', order)
        BY <3>7, <3>9, NotAsking
      <3>11. Agrees(r)' /\ hand'[r] = NoId
        BY <1>2, <2>2, <3>10 DEF Agrees
      <3> QED BY <3>11 DEF Held
    <2> QED BY <2>1, <2>2
  <1>4. \A r \in Mapped \ About(todo[p]) : hand'[r] = hand[r]
    BY <1>2 DEF Restores
  <1>5. id \in Applied(journal') <=> id \in Applied(journal)
    BY DEF Applied
  <1>6. \A r : id \in Writers(r, Applied(journal'), journal') <=> id \in Writers(r, Applied(journal), journal)
    BY <1>5 DEF Writers
  <1>7. ASSUME id \in Applied(journal'), NEW r \in Mapped PROVE Fitting(id, r, journal', order')
    <2>1. ~Precedes(order, id, id)
      BY NeverBeforeItself DEF Disciplined, LogInv, Before, Precedes
    <2>2. Fitting(id, r, journal, order)
      BY <1>5, <1>7 DEF Disciplined, OrderlyInv
    <2> QED BY <2>1, <2>2, EarlierKept
  <1>8. \A r \in About(todo[p]) : r \in Mapped
    BY DEF About
  <1> QED BY <1>1, <1>3, <1>4, <1>6, <1>7, <1>8, EndStep

\* The end of a command on a transaction that is not applied, nor by this end.
LEMMA OrderlyNotApplied ==
  ASSUME Disciplined, NEW p \in Proc, pc[p] # "idle", Gone(p), UNCHANGED <<order, world>>,
         NEW id \in Id, id = txn[p], \A x \in Id \ {id} : journal'[x] = journal[x],
         journal[id].status # "applied", journal'[id].status \notin {"applied", "rolled_back"},
         Closed(id) => /\ Closed(id)' /\ journal'[id].status # "applying"
                       /\ Alike(journal'[id].steps, journal[id].steps),
         \A r : ~Restores(p, r), hand' = [r \in Mapped |-> Handed(r)]
  PROVE  OrderlyInv'
  <1>1. \A r \in Mapped : hand'[r] = hand[r]
    <2>1. ~Concludes(id)
      BY DEF Concludes
    <2> QED BY <2>1, EndHand
  <1>2. id \notin Applied(journal) /\ id \notin Applied(journal') /\ ~Precedes(order, id, id)
    BY NeverBeforeItself DEF Applied, Disciplined, LogInv, Before, Precedes
  <1>3. ASSUME NEW r
        PROVE  /\ Writers(r, Applied(journal'), journal') = Writers(r, Applied(journal), journal)
               /\ \A v : Meets(v, r, Applied(journal'), journal', order)
                          <=> Meets(v, r, Applied(journal), journal, order)
    BY <1>2, NotAsking
  <1>4. ASSUME NEW r \in Mapped, hand[r] \in {NoId, id} PROVE Held(r)'
    <2>1. Held(r)
      BY DEF Disciplined, OrderlyInv
    <2>2. CASE hand[r] = NoId
      <3>1. Agrees(r)' /\ hand'[r] = NoId
        BY <1>1, <1>3, <2>1, <2>2 DEF Held, Agrees
      <3> QED BY <3>1 DEF Held
    <2>3. CASE hand[r] # NoId
      <3>1. Closed(id) /\ Fitting(id, r, journal, order) /\ NoneLater(id, r, journal, order)
        BY <1>4, <2>1, <2>3 DEF Held
      <3>2. Fitting(id, r, journal', order)
        BY <1>2, <3>1, FittingKept
      <3>3. NoneLater(id, r, journal', order)
        BY <1>3, <3>1 DEF NoneLater
      <3>4. hand'[r] = id
        BY <1>1, <1>4, <2>3
      <3>5. id # NoId /\ Closed(id)' /\ journal'[id].status \notin {"applying", "applied"}
        BY <3>1, CliAssumption
      <3> QED BY <3>2, <3>3, <3>4, <3>5 DEF Held
    <2> QED BY <2>2, <2>3
  <1>5. \A r \in About(todo[p]) : r \in Mapped /\ hand[r] \in {NoId, id}
    BY Mine DEF Own
  <1>6. \A r : id \in Writers(r, Applied(journal'), journal') <=> id \in Writers(r, Applied(journal), journal)
    BY <1>3
  <1> QED BY <1>1, <1>2, <1>4, <1>5, <1>6, EndStep

\* A rollback of an applied transaction that got through: the system is as the
\* transactions ask that stay applied; or the journal is lost with the save.
LEMMA OrderlyWithdrawn ==
  ASSUME Disciplined, NEW p \in Proc, RollbackEnds(p), mem[p].status = "applied", Gone(p),
         UNCHANGED <<order, world>>, NEW id \in Id, id = txn[p],
         \A x \in Id \ {id} : journal'[x] = journal[x],
         journal'[id].status \in {"rolled_back", "garbled"},
         Alike(journal'[id].steps, journal[id].steps), hand' = [r \in Mapped |-> Handed(r)]
  PROVE  OrderlyInv'
  <1>0. pc[p] = "step" /\ cmd[p] = "rollback" /\ pc[p] # "idle" /\ pos[p] > Len(todo[p])
    BY DEF RollbackEnds
  <1>1. /\ AtWork(p) /\ Engaged(p) /\ mem[p] = base[p] /\ base[p] = journal[id]
        /\ DocOK(base[p]) /\ base[p].steps \in Seq(Step)
    BY <1>0, Mine, Busy DEF AtWork, Engaged, Disciplined
  <1>2. todo[p] = BuildRollbackPlan(base[p].steps) /\ todo[p] \in Seq(Step)
    BY <1>0, <1>1, DocType, PlanUndoes DEF AtWork, RollbackSteps, Undoes
  <1>3. /\ id \in Applied(journal) /\ id \notin Applied(journal') /\ id \in Range(order)
        /\ Applied(journal') = Applied(journal) \ {id} /\ id # NoId
        /\ ~Precedes(order, id, id)
    <2>1. id \in Applied(journal) /\ id \notin Applied(journal')
      BY <1>1 DEF Applied
    <2>2. Applied(journal') = Applied(journal) \ {id}
      BY <2>1 DEF Applied
    <2>3. id \in Range(order) /\ id # NoId
      BY <2>1, Present, CliAssumption DEF Disciplined
    <2>4. ~Precedes(order, id, id)
      BY NeverBeforeItself DEF Disciplined, LogInv, Before, Precedes
    <2> QED BY <2>1, <2>2, <2>3, <2>4
  <1>4. Concludes(id) <=> journal'[id].status = "rolled_back"
    BY <1>1 DEF Concludes
  <1>5. \A r : ~Restores(p, r)
    BY DEF Restores
  <1>6. ASSUME NEW r
        PROVE  /\ Writers(r, Applied(journal'), journal') = Writers(r, Applied(journal) \ {id}, journal)
               /\ \A v : Meets(v, r, Applied(journal'), journal', order)
                          <=> Meets(v, r, Applied(journal) \ {id}, journal, order)
    <2>1. \A w \in Applied(journal') : w \in Id \ {id} /\ journal'[w] = journal[w]
      BY <1>3 DEF Applied
    <2>2. Writers(r, Applied(journal'), journal') = Writers(r, Applied(journal) \ {id}, journal)
      BY <1>3, <2>1 DEF Writers
    <2>3. \A w \in Writers(r, Applied(journal) \ {id}, journal) : journal'[w].steps = journal[w].steps
      BY <1>3, <2>1 DEF Writers
    <2> QED BY <2>2, <2>3, MeetsSame
  <1>7. ASSUME NEW r \in About(todo[p]) PROVE Held(r)'
    <2>1. /\ hand[r] = id /\ NoneLater(id, r, journal, order) /\ Fitting(id, r, journal, order)
          /\ Meets(world[r], r, Earlier(id, journal, order), journal, order) /\ r \in Mapped
      BY <1>0, <1>2, <1>7, AllReached, Mine DEF Own
    <2>2. hand'[r] = IF Concludes(id) THEN NoId ELSE id
      BY <1>5, <2>1, EndHand
    <2>3. CASE journal'[id].status = "rolled_back"
      <3>1. Meets(world[r], r, Applied(journal) \ {id}, journal, order)
        BY <1>3, <2>1, AllEarlier
      <3>2. Agrees(r)' /\ hand'[r] = NoId
        BY <1>4, <1>6, <2>2, <2>3, <3>1 DEF Agrees
      <3> QED BY <3>2 DEF Held
    <2>4. CASE journal'[id].status = "garbled"
      <3>1. Fitting(id, r, journal', order)
        BY <1>3, <2>1, FittingKept
      <3>2. NoneLater(id, r, journal', order)
        BY <1>6, <2>1 DEF NoneLater, Writers
      <3>3. hand'[r] = id /\ Closed(id)'
        BY <1>4, <2>2, <2>4 DEF Closed
      <3> QED BY <1>3, <2>4, <3>1, <3>2, <3>3 DEF Held
    <2> QED BY <2>3, <2>4
  <1>8. ASSUME NEW r \in Mapped \ About(todo[p])
        PROVE  id \notin Writers(r, Applied(journal), journal)
    <2> SUFFICES ASSUME NEW s \in Range(journal[id].steps), s.target = r PROVE FALSE
      BY DEF Writers
    <2>1. PICK k \in DOMAIN base[p].steps : base[p].steps[k] = s
      BY <1>1 DEF Range
    <2>2. Fitting(id, r, journal, order)
      BY <1>3 DEF Disciplined, OrderlyInv
    <2>3. base[p].steps[k].before \in Value
      BY <1>1, <2>1, <2>2 DEF Fitting
    <2>4. PICK i \in DOMAIN todo[p] : todo[p][i] = s
      BY <1>1, <1>2, <2>1, <2>3, PlanCovers, SnapshotAssumption
    <2> QED BY <1>2, <2>4 DEF About, Range
  <1>9. ASSUME NEW r \in Mapped \ About(todo[p])
        PROVE  /\ hand'[r] = hand[r] /\ hand[r] # id
               /\ id \in Writers(r, Applied(journal'), journal')
                     <=> id \in Writers(r, Applied(journal), journal)
    <2>1. hand[r] # id
      <3> SUFFICES ASSUME hand[r] = id PROVE FALSE
        OBVIOUS
      <3>1. r \in About(journal[id].steps)
        BY <1>3 DEF Disciplined, OrderlyInv, Held, Applied
      <3> QED BY <1>3, <1>8, <3>1 DEF About, Writers
    <2>2. hand'[r] = hand[r]
      BY <1>5, <2>1, EndHand
    <2> QED BY <1>3, <1>8, <2>1, <2>2 DEF Writers
  <1> QED BY <1>0, <1>3, <1>7, <1>9, EndStep

\* An apply that got through: its resources are as it asks.
LEMMA OrderlyApplied ==
  ASSUME Disciplined, NEW p \in Proc, pc[p] = "step", cmd[p] = "apply", pos[p] > Len(todo[p]),
         Gone(p), UNCHANGED <<order, world>>, NEW id \in Id, id = txn[p],
         \A x \in Id \ {id} : journal'[x] = journal[x],
         journal'[id].status = "applied", journal'[id].steps = mem[p].steps,
         hand' = [r \in Mapped |-> Handed(r)]
  PROVE  OrderlyInv'
  <1>1. /\ pc[p] # "idle" /\ Applying(p) /\ AtWork(p) /\ Engaged(p) /\ Progress(p)
        /\ mem[p].steps \in Seq(Step) /\ pos[p] \in Nat \ {0}
        /\ done[txn[p]] \in Seq([step : Nat, ok : BOOLEAN])
    BY Busy, Mine DEF Applying, AtWork, Disciplined
  <1>2. Undone(p) = Len(mem[p].steps) /\ Len(todo[p]) = Len(mem[p].steps)
    BY <1>1 DEF Undone, Progress
  <1>3. NoFailure(mem[p])
    <2>1. ASSUME NEW k \in DOMAIN mem[p].steps PROVE ~mem[p].steps[k].failed
      <3>1. k \in DOMAIN done[txn[p]] => k \in 1..Len(done[txn[p]])
        BY <1>1
      <3>2. k \in DOMAIN done[txn[p]] => done[txn[p]][k].ok
        BY <1>1, <3>1 DEF Progress, AllOk
      <3> QED BY <1>1, <3>2 DEF Progress
    <2> QED BY <2>1 DEF NoFailure
  <1>4. /\ mem[p] = base[p] /\ base[p] = journal[id] /\ todo[p] = mem[p].steps
        /\ todo[p] \in Seq(Step) /\ journal[id].status = "applying"
        /\ journal'[id].steps = journal[id].steps
    BY <1>1, <1>3 DEF Engaged, Progress
  <1>5. /\ id \notin Applied(journal) /\ id \in Applied(journal') /\ id # NoId
        /\ Applied(journal') = Applied(journal) \cup {id} /\ ~Precedes(order, id, id)
    <2>1. id \notin Applied(journal) /\ id \in Applied(journal') /\ id # NoId
      BY <1>4, CliAssumption DEF Applied
    <2>2. Applied(journal') = Applied(journal) \cup {id}
      BY <2>1 DEF Applied
    <2>3. ~Precedes(order, id, id)
      BY NeverBeforeItself DEF Disciplined, LogInv, Before, Precedes
    <2> QED BY <2>1, <2>2, <2>3
  <1>6. Concludes(id) /\ \A r : ~Restores(p, r)
    BY <1>4 DEF Concludes, Restores, RollbackEnds
  <1>7. \A r : Writers(r, Applied(journal'), journal') \subseteq Writers(r, Applied(journal), journal) \cup {id}
    BY <1>5 DEF Writers, Applied
  <1>8. \A r \in Mapped : r \in About(todo[p]) <=> id \in Writers(r, Applied(journal'), journal')
    BY <1>4, <1>5 DEF About, Writers
  <1>9. ASSUME NEW r \in About(todo[p]) PROVE Held(r)' /\ Fitting(id, r, journal', order)
    <2>1. Reached(p, r) /\ r \in Mapped
      BY <1>4, <1>9, AllReached
    <2>2. /\ hand[r] = id /\ NoneLater(id, r, journal, order) /\ Fitting(id, r, journal, order)
          /\ \A k \in DOMAIN todo[p] : LastOn(todo[p], r, k, Undone(p)) => world[r] = todo[p][k].after
      BY <1>1, <1>3, <1>9, <2>1, Mine DEF Own
    <2>3. hand'[r] = NoId
      BY <1>6, <2>1, <2>2, EndHand
    <2>4. \A other \in Writers(r, Applied(journal'), journal') : ~Precedes(order, id, other)
      BY <1>5, <1>7, <2>2 DEF NoneLater
    <2>5. \A k \in DOMAIN journal'[id].steps :
             LastOn(journal'[id].steps, r, k, Len(journal'[id].steps)) =>
                world[r] = journal'[id].steps[k].after
      BY <1>2, <1>4, <2>2
    <2>6. id \in Writers(r, Applied(journal'), journal')
      BY <1>8, <1>9, <2>1
    <2>7. Meets(world[r], r, Applied(journal'), journal', order)
      BY <2>4, <2>5, <2>6, MeetsLast
    <2>8. Agrees(r)'
      BY <2>7 DEF Agrees
    <2>9. Alike(journal'[id].steps, journal[id].steps)
      BY <1>4 DEF Alike
    <2>10. Fitting(id, r, journal', order)
      BY <1>5, <2>2, <2>9, FittingKept
    <2> QED BY <2>3, <2>8, <2>10 DEF Held
  <1>10. ASSUME NEW r \in Mapped \ About(todo[p])
         PROVE  /\ hand'[r] = hand[r] /\ hand[r] # id
                /\ id \in Writers(r, Applied(journal'), journal')
                      <=> id \in Writers(r, Applied(journal), journal)
    <2>1. hand[r] # id
      <3> SUFFICES ASSUME hand[r] = id PROVE FALSE
        OBVIOUS
      <3>1. r \in About(journal[id].steps)
        BY <1>4, <1>5 DEF Disciplined, OrderlyInv, Held
      <3> QED BY <1>4, <1>10, <3>1
    <2>2. hand'[r] = hand[r]
      BY <1>6, <2>1, EndHand
    <2> QED BY <1>5, <1>8, <2>1, <2>2 DEF Writers
  <1>11. ASSUME NEW r \in Mapped PROVE Fitting(id, r, journal', order)
    <2>1. CASE r \notin About(todo[p])
      <3>1. \A k \in DOMAIN journal'[id].steps : journal'[id].steps[k].target # r
        BY <1>4, <2>1 DEF About, Range
      <3> QED BY <3>1 DEF Fitting
    <2> QED BY <1>9, <2>1
  <1> QED BY <1>1, <1>5, <1>9, <1>10, <1>11, EndStep

\* What a process saves at its end keeps the order, whatever becomes of the save.
LEMMA OrderlySaved ==
  ASSUME Disciplined, NEW p \in Proc, AtSave(p), Gone(p), hand' = [r \in Mapped |-> Handed(r)],
         NEW doc \in {base[p], Intent(p), Garbled}, Save(p, doc), UNCHANGED <<order, world>>
  PROVE  OrderlyInv'
  <1>1. PICK id \in Id : id = txn[p]
    BY AtSaveFacts DEF Disciplined
  <1>2. /\ pc[p] # "idle" /\ AtWork(p) /\ Engaged(p) /\ base[p] = journal[id] /\ DocOK(base[p])
        /\ journal'[id] = doc /\ \A x \in Id \ {id} : journal'[x] = journal[x]
    BY <1>1, AtSaveFacts, Mine DEF Save, Unchanged, Disciplined, CliInv, Shape, AtWork
  <1>3. Garbled.status = "garbled" /\ Alike(Garbled.steps, base[p].steps)
    BY BareDocs DEF Alike
  <1>4. CASE doc = base[p]
    <2>1. \A x \in Id : journal'[x] = journal[x]
      BY <1>2, <1>4
    <2> QED BY <1>2, <2>1, OrderlyUnsaved
  <1>5. CASE RollbackEnds(p) /\ doc # base[p]
    <2>1. mem[p].status = "applied" /\ mem[p] = base[p]
      BY <1>2, <1>5 DEF AtSave, RollbackEnds, ApplyStarts, ApplyEnds, Resolves, AtWork
    <2>2. Intent(p).status = "rolled_back" /\ Intent(p).steps = base[p].steps
      BY <1>5, <2>1, IntentStatus, IntentSteps DEF Disciplined
    <2>3. Alike(doc.steps, base[p].steps) /\ doc.status \in {"rolled_back", "garbled"}
      BY <1>3, <1>5, <2>2 DEF Alike
    <2> QED BY <1>1, <1>2, <1>5, <2>1, <2>3, OrderlyWithdrawn
  <1>6. CASE ApplyEnds(p) /\ Verdict(p) = "applied" /\ doc = Intent(p)
    <2>1. pc[p] = "step" /\ cmd[p] = "apply" /\ pos[p] > Len(todo[p])
      BY <1>6 DEF ApplyEnds, Verdict
    <2>2. Intent(p).status = "applied" /\ Intent(p).steps = mem[p].steps
      BY <1>6, IntentStatus, IntentSteps DEF Disciplined
    <2> QED BY <1>1, <1>2, <1>6, <2>1, <2>2, OrderlyApplied
  <1>7. ASSUME ~RollbackEnds(p), doc # base[p],
               ~(ApplyEnds(p) /\ Verdict(p) = "applied" /\ doc = Intent(p))
        PROVE  OrderlyInv'
    <2>1. Intent(p).steps = mem[p].steps
      BY IntentSteps DEF Disciplined
    <2>2. \A r : ~Restores(p, r)
      BY <1>7 DEF Restores
    <2>3. CASE pc[p] = "saving" \/ ApplyStarts(p)
      <3>1. base[p].status = "proposed" /\ Intent(p).status \in {"proposed", "applying"}
        BY <1>2, <2>3, IntentSteps, IntentStatus DEF AtWork, Disciplined
      <3>2. ~Closed(id) /\ journal[id].status # "applied"
            /\ journal'[id].status \notin {"applied", "rolled_back"}
        BY <1>2, <1>3, <1>7, <3>1 DEF Closed
      <3> QED BY <1>1, <1>2, <2>2, <3>2, OrderlyNotApplied
    <2>4. CASE ApplyEnds(p) \/ Resolves(p)
      <3>1. base[p].status = "applying" /\ Alike(mem[p].steps, base[p].steps)
        <4>1. CASE ApplyEnds(p)
          <5>1. Applying(p)
            BY <4>1 DEF ApplyEnds, Applying
          <5> QED BY <1>2, <5>1 DEF AtWork, Progress, Engaged
        <4>2. CASE Resolves(p)
          BY <1>2, <4>2 DEF Resolves, AtWork, Alike
        <4> QED BY <2>4, <4>1, <4>2
      <3>2. doc = Intent(p) => Intent(p).status = "failed"
        BY <1>7, <2>4, IntentStatus DEF Disciplined, Verdict
      <3>3. /\ journal'[id].status \in {"failed", "garbled"} /\ journal[id].status = "applying"
            /\ Alike(journal'[id].steps, journal[id].steps)
        BY <1>2, <1>3, <1>7, <2>1, <3>1, <3>2
      <3> QED BY <1>1, <1>2, <2>2, <3>3, OrderlyNotApplied DEF Closed
    <2> QED BY <1>7, <2>3, <2>4 DEF AtSave
  <1> QED BY <1>4, <1>5, <1>6, <1>7

LEMMA OrderlyEnds ==
  ASSUME Disciplined, hand' = [r \in Mapped |-> Handed(r)], NEW p \in Proc,
         \/ SaveProposal(p) \/ FinishApply(p) \/ FinishRollback(p) \/ Resolve(p)
         \/ Fail(p) \/ SaveFails(p) \/ Reject(p) \/ Crash(p)
  PROVE  OrderlyInv'
  <1>1. Gone(p) /\ UNCHANGED <<order, world>>
    BY DEF SaveProposal, FinishApply, FinishRollback, Resolve, Fail, SaveFails, Reject, Crash, docs
  <1>2. pc[p] # "idle"
    BY DEF SaveProposal, FinishApply, FinishRollback, Resolve, Fail, SaveFails, Reject, Crash,
           ApplyEnds, RollbackEnds, Resolves, OutOfPlace, AtSave, ApplyStarts
  <1>3. CASE UNCHANGED journal
    BY <1>1, <1>2, <1>3, OrderlyUnsaved
  <1>4. CASE AtSave(p) /\ \E doc \in {base[p], Intent(p), Garbled} : Save(p, doc)
    BY <1>1, <1>4, OrderlySaved
  <1> QED BY <1>3, <1>4
          DEF SaveProposal, FinishApply, FinishRollback, Resolve, Fail, SaveFails, Reject,
              Crash, AtSave, docs
----------------------------------------------------------------------------
(* The discipline: what follows from it. *)

LEMMA OrderlyInit == DInit => OrderlyInv
  <1> SUFFICES ASSUME DInit PROVE OrderlyInv
    OBVIOUS
  <1>1. \A p \in Proc : pc[p] = "idle" /\ todo[p] = <<>>
    BY DEF DInit, Init
  <1>2. Applied(journal) = {}
    <2>1. \A id \in Id : journal[id].status = "none"
      BY BareDocs DEF DInit, Init
    <2> QED BY <2>1 DEF Applied
  <1>3. ASSUME NEW r \in Mapped PROVE Held(r)
    <2>1. hand[r] = NoId
      BY DEF DInit
    <2>2. Writers(r, Applied(journal), journal) = {}
      BY <1>2 DEF Writers
    <2>3. Agrees(r)
      BY <2>2 DEF Agrees, Meets
    <2> QED BY <2>1, <2>3 DEF Held
  <1>4. About(<<>>) = {}
    BY DEF About, Range
  <1> QED BY <1>1, <1>2, <1>3, <1>4 DEF OrderlyInv

LEMMA OrderlyNext ==
  ASSUME Disciplined, "undo" \notin Faults, Next, Discipline, hand' = [r \in Mapped |-> Handed(r)]
  PROVE  OrderlyInv'
  <1>1. ASSUME NEW p \in Proc, NEW id \in Id, Begin(p, id) PROVE OrderlyInv'
    BY <1>1, OrderlyBegin
  <1>2. ASSUME NEW p \in Proc, NEW id \in Id, NEW c \in Command, Open(p, c, id)
        PROVE  OrderlyInv'
    BY <1>2, OrderlyOpen DEF Discipline
  <1>3. ASSUME NEW p \in Proc, StartApply(p) \/ StartRollback(p) PROVE OrderlyInv'
    <2>1. pc[p] = "loaded" /\ pc'[p] = "step"
      BY <1>3 DEF StartApply, ApplyStarts, Started, StartRollback, Disciplined, CliInv, Shape
    <2>2. Separate(p) /\ OnTop(p) /\ Timely(p)
      BY <2>1 DEF Discipline
    <2> QED BY <1>3, <2>2, OrderlyStartApply, OrderlyStartRollback
  <1>4. ASSUME NEW p \in Proc, Run(p) PROVE OrderlyInv'
    BY <1>3, <1>4, OrderlyPropose, OrderlyApplyStep, OrderlyStamp, OrderlyUndo, OrderlyEnds
       DEF Run, Work
  <1>5. ASSUME NEW p \in Proc, Crash(p) PROVE OrderlyInv'
    BY <1>5, OrderlyEnds
  <1> QED BY <1>1, <1>2, <1>4, <1>5 DEF Next

LEMMA OrderlyStutters ==
  ASSUME OrderlyInv, UNCHANGED vars, UNCHANGED hand
  PROVE  OrderlyInv'
  <1>1. UNCHANGED <<journal, order, world, pc, cmd, txn, mem, base, todo, pos>>
    BY DEF vars, docs, proc
  <1>2. \A r : Held(r)' <=> Held(r)
    BY <1>1 DEF Held, Agrees, Closed
  <1>3. \A p \in Proc : Undone(p)' = Undone(p) /\ (Applying(p)' <=> Applying(p))
    BY <1>1 DEF Undone, Applying
  <1>4. ASSUME NEW p \in Proc PROVE Engaged(p)' <=> Engaged(p)
    <2>1. \A r : Reached(p, r)' <=> Reached(p, r)
      BY <1>1, <1>3 DEF Reached
    <2>2. \A r : Own(p, r)' <=> Own(p, r)
      BY <1>1, <1>3, <2>1 DEF Own
    <2> QED BY <1>1, <1>3, <2>2 DEF Engaged
  <1> QED BY <1>1, <1>2, <1>4 DEF OrderlyInv

\* The invariant of the discipline, with that of the commands.
LEMMA OrderlyInvariance ==
  ASSUME "undo" \notin Faults
  PROVE  DSpec => [](CliInv /\ LogInv /\ CutInv /\ (orderly => OrderlyInv))
  <1>1. DInit => (orderly => OrderlyInv)
    BY OrderlyInit
  <1>2. CliInv /\ LogInv /\ CutInv /\ (orderly => OrderlyInv) /\ (DNext \/ UNCHANGED dvars)
        => (orderly => OrderlyInv)'
    <2> SUFFICES ASSUME CliInv, LogInv, CutInv, orderly => OrderlyInv, DNext \/ UNCHANGED dvars,
                        orderly'
                 PROVE  OrderlyInv'
      OBVIOUS
    <2>1. orderly
      BY DEF DNext, Commands, dvars
    <2>2. Disciplined
      BY <2>1 DEF Disciplined, CutInv
    <2>3. CASE Commands
      <3>1. /\ Next /\ Discipline
            /\ hand' = [r \in Mapped |-> Handed(r)]
        BY <2>1, <2>3 DEF Commands
      <3> QED BY <2>2, <3>1, OrderlyNext
    <2>4. CASE UNCHANGED dvars
      BY <2>1, <2>4, OrderlyStutters DEF dvars
    <2> QED BY <2>1, <2>3, <2>4 DEF DNext
  <1> QED BY <1>1, <1>2, CutInvariance, PTL DEF DSpec

\* What Project makes of the journals is what the invariant says of the system.
LEMMA OrderlyFacts ==
  ASSUME CliInv, LogInv, CutInv, orderly => OrderlyInv
  PROVE  DesiredIsActual
  <1> SUFFICES ASSUME orderly, NEW r \in DOMAIN Current, hand[r] = NoId
               PROVE  world[r] = Current[r].value
    BY DEF DesiredIsActual
  <1> DEFINE S == Applied(journal)
  <1>1. S = Counted(journal) /\ S \subseteq Range(order)
    BY Present DEF Counted, Contributes, Applied, CliInv, Shape
  <1>2. \A id \in S : journal[id].steps \in Seq(Step)
    BY StatusOfDoc, DocType DEF Applied, CliInv, Shape, Status
  <1>3. Readable(journal)
    BY <1>1, <1>2 DEF Readable, Counted
  <1>4. Current = Expected(S, journal)
    BY <1>1, <1>3, ProjectIsReplay DEF Current, LogInv, CutInv
  <1>5. r \in Mapped /\ Writers(r, S, journal) # {} /\ Current[r] = Asked(r, S, journal)
    BY <1>4 DEF Expected
  <1>6. Agrees(r)
    BY <1>5 DEF OrderlyInv, Held
  <1> DEFINE ws == Writers(r, S, journal)
             w  == CHOOSE id \in ws : \A other \in ws \ {id} : Before(other, id)
             k  == LastIndex(journal[w].steps, r)
  <1>7. w \in ws /\ \A other \in ws \ {w} : Before(other, w)
    <2>1. \E id \in ws : \A other \in ws \ {id} : Before(other, id)
      BY <1>1, <1>5, LatestExists DEF Latest, LogInv
    <2> QED BY <2>1
  <1>8. Current[r].value = journal[w].steps[k].after
    BY <1>5 DEF Asked, Row
  <1> HIDE DEF w
  <1>9. w \in S /\ \E s \in Range(journal[w].steps) : s.target = r
    BY <1>7 DEF Writers
  <1>10. LastOn(journal[w].steps, r, k, Len(journal[w].steps))
    BY <1>2, <1>9, LastSelected
  <1>11. k \in DOMAIN journal[w].steps
    BY <1>2, <1>9, <1>10 DEF LastOn
  <1>12. \A other \in ws \ {w} : Precedes(order, other, w)
    BY <1>7 DEF Before, Precedes
  <1> HIDE DEF k, ws
  <1>13. world[r] = journal[w].steps[k].after
    BY <1>6, <1>7, <1>10, <1>11, <1>12 DEF Agrees, Meets, ws
  <1> QED BY <1>8, <1>13

\* Under the discipline, the desired view and the system agree at all times, commands
\* at work included, on every resource that no transaction stopped half-way: while
\* other resources are being changed, after failed applies, after crashes and failing
\* saves, and after the rollbacks that clean up behind them; for any number of
\* transactions, processes, steps and resources, as long as adapters can restore what
\* they have a snapshot of.  The discipline (which nothing in the code enforces) asks
\* that no two commands are at work on one transaction or one resource, that nothing
\* is applied or undone beneath a later transaction or where another one is half-way,
\* that what is applied was proposed against the present state, and that a failed
\* transaction is not rolled back again after a rollback that ran to its end.
THEOREM DesiredStateIsActual ==
  ASSUME "undo" \notin Faults
  PROVE  DSpec => []DesiredIsActual
  <1>1. CliInv /\ LogInv /\ CutInv /\ (orderly => OrderlyInv) => DesiredIsActual
    BY OrderlyFacts
  <1> QED BY <1>1, OrderlyInvariance, PTL
=============================================================================
