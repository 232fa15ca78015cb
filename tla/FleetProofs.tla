---------------------------- MODULE FleetProofs ----------------------------
(* Proofs about FleetScheduler: that SplitBatches divides the machines of a  *)
(* plan, what a run does to the machines, to the rows of the registry and to *)
(* its own verdict, and that it ends.                                        *)
EXTENDS FleetScheduler, WellFoundedInduction, SequenceTheorems, FiniteSetTheorems, TLAPS

USE FleetAssumption, SchedulerAssumption
----------------------------------------------------------------------------
(* Batches. *)

\* Every set of numbers has a least one: the induction of the lemmas below.
LEMMA LeastNumber ==
  ASSUME NEW S, S \subseteq Nat, S # {}
  PROVE  \E x \in S : \A y \in S : x <= y
  <1> DEFINE R == {ss \in Nat \X Nat : ss[1] < ss[2]}
  <1>1. IsWellFoundedOn(R, Nat)
    BY NatLessThanWellFounded DEF OpToRel
  <1>2. \E x \in S : \A y \in S : ~(<<y, x>> \in R)
    BY <1>1, WFMin
  <1>3. \A x, y \in S : ~(<<y, x>> \in R) => x <= y
    OBVIOUS
  <1> HIDE DEF R
  <1> QED BY <1>2, <1>3

\* What the loop over a list makes of the k machines it has seen.
Kept(f, ms, S, k) ==
    IF k = 0 THEN <<>>
    ELSE IF ms[k] \in S THEN Append(f[k - 1], ms[k]) ELSE f[k - 1]

\* There is such a function, and Those is its last value.
LEMMA ThoseUnfolded ==
  ASSUME NEW ms \in Seq(Machine), NEW S
  PROVE  \E f : /\ f = [k \in 0..Len(ms) |-> Kept(f, ms, S, k)]
                /\ Those(ms, S) = f[Len(ms)]
  <1> DEFINE Is(f, n) == f = [k \in 0..n |-> Kept(f, ms, S, k)]
             Bad == {n \in 0..Len(ms) : ~ \E f : Is(f, n)}
  <1>1. Bad = {}
    <2> SUFFICES ASSUME Bad # {} PROVE FALSE
      OBVIOUS
    <2>1. PICK n \in Bad : \A y \in Bad : n <= y
      <3>1. Bad \subseteq Nat
        OBVIOUS
      <3> HIDE DEF Bad
      <3> QED BY <3>1, LeastNumber
    <2>2. CASE n = 0
      <3>1. Is([k \in 0..0 |-> <<>>], 0)
        BY DEF Kept
      <3> QED BY <2>2, <3>1
    <2>3. CASE n > 0
      <3>1. PICK f : Is(f, n - 1)
        BY <2>1, <2>3
      <3> DEFINE g == [k \in 0..n |-> IF k = n THEN Kept(f, ms, S, n) ELSE f[k]]
      <3>2. \A k \in 0..(n - 1) : g[k] = f[k]
        BY <2>1
      <3>3. \A k \in 0..n : g[k] = Kept(g, ms, S, k)
        <4> TAKE k \in 0..n
        <4>1. CASE k = n
          BY <4>1, <3>2, <2>3, <2>1 DEF Kept
        <4>2. CASE k < n
          <5>1. k \in 0..(n - 1)
            BY <4>2, <2>1
          <5>2. f[k] = Kept(f, ms, S, k)
            <6> HIDE DEF Kept
            <6> QED BY <5>1, <3>1
          <5>3. g[k] = f[k]
            BY <5>1, <3>2
          <5>4. k = 0 \/ g[k - 1] = f[k - 1]
            BY <4>2, <3>2, <2>1
          <5> QED BY <5>2, <5>3, <5>4 DEF Kept
        <4> QED BY <4>1, <4>2, <2>1
      <3>4. Is(g, n)
        <4> HIDE DEF Kept
        <4> QED BY <3>3, Zenon
      <3> QED BY <3>4
    <2> QED BY <2>1, <2>2, <2>3
  <1>2. \E f : Is(f, Len(ms))
    BY <1>1
  <1>3. Those(ms, S) = (CHOOSE f : Is(f, Len(ms)))[Len(ms)]
    BY Zenon DEF Those, Kept
  <1> DEFINE f == CHOOSE f : Is(f, Len(ms))
  <1>4. Is(f, Len(ms))
    BY <1>2
  <1> QED BY <1>3, <1>4

\* A sequence that holds each member of a set once and nothing else.
Lists(q, S) ==
    /\ q \in Seq(S)
    /\ \A j, k \in DOMAIN q : q[j] = q[k] => j = k
    /\ \A m \in S : \E j \in DOMAIN q : q[j] = m

LEMMA EmptyLists == Lists(<<>>, {})
  BY DEF Lists

\* One more machine.
LEMMA OneMore ==
  ASSUME NEW S, NEW q, Lists(q, S), NEW m, m \notin S
  PROVE  Lists(Append(q, m), S \cup {m})
  <1> DEFINE r == Append(q, m)
  <1>1. q \in Seq(S) /\ q \in Seq(S \cup {m})
    BY DEF Lists
  <1>2. r \in Seq(S \cup {m}) /\ Len(r) = Len(q) + 1 /\ r[Len(q) + 1] = m
    BY <1>1
  <1>3. \A j \in 1..Len(q) : r[j] = q[j] /\ q[j] \in S
    BY <1>1
  <1>4. DOMAIN r = 1..(Len(q) + 1) /\ DOMAIN q = 1..Len(q)
    BY <1>1, <1>2
  <1>5. ASSUME NEW j \in DOMAIN r, NEW k \in DOMAIN r, r[j] = r[k] PROVE j = k
    BY <1>1, <1>2, <1>3, <1>4, <1>5 DEF Lists
  <1>6. ASSUME NEW n \in S \cup {m} PROVE \E j \in DOMAIN r : r[j] = n
    BY <1>1, <1>2, <1>3, <1>4 DEF Lists
  <1> HIDE DEF r
  <1>7. Lists(r, S \cup {m})
    BY <1>2, <1>5, <1>6 DEF Lists
  <1> QED BY <1>7 DEF r

\* Of the machines of a list, Those lists the ones that are asked for.
LEMMA ThoseLists ==
  ASSUME NEW T, T \subseteq Machine, NEW ms, Lists(ms, T), NEW S
  PROVE  Lists(Those(ms, S), S \cap T)
  <1> DEFINE N == Len(ms)
  <1>1. ms \in Seq(Machine) /\ N \in Nat /\ DOMAIN ms = 1..N
    BY DEF Lists
  <1>2. PICK f : /\ f = [k \in 0..N |-> Kept(f, ms, S, k)]
                 /\ Those(ms, S) = f[N]
    BY <1>1, ThoseUnfolded
  <1>3. \A k \in 0..N : f[k] = Kept(f, ms, S, k)
    <2> HIDE DEF Kept, N
    <2> QED BY <1>2
  <1>4. /\ \A j, k \in 1..N : ms[j] = ms[k] => j = k
        /\ \A k \in 1..N : ms[k] \in T
        /\ \A m \in T : \E k \in 1..N : ms[k] = m
    BY <1>1 DEF Lists
  <1> HIDE DEF N
  <1> DEFINE Seen(k) == {m \in S : \E j \in 1..k : ms[j] = m}
             Bad == {k \in 0..N : ~Lists(f[k], Seen(k))}
  <1>5. Bad = {}
    <2> SUFFICES ASSUME Bad # {} PROVE FALSE
      OBVIOUS
    <2>1. PICK n \in Bad : \A y \in Bad : n <= y
      <3>1. Bad \subseteq Nat
        OBVIOUS
      <3> HIDE DEF Bad
      <3> QED BY <3>1, LeastNumber
    <2>2. CASE n = 0
      <3>1. Seen(0) = {}
        OBVIOUS
      <3>2. f[0] = <<>>
        BY <1>1, <1>3 DEF Kept
      <3> QED BY <2>1, <2>2, <3>1, <3>2, EmptyLists
    <2>3. CASE n > 0
      <3>1. Lists(f[n - 1], Seen(n - 1))
        <4>1. n - 1 \in 0..N /\ n - 1 \notin Bad
          <5>1. n \in 0..N
            OBVIOUS
          <5>2. n - 1 \in 0..N /\ ~(n <= n - 1)
            BY <1>1, <2>3, <5>1
          <5> HIDE DEF Bad
          <5> QED BY <2>1, <5>2
        <4> HIDE DEF Seen
        <4> QED BY <4>1
      <3>2. f[n] = IF ms[n] \in S THEN Append(f[n - 1], ms[n]) ELSE f[n - 1]
        <4>1. n \in 0..N /\ n # 0
          BY <2>1, <2>3
        <4>2. f[n] = Kept(f, ms, S, n)
          <5> HIDE DEF Kept
          <5> QED BY <4>1, <1>3
        <4> QED BY <4>1, <4>2 DEF Kept
      <3>3. n \in 1..N /\ \A j : j \in 1..n <=> j \in 1..(n - 1) \/ j = n
        BY <1>1, <2>1, <2>3
      <3>4. CASE ms[n] \in S
        <4>1. Seen(n) = Seen(n - 1) \cup {ms[n]}
          BY <3>3, <3>4
        <4>2. ms[n] \notin Seen(n - 1)
          <5> SUFFICES ASSUME NEW j \in 1..(n - 1), ms[j] = ms[n] PROVE FALSE
            OBVIOUS
          <5>1. j \in 1..N /\ j # n
            BY <1>1, <3>3
          <5> QED BY <1>4, <3>3, <5>1
        <4>3. Lists(Append(f[n - 1], ms[n]), Seen(n - 1) \cup {ms[n]})
          <5> HIDE DEF Seen
          <5> QED BY <3>1, <4>2, OneMore
        <4> QED BY <2>1, <3>2, <3>4, <4>1, <4>3
      <3>5. CASE ms[n] \notin S
        <4>1. Seen(n) = Seen(n - 1)
          BY <3>3, <3>5
        <4> QED BY <2>1, <3>1, <3>2, <3>5, <4>1
      <3> QED BY <3>4, <3>5
    <2> QED BY <1>1, <2>1, <2>2, <2>3
  <1>6. Lists(f[N], S \cap T)
    <2>1. Seen(N) = S \cap T
      BY <1>4
    <2>2. N \in 0..N
      BY <1>1
    <2> HIDE DEF Seen
    <2> QED BY <1>5, <2>1, <2>2
  <1> QED BY <1>2, <1>6

LEMMA EveryoneLists == Lists(Everyone, Machine)
  BY DEF Lists, Everyone, Machine

\* A list is no longer than there are machines.
LEMMA ListLength ==
  ASSUME NEW S, S \subseteq Machine, NEW q, Lists(q, S)
  PROVE  /\ q \in Seq(Machine) /\ Len(q) \in Nat /\ Len(q) <= NumMachines
         /\ IsFiniteSet(S) /\ Len(q) = Cardinality(S)
  <1>1. q \in Seq(S) /\ Len(q) \in Nat /\ DOMAIN q = 1..Len(q)
    BY DEF Lists
  <1>2. q \in Bijection(1..Len(q), S)
    <2>1. q \in [1..Len(q) -> S]
      BY <1>1, Zenon, LenProperties
    <2> QED BY <1>1, <2>1 DEF Lists, Bijection, Injection, Surjection, IsInjective
  <1>3. /\ IsFiniteSet(1..Len(q)) /\ Cardinality(1..Len(q)) = Len(q)
        /\ IsFiniteSet(Machine) /\ Cardinality(Machine) = NumMachines
    <2>1. NumMachines - 1 + 1 = NumMachines /\ ~(1 > NumMachines) /\ NumMachines \in Int /\ 1 \in Int
      OBVIOUS
    <2>2. IsFiniteSet(Machine) /\ Cardinality(Machine) = NumMachines - 1 + 1
      BY <2>1, FS_Interval, Zenon DEF Machine
    <2>3. Len(q) \in Int /\ Len(q) - 1 + 1 = Len(q) /\ (1 > Len(q) => Len(q) = 0)
      BY <1>1
    <2>4. /\ IsFiniteSet(1..Len(q))
          /\ Cardinality(1..Len(q)) = IF 1 > Len(q) THEN 0 ELSE Len(q) - 1 + 1
      BY <2>1, <2>3, FS_Interval, Zenon
    <2> QED BY <2>1, <2>2, <2>3, <2>4
  <1>4. IsFiniteSet(S) /\ Cardinality(S) = Len(q)
    BY <1>2, <1>3, FS_Bijection, Zenon DEF ExistsBijection
  <1>5. Cardinality(S) <= Cardinality(Machine)
    BY <1>3, FS_Subset
  <1>6. q \in Seq(Machine)
    BY <1>1
  <1> QED BY <1>1, <1>3, <1>4, <1>5, <1>6

\* Batches that divide machines among them: there is one, none is empty, and no
\* machine has two places.
Divided(bs) ==
    /\ bs \in Seq(Seq(Machine)) /\ bs # <<>> /\ Len(bs) <= NumMachines
    /\ \A b \in DOMAIN bs : bs[b] # <<>>
    /\ \A b, c \in DOMAIN bs : \A j \in DOMAIN bs[b], k \in DOMAIN bs[c] :
          bs[b][j] = bs[c][k] => b = c /\ j = k

\* These machines have a place, and no others.
Covers(bs, S) ==
    /\ \A b \in DOMAIN bs : \A j \in DOMAIN bs[b] : bs[b][j] \in S
    /\ \A m \in S : \E b \in DOMAIN bs : \E j \in DOMAIN bs[b] : bs[b][j] = m

LEMMA DivBounds ==
  ASSUME NEW a \in Nat, NEW s \in Nat, s > 0
  PROVE  /\ a \div s \in Nat
         /\ (a \div s) * s <= a
         /\ a < ((a \div s) + 1) * s
  OBVIOUS

LEMMA MulMono ==
  ASSUME NEW a \in Nat, NEW b \in Nat, NEW s \in Nat, a <= b
  PROVE  a * s <= b * s
  OBVIOUS

LEMMA SubSeqFacts ==
  ASSUME NEW S, NEW q \in Seq(S), NEW a \in 1..Len(q), NEW b \in a..Len(q)
  PROVE  /\ SubSeq(q, a, b) \in Seq(S) /\ Len(SubSeq(q, a, b)) = b - a + 1
         /\ \A k \in 1..(b - a + 1) : SubSeq(q, a, b)[k] = q[a + k - 1]
  OBVIOUS

LEMMA FunctionIsSequence ==
  ASSUME NEW S, NEW K \in Nat, NEW f \in [1..K -> S]
  PROVE  f \in Seq(S) /\ Len(f) = K
  OBVIOUS

\* Batches of a fixed size.
LEMMA ChunksDivide ==
  ASSUME NEW S, S \subseteq Machine, NEW ms, Lists(ms, S), ms # <<>>, NEW size \in Nat, size > 0
  PROVE  Divided(ChunkBySize(ms, size)) /\ Covers(ChunkBySize(ms, size), S)
  <1> DEFINE N == Len(ms)
             K == (N + size - 1) \div size
             bs == ChunkBySize(ms, size)
             upto(k) == Least(k * size, N)
  <1>1. /\ ms \in Seq(Machine) /\ N \in Nat /\ N > 0 /\ N <= NumMachines /\ DOMAIN ms = 1..N
        /\ \A j \in 1..N : ms[j] \in S
        /\ \A j, k \in 1..N : ms[j] = ms[k] => j = k
        /\ \A m \in S : \E j \in 1..N : ms[j] = m
    <2>1. ms \in Seq(S) /\ ms \in Seq(Machine) /\ N \in Nat /\ N <= NumMachines
      BY ListLength DEF Lists
    <2>2. N > 0 /\ DOMAIN ms = 1..N /\ \A j \in 1..N : ms[j] \in S
      BY <2>1
    <2> QED BY <2>1, <2>2 DEF Lists
  <1> HIDE DEF N
  <1>2. K \in Nat /\ K * size <= N + size - 1 /\ N + size - 1 < (K + 1) * size
    <2>1. N + size - 1 \in Nat
      BY <1>1
    <2> QED BY <2>1, DivBounds
  <1>3. K <= N
    <2> SUFFICES ASSUME N + 1 <= K PROVE FALSE
      BY <1>1, <1>2
    <2>1. (N + 1) * size <= K * size
      BY <1>1, <1>2, MulMono
    <2>2. (N + 1) * size = N * size + size /\ N * 1 <= N * size
      BY <1>1
    <2> QED BY <1>1, <1>2, <2>1, <2>2
  <1>4. DOMAIN bs = 1..K /\ \A k \in 1..K : bs[k] = SubSeq(ms, (k - 1) * size + 1, upto(k))
    BY <1>1, Zenon DEF ChunkBySize, N
  <1> HIDE DEF bs
  <1>5. \A k \in 1..K : /\ (k - 1) * size \in Nat /\ k * size \in Nat
                        /\ k * size = (k - 1) * size + size
                        /\ (k - 1) * size < N
    <2> TAKE k \in 1..K
    <2>1. (k - 1) * size \in Nat /\ k * size \in Nat /\ k * size = (k - 1) * size + size
      BY <1>2
    <2>2. k * size <= K * size
      BY <1>2, MulMono
    <2>3. K * size \in Nat
      BY <1>2
    <2> HIDE DEF K
    <2> QED BY <1>1, <1>2, <2>1, <2>2, <2>3
  <1>6. \A k \in 1..K : /\ upto(k) \in ((k - 1) * size + 1)..N
                        /\ upto(k) - (k - 1) * size <= size
                        /\ k * size <= N => upto(k) = k * size
                        /\ k * size > N => upto(k) = N
    BY <1>1, <1>5 DEF Least
  <1>7. \A k \in 1..K : /\ bs[k] \in Seq(Machine)
                        /\ Len(bs[k]) = upto(k) - (k - 1) * size
                        /\ \A j \in 1..Len(bs[k]) : bs[k][j] = ms[(k - 1) * size + j]
                                 /\ (k - 1) * size + j \in 1..N
    <2> TAKE k \in 1..K
    <2> HIDE DEF upto
    <2> DEFINE from == (k - 1) * size + 1
    <2>0. (k - 1) * size \in Nat /\ (k - 1) * size < N
      BY <1>5
    <2>1. from \in 1..Len(ms) /\ upto(k) \in from..Len(ms)
      BY <1>1, <1>6, <2>0 DEF N
    <2>2. from - 1 = (k - 1) * size /\ from \in Nat /\ upto(k) \in Nat
      BY <1>1, <1>6, <2>0
    <2>3. bs[k] = SubSeq(ms, from, upto(k))
      BY <1>4
    <2> HIDE DEF from
    <2>4. /\ bs[k] \in Seq(Machine) /\ Len(bs[k]) = upto(k) - from + 1
          /\ \A j \in 1..(upto(k) - from + 1) : bs[k][j] = ms[from + j - 1]
      BY <1>1, <2>1, <2>3, SubSeqFacts
    <2>5. \A j \in 1..(upto(k) - from + 1) :
             from + j - 1 = (k - 1) * size + j /\ (k - 1) * size + j \in 1..N
      <3> DEFINE x == (k - 1) * size
      <3>1. from = x + 1 /\ upto(k) \in from..N /\ x \in Nat
        BY <1>1, <2>0, <2>1, <2>2 DEF N, from
      <3> HIDE DEF x
      <3>2. \A j \in 1..(upto(k) - from + 1) : from + j - 1 = x + j /\ x + j \in 1..N
        BY <1>1, <3>1
      <3> QED BY <3>2 DEF x
    <2>6. Len(bs[k]) = upto(k) - (k - 1) * size
      BY <2>2, <2>4
    <2>7. \A j \in 1..Len(bs[k]) : bs[k][j] = ms[(k - 1) * size + j]
                                    /\ (k - 1) * size + j \in 1..N
      <3>1. Len(bs[k]) = upto(k) - from + 1
        BY <2>4
      <3> QED BY <2>4, <2>5, <3>1
    <2> QED BY <2>4, <2>6, <2>7
  <1> HIDE DEF K, upto
  <1>8. bs \in Seq(Seq(Machine)) /\ Len(bs) = K
    <2>1. bs = [k \in 1..K |-> bs[k]]
      BY <1>4, Zenon DEF bs, ChunkBySize, K, N
    <2>2. bs \in [1..K -> Seq(Machine)]
      BY <1>7, <2>1, Zenon
    <2> QED BY <1>2, <2>2, FunctionIsSequence
  <1>9. \A k \in 1..K : bs[k] # <<>>
    <2> TAKE k \in 1..K
    <2>1. (k - 1) * size \in Nat
      BY <1>5
    <2>2. upto(k) >= (k - 1) * size + 1 /\ upto(k) \in Nat
      BY <1>1, <1>6, <2>1
    <2>3. Len(bs[k]) >= 1
      BY <1>7, <2>1, <2>2
    <2> QED BY <2>3
  <1>10. ASSUME NEW b \in 1..K, NEW c \in 1..K, NEW j \in DOMAIN bs[b], NEW k \in DOMAIN bs[c],
                bs[b][j] = bs[c][k], b < c
         PROVE  FALSE
    <2>1. j \in 1..Len(bs[b]) /\ k \in 1..Len(bs[c])
      BY <1>7, <1>10
    <2>2. (b - 1) * size + j = (c - 1) * size + k
      <3>1. /\ bs[b][j] = ms[(b - 1) * size + j] /\ (b - 1) * size + j \in 1..N
            /\ bs[c][k] = ms[(c - 1) * size + k] /\ (c - 1) * size + k \in 1..N
        BY <1>7, <2>1
      <3>2. ms[(b - 1) * size + j] = ms[(c - 1) * size + k]
        BY <1>10, <3>1
      <3> QED BY <1>1, <3>1, <3>2, Zenon
    <2>3. b * size <= (c - 1) * size
      BY <1>2, <1>10, MulMono
    <2>4. j <= size
      <3>1. Len(bs[b]) = upto(b) - (b - 1) * size /\ upto(b) - (b - 1) * size <= size
        BY <1>6, <1>7
      <3>2. j <= Len(bs[b])
        BY <2>1
      <3> QED BY <2>1, <3>1, <3>2
    <2>5. /\ (b - 1) * size \in Nat /\ (c - 1) * size \in Nat /\ b * size \in Nat
          /\ b * size = (b - 1) * size + size
      BY <1>5
    <2>6. j \in Nat /\ k \in Nat /\ k >= 1
      BY <2>1
    <2> DEFINE x == (b - 1) * size
               y == (c - 1) * size
               z == b * size
    <2> HIDE DEF x, y, z
    <2>7. x + j = y + k /\ z <= y /\ x \in Nat /\ y \in Nat /\ z = x + size
      BY <2>2, <2>3, <2>5 DEF x, y, z
    <2> QED BY <2>4, <2>6, <2>7
  <1>11. ASSUME NEW b \in 1..K, NEW j \in DOMAIN bs[b], NEW k \in DOMAIN bs[b],
                bs[b][j] = bs[b][k]
         PROVE  j = k
    <2>1. j \in 1..Len(bs[b]) /\ k \in 1..Len(bs[b])
      BY <1>7, <1>11
    <2>2. (b - 1) * size + j = (b - 1) * size + k
      BY <1>1, <1>7, <1>11, <2>1
    <2> QED BY <1>5, <2>1, <2>2
  <1>12. ASSUME NEW b \in 1..K, NEW c \in 1..K, NEW j \in DOMAIN bs[b], NEW k \in DOMAIN bs[c],
                bs[b][j] = bs[c][k]
         PROVE  b = c /\ j = k
    <2>1. b \in Nat /\ c \in Nat
      BY <1>2
    <2>2. ~(b < c) /\ ~(c < b)
      BY <1>10, <1>12
    <2>3. b = c
      BY <2>1, <2>2
    <2> QED BY <1>11, <1>12, <2>3
  <1>13. ASSUME NEW n \in S PROVE \E b \in 1..K : \E j \in DOMAIN bs[b] : bs[b][j] = n
    <2>0. PICK m \in 1..N : ms[m] = n
      BY <1>1
    <2> DEFINE q == (m - 1) \div size
               b == q + 1
               j == m - q * size
    <2>1. m \in 1..N /\ m - 1 \in Nat
      BY <1>1
    <2>2. q \in Nat /\ q * size <= m - 1 /\ m - 1 < (q + 1) * size
      BY <2>1, DivBounds
    <2> HIDE DEF q
    <2>3. b \in 1..K
      <3> SUFFICES ASSUME K <= q PROVE FALSE
        BY <1>2, <2>2
      <3>1. K * size <= q * size
        BY <1>2, <2>2, MulMono
      <3>2. (K + 1) * size = K * size + size /\ K * size \in Nat /\ q * size \in Nat
        BY <1>2, <2>2
      <3> QED BY <1>1, <1>2, <2>1, <2>2, <3>1, <3>2
    <2>4. q * size \in Nat /\ (b - 1) * size = q * size /\ b * size = (q + 1) * size
      BY <2>2
    <2>5. j \in 1..Len(bs[b])
      <3>1. Len(bs[b]) = upto(b) - q * size
        BY <1>7, <2>3, <2>4
      <3>2. m <= upto(b)
        <4>1. /\ b * size <= N => upto(b) = b * size
              /\ b * size > N => upto(b) = N
          BY <1>6, <2>3
        <4> DEFINE z == b * size
        <4>2. z \in Nat /\ m - 1 < z
          BY <1>5, <2>2, <2>3
        <4> HIDE DEF z
        <4>3. m <= z /\ m <= N
          BY <1>1, <2>1, <4>2
        <4>4. (z <= N => upto(b) = z) /\ (z > N => upto(b) = N)
          BY <4>1 DEF z
        <4> HIDE DEF b
        <4> QED BY <1>1, <4>2, <4>3, <4>4
      <3>3. upto(b) \in Nat
        BY <1>5, <1>6, <2>3
      <3> QED BY <2>1, <2>2, <2>4, <3>1, <3>2, <3>3
    <2>6. bs[b][j] = n
      <3>1. bs[b][j] = ms[(b - 1) * size + j]
        BY <1>7, <2>3, <2>5
      <3>2. (b - 1) * size + j = m
        BY <2>1, <2>4
      <3> QED BY <2>0, <3>1, <3>2
    <2>7. j \in DOMAIN bs[b]
      BY <1>7, <2>3, <2>5
    <2> QED BY <2>3, <2>6, <2>7
  <1>14. ASSUME NEW b \in 1..K, NEW j \in DOMAIN bs[b] PROVE bs[b][j] \in S
    <2>1. j \in 1..Len(bs[b])
      BY <1>7
    <2> QED BY <1>1, <1>7, <2>1
  <1>15. K > 0
    <2> SUFFICES ASSUME K = 0 PROVE FALSE
      BY <1>2
    <2>1. (K + 1) * size = size
      BY <1>2
    <2> QED BY <1>1, <1>2, <2>1
  <1>16. Divided(bs)
    <2>1. bs # <<>> /\ Len(bs) <= NumMachines
      BY <1>1, <1>2, <1>3, <1>8, <1>15
    <2> QED BY <1>4, <1>8, <1>9, <1>12, <2>1 DEF Divided
  <1>17. Covers(bs, S)
    BY <1>4, <1>13, <1>14 DEF Covers
  <1> QED BY <1>16, <1>17 DEF bs

\* Batches by importance.
LEMMA OneGroup ==
  ASSUME NEW S, S \subseteq Machine, NEW q, Lists(q, S), q # <<>>
  PROVE  Divided(<<q>>) /\ Covers(<<q>>, S)
  <1>1. q \in Seq(S) /\ q \in Seq(Machine) /\ 1 <= NumMachines
    BY DEF Lists
  <1>2. <<q>> \in Seq(Seq(Machine)) /\ Len(<<q>>) = 1 /\ DOMAIN <<q>> = {1} /\ <<q>>[1] = q
    BY <1>1
  <1> DEFINE bs == <<q>>
  <1> HIDE DEF bs
  <1>3. /\ bs \in Seq(Seq(Machine)) /\ Len(bs) <= NumMachines /\ bs # <<>>
        /\ DOMAIN bs = {1} /\ bs[1] = q
    BY <1>1, <1>2 DEF bs
  <1>4. Divided(bs)
    BY <1>3 DEF Divided, Lists
  <1>5. \A j \in DOMAIN q : q[j] \in S
    BY <1>1
  <1>6. Covers(bs, S)
    BY <1>3, <1>5 DEF Covers, Lists
  <1> QED BY <1>4, <1>6 DEF bs

LEMMA TwoGroups ==
  ASSUME NEW T, T \subseteq Machine, NEW S, S \subseteq T, NEW p, NEW q,
         Lists(p, S), Lists(q, T \ S), p # <<>>, q # <<>>
  PROVE  Divided(<<p, q>>) /\ Covers(<<p, q>>, T)
  <1> DEFINE bs == <<p, q>>
  <1>1. p \in Seq(S) /\ q \in Seq(T \ S)
    BY DEF Lists
  <1>2. /\ p \in Seq(Machine) /\ q \in Seq(Machine)
        /\ \A j \in DOMAIN p : p[j] \in S
        /\ \A j \in DOMAIN q : q[j] \in T /\ q[j] \notin S
        /\ 1 \in DOMAIN p /\ 1 \in DOMAIN q
    BY <1>1
  <1>3. 2 <= NumMachines
    BY <1>2 DEF Machine
  <1>4. bs \in Seq(Seq(Machine)) /\ Len(bs) = 2 /\ DOMAIN bs = {1, 2} /\ bs[1] = p /\ bs[2] = q
    BY <1>2
  <1> HIDE DEF bs
  <1>5. bs # <<>> /\ \A b \in DOMAIN bs : bs[b] # <<>>
    BY <1>4
  <1>6. ASSUME NEW b \in DOMAIN bs, NEW c \in DOMAIN bs, NEW j \in DOMAIN bs[b],
               NEW k \in DOMAIN bs[c], bs[b][j] = bs[c][k]
        PROVE  b = c /\ j = k
    <2>1. b = c
      BY <1>2, <1>4, <1>6
    <2> QED BY <1>4, <1>6, <2>1 DEF Lists
  <1>7. ASSUME NEW m \in T PROVE \E b \in DOMAIN bs : \E j \in DOMAIN bs[b] : bs[b][j] = m
    <2>1. CASE m \in S
      <3>1. \E j \in DOMAIN bs[1] : bs[1][j] = m
        BY <1>4, <2>1 DEF Lists
      <3> QED BY <1>4, <3>1
    <2>2. CASE m \notin S
      <3>1. \E j \in DOMAIN bs[2] : bs[2][j] = m
        BY <1>4, <2>2 DEF Lists
      <3> QED BY <1>4, <3>1
    <2> QED BY <2>1, <2>2
  <1>8. Divided(bs)
    BY <1>3, <1>4, <1>5, <1>6 DEF Divided
  <1>9. Covers(bs, T)
    <2>1. \A b \in DOMAIN bs : \A j \in DOMAIN bs[b] : bs[b][j] \in T
      BY <1>2, <1>4
    <2> QED BY <1>7, <2>1 DEF Covers
  <1> QED BY <1>8, <1>9 DEF bs

LEMMA TwoInARow ==
  ASSUME NEW S, NEW p \in S, NEW q \in S
  PROVE  <<p>> \o <<q>> = <<p, q>>
  <1> DEFINE s == <<p>> \o <<q>>
  <1>1. <<p>> \in Seq(S) /\ <<q>> \in Seq(S) /\ Len(<<p>>) = 1 /\ Len(<<q>>) = 1
    OBVIOUS
  <1>2. s \in Seq(S) /\ Len(s) = 2 /\ s[1] = p /\ s[2] = q
    BY <1>1
  <1>3. <<p, q>> \in Seq(S) /\ Len(<<p, q>>) = 2
    OBVIOUS
  <1> HIDE DEF s
  <1>4. s = <<p, q>>
    BY <1>2, <1>3, SeqEqual
  <1> QED BY <1>4 DEF s

LEMMA GroupsDivide ==
  ASSUME NEW T, T \subseteq Machine, NEW ms, Lists(ms, T), ms # <<>>, NEW level
  PROVE  Divided(ChunkByImportance(ms, level)) /\ Covers(ChunkByImportance(ms, level), T)
  <1> DEFINE S == {m \in Machine : level[m] = "supported"}
             U == {m \in Machine : level[m] # "supported"}
             p == Those(ms, S)
             q == Those(ms, U)
             A == S \cap T
             BatchOf(group) == IF group = <<>> THEN <<>> ELSE <<group>>
  <1>1. U \cap T = T \ A /\ A \subseteq T
    OBVIOUS
  <1>2. ChunkByImportance(ms, level) = BatchOf(p) \o BatchOf(q)
    BY Zenon DEF ChunkByImportance
  <1>3. Lists(p, A) /\ Lists(q, T \ A)
    <2>1. Lists(p, S \cap T) /\ Lists(q, U \cap T)
      <3> HIDE DEF S, U
      <3> QED BY ThoseLists
    <2> QED BY <1>1, <2>1
  <1> HIDE DEF S, U, p, q, A
  <1>4. /\ p = <<>> => A = {}
        /\ q = <<>> => A = T
        /\ T # {}
    <2>1. p = <<>> => A = {}
      BY <1>3 DEF Lists
    <2>2. q = <<>> => T \ A = {}
      BY <1>3 DEF Lists
    <2>3. ms \in Seq(T)
      BY DEF Lists
    <2>4. ms[1] \in T
      BY <2>3
    <2> QED BY <1>1, <2>1, <2>2, <2>4
  <1>5. <<p>> \o <<q>> = <<p, q>> /\ <<p>> \o <<>> = <<p>> /\ <<>> \o <<q>> = <<q>>
    <2>1. <<p>> \in Seq({p}) /\ <<q>> \in Seq({q})
      OBVIOUS
    <2>2. <<p>> \o <<>> = <<p>> /\ <<>> \o <<q>> = <<q>>
      BY <2>1, ConcatEmptySeq, Zenon
    <2>3. <<p>> \o <<q>> = <<p, q>>
      <3>1. p \in {p, q} /\ q \in {p, q}
        OBVIOUS
      <3> QED BY <3>1, TwoInARow, Zenon
    <2> QED BY <2>2, <2>3
  <1>6. CASE p # <<>> /\ q # <<>>
    <2>1. BatchOf(p) \o BatchOf(q) = <<p, q>>
      BY <1>5, <1>6, Zenon
    <2>2. Divided(<<p, q>>) /\ Covers(<<p, q>>, T)
      BY <1>1, <1>3, <1>6, TwoGroups
    <2> QED BY <1>2, <2>1, <2>2, Zenon
  <1>7. CASE p = <<>>
    <2>1. q # <<>> /\ Lists(q, T)
      <3>1. A = {} /\ T \ A = T
        BY <1>4, <1>7
      <3> QED BY <1>3, <1>4, <1>7, <3>1, Zenon
    <2>2. BatchOf(p) \o BatchOf(q) = <<q>>
      BY <1>5, <1>7, <2>1, Zenon
    <2> QED BY <1>2, <2>1, <2>2, OneGroup
  <1>8. CASE q = <<>>
    <2>1. p # <<>> /\ Lists(p, T)
      BY <1>3, <1>4, <1>8, Zenon
    <2>2. BatchOf(p) \o BatchOf(q) = <<p>>
      BY <1>5, <1>8, <2>1, Zenon
    <2> QED BY <1>2, <2>1, <2>2, OneGroup
  <1> QED BY <1>6, <1>7, <1>8

\* However a plan is to be divided: SplitBatches gives each of the machines of a
\* run, which may be some of the plan's only, one place.
THEOREM BatchesDivide ==
  ASSUME NEW p \in PlanOf(Strategies, Sizes, Classes, Levels), Splittable(p),
         NEW S, S \subseteq Machine, NEW ms, Lists(ms, S), ms # <<>>
  PROVE  Divided(SplitBatches(ms, p)) /\ Covers(SplitBatches(ms, p), S)
  <1>1. p.strategy \in Strategies /\ p.size \in Nat
    BY DEF PlanOf
  <1>2. CASE p.strategy = "count"
    BY <1>1, <1>2, ChunksDivide DEF Splittable, SplitBatches
  <1>3. CASE p.strategy # "count"
    BY <1>3, GroupsDivide DEF SplitBatches
  <1> QED BY <1>2, <1>3

-----------------------------------------------------------------------------
(* The agenda: the batches in a row. *)

\* What the batches up to the k-th make in a row.
Joined(f, bs, k) == IF k = 1 THEN bs[k] ELSE f[k - 1] \o bs[k]

LEMMA FlattenUnfolded ==
  ASSUME NEW S, NEW bs \in Seq(Seq(S)), Len(bs) > 0
  PROVE  \E f : /\ f = [k \in 1..Len(bs) |-> Joined(f, bs, k)]
                /\ FlattenSeq(bs) = f[Len(bs)]
  <1> DEFINE Is(f, n) == f = [k \in 1..n |-> Joined(f, bs, k)]
             Bad == {n \in 1..Len(bs) : ~ \E f : Is(f, n)}
  <1>0. Len(bs) \in Nat
    OBVIOUS
  <1>1. Bad = {}
    <2> SUFFICES ASSUME Bad # {} PROVE FALSE
      OBVIOUS
    <2>1. PICK n \in Bad : \A y \in Bad : n <= y
      <3>1. Bad \subseteq Nat
        BY <1>0
      <3> HIDE DEF Bad
      <3> QED BY <3>1, LeastNumber
    <2>2. CASE n = 1
      <3>1. Is([k \in 1..1 |-> bs[k]], 1)
        BY DEF Joined
      <3> QED BY <2>2, <3>1
    <2>3. CASE n > 1
      <3>1. PICK f : Is(f, n - 1)
        <4>1. n \in 1..Len(bs) /\ n - 1 < n
          BY <1>0, <2>1
        <4>2. n - 1 \in 1..Len(bs)
          BY <1>0, <2>3, <4>1
        <4>3. ~(n <= n - 1)
          BY <1>0, <4>1
        <4> HIDE DEF Bad
        <4>4. n - 1 \notin Bad
          BY <2>1, <4>3
        <4> USE DEF Bad
        <4> HIDE DEF Is
        <4> QED BY <4>2, <4>4
      <3> DEFINE g == [k \in 1..n |-> IF k = n THEN Joined(f, bs, n) ELSE f[k]]
      <3>2. \A k \in 1..(n - 1) : g[k] = f[k]
        BY <1>0, <2>1
      <3>3. \A k \in 1..n : g[k] = Joined(g, bs, k)
        <4> TAKE k \in 1..n
        <4>1. CASE k = n
          <5>1. g[k] = Joined(f, bs, k) /\ g[k - 1] = f[k - 1]
            BY <1>0, <4>1, <3>2, <2>3, <2>1
          <5> QED BY <5>1 DEF Joined
        <4>2. CASE k < n
          <5>1. k \in 1..(n - 1)
            BY <1>0, <4>2, <2>1
          <5>2. f[k] = Joined(f, bs, k)
            <6> HIDE DEF Joined
            <6> QED BY <5>1, <3>1
          <5>3. g[k] = f[k]
            BY <5>1, <3>2
          <5>4. k = 1 \/ g[k - 1] = f[k - 1]
            BY <1>0, <4>2, <3>2, <2>1
          <5> QED BY <5>2, <5>3, <5>4 DEF Joined
        <4> QED BY <1>0, <4>1, <4>2, <2>1
      <3>4. Is(g, n)
        <4> HIDE DEF Joined
        <4> QED BY <3>3, Zenon
      <3> QED BY <3>4
    <2> QED BY <1>0, <2>1, <2>2, <2>3
  <1>2. \E f : Is(f, Len(bs))
    BY <1>0, <1>1
  <1>3. FlattenSeq(bs) = (CHOOSE f : Is(f, Len(bs)))[Len(bs)]
    <2>1. ~(Len(bs) = 0)
      OBVIOUS
    <2> QED BY <2>1, Zenon DEF FlattenSeq, Joined
  <1> DEFINE f == CHOOSE f : Is(f, Len(bs))
  <1>4. Is(f, Len(bs))
    BY <1>2
  <1> QED BY <1>3, <1>4

\* Where each batch begins in the row of all.
IsOffset(off, bs) ==
    /\ off \in [1..(Len(bs) + 1) -> Nat] /\ off[1] = 0
    /\ \A b \in 1..Len(bs) : off[b + 1] = off[b] + Len(bs[b])
    /\ Len(FlattenSeq(bs)) = off[Len(bs) + 1]
    /\ \A b \in 1..Len(bs) : \A j \in 1..Len(bs[b]) :
          /\ off[b] + j <= Len(FlattenSeq(bs))
          /\ FlattenSeq(bs)[off[b] + j] = bs[b][j]
    /\ \A k \in 1..Len(FlattenSeq(bs)) :
          \E b \in 1..Len(bs) : \E j \in 1..Len(bs[b]) : k = off[b] + j

\* The same of the first n batches, which make the row r.
RowOf(r, off, bs, S, n) ==
    /\ r \in Seq(S) /\ Len(r) = off[n] + Len(bs[n])
    /\ \A b \in 1..n : off[b] \in Nat
    /\ \A b \in 1..n : \A j \in 1..Len(bs[b]) :
          off[b] + j <= Len(r) /\ r[off[b] + j] = bs[b][j]
    /\ \A k \in 1..Len(r) : \E b \in 1..n : \E j \in 1..Len(bs[b]) : k = off[b] + j

LEMMA OneMoreBatch ==
  ASSUME NEW S, NEW bs \in Seq(Seq(S)), NEW n \in 1..Len(bs), n > 1,
         NEW r, NEW off, RowOf(r, off, bs, S, n - 1), off[n] = Len(r)
  PROVE  RowOf(r \o bs[n], off, bs, S, n)
  <1> DEFINE q == bs[n]
             w == r \o q
             N == Len(r)
             M == Len(q)
  <1>1. n \in Nat /\ bs[n] \in Seq(S) /\ (\A b : b \in 1..n <=> b \in 1..(n - 1) \/ b = n)
    OBVIOUS
  <1>2. r \in Seq(S) /\ q \in Seq(S) /\ N \in Nat /\ M \in Nat /\ off[n] = N
    BY <1>1 DEF RowOf
  <1>3. /\ w \in Seq(S) /\ Len(w) = N + M
        /\ \A k \in 1..(N + M) : w[k] = IF k <= N THEN r[k] ELSE q[k - N]
    BY <1>2, ConcatProperties
  <1> HIDE DEF w, q, N, M
  <1>4. /\ \A k \in 1..N : w[k] = r[k]
        /\ \A j \in 1..M : w[N + j] = q[j]
    <2>1. ASSUME NEW k \in 1..N PROVE w[k] = r[k]
      <3>1. k \in 1..(N + M) /\ k <= N
        BY <1>2
      <3> QED BY <1>3, <3>1
    <2>2. ASSUME NEW j \in 1..M PROVE w[N + j] = q[j]
      <3>1. N + j \in 1..(N + M) /\ ~(N + j <= N) /\ (N + j) - N = j
        BY <1>2
      <3> QED BY <1>3, <3>1
    <2> QED BY <2>1, <2>2
  <1>5. ASSUME NEW b \in 1..n, NEW j \in 1..Len(bs[b])
        PROVE  off[b] \in Nat /\ off[b] + j <= Len(w) /\ w[off[b] + j] = bs[b][j]
    <2>1. CASE b = n
      <3>1. j \in 1..M /\ off[b] = N
        BY <1>2, <2>1 DEF q, M
      <3>2. N + j <= N + M
        <4>1. j \in Nat /\ j <= M /\ M \in Nat /\ N \in Nat
          BY <1>2, <3>1
        <4> HIDE DEF N, M
        <4> QED BY <4>1
      <3>3. w[N + j] = q[j]
        BY <1>4, <3>1
      <3> QED BY <1>2, <1>3, <2>1, <3>1, <3>2, <3>3 DEF q
    <2>2. CASE b \in 1..(n - 1)
      <3>1. off[b] + j <= N /\ r[off[b] + j] = bs[b][j] /\ off[b] \in Nat
        BY <2>2 DEF RowOf, N
      <3>2. j \in Nat /\ j >= 1
        BY <1>1
      <3>3. off[b] + j \in 1..N /\ off[b] + j <= N + M
        <4> DEFINE k == off[b] + j
        <4>1. k \in Nat /\ k >= 1
          BY <3>1, <3>2
        <4>2. k <= N /\ N \in Nat /\ M \in Nat
          BY <1>2, <3>1
        <4> HIDE DEF k
        <4>3. k \in 1..N /\ k <= N + M
          BY <4>1, <4>2
        <4> QED BY <4>3 DEF k
      <3>4. w[off[b] + j] = bs[b][j]
        BY <1>4, <3>1, <3>3
      <3> QED BY <1>3, <3>1, <3>3, <3>4
    <2> QED BY <1>1, <2>1, <2>2
  <1>6. ASSUME NEW k \in 1..Len(w)
        PROVE  \E b \in 1..n : \E j \in 1..Len(bs[b]) : k = off[b] + j
    <2>1. CASE k <= N
      <3>1. k \in 1..N
        BY <1>2, <2>1
      <3>2. \E b \in 1..(n - 1) : \E j \in 1..Len(bs[b]) : k = off[b] + j
        BY <3>1 DEF RowOf, N
      <3> QED BY <1>1, <3>2
    <2>2. CASE k > N
      <3> DEFINE j == k - N
      <3>1. j \in 1..M /\ k = N + j
        BY <1>2, <1>3, <2>2
      <3> HIDE DEF j
      <3>2. n \in 1..n /\ j \in 1..Len(bs[n]) /\ k = off[n] + j
        BY <1>1, <1>2, <3>1 DEF M, q
      <3> QED BY <3>2
    <2> QED BY <1>2, <1>3, <2>1, <2>2
  <1>7. \A b \in 1..n : off[b] \in Nat
    BY <1>1, <1>2 DEF RowOf
  <1>8. Len(w) = off[n] + Len(bs[n])
    BY <1>2, <1>3 DEF M, q
  <1>9. RowOf(w, off, bs, S, n)
    BY <1>3, <1>5, <1>6, <1>7, <1>8 DEF RowOf
  <1> QED BY <1>9 DEF w, q

LEMMA FlattenOffset ==
  ASSUME NEW S, NEW bs \in Seq(Seq(S)), Len(bs) > 0
  PROVE  FlattenSeq(bs) \in Seq(S) /\ \E off : IsOffset(off, bs)
  <1>1. PICK f : f = [k \in 1..Len(bs) |-> Joined(f, bs, k)] /\ FlattenSeq(bs) = f[Len(bs)]
    BY FlattenUnfolded
  <1> DEFINE L == Len(bs)
             off == [b \in 1..(L + 1) |-> IF b = 1 THEN 0 ELSE Len(f[b - 1])]
             Bad == {n \in 1..L : ~RowOf(f[n], off, bs, S, n)}
  <1>2. L \in Nat /\ L > 0 /\ \A b \in 1..L : bs[b] \in Seq(S)
    OBVIOUS
  <1>3. \A k \in 1..L : f[k] = Joined(f, bs, k)
    <2> HIDE DEF Joined
    <2> QED BY <1>1
  <1>4. /\ L \in 1..L /\ L + 1 \in 1..(L + 1) /\ off[1] = 0
        /\ \A b \in 1..L : off[b + 1] = Len(f[b])
        /\ off = [b \in 1..(L + 1) |-> off[b]]
    BY <1>2
  <1>5. \A n \in 1..L : n # 1 => n - 1 \in 1..L /\ off[n] = Len(f[n - 1])
    BY <1>2
  <1> HIDE DEF off, L
  <1>6. Bad = {}
    <2> SUFFICES ASSUME Bad # {} PROVE FALSE
      OBVIOUS
    <2>1. PICK n \in Bad : \A y \in Bad : n <= y
      <3>1. Bad \subseteq Nat
        BY <1>2
      <3> HIDE DEF Bad
      <3> QED BY <3>1, LeastNumber
    <2>2. n \in 1..L /\ ~RowOf(f[n], off, bs, S, n)
      OBVIOUS
    <2>3. CASE n = 1
      <3>1. f[1] = bs[1] /\ bs[1] \in Seq(S)
        BY <1>2, <1>3, <2>2, <2>3 DEF Joined
      <3>2. Len(bs[1]) \in Nat
        BY <3>1
      <3>3. RowOf(f[1], off, bs, S, 1)
        BY <1>4, <3>1, <3>2 DEF RowOf
      <3> QED BY <2>2, <2>3, <3>3
    <2>4. CASE n # 1
      <3>1. n - 1 \in 1..L /\ off[n] = Len(f[n - 1]) /\ n > 1 /\ ~(n <= n - 1)
        BY <1>2, <1>5, <2>2, <2>4
      <3>2. n - 1 \notin Bad
        BY <2>1, <3>1
      <3>3. RowOf(f[n - 1], off, bs, S, n - 1)
        BY <3>1, <3>2
      <3>4. f[n] = f[n - 1] \o bs[n]
        BY <1>3, <2>2, <2>4 DEF Joined
      <3> HIDE DEF Bad
      <3>5. RowOf(f[n], off, bs, S, n)
        BY <2>2, <3>1, <3>3, <3>4, OneMoreBatch DEF L
      <3> QED BY <2>2, <3>5
    <2> QED BY <2>3, <2>4
  <1>7. \A n \in 1..L : RowOf(f[n], off, bs, S, n)
    BY <1>6
  <1>8. FlattenSeq(bs) = f[L] /\ f[L] \in Seq(S) /\ Len(f[L]) = off[L + 1]
    BY <1>1, <1>4, <1>7 DEF L, RowOf
  <1>9. \A b \in 1..(L + 1) : off[b] \in Nat
    <2> TAKE b \in 1..(L + 1)
    <2>1. CASE b \in 1..L
      BY <1>4, <1>7, <2>1 DEF RowOf
    <2>2. CASE b = L + 1
      BY <1>8, <2>2
    <2> QED BY <1>2, <2>1, <2>2
  <1>10. off \in [1..(L + 1) -> Nat]
    BY <1>4, <1>9, Zenon
  <1>11. \A b \in 1..L : off[b + 1] = off[b] + Len(bs[b])
    BY <1>4, <1>7 DEF RowOf
  <1>12. /\ \A b \in 1..L : \A j \in 1..Len(bs[b]) :
              off[b] + j <= Len(f[L]) /\ f[L][off[b] + j] = bs[b][j]
         /\ \A k \in 1..Len(f[L]) : \E b \in 1..L : \E j \in 1..Len(bs[b]) : k = off[b] + j
    BY <1>4, <1>7 DEF RowOf
  <1>13. IsOffset(off, bs)
    <2> DEFINE r == FlattenSeq(bs)
    <2>1. r = f[L] /\ Len(r) = off[L + 1]
      BY <1>8
    <2> HIDE DEF r
    <2>2. /\ \A b \in 1..L : \A j \in 1..Len(bs[b]) :
               off[b] + j <= Len(r) /\ r[off[b] + j] = bs[b][j]
          /\ \A k \in 1..Len(r) : \E b \in 1..L : \E j \in 1..Len(bs[b]) : k = off[b] + j
      BY <1>12, <2>1
    <2> QED BY <1>4, <1>10, <1>11, <2>1, <2>2, Zenon DEF IsOffset, L, r
  <1> QED BY <1>8, <1>13
\* The offsets grow by whole batches.
LEMMA OffsetsGrow ==
  ASSUME NEW bs \in Seq(Seq(Machine)), NEW off, IsOffset(off, bs),
         NEW b \in 1..Len(bs), NEW c \in 1..Len(bs), b < c
  PROVE  off[b] + Len(bs[b]) <= off[c]
  <1> DEFINE Bad == {n \in 1..Len(bs) : b < n /\ ~(off[b + 1] <= off[n])}
  <1>0. Len(bs) \in Nat /\ \A n \in 1..Len(bs) : bs[n] \in Seq(Machine)
    OBVIOUS
  <1>1. /\ \A n \in 1..(Len(bs) + 1) : off[n] \in Nat
        /\ \A n \in 1..Len(bs) : off[n + 1] = off[n] + Len(bs[n]) /\ Len(bs[n]) \in Nat
    <2>1. off \in [1..(Len(bs) + 1) -> Nat]
      BY DEF IsOffset
    <2>2. \A n \in 1..Len(bs) : off[n + 1] = off[n] + Len(bs[n])
      BY DEF IsOffset
    <2>3. \A n \in 1..Len(bs) : Len(bs[n]) \in Nat
      BY <1>0
    <2> QED BY <2>1, <2>2, <2>3
  <1>2. Bad = {}
    <2> SUFFICES ASSUME Bad # {} PROVE FALSE
      OBVIOUS
    <2>1. PICK n \in Bad : \A y \in Bad : n <= y
      <3>1. Bad \subseteq Nat
        BY <1>0
      <3> HIDE DEF Bad
      <3> QED BY <3>1, LeastNumber
    <2>2. n \in 1..Len(bs) /\ b < n /\ ~(off[b + 1] <= off[n])
      OBVIOUS
    <2>3. off[b + 1] \in Nat
      BY <1>0, <1>1
    <2>4. n # b + 1
      BY <2>2, <2>3
    <2>5. n - 1 \in 1..Len(bs) /\ b < n - 1 /\ ~(n <= n - 1) /\ (n - 1) + 1 = n
      BY <1>0, <2>2, <2>4
    <2>6. n - 1 \notin Bad
      <3> HIDE DEF Bad
      <3> QED BY <2>1, <2>5
    <2>7. off[b + 1] <= off[n - 1]
      BY <2>5, <2>6
    <2>8. off[n] = off[n - 1] + Len(bs[n - 1]) /\ Len(bs[n - 1]) \in Nat
      BY <1>1, <2>5
    <2>9. n - 1 \in 1..(Len(bs) + 1)
      BY <1>0, <2>5
    <2>10. off[n - 1] \in Nat
      BY <1>1, <2>9
    <2>11. off[b + 1] <= off[n]
      <3> HIDE DEF Bad
      <3> QED BY <2>3, <2>7, <2>8, <2>10
    <2> QED BY <2>2, <2>11
  <1>3. off[b + 1] <= off[c]
    BY <1>2
  <1> QED BY <1>1, <1>3

\* All machines are in the row, each once.
LEMMA FlattenAll ==
  ASSUME NEW bs, Divided(bs), Covers(bs, Machine)
  PROVE  /\ FlattenSeq(bs) \in Seq(Machine) /\ Len(FlattenSeq(bs)) = NumMachines
         /\ \E off : IsOffset(off, bs)
         /\ \A m \in Machine : \E k \in 1..NumMachines : FlattenSeq(bs)[k] = m
  <1>1. /\ bs \in Seq(Seq(Machine)) /\ Len(bs) \in Nat /\ DOMAIN bs = 1..Len(bs)
        /\ \A b \in 1..Len(bs) : bs[b] \in Seq(Machine) /\ DOMAIN bs[b] = 1..Len(bs[b])
    BY DEF Divided
  <1>2. /\ \A b, c \in 1..Len(bs) : \A j \in 1..Len(bs[b]), k \in 1..Len(bs[c]) :
              bs[b][j] = bs[c][k] => b = c /\ j = k
        /\ \A m \in Machine : \E b \in 1..Len(bs) : \E j \in 1..Len(bs[b]) : bs[b][j] = m
    <2>1. /\ \A b, c \in DOMAIN bs : \A j \in DOMAIN bs[b], k \in DOMAIN bs[c] :
               bs[b][j] = bs[c][k] => b = c /\ j = k
          /\ \A m \in Machine : \E b \in DOMAIN bs : \E j \in DOMAIN bs[b] : bs[b][j] = m
      BY DEF Divided, Covers
    <2>2. \A b \in DOMAIN bs : DOMAIN bs[b] = 1..Len(bs[b])
      BY <1>1
    <2>3. ASSUME NEW b \in 1..Len(bs), NEW c \in 1..Len(bs), NEW j \in 1..Len(bs[b]),
                 NEW k \in 1..Len(bs[c]), bs[b][j] = bs[c][k]
          PROVE  b = c /\ j = k
      <3>1. b \in DOMAIN bs /\ c \in DOMAIN bs /\ j \in DOMAIN bs[b] /\ k \in DOMAIN bs[c]
        BY <1>1
      <3>2. \A d \in DOMAIN bs : \A h \in DOMAIN bs[b], l \in DOMAIN bs[d] :
               bs[b][h] = bs[d][l] => b = d /\ h = l
        BY <2>1, <3>1
      <3>3. \A h \in DOMAIN bs[b], l \in DOMAIN bs[c] : bs[b][h] = bs[c][l] => b = c /\ h = l
        BY <3>1, <3>2
      <3> QED BY <2>3, <3>1, <3>3
    <2>4. ASSUME NEW m \in Machine
          PROVE  \E b \in 1..Len(bs) : \E j \in 1..Len(bs[b]) : bs[b][j] = m
      <3>1. PICK b \in DOMAIN bs : \E j \in DOMAIN bs[b] : bs[b][j] = m
        BY <2>1
      <3>2. b \in 1..Len(bs) /\ DOMAIN bs[b] = 1..Len(bs[b])
        BY <1>1, <2>2
      <3>3. \E j \in 1..Len(bs[b]) : bs[b][j] = m
        BY <3>1, <3>2
      <3> QED BY <3>2, <3>3
    <2> QED BY <2>3, <2>4, Zenon
  <1>3. Len(bs) > 0
    <2>1. 1 \in Machine
      BY DEF Machine
    <2> QED BY <1>1, <1>2, <2>1
  <1> DEFINE r == FlattenSeq(bs)
  <1>4. r \in Seq(Machine) /\ \E off : IsOffset(off, bs)
    BY <1>1, <1>3, FlattenOffset
  <1>5. PICK off : IsOffset(off, bs)
    BY <1>4
  <1>6. Len(r) \in Nat
    BY <1>4
  <1>7. \A b \in 1..Len(bs) : off[b] \in Nat
    <2>1. off \in [1..(Len(bs) + 1) -> Nat]
      BY <1>5 DEF IsOffset
    <2>2. \A b \in 1..Len(bs) : b \in 1..(Len(bs) + 1)
      BY <1>1
    <2> QED BY <2>1, <2>2
  <1>8. /\ \A b \in 1..Len(bs) : \A j \in 1..Len(bs[b]) :
              off[b] + j <= Len(r) /\ r[off[b] + j] = bs[b][j]
        /\ \A k \in 1..Len(r) : \E b \in 1..Len(bs) : \E j \in 1..Len(bs[b]) : k = off[b] + j
    BY <1>5, Zenon DEF IsOffset
  <1> HIDE DEF r
  <1>9. \A m \in Machine : \E k \in 1..Len(r) : r[k] = m
    <2> TAKE m \in Machine
    <2>1. PICK b \in 1..Len(bs) : \E j \in 1..Len(bs[b]) : bs[b][j] = m
      BY <1>2
    <2>2. PICK j \in 1..Len(bs[b]) : bs[b][j] = m
      BY <2>1
    <2>3. off[b] \in Nat /\ off[b] + j <= Len(r) /\ r[off[b] + j] = m
      BY <1>8, <1>7, <2>2
    <2>4. j \in Nat /\ j >= 1
      OBVIOUS
    <2>5. off[b] + j \in 1..Len(r)
      BY <1>6, <2>3, <2>4
    <2> QED BY <2>3, <2>5
  <1>10. \A k, l \in 1..Len(r) : r[k] = r[l] => k = l
    <2> SUFFICES ASSUME NEW k \in 1..Len(r), NEW l \in 1..Len(r), r[k] = r[l] PROVE k = l
      OBVIOUS
    <2>1. PICK b \in 1..Len(bs) : \E j \in 1..Len(bs[b]) : k = off[b] + j
      BY <1>8
    <2>2. PICK j \in 1..Len(bs[b]) : k = off[b] + j
      BY <2>1
    <2>3. PICK c \in 1..Len(bs) : \E h \in 1..Len(bs[c]) : l = off[c] + h
      BY <1>8
    <2>4. PICK h \in 1..Len(bs[c]) : l = off[c] + h
      BY <2>3
    <2>5. bs[b][j] = bs[c][h]
      BY <1>8, <2>2, <2>4
    <2>6. b = c /\ j = h
      <3>1. \A d \in 1..Len(bs) : \A x \in 1..Len(bs[b]), y \in 1..Len(bs[d]) :
               bs[b][x] = bs[d][y] => b = d /\ x = y
        BY <1>2
      <3>2. \A x \in 1..Len(bs[b]), y \in 1..Len(bs[c]) : bs[b][x] = bs[c][y] => b = c /\ x = y
        BY <3>1
      <3> QED BY <2>5, <3>2
    <2> QED BY <2>2, <2>4, <2>6
  <1>11. Len(r) = NumMachines
    <2>1. r \in [1..Len(r) -> Machine]
      BY <1>4, Zenon, LenProperties DEF r
    <2>2. r \in Bijection(1..Len(r), Machine)
      BY <1>9, <1>10, <2>1 DEF Bijection, Injection, Surjection, IsInjective
    <2>3. /\ IsFiniteSet(1..Len(r)) /\ Cardinality(1..Len(r)) = Len(r)
          /\ Cardinality(Machine) = NumMachines
      <3>1. 1 \in Int /\ Len(r) \in Int /\ NumMachines \in Int
        BY <1>6
      <3>2. ~(1 > Len(r)) /\ ~(1 > NumMachines)
        <4>1. 1 \in Machine
          BY DEF Machine
        <4> QED BY <1>6, <1>9, <4>1
      <3>3. Len(r) - 1 + 1 = Len(r) /\ NumMachines - 1 + 1 = NumMachines
        BY <1>6
      <3>4. IsFiniteSet(1..Len(r)) /\ Cardinality(1..Len(r)) = Len(r) - 1 + 1
        BY <3>1, <3>2, FS_Interval, Zenon
      <3>5. Cardinality(1..NumMachines) = NumMachines - 1 + 1
        BY <3>1, <3>2, FS_Interval, Zenon
      <3> QED BY <3>3, <3>4, <3>5 DEF Machine
    <2>4. Cardinality(Machine) = Cardinality(1..Len(r))
      BY <2>2, <2>3, FS_Bijection, Zenon DEF ExistsBijection
    <2> QED BY <2>3, <2>4
  <1> QED BY <1>4, <1>9, <1>11 DEF r

----------------------------------------------------------------------------
(* The shape of a run: its types, its position and its verdict. *)

ServePhases == {"send", "register", "delete", "put"}
Position == [b : Nat, j : Nat, i : Intent]
Place == {p \in Position : p.b \in DOMAIN batches /\ p.j \in DOMAIN batches[p.b]}
Who(p) == batches[p.b][p.j]
Why == {"success", "mismatch", "exhausted", "refused", "noRollbackPoint", "reRegister"}
Result == [m : Machine, i : Intent, node : NodeId \cup {NoNode}, outcome : {"N1", "N3"},
           why : Why]

Typed ==
    /\ registry \in [NodeId -> [box : Machine \cup {0}, cap : {"btrfs", "none"}]]
    /\ agent \in [Machine -> [id : NodeId, cap : Capability, known : BOOLEAN]]
    /\ plan \in PlanOf(Strategies, Sizes, Classes, Levels)
    /\ phase \in {"idle", "open", "ended"} \cup ServePhases
    /\ target \in AnyTarget /\ fresh \in AnyTarget
    /\ retries \in 0..RetryMax /\ again \in BOOLEAN
    /\ results \in Seq(Result)
    /\ effects \in [Machine -> [Intent -> Nat]]

\* A run under way, or over, holds the row each of its machines had, and is at a
\* place in the batches of these machines.
Placed ==
    phase # "idle" =>
      /\ Divided(batches) /\ Covers(batches, DOMAIN nodes)
      /\ DOMAIN nodes \subseteq Machine /\ nodes \in [DOMAIN nodes -> AnyTarget]
      /\ \A m \in DOMAIN nodes : nodes[m].id = m /\ nodes[m].box = m
      /\ at \in Place

\* What is sent goes to the machine being served.
Serving == phase \in ServePhases => target.box = Here

\* A run that is over says why.
Verdict ==
    /\ phase = "idle" => status = "none"
    /\ phase \in {"open"} \cup ServePhases => status = "running"
    /\ phase = "ended" => status \in {"complete", "dirty"}
    /\ status # "dirty" => stopped = 0
    /\ status = "complete" => Step(at).b > Len(batches)
    /\ status = "dirty" =>
         /\ results # <<>>
         /\ results[Len(results)].outcome = "N3" /\ results[Len(results)].m = Here
         /\ stopped = IF at.b < Len(batches) THEN at.b + 1 ELSE 0

Shape == Typed /\ Placed /\ Serving /\ Verdict

(* The rows of nodes.jsonl. *)

\* An id a machine may have got after the plan was made.
Later(id, m) == id > NumMachines /\ agent[m].id > NumMachines

\* A number of the plan is the id of no machine but its own, in what an agent
\* says of itself and in the registry; a row under a later id is of a machine
\* that has given up its first.
Owned ==
    /\ \A m \in Machine : agent[m].id = m \/ agent[m].id > NumMachines
    /\ \A id \in NodeId :
          /\ registry[id].box = 0 => registry[id] = NoRow
          /\ registry[id].box # 0 =>
               id = registry[id].box \/ Later(id, registry[id].box)

OneRow == \A k, id \in NodeId : registry[k].box # 0 /\ registry[k].box = registry[id].box => k = id

\* A re-registration takes away the row of the first id before it puts another.
Rejoining ==
    /\ phase = "send" /\ ~again => target.id = Here
    /\ phase \in {"register", "delete", "put"} => target.id = Here /\ again
    /\ phase \in {"delete", "put"} =>
         /\ fresh.box = Here
         /\ fresh.id \in NodeId /\ fresh.cap \in {"btrfs", "none"}
         /\ fresh.id = Here \/ Later(fresh.id, Here)
    /\ phase = "put" => RowsOf(Here) \subseteq {fresh.id}

Rows == Owned /\ OneRow /\ Rejoining

(* What the agents have done. *)

Before(p, q) ==
    \/ p.b < q.b
    \/ p.b = q.b /\ p.j < q.j
    \/ p.b = q.b /\ p.j = q.j /\ p.i < q.i

Budget(i) == IF High(i) THEN 0 ELSE RetryMax
Done(p) == effects[Who(p)][p.i]

\* Machines and intents are served in their order: what lies behind has been
\* applied within its budget, what lies ahead has not been touched.
Served ==
    /\ phase = "idle" => \A m \in Machine, i \in Intent : effects[m][i] = 0
    /\ phase # "idle" =>
         /\ \A p \in Place :
              /\ Before(p, at) => Done(p) > 0 /\ Done(p) <= 1 + Budget(p.i)
              /\ Before(at, p) => Done(p) = 0
         /\ Done(at) <= 1 + Budget(at.i)
         /\ phase = "open" => Done(at) = 0
         /\ phase \in ServePhases => Done(at) + retries <= Budget(at.i)
         /\ status = "complete" => Done(at) > 0

----------------------------------------------------------------------------
(* The loops of Run. *)

LEMMA PlaceTypes ==
  ASSUME Divided(batches), NEW p \in Place
  PROVE  /\ p = [b |-> p.b, j |-> p.j, i |-> p.i]
         /\ p.b \in 1..Len(batches) /\ p.j \in 1..Len(batches[p.b]) /\ p.i \in Intent
         /\ Len(batches) \in Nat /\ Len(batches[p.b]) \in Nat
         /\ p.b \in Nat /\ p.j \in Nat /\ p.i \in Nat
         /\ Who(p) \in Machine
  <1>1. p \in Position /\ p.b \in DOMAIN batches /\ p.j \in DOMAIN batches[p.b]
    BY DEF Place
  <1>2. p = [b |-> p.b, j |-> p.j, i |-> p.i] /\ p.b \in Nat /\ p.j \in Nat /\ p.i \in Intent
    BY <1>1 DEF Position
  <1>3. batches \in Seq(Seq(Machine))
    BY DEF Divided
  <1>4. DOMAIN batches = 1..Len(batches) /\ Len(batches) \in Nat
    BY <1>3
  <1>5. batches[p.b] \in Seq(Machine)
    BY <1>1, <1>3, <1>4
  <1>6. DOMAIN batches[p.b] = 1..Len(batches[p.b]) /\ Len(batches[p.b]) \in Nat
    BY <1>5
  <1>7. batches[p.b][p.j] \in Machine
    BY <1>1, <1>5, <1>6
  <1> QED BY <1>1, <1>2, <1>4, <1>6, <1>7 DEF Intent, Who

\* The next place, unless it is over.
LEMMA StepPlaced ==
  ASSUME Divided(batches), at \in Place
  PROVE  /\ Step(at).b > Len(batches) => at.b = Len(batches)
         /\ ~(Step(at).b > Len(batches)) => Step(at) \in Place
  <1> DEFINE inner == [at EXCEPT !.i = at.i + 1]
             middle == [b |-> at.b, j |-> at.j + 1, i |-> 1]
             outer == [b |-> at.b + 1, j |-> 1, i |-> 1]
  <1>1. /\ at.b \in 1..Len(batches) /\ at.j \in 1..Len(batches[at.b]) /\ at.i \in Intent
        /\ Len(batches) \in Nat /\ Len(batches[at.b]) \in Nat
        /\ at.b \in Nat /\ at.j \in Nat /\ at.i \in Nat
    BY PlaceTypes
  <1>2. at \in Position
    BY DEF Place
  <1>3. /\ inner.b = at.b /\ inner.j = at.j /\ inner.i = at.i + 1
        /\ middle.b = at.b /\ middle.j = at.j + 1 /\ middle.i = 1
        /\ outer.b = at.b + 1 /\ outer.j = 1 /\ outer.i = 1
    BY <1>2 DEF Position
  <1>4. batches \in Seq(Seq(Machine)) /\ \A b \in DOMAIN batches : batches[b] # <<>>
    BY DEF Divided
  <1>5. CASE at.i < NumIntents
    <2>1. Step(at) = inner
      BY <1>5 DEF Step
    <2>2. inner \in Position
      BY <1>1, <1>2, <1>5 DEF Position, Intent
    <2>3. inner \in Place
      BY <1>3, <2>2 DEF Place
    <2> QED BY <1>1, <1>3, <2>1, <2>3
  <1>6. CASE ~(at.i < NumIntents) /\ at.j < Len(batches[at.b])
    <2>1. Step(at) = middle
      BY <1>6 DEF Step
    <2>2. middle \in Position
      BY <1>1, <1>6 DEF Position, Intent
    <2>3. middle.j \in DOMAIN batches[at.b]
      BY <1>1, <1>3, <1>4, <1>6
    <2>4. middle \in Place
      BY <1>3, <2>2, <2>3 DEF Place
    <2> QED BY <1>1, <1>3, <2>1, <2>4
  <1>7. CASE ~(at.i < NumIntents) /\ ~(at.j < Len(batches[at.b]))
    <2>1. Step(at) = outer
      BY <1>7 DEF Step
    <2>2. outer \in Position
      BY <1>1 DEF Position, Intent
    <2>3. CASE at.b < Len(batches)
      <3>1. outer.b \in DOMAIN batches
        BY <1>1, <1>3, <1>4, <2>3
      <3>2. batches[outer.b] \in Seq(Machine) /\ batches[outer.b] # <<>>
        BY <1>4, <3>1
      <3>3. 1 \in DOMAIN batches[outer.b]
        BY <3>2
      <3>4. outer \in Place
        BY <1>3, <2>2, <3>1, <3>3 DEF Place
      <3> QED BY <1>1, <1>3, <2>1, <2>3, <3>4
    <2>4. CASE at.b = Len(batches)
      BY <1>1, <1>3, <2>1, <2>4
    <2> QED BY <1>1, <2>3, <2>4
  <1> QED BY <1>5, <1>6, <1>7

\* No place lies between a place and the next.
LEMMA StepOrder ==
  ASSUME Divided(batches), at \in Place, NEW p \in Place
  PROVE  /\ ~(Step(at).b > Len(batches)) => (Before(p, Step(at)) <=> Before(p, at) \/ p = at)
         /\ Step(at).b > Len(batches) => Before(p, at) \/ p = at
         /\ Before(Step(at), p) => Before(at, p)
         /\ p = Step(at) => Before(at, p)
         /\ Before(p, at) \/ p = at \/ Before(at, p)
         /\ ~Before(at, at)
  <1> DEFINE s == Step(at)
             N == Len(batches[at.b])
  <1>1. /\ at.b \in 1..Len(batches) /\ at.j \in 1..N /\ at.i \in 1..NumIntents
        /\ Len(batches) \in Nat /\ N \in Nat
        /\ at.b \in Nat /\ at.j \in Nat /\ at.i \in Nat
        /\ at = [b |-> at.b, j |-> at.j, i |-> at.i]
    BY PlaceTypes DEF Intent
  <1>2. /\ p.b \in 1..Len(batches) /\ p.i \in 1..NumIntents
        /\ p.b \in Nat /\ p.j \in Nat /\ p.i \in Nat /\ p.j >= 1
        /\ p = [b |-> p.b, j |-> p.j, i |-> p.i]
        /\ p.b = at.b => p.j <= N
    BY PlaceTypes DEF Intent
  <1>3. p = at <=> p.b = at.b /\ p.j = at.j /\ p.i = at.i
    BY <1>1, <1>2, Zenon
  <1>4. \/ at.i < NumIntents /\ s.b = at.b /\ s.j = at.j /\ s.i = at.i + 1
        \/ at.i = NumIntents /\ at.j < N /\ s.b = at.b /\ s.j = at.j + 1 /\ s.i = 1
        \/ at.i = NumIntents /\ at.j = N /\ s.b = at.b + 1 /\ s.j = 1 /\ s.i = 1
    <2>1. CASE at.i < NumIntents
      <3>1. s = [b |-> at.b, j |-> at.j, i |-> at.i + 1]
        BY <1>1, <2>1 DEF Step
      <3> QED BY <2>1, <3>1
    <2>2. CASE at.i = NumIntents /\ at.j < N
      <3>1. s = [b |-> at.b, j |-> at.j + 1, i |-> 1]
        BY <1>1, <2>2 DEF Step
      <3> QED BY <2>2, <3>1
    <2>3. CASE at.i = NumIntents /\ at.j = N
      <3>1. s = [b |-> at.b + 1, j |-> 1, i |-> 1]
        BY <1>1, <2>3 DEF Step
      <3> QED BY <2>3, <3>1
    <2> QED BY <1>1, <2>1, <2>2, <2>3
  <1>5. p = s => p.b = s.b /\ p.j = s.j /\ p.i = s.i
    OBVIOUS
  <1> HIDE DEF s, N
  <1>6. ~(s.b > Len(batches)) => (Before(p, s) <=> Before(p, at) \/ p = at)
    <2>1. CASE at.i < NumIntents /\ s.b = at.b /\ s.j = at.j /\ s.i = at.i + 1
      BY <1>1, <1>2, <1>3, <2>1 DEF Before
    <2>2. CASE at.i = NumIntents /\ at.j < N /\ s.b = at.b /\ s.j = at.j + 1 /\ s.i = 1
      BY <1>1, <1>2, <1>3, <2>2 DEF Before
    <2>3. CASE at.i = NumIntents /\ at.j = N /\ s.b = at.b + 1 /\ s.j = 1 /\ s.i = 1
      BY <1>1, <1>2, <1>3, <2>3 DEF Before
    <2> QED BY <1>4, <2>1, <2>2, <2>3
  <1>7. s.b > Len(batches) => Before(p, at) \/ p = at
    BY <1>1, <1>2, <1>3, <1>4 DEF Before
  <1>8. Before(s, p) => Before(at, p)
    BY <1>1, <1>2, <1>4 DEF Before
  <1>9. p = s => Before(at, p)
    BY <1>1, <1>2, <1>4, <1>5 DEF Before
  <1>10. Before(p, at) \/ p = at \/ Before(at, p)
    BY <1>1, <1>2, <1>3 DEF Before
  <1>11. ~Before(at, at)
    BY <1>1 DEF Before
  <1> QED BY <1>6, <1>7, <1>8, <1>9, <1>10, <1>11 DEF s

----------------------------------------------------------------------------
(* Every step keeps the shape. *)

Busy == phase \in {"open"} \cup ServePhases

LEMMA HereTypes ==
  ASSUME Shape, phase # "idle"
  PROVE  /\ Divided(batches) /\ at \in Place /\ Here = Who(at)
         /\ Here \in Machine /\ Here \in DOMAIN nodes
         /\ at.i \in Intent
         /\ nodes[Here] \in AnyTarget /\ nodes[Here].id = Here /\ nodes[Here].box = Here
  <1>1. /\ Divided(batches) /\ at \in Place /\ Covers(batches, DOMAIN nodes)
        /\ nodes \in [DOMAIN nodes -> AnyTarget]
        /\ \A m \in DOMAIN nodes : nodes[m].id = m /\ nodes[m].box = m
    BY DEF Shape, Placed
  <1>2. Here = Who(at)
    BY DEF Here, Who
  <1>3. Here \in DOMAIN nodes
    BY <1>1 DEF Here, Place, Covers
  <1> QED BY <1>1, <1>2, <1>3, PlaceTypes

\* Where the present pair is concluded.
LEMMA ConcludeShape ==
  ASSUME Shape, Busy, NEW outcome \in {"N1", "N3"}, NEW why \in Why,
         Conclude(outcome, why), target' \in AnyTarget, UNCHANGED <<batches, nodes>>
  PROVE  /\ phase' \in {"open", "ended"} /\ results' \in Seq(Result)
         /\ Placed' /\ Serving' /\ Verdict'
  <1>1. phase # "idle" /\ status = "running" /\ stopped = 0
    BY DEF Busy, ServePhases, Shape, Verdict
  <1>2. Divided(batches) /\ at \in Place /\ Here \in Machine /\ at.i \in Intent
    BY <1>1, HereTypes DEF Shape, Placed
  <1> DEFINE result == [m |-> Here, i |-> at.i, node |-> target'.id, outcome |-> outcome, why |-> why]
  <1>3. result \in Result
    BY <1>2 DEF Result, AnyTarget
  <1>4. results \in Seq(Result) /\ results' = Append(results, result)
    BY DEF Shape, Typed, Conclude
  <1> HIDE DEF result
  <1>5. /\ results' \in Seq(Result) /\ results' # <<>>
        /\ results'[Len(results')] = result
    BY <1>3, <1>4
  <1>6. result.m = Here /\ result.outcome = outcome
    BY DEF result
  <1>7. \/ /\ outcome = "N3" /\ phase' = "ended" /\ status' = "dirty" /\ at' = at
           /\ stopped' = IF at.b < Len(batches) THEN at.b + 1 ELSE 0
        \/ /\ Step(at).b > Len(batches) /\ at' = at /\ phase' = "ended" /\ status' = "complete"
           /\ stopped' = 0
        \/ /\ ~(Step(at).b > Len(batches)) /\ at' = Step(at) /\ phase' = "open"
           /\ status' = "running" /\ stopped' = 0
    BY <1>1 DEF Conclude
  <1>8. at' \in Place
    BY <1>2, <1>7, StepPlaced
  <1>9. Placed'
    <2>1. Place' = Place
      BY DEF Place
    <2> QED BY <1>1, <1>8, <2>1 DEF Shape, Placed
  <1>10. Serving'
    BY <1>7 DEF Serving, ServePhases
  <1>11. Verdict'
    <2>1. CASE status' = "dirty"
      <3>1. /\ outcome = "N3" /\ phase' = "ended" /\ at' = at
            /\ stopped' = IF at.b < Len(batches) THEN at.b + 1 ELSE 0
        BY <1>7, <2>1
      <3>2. Here' = Here
        BY <3>1 DEF Here
      <3>3. results'[Len(results')].outcome = "N3" /\ results'[Len(results')].m = Here'
        BY <1>5, <1>6, <3>1, <3>2
      <3> QED BY <1>5, <2>1, <3>1, <3>3 DEF Verdict, ServePhases
    <2>2. CASE status' = "complete"
      <3>1. phase' = "ended" /\ at' = at /\ stopped' = 0 /\ Step(at).b > Len(batches)
        BY <1>7, <2>2
      <3>2. Step(at)' = Step(at)
        BY <3>1 DEF Step
      <3> QED BY <2>2, <3>1, <3>2 DEF Verdict, ServePhases
    <2>3. CASE status' = "running"
      BY <1>7, <2>3 DEF Verdict, ServePhases
    <2> QED BY <1>7, <2>1, <2>2, <2>3
  <1> QED BY <1>5, <1>7, <1>9, <1>10, <1>11

\* Where it is not.
LEMMA GoesOnShape ==
  ASSUME Shape, Busy, NEW ph \in ServePhases, GoesOn(ph), UNCHANGED <<batches, nodes>>,
         target' \in AnyTarget, target'.box = Here
  PROVE  /\ phase' \in ServePhases /\ results' \in Seq(Result)
         /\ Placed' /\ Serving' /\ Verdict'
  <1>1. /\ phase # "idle" /\ phase' = ph /\ ph \in ServePhases
        /\ UNCHANGED <<at, results, status, stopped>>
    BY DEF Busy, ServePhases, GoesOn
  <1>2. status = "running" /\ stopped = 0
    BY DEF Busy, ServePhases, Shape, Verdict
  <1>3. Here' = Here
    BY <1>1 DEF Here
  <1>4. Place' = Place /\ at' \in Place
    BY <1>1 DEF Place, Shape, Placed
  <1>5. Placed'
    BY <1>1, <1>4 DEF Shape, Placed
  <1>6. Serving'
    BY <1>3 DEF Serving
  <1>7. Verdict'
    BY <1>1, <1>2 DEF Verdict, ServePhases
  <1>8. results' \in Seq(Result)
    BY <1>1 DEF Shape, Typed
  <1> QED BY <1>1, <1>5, <1>6, <1>7, <1>8

LEMMA ShapeInit == Init => Shape
  <1> SUFFICES ASSUME Init PROVE Shape
    OBVIOUS
  <1> USE DEF Init
  <1>1. Machine \subseteq NodeId /\ 0 \notin Machine /\ NumMachines \in Nat
    BY DEF Machine, NodeId
  <1>2. PICK cap \in [Machine -> Capabilities] :
          /\ agent = [m \in Machine |-> [id |-> m, cap |-> cap[m], known |-> TRUE]]
          /\ registry = [id \in NodeId |->
                IF id \in Machine THEN [box |-> id, cap |-> Normalized(cap[id])] ELSE NoRow]
    OBVIOUS
  <1>3. agent \in [Machine -> [id : NodeId, cap : Capability, known : BOOLEAN]]
    BY <1>1, <1>2
  <1>4. registry \in [NodeId -> [box : Machine \cup {0}, cap : {"btrfs", "none"}]]
    <2>1. \A m \in Machine : Normalized(cap[m]) \in {"btrfs", "none"}
      BY <1>2 DEF Normalized, Capability
    <2> QED BY <1>2, <2>1 DEF NoRow
  <1>5. target \in AnyTarget /\ fresh \in AnyTarget
    BY DEF NoTarget, AnyTarget, NoNode, Capability
  <1>6. results \in Seq(Result) /\ retries \in 0..RetryMax /\ again \in BOOLEAN
    <2>1. results \in Seq(Result) /\ retries \in 0..RetryMax
      OBVIOUS
    <2>2. again \in BOOLEAN
      BY Zenon
    <2> QED BY <2>1, <2>2
  <1>7. effects \in [Machine -> [Intent -> Nat]]
    OBVIOUS
  <1>8. Typed
    BY <1>3, <1>4, <1>5, <1>6, <1>7 DEF Typed
  <1> QED BY <1>8 DEF Shape, Placed, Serving, Verdict, ServePhases

LEMMA RowTypes ==
  ASSUME Typed, NEW id \in NodeId
  PROVE  Target(id) \in AnyTarget /\ Target(id).id = id /\ Target(id).box = registry[id].box
  BY DEF Typed, Target, AnyTarget, Capability

LEMMA StartShape ==
  ASSUME Shape, Owned, NEW S, S \subseteq Machine, NEW ms, Lists(ms, S), ms # <<>>, StartRun(ms)
  PROVE  Shape' /\ DOMAIN nodes' = S
  <1> USE DEF StartRun
  <1>1. Machine \subseteq NodeId /\ NumMachines \in Nat /\ NumMachines > 0
    BY DEF Machine, NodeId
  <1>2. {ms[k] : k \in DOMAIN ms} = S
    <2>1. \A k \in DOMAIN ms : ms[k] \in S
      BY DEF Lists
    <2> QED BY <2>1 DEF Lists
  <1>3. Divided(batches') /\ Covers(batches', S)
    BY BatchesDivide DEF Shape, Typed
  <1>4. nodes' = [m \in S |-> Target(m)] /\ DOMAIN nodes' = S
    BY <1>2
  <1>5. \A m \in S : registry[m].box = m
    <2> TAKE m \in S
    <2>1. registry[m] # NoRow
      BY <1>2
    <2>2. m \in NodeId /\ ~(m > NumMachines)
      BY <1>1 DEF Machine
    <2> QED BY <2>1, <2>2 DEF Owned, Later
  <1>6. nodes' \in [S -> AnyTarget] /\ \A m \in S : nodes'[m].id = m /\ nodes'[m].box = m
    BY <1>1, <1>4, <1>5, RowTypes DEF Shape
  <1>7. at' \in Place'
    <2>1. /\ batches' \in Seq(Seq(Machine)) /\ batches' # <<>>
          /\ \A b \in DOMAIN batches' : batches'[b] # <<>>
      BY <1>3 DEF Divided
    <2>4. 1 \in DOMAIN batches'
      BY <2>1
    <2>5. batches'[1] \in Seq(Machine) /\ batches'[1] # <<>>
      BY <2>1, <2>4
    <2>6. 1 \in DOMAIN batches'[1]
      BY <2>5
    <2>7. at' \in Position /\ at'.b = 1 /\ at'.j = 1
      BY DEF Position, Intent
    <2> QED BY <2>4, <2>6, <2>7 DEF Place
  <1>8. Placed'
    BY <1>3, <1>4, <1>6, <1>7 DEF Placed
  <1>9. Typed'
    <2>1. target' \in AnyTarget /\ fresh' \in AnyTarget
      BY DEF NoTarget, AnyTarget, NoNode, Capability
    <2>2. results' \in Seq(Result) /\ retries' \in 0..RetryMax
      OBVIOUS
    <2>3. again' \in BOOLEAN
      BY Zenon
    <2>4. phase' \in {"idle", "open", "ended"} \cup ServePhases
      OBVIOUS
    <2> QED BY <2>1, <2>2, <2>3, <2>4 DEF Shape, Typed
  <1>10. Serving' /\ Verdict'
    BY DEF Serving, Verdict, ServePhases
  <1> QED BY <1>4, <1>8, <1>9, <1>10 DEF Shape

LEMMA OpenShape ==
  ASSUME Shape, Open \/ Refuse
  PROVE  Shape'
  <1>1. Busy /\ phase # "idle"
    BY DEF Open, Refuse, Busy, ServePhases
  <1>2. nodes[Here] \in AnyTarget /\ nodes[Here].box = Here
    BY <1>1, HereTypes
  <1>3. CASE Open
    <2> USE <1>3 DEF Open
    <2>1. "send" \in ServePhases /\ target' \in AnyTarget /\ target'.box = Here
      BY <1>2 DEF ServePhases
    <2>2. phase' \in ServePhases /\ results' \in Seq(Result) /\ Placed' /\ Serving' /\ Verdict'
      BY <1>1, <2>1, GoesOnShape
    <2>3. retries' \in 0..RetryMax
      OBVIOUS
    <2>4. again' \in BOOLEAN
      BY Zenon
    <2>5. Typed'
      BY <2>1, <2>2, <2>3, <2>4 DEF Shape, Typed
    <2> QED BY <2>2, <2>5 DEF Shape
  <1>4. CASE Refuse
    <2> USE <1>4 DEF Refuse
    <2>1. phase' \in {"open", "ended"} /\ results' \in Seq(Result) /\ Placed' /\ Serving' /\ Verdict'
      BY <1>1, <1>2, ConcludeShape DEF Why
    <2>2. Typed'
      BY <1>2, <2>1 DEF Shape, Typed
    <2> QED BY <2>1, <2>2 DEF Shape
  <1> QED BY <1>3, <1>4

\* The agent has acted once more.
Applied == [effects EXCEPT ![target.box][at.i] = @ + 1]

\* What a call leads to.
LEMMA DispatchCases ==
  ASSUME Dispatch
  PROVE  /\ phase = "send"
         /\ UNCHANGED <<registry, agent, plan, batches, nodes, fresh, target>>
         /\ effects' \in {effects, Applied}
         /\ \/ Conclude("N1", "success") /\ effects' = Applied /\ UNCHANGED <<retries, again>>
            \/ \E why \in {"mismatch", "exhausted", "refused"} :
                  Conclude("N3", why) /\ UNCHANGED <<retries, again>>
            \/ /\ GoesOn("register") /\ effects' = effects
               /\ ~again /\ again' = TRUE /\ retries' = retries
            \/ /\ GoesOn("send") /\ again' = again
               /\ retries > 0 /\ retries' = retries - 1
  <1> DEFINE Leads(answer, acted) ==
               /\ effects' = IF acted THEN [effects EXCEPT ![target.box][at.i] = @ + 1] ELSE effects
               /\ target' = target
               /\ LET bucket == Classify(answer)
                  IN  \/ /\ bucket = "N1"
                         /\ Conclude("N1", "success")
                         /\ UNCHANGED <<retries, again>>
                      \/ /\ bucket = "reRegister" /\ again
                         /\ Conclude("N3", "mismatch")
                         /\ UNCHANGED <<retries, again>>
                      \/ /\ bucket = "reRegister" /\ ~again
                         /\ again' = TRUE
                         /\ GoesOn("register")
                         /\ UNCHANGED retries
                      \/ /\ bucket = "N2" /\ retries > 0
                         /\ Retry
                         /\ UNCHANGED again
                      \/ /\ bucket = "N2" /\ retries = 0
                         /\ Conclude("N3", "exhausted")
                         /\ UNCHANGED <<retries, again>>
                      \/ /\ bucket = "N3"
                         /\ Conclude("N3", "refused")
                         /\ UNCHANGED <<retries, again>>
  <1>1. PICK answer \in Answers : \E acted \in Acted(answer) : Leads(answer, acted)
    BY Zenon DEF Dispatch
  <1>2. PICK acted \in Acted(answer) : Leads(answer, acted)
    BY <1>1
  <1>3. UNCHANGED <<registry, agent, plan, batches, nodes, fresh>> /\ phase = "send"
    BY DEF Dispatch
  <1>4. acted \in BOOLEAN
    BY DEF Acted
  <1>5. /\ Classify(answer) = "N1" => acted = TRUE
        /\ Classify(answer) = "reRegister" => acted = FALSE
    <2>1. answer \in {"success", "transient", "lost", "refused", "mismatch"}
      BY DEF Answers
    <2> QED BY <2>1 DEF Classify, Acted
  <1>6. effects' \in {effects, Applied} /\ target' = target
    BY <1>2, <1>4 DEF Applied
  <1>7. /\ Classify(answer) = "N1" => effects' = Applied
        /\ Classify(answer) = "reRegister" => effects' = effects
    BY <1>2, <1>5 DEF Applied
  <1>8. \/ Conclude("N1", "success") /\ effects' = Applied /\ UNCHANGED <<retries, again>>
        \/ \E why \in {"mismatch", "exhausted", "refused"} :
              Conclude("N3", why) /\ UNCHANGED <<retries, again>>
        \/ /\ GoesOn("register") /\ effects' = effects
           /\ ~again /\ again' = TRUE /\ retries' = retries
        \/ /\ GoesOn("send") /\ again' = again
           /\ retries > 0 /\ retries' = retries - 1
    BY <1>2, <1>7, Zenon DEF Retry
  <1> QED BY <1>3, <1>6, <1>8

LEMMA DispatchShape ==
  ASSUME Shape, Dispatch
  PROVE  Shape'
  <1>1. Busy /\ phase # "idle" /\ phase = "send"
    BY DEF Dispatch, Busy, ServePhases
  <1>2. /\ Here \in Machine /\ at.i \in Intent /\ target.box = Here /\ target \in AnyTarget
        /\ RetryMax \in Nat /\ retries \in 0..RetryMax
    BY <1>1, HereTypes DEF Shape, Serving, ServePhases, Typed
  <1>3. \/ \E outcome \in {"N1", "N3"}, why \in Why :
             Conclude(outcome, why) /\ UNCHANGED <<retries, again>>
        \/ GoesOn("register") /\ again' = TRUE /\ retries' = retries
        \/ GoesOn("send") /\ retries > 0 /\ retries' = retries - 1 /\ again' = again
    BY DispatchCases DEF Why
  <1>4. UNCHANGED <<registry, agent, plan, batches, nodes, fresh, target>>
        /\ effects' \in {effects, Applied}
    BY DispatchCases
  <1>5. effects' \in [Machine -> [Intent -> Nat]]
    <2>1. effects \in [Machine -> [Intent -> Nat]]
      BY DEF Shape, Typed
    <2>2. Applied \in [Machine -> [Intent -> Nat]]
      BY <1>2, <2>1 DEF Applied
    <2> QED BY <1>4, <2>1, <2>2
  <1>7. CASE \E outcome \in {"N1", "N3"}, why \in Why :
               Conclude(outcome, why) /\ UNCHANGED <<retries, again>>
    <2>1. phase' \in {"open", "ended"} /\ results' \in Seq(Result) /\ Placed' /\ Serving' /\ Verdict'
      BY <1>1, <1>2, <1>3, <1>4, <1>7, ConcludeShape
    <2>2. Typed'
      BY <1>2, <1>3, <1>4, <1>5, <1>7, <2>1 DEF Shape, Typed
    <2> QED BY <2>1, <2>2 DEF Shape
  <1>8. CASE GoesOn("register") /\ again' = TRUE /\ retries' = retries
    <2>1. phase' \in ServePhases /\ results' \in Seq(Result) /\ Placed' /\ Serving' /\ Verdict'
      BY <1>1, <1>2, <1>3, <1>4, <1>8, GoesOnShape DEF ServePhases
    <2>2. Typed'
      BY <1>2, <1>3, <1>4, <1>5, <1>8, <2>1 DEF Shape, Typed
    <2> QED BY <2>1, <2>2 DEF Shape
  <1>9. CASE GoesOn("send") /\ retries > 0 /\ retries' = retries - 1 /\ again' = again
    <2>1. phase' \in ServePhases /\ results' \in Seq(Result) /\ Placed' /\ Serving' /\ Verdict'
      BY <1>1, <1>2, <1>3, <1>4, <1>9, GoesOnShape DEF ServePhases
    <2>2. retries' \in 0..RetryMax
      BY <1>2, <1>9
    <2>3. Typed'
      BY <1>2, <1>3, <1>4, <1>5, <1>9, <2>1, <2>2 DEF Shape, Typed
    <2> QED BY <2>1, <2>3 DEF Shape
  <1> QED BY <1>3, <1>7, <1>8, <1>9

LEMMA RegisterShape ==
  ASSUME Shape, Register
  PROVE  /\ Shape' /\ phase = "register" /\ Here' = Here
         /\ phase' = (IF agent[Here].id # target.id THEN "delete" ELSE "put")
         /\ fresh'.id = agent[Here].id /\ fresh'.box = Here /\ fresh'.cap \in {"btrfs", "none"}
         /\ \A m \in Machine : agent'[m].id = agent[m].id
         /\ UNCHANGED <<registry, target, again>>
  <1> USE DEF Register
  <1>1. Busy /\ phase = "register" /\ phase # "idle" /\ phase \in ServePhases
    BY DEF Busy, ServePhases
  <1>2. /\ Here \in Machine /\ target.box = Here /\ target \in AnyTarget
        /\ agent \in [Machine -> [id : NodeId, cap : Capability, known : BOOLEAN]]
    BY <1>1, HereTypes DEF Shape, Serving, Typed
  <1>3. /\ agent' \in [Machine -> [id : NodeId, cap : Capability, known : BOOLEAN]]
        /\ \A m \in Machine : agent'[m].id = agent[m].id
    BY <1>2
  <1>4. agent[Here] \in [id : NodeId, cap : Capability, known : BOOLEAN]
    BY <1>2
  <1>5. Normalized(agent[Here].cap) \in {"btrfs", "none"}
    BY <1>4 DEF Normalized, Capability
  <1>6. /\ fresh' \in AnyTarget
        /\ fresh'.id = agent[Here].id /\ fresh'.box = Here /\ fresh'.cap \in {"btrfs", "none"}
    BY <1>2, <1>4, <1>5 DEF AnyTarget, Capability
  <1> DEFINE ph == IF agent[Here].id # target.id THEN "delete" ELSE "put"
  <1>7. ph \in ServePhases /\ GoesOn(ph)
    BY <1>6 DEF ServePhases
  <1> HIDE DEF ph
  <1>8. phase' \in ServePhases /\ results' \in Seq(Result) /\ Placed' /\ Serving' /\ Verdict'
    BY <1>1, <1>2, <1>7, GoesOnShape
  <1>9. Typed'
    BY <1>3, <1>6, <1>8 DEF Shape, Typed
  <1>10. phase' = ph /\ Here' = Here
    BY <1>7 DEF GoesOn, Here
  <1> QED BY <1>1, <1>3, <1>6, <1>8, <1>9, <1>10 DEF Shape, ph

LEMMA DeleteShape ==
  ASSUME Shape, Delete
  PROVE  Shape' /\ Here' = Here /\ phase' = "put"
  <1> USE DEF Delete
  <1>1. Busy /\ phase # "idle" /\ phase \in ServePhases /\ "put" \in ServePhases
    BY DEF Busy, ServePhases
  <1>2. target.box = Here /\ target \in AnyTarget
    BY <1>1 DEF Shape, Serving, Typed
  <1>3. phase' \in ServePhases /\ results' \in Seq(Result) /\ Placed' /\ Serving' /\ Verdict'
    BY <1>1, <1>2, GoesOnShape
  <1>4. registry' \in [NodeId -> [box : Machine \cup {0}, cap : {"btrfs", "none"}]]
    BY DEF Shape, Typed, NoRow
  <1>5. Typed'
    BY <1>3, <1>4 DEF Shape, Typed
  <1> QED BY <1>3, <1>5 DEF Shape, GoesOn, Here

LEMMA PutShape ==
  ASSUME Shape, Rejoining, Put
  PROVE  Shape' /\ Here' = Here /\ phase' = "send"
  <1> USE DEF Put
  <1>1. Busy /\ phase # "idle" /\ phase \in ServePhases /\ "send" \in ServePhases
    BY DEF Busy, ServePhases
  <1>2. /\ fresh.box = Here /\ fresh \in AnyTarget /\ Here \in Machine
        /\ fresh.id \in NodeId /\ fresh.cap \in {"btrfs", "none"}
    BY <1>1, HereTypes DEF Shape, Typed, Rejoining
  <1>3. phase' \in ServePhases /\ results' \in Seq(Result) /\ Placed' /\ Serving' /\ Verdict'
    BY <1>1, <1>2, GoesOnShape
  <1>4. registry' \in [NodeId -> [box : Machine \cup {0}, cap : {"btrfs", "none"}]]
    BY <1>2 DEF Shape, Typed
  <1>5. Typed'
    BY <1>2, <1>3, <1>4 DEF Shape, Typed
  <1> QED BY <1>3, <1>5 DEF Shape, GoesOn, Here

LEMMA FailsShape ==
  ASSUME Shape, ReRegisterFails
  PROVE  /\ Shape' /\ phase' \in {"open", "ended"}
         /\ \A m \in Machine : agent'[m].id = agent[m].id
         /\ UNCHANGED registry
  <1> USE DEF ReRegisterFails
  <1>1. Busy /\ phase # "idle" /\ phase \in ServePhases
    BY DEF Busy, ServePhases
  <1>2. /\ Here \in Machine /\ target.box = Here /\ target \in AnyTarget
        /\ agent \in [Machine -> [id : NodeId, cap : Capability, known : BOOLEAN]]
    BY <1>1, HereTypes DEF Shape, Serving, Typed
  <1>3. /\ phase' \in {"open", "ended"} /\ results' \in Seq(Result)
        /\ Placed' /\ Serving' /\ Verdict'
    BY <1>1, <1>2, ConcludeShape DEF Why
  <1>4. /\ agent' \in [Machine -> [id : NodeId, cap : Capability, known : BOOLEAN]]
        /\ \A m \in Machine : agent'[m].id = agent[m].id
    <2>1. CASE agent' = agent
      BY <1>2, <2>1
    <2>2. ASSUME NEW taken \in BOOLEAN,
                 agent' = [agent EXCEPT ![target.box].known = @ \/ taken]
          PROVE  /\ agent' \in [Machine -> [id : NodeId, cap : Capability, known : BOOLEAN]]
                 /\ \A m \in Machine : agent'[m].id = agent[m].id
      <3>1. (agent[Here].known \/ taken) \in BOOLEAN
        OBVIOUS
      <3> DEFINE known == agent[Here].known \/ taken
      <3>2. agent' = [agent EXCEPT ![Here].known = known]
        BY <1>2, <2>2
      <3> HIDE DEF known
      <3> QED BY <1>2, <3>1, <3>2 DEF known
    <2> QED BY <2>1, <2>2
  <1>5. Typed'
    BY <1>2, <1>3, <1>4 DEF Shape, Typed
  <1> QED BY <1>3, <1>4, <1>5 DEF Shape

\* A new node id is one no machine had.
LEMMA NewId ==
  ASSUME Typed
  PROVE  Max(Ids) \in Nat /\ \A id \in Ids : id <= Max(Ids)
  <1> DEFINE B == NumMachines + MaxRotations
             Gaps == {B - id : id \in Ids}
  <1>1. Ids \subseteq 1..B /\ B \in Nat /\ NumMachines \in Ids
    <2>1. NodeId = 1..B /\ B \in Nat /\ NumMachines \in 1..B
      BY DEF NodeId
    <2>2. \A m \in Machine : agent[m].id \in NodeId
      BY DEF Typed
    <2> HIDE DEF B
    <2> QED BY <2>1, <2>2 DEF Ids
  <1>2. Gaps \subseteq Nat /\ Gaps # {}
    BY <1>1
  <1>3. PICK gap \in Gaps : \A other \in Gaps : gap <= other
    <2> HIDE DEF Gaps
    <2> QED BY <1>2, LeastNumber
  <1>4. \E x \in Ids : \A y \in Ids : x >= y
    <2>1. PICK x \in Ids : gap = B - x
      BY <1>3
    <2>2. \A y \in Ids : B - y \in Gaps
      OBVIOUS
    <2>3. \A y \in Ids : B - x <= B - y
      BY <1>3, <2>1, <2>2
    <2> QED BY <1>1, <2>1, <2>3
  <1> DEFINE top == Max(Ids)
  <1>5. top \in Ids /\ \A y \in Ids : top >= y
    BY <1>4, Zenon DEF Max
  <1> HIDE DEF top
  <1>6. top \in Nat /\ \A id \in Ids : id <= top
    BY <1>1, <1>5
  <1> QED BY <1>6 DEF top

LEMMA RotateShape ==
  ASSUME Shape, NEW m \in Machine, Rotate(m)
  PROVE  /\ Shape' /\ UNCHANGED <<registry, run>> /\ Here' = Here
         /\ agent'[m].id > NumMachines
         /\ \A n \in Machine \ {m} : agent'[n] = agent[n]
  <1> USE DEF Rotate
  <1>1. Typed
    BY DEF Shape
  <1>2. Max(Ids) + 1 > NumMachines
    <2>1. NumMachines \in Ids
      BY DEF Ids
    <2> DEFINE top == Max(Ids)
    <2>2. top \in Nat /\ \A id \in Ids : id <= top
      BY <1>1, NewId
    <2> HIDE DEF top
    <2>3. top + 1 > NumMachines
      BY <2>1, <2>2
    <2> QED BY <2>3 DEF top
  <1>3. PICK cap \in Capabilities :
          agent' = [agent EXCEPT ![m] = [id |-> Max(Ids) + 1, cap |-> cap, known |-> FALSE]]
    OBVIOUS
  <1> DEFINE anew == [id |-> Max(Ids) + 1, cap |-> cap, known |-> FALSE]
  <1>4. anew \in [id : NodeId, cap : Capability, known : BOOLEAN] /\ anew.id > NumMachines
    BY <1>2
  <1> HIDE DEF anew
  <1>5. agent' = [agent EXCEPT ![m] = anew]
    BY <1>3 DEF anew
  <1>6. /\ agent' \in [Machine -> [id : NodeId, cap : Capability, known : BOOLEAN]]
        /\ agent'[m].id > NumMachines
        /\ \A n \in Machine \ {m} : agent'[n] = agent[n]
    BY <1>1, <1>4, <1>5 DEF Typed
  <1>7. UNCHANGED <<phase, batches, nodes, at, target, fresh, retries, again, results,
                    status, stopped, registry, plan, effects>>
    BY DEF run
  <1>8. Typed'
    BY <1>1, <1>6, <1>7 DEF Typed
  <1>9. Here' = Here /\ Step(at)' = Step(at) /\ Place' = Place
    BY <1>7 DEF Here, Step, Place
  <1>10. Placed'
    BY <1>7, <1>9 DEF Shape, Placed
  <1>11. Serving' /\ Verdict'
    BY <1>7, <1>9 DEF Shape, Serving, Verdict
  <1> QED BY <1>6, <1>7, <1>8, <1>9, <1>10, <1>11 DEF Shape

LEMMA StillShape ==
  ASSUME Shape, Rows, UNCHANGED vars
  PROVE  Shape' /\ Rows'
  <1>1. UNCHANGED <<phase, batches, nodes, at, target, fresh, retries, again, results,
                    status, stopped, registry, agent, plan, effects>>
    BY DEF run, vars
  <1>2. Here' = Here /\ Step(at)' = Step(at) /\ Place' = Place
    BY <1>1 DEF Here, Step, Place
  <1>3. Typed'
    BY <1>1 DEF Shape, Typed
  <1>4. Placed'
    BY <1>1, <1>2 DEF Shape, Placed
  <1>5. Serving' /\ Verdict'
    BY <1>1, <1>2 DEF Shape, Serving, Verdict
  <1>6. Owned'
    BY <1>1 DEF Rows, Owned, Later
  <1>7. OneRow'
    BY <1>1 DEF Rows, OneRow
  <1>8. Rejoining'
    BY <1>1, <1>2 DEF Rows, Rejoining, Later, RowsOf
  <1> QED BY <1>3, <1>4, <1>5, <1>6, <1>7, <1>8 DEF Shape, Rows

----------------------------------------------------------------------------
(* Every step keeps the rows. *)

LEMMA RowsInit == Init => Rows
  <1> SUFFICES ASSUME Init PROVE Rows
    OBVIOUS
  <1>1. Machine \subseteq NodeId /\ 0 \notin Machine
    BY DEF Machine, NodeId
  <1>2. phase = "idle"
    BY DEF Init
  <1>3. PICK cap \in [Machine -> Capabilities] :
          /\ agent = [m \in Machine |-> [id |-> m, cap |-> cap[m], known |-> TRUE]]
          /\ registry = [id \in NodeId |->
                IF id \in Machine THEN [box |-> id, cap |-> Normalized(cap[id])] ELSE NoRow]
    BY DEF Init
  <1>4. \A m \in Machine : agent[m].id = m
    BY <1>3
  <1>5. \A id \in NodeId : registry[id] = NoRow \/ (registry[id].box = id /\ id # 0)
    BY <1>1, <1>3
  <1>6. NoRow.box = 0
    BY DEF NoRow
  <1>7. Owned
    BY <1>4, <1>5, <1>6 DEF Owned
  <1>8. OneRow
    BY <1>5, <1>6 DEF OneRow
  <1>9. Rejoining
    BY <1>2 DEF Rejoining
  <1> QED BY <1>7, <1>8, <1>9 DEF Rows

\* Where neither a row nor an id changes.
LEMMA SameRows ==
  ASSUME Rows, UNCHANGED registry, \A m \in Machine : agent'[m].id = agent[m].id, Shape
  PROVE  Owned' /\ OneRow'
  <1>1. \A id \in NodeId : registry[id].box \in Machine \cup {0}
    BY DEF Shape, Typed
  <1>2. Owned'
    BY <1>1 DEF Rows, Owned, Later
  <1>3. OneRow'
    BY DEF Rows, OneRow
  <1> QED BY <1>2, <1>3

\* The start of a run with any of the machines.
LEMMA RowsStart ==
  ASSUME Shape, Rows, NEW S, S \subseteq Machine, NEW ms, Lists(ms, S), ms # <<>>, StartRun(ms)
  PROVE  Shape' /\ Rows' /\ DOMAIN nodes' = S
  <1>1. Shape' /\ DOMAIN nodes' = S
    BY StartShape DEF Rows
  <1>2. UNCHANGED <<registry, agent>> /\ phase' = "open"
    BY DEF StartRun
  <1>3. Owned' /\ OneRow'
    BY <1>2, SameRows
  <1>4. Rejoining'
    BY <1>2 DEF Rejoining
  <1> QED BY <1>1, <1>3, <1>4 DEF Rows

LEMMA EveryoneStarts == Lists(Everyone, Machine) /\ Everyone # <<>>
  <1>1. 1 \in Machine
    BY DEF Machine
  <1>2. Everyone # <<>>
    BY <1>1, EveryoneLists DEF Lists
  <1> QED BY <1>2, EveryoneLists

\* Nothing but the start of a run chooses its machines.
LEMMA RunGoesOn ==
  ASSUME Shape, Scheduling \/ \E m \in Machine : Rotate(m)
  PROVE  /\ UNCHANGED <<batches, nodes>>
         /\ phase = "idle" <=> phase' = "idle"
         /\ Scheduling => phase # "idle"
  <1>1. CASE Scheduling
    <2>1. UNCHANGED <<batches, nodes>> /\ phase # "idle"
      BY <1>1 DEF Scheduling, Refuse, Open, Dispatch, Register, Delete, Put, ReRegisterFails
    <2>2. (\E outcome, why : Conclude(outcome, why)) \/ \E ph \in ServePhases : GoesOn(ph)
      <3>1. CASE Refuse
        BY <3>1 DEF Refuse
      <3>2. CASE Open
        BY <3>2 DEF Open, ServePhases
      <3>3. CASE Dispatch
        BY <3>3, DispatchCases DEF ServePhases
      <3>4. CASE Register
        <4>1. GoesOn("delete") \/ GoesOn("put")
          BY <3>4 DEF Register
        <4> QED BY <4>1 DEF ServePhases
      <3>5. CASE Delete
        BY <3>5 DEF Delete, ServePhases
      <3>6. CASE Put
        BY <3>6 DEF Put, ServePhases
      <3>7. CASE ReRegisterFails
        BY <3>7 DEF ReRegisterFails
      <3> QED BY <1>1, <3>1, <3>2, <3>3, <3>4, <3>5, <3>6, <3>7 DEF Scheduling
    <2>3. phase' # "idle"
      <3>1. CASE \E outcome, why : Conclude(outcome, why)
        BY <3>1 DEF Conclude
      <3>2. CASE \E ph \in ServePhases : GoesOn(ph)
        BY <3>2 DEF GoesOn, ServePhases
      <3> QED BY <2>2, <3>1, <3>2
    <2> QED BY <2>1, <2>3
  <1>2. CASE \E m \in Machine : Rotate(m)
    <2>1. UNCHANGED <<phase, batches, nodes>>
      BY <1>2 DEF Rotate, run
    <2>2. ~Scheduling \/ phase # "idle"
      BY DEF Scheduling, Refuse, Open, Dispatch, Register, Delete, Put, ReRegisterFails
    <2> QED BY <2>1, <2>2
  <1> QED BY <1>1, <1>2

LEMMA RowsStep ==
  ASSUME Shape, Rows, Scheduling \/ \E m \in Machine : Rotate(m)
  PROVE  Shape' /\ Rows'
  <1>2. CASE Refuse
    <2>1. Shape' /\ Busy
      BY <1>2, OpenShape DEF Refuse, Busy
    <2>2. UNCHANGED <<registry, agent>> /\ phase' \in {"open", "ended"}
      BY <1>2 DEF Refuse, Conclude
    <2>3. Owned' /\ OneRow'
      BY <2>2, SameRows
    <2>4. Rejoining'
      BY <2>2 DEF Rejoining
    <2> QED BY <2>1, <2>3, <2>4 DEF Rows
  <1>3. CASE Open
    <2>1. Shape'
      BY <1>3, OpenShape
    <2>2. /\ UNCHANGED <<registry, agent, batches, at>> /\ phase' = "send"
          /\ target' = nodes[Here] /\ phase # "idle"
      BY <1>3 DEF Open, GoesOn
    <2>3. Owned' /\ OneRow'
      BY <2>2, SameRows
    <2>4. target'.id = Here /\ Here' = Here
      BY <2>2, HereTypes DEF Here
    <2>5. Rejoining'
      BY <2>2, <2>4 DEF Rejoining
    <2> QED BY <2>1, <2>3, <2>5 DEF Rows
  <1>4. CASE Dispatch
    <2>1. Shape'
      BY <1>4, DispatchShape
    <2>2. UNCHANGED <<registry, agent, target, batches>> /\ phase = "send"
      BY <1>4, DispatchCases
    <2>3. Owned' /\ OneRow'
      BY <2>2, SameRows
    <2>4. \/ phase' \in {"open", "ended"}
          \/ phase' = "register" /\ ~again /\ again' = TRUE /\ at' = at
          \/ phase' = "send" /\ again' = again /\ at' = at
      BY <1>4, DispatchCases DEF Conclude, GoesOn
    <2>5. Rejoining'
      <3>1. CASE phase' \in {"open", "ended"}
        BY <3>1 DEF Rejoining
      <3>2. CASE phase' = "register" /\ ~again /\ again' = TRUE /\ at' = at
        <4>1. Here' = Here /\ target.id = Here
          BY <2>2, <3>2 DEF Here, Rows, Rejoining
        <4> QED BY <2>2, <3>2, <4>1 DEF Rejoining
      <3>3. CASE phase' = "send" /\ again' = again /\ at' = at
        <4>1. Here' = Here /\ (~again => target.id = Here)
          BY <2>2, <3>3 DEF Here, Rows, Rejoining
        <4> QED BY <2>2, <3>3, <4>1 DEF Rejoining
      <3> QED BY <2>4, <3>1, <3>2, <3>3
    <2> QED BY <2>1, <2>3, <2>5 DEF Rows
  <1>5. CASE Register
    <2>1. /\ Shape' /\ phase = "register" /\ Here' = Here
          /\ phase' = (IF agent[Here].id # target.id THEN "delete" ELSE "put")
          /\ fresh'.id = agent[Here].id /\ fresh'.box = Here /\ fresh'.cap \in {"btrfs", "none"}
          /\ \A m \in Machine : agent'[m].id = agent[m].id
          /\ UNCHANGED <<registry, target, again>>
      BY <1>5, RegisterShape
    <2>2. Owned' /\ OneRow'
      BY <2>1, SameRows
    <2>3. Here \in Machine /\ target.id = Here /\ again
      BY <2>1, HereTypes DEF Rows, Rejoining
    <2>4. agent[Here].id = Here \/ agent[Here].id > NumMachines
      BY <2>3 DEF Rows, Owned
    <2>5. agent[Here].id \in NodeId
      BY <2>3 DEF Shape, Typed
    <2>6. agent[Here].id = Here => RowsOf(Here) \subseteq {Here}
      <3> SUFFICES ASSUME agent[Here].id = Here, NEW id \in NodeId, registry[id].box = Here
                   PROVE  id = Here
        BY DEF RowsOf
      <3>1. Here # 0 /\ ~(Here > NumMachines)
        BY <2>3 DEF Machine
      <3> QED BY <3>1 DEF Rows, Owned, Later
    <2>7. RowsOf(Here)' = RowsOf(Here)
      BY <2>1 DEF RowsOf
    <2>8. Rejoining'
      <3>1. \/ fresh'.id = Here'
            \/ fresh'.id > NumMachines /\ agent'[Here'].id > NumMachines
        BY <2>1, <2>3, <2>4
      <3>2. phase' = "put" => RowsOf(Here)' \subseteq {fresh'.id}
        BY <2>1, <2>3, <2>6, <2>7
      <3> QED BY <2>1, <2>3, <2>5, <3>1, <3>2 DEF Rejoining, Later
    <2> QED BY <2>1, <2>2, <2>8 DEF Rows
  <1>6. CASE Delete
    <2>1. Shape' /\ Here' = Here /\ phase' = "put"
      BY <1>6, DeleteShape
    <2>2. /\ phase = "delete" /\ registry[target.id] # NoRow
          /\ registry' = [registry EXCEPT ![target.id] = NoRow]
          /\ UNCHANGED <<agent, target, fresh, again>>
      BY <1>6 DEF Delete
    <2>3. Here \in Machine /\ target.id = Here /\ Here \in NodeId /\ Here # 0
      BY <2>2, HereTypes DEF Rows, Rejoining, Machine, NodeId
    <2>4. registry \in [NodeId -> [box : Machine \cup {0}, cap : {"btrfs", "none"}]]
      BY DEF Shape, Typed
    <2>5. /\ registry'[Here] = NoRow /\ NoRow.box = 0
          /\ \A id \in NodeId \ {Here} : registry'[id] = registry[id]
      BY <2>2, <2>3, <2>4 DEF NoRow
    <2>6. registry[Here].box = Here
      <3>1. registry[Here].box # 0
        BY <2>2, <2>3 DEF Rows, Owned
      <3>2. ~(Here > NumMachines)
        BY <2>3 DEF Machine
      <3> QED BY <2>3, <3>1, <3>2 DEF Rows, Owned, Later
    <2>7. Owned'
      BY <2>2, <2>5 DEF Rows, Owned, Later
    <2>8. OneRow'
      BY <2>5 DEF Rows, OneRow
    <2>9. \A id \in NodeId : registry'[id].box # Here
      BY <2>3, <2>5, <2>6 DEF Rows, OneRow
    <2>10. RowsOf(Here)' \subseteq {fresh'.id}
      BY <2>1, <2>9 DEF RowsOf
    <2>11. Rejoining'
      BY <2>1, <2>2, <2>3, <2>10 DEF Rows, Rejoining, Later
    <2> QED BY <2>1, <2>7, <2>8, <2>11 DEF Rows
  <1>7. CASE Put
    <2>1. Shape' /\ Here' = Here /\ phase' = "send"
      BY <1>7, PutShape DEF Rows
    <2>2. /\ phase = "put" /\ target' = fresh
          /\ registry' = [registry EXCEPT ![fresh.id] = [box |-> fresh.box, cap |-> fresh.cap]]
          /\ UNCHANGED <<agent, fresh, again>>
      BY <1>7 DEF Put
    <2>3. /\ Here \in Machine /\ fresh.box = Here /\ fresh.id \in NodeId
          /\ fresh.id = Here \/ Later(fresh.id, Here)
          /\ RowsOf(Here) \subseteq {fresh.id}
      BY <2>2, HereTypes DEF Rows, Rejoining
    <2>4. registry \in [NodeId -> [box : Machine \cup {0}, cap : {"btrfs", "none"}]]
      BY DEF Shape, Typed
    <2>5. /\ registry'[fresh.id].box = Here
          /\ \A id \in NodeId \ {fresh.id} : registry'[id] = registry[id]
      BY <2>2, <2>3, <2>4
    <2>6. Here # 0
      BY <2>3 DEF Machine
    <2>7. Owned'
      BY <2>2, <2>3, <2>5, <2>6 DEF Rows, Owned, Later
    <2>8. \A id \in NodeId \ {fresh.id} : registry[id].box # Here
      BY <2>3 DEF RowsOf
    <2>9. OneRow'
      BY <2>5, <2>8 DEF Rows, OneRow
    <2>10. again
      BY <2>2 DEF Rows, Rejoining
    <2>11. Rejoining'
      BY <2>1, <2>2, <2>3, <2>10 DEF Rejoining
    <2> QED BY <2>1, <2>7, <2>9, <2>11 DEF Rows
  <1>8. CASE ReRegisterFails
    <2>1. /\ Shape' /\ phase' \in {"open", "ended"}
          /\ \A m \in Machine : agent'[m].id = agent[m].id
          /\ UNCHANGED registry
      BY <1>8, FailsShape
    <2>2. Owned' /\ OneRow'
      BY <2>1, SameRows
    <2>3. Rejoining'
      BY <2>1 DEF Rejoining
    <2> QED BY <2>1, <2>2, <2>3 DEF Rows
  <1>9. ASSUME NEW m \in Machine, Rotate(m)
        PROVE  Shape' /\ Rows'
    <2>1. /\ Shape' /\ UNCHANGED <<registry, run>> /\ Here' = Here
          /\ agent'[m].id > NumMachines
          /\ \A n \in Machine \ {m} : agent'[n] = agent[n]
      BY <1>9, RotateShape
    <2>2. \A id \in NodeId : registry[id].box \in Machine \cup {0}
      BY DEF Shape, Typed
    <2>3. Owned'
      BY <2>1, <2>2 DEF Rows, Owned, Later
    <2>4. OneRow'
      BY <2>1 DEF Rows, OneRow
    <2>5. UNCHANGED <<phase, again, target, fresh>>
      BY <2>1 DEF run
    <2>6. agent[Here].id > NumMachines /\ phase # "idle" => agent'[Here].id > NumMachines
      BY <2>1, HereTypes
    <2>7. RowsOf(Here)' = RowsOf(Here)
      BY <2>1 DEF RowsOf
    <2>8. Rejoining'
      BY <2>1, <2>5, <2>6, <2>7 DEF Rows, Rejoining, Later
    <2> QED BY <2>1, <2>3, <2>4, <2>8 DEF Rows
  <1> QED BY <1>2, <1>3, <1>4, <1>5, <1>6, <1>7, <1>8, <1>9 DEF Scheduling

\* The run of submit has every machine of the plan.
Whole == phase # "idle" => DOMAIN nodes = Machine

LEMMA RowsNext ==
  ASSUME Shape, Rows, Whole, Next
  PROVE  Shape' /\ Rows' /\ Whole'
  <1>1. CASE StartRun(Everyone)
    BY <1>1, RowsStart, EveryoneStarts DEF Whole
  <1>2. CASE Scheduling \/ \E m \in Machine : Rotate(m)
    BY <1>2, RunGoesOn, RowsStep DEF Whole
  <1> QED BY <1>1, <1>2 DEF Next

----------------------------------------------------------------------------
(* Every step keeps what the agents have done in its bounds. *)

LEMMA ServedInit == Init => Served
  BY DEF Init, Served, ServePhases

\* The agent that is called acts for the present place and no other.
LEMMA Elsewhere ==
  ASSUME Shape, phase # "idle", target.box = Here,
         effects' \in {effects, Applied}, NEW p \in Place
  PROVE  /\ p # at => effects'[Who(p)][p.i] = effects[Who(p)][p.i]
         /\ Done(p) \in Nat /\ Done(at) \in Nat
         /\ effects' = effects => effects'[Who(at)][at.i] = Done(at)
         /\ effects' = Applied => effects'[Who(at)][at.i] = Done(at) + 1
  <1>1. Divided(batches) /\ at \in Place /\ Here = Who(at) /\ Here \in Machine /\ at.i \in Intent
    BY HereTypes
  <1>2. /\ Who(p) \in Machine /\ p.i \in Intent
        /\ p.b \in DOMAIN batches /\ p.j \in DOMAIN batches[p.b]
        /\ at.b \in DOMAIN batches /\ at.j \in DOMAIN batches[at.b]
    BY <1>1, PlaceTypes DEF Place
  <1>3. effects \in [Machine -> [Intent -> Nat]]
    BY DEF Shape, Typed
  <1>4. ASSUME p # at, effects' = Applied
        PROVE  effects'[Who(p)][p.i] = effects[Who(p)][p.i]
    <2>1. p = [b |-> p.b, j |-> p.j, i |-> p.i] /\ at = [b |-> at.b, j |-> at.j, i |-> at.i]
      BY <1>1, PlaceTypes
    <2>2. ~(p.b = at.b /\ p.j = at.j /\ p.i = at.i)
      BY <1>4, <2>1, Zenon
    <2>3. Who(p) # Here \/ p.i # at.i
      BY <1>1, <1>2, <2>2 DEF Divided, Who
    <2> QED BY <1>1, <1>2, <1>3, <1>4, <2>3 DEF Applied
  <1>5. effects' = Applied => effects'[Who(at)][at.i] = Done(at) + 1
    BY <1>1, <1>3 DEF Applied, Done
  <1>6. Done(p) \in Nat /\ Done(at) \in Nat
    BY <1>1, <1>2, <1>3 DEF Done
  <1> QED BY <1>4, <1>5, <1>6 DEF Done

LEMMA BudgetTypes == \A i \in Intent : Budget(i) \in Nat
  BY DEF Budget

LEMMA ConcludeServed ==
  ASSUME Shape, Served, Busy, target.box = Here \/ effects' = effects,
         effects' \in {effects, Applied}, UNCHANGED <<batches, plan>>,
         NEW outcome \in {"N1", "N3"}, NEW why, Conclude(outcome, why),
         effects'[Who(at)][at.i] <= 1 + Budget(at.i),
         outcome = "N1" => effects'[Who(at)][at.i] > 0
  PROVE  Served'
  <1>1. phase # "idle"
    BY DEF Busy, ServePhases
  <1>2. Divided(batches) /\ at \in Place /\ at.i \in Intent
    BY <1>1, HereTypes
  <1>3. \A p \in Place : p # at => effects'[Who(p)][p.i] = Done(p)
    BY <1>1, Elsewhere DEF Done
  <1>4. \A i : Budget(i)' = Budget(i)
    BY DEF Budget, High
  <1>5. Place' = Place /\ \A p : Who(p)' = Who(p) /\ Done(p)' = effects'[Who(p)][p.i]
    BY DEF Place, Who, Done
  <1>6. \A p \in Place : /\ Before(p, at) => Done(p) > 0 /\ Done(p) <= 1 + Budget(p.i)
                         /\ Before(at, p) => Done(p) = 0
    BY <1>1 DEF Served
  <1>7. ~Before(at, at)
    BY <1>2, StepOrder
  <1>8. ASSUME at' = at, phase' = "ended", status' = "complete" => outcome = "N1"
        PROVE  Served'
    <2>1. ASSUME NEW p \in Place
          PROVE  /\ Before(p, at) => Done(p)' > 0 /\ Done(p)' <= 1 + Budget(p.i)
                 /\ Before(at, p) => Done(p)' = 0
      BY <1>3, <1>5, <1>6, <1>7
    <2>2. Done(at)' = effects'[Who(at)][at.i]
      BY <1>5, <1>8 DEF Done, Who
    <2>3. Done(at)' <= 1 + Budget(at.i) /\ (status' = "complete" => Done(at)' > 0)
      BY <1>8, <2>2
    <2> QED BY <1>4, <1>5, <1>8, <2>1, <2>3 DEF Served, ServePhases
  <1>9. ASSUME at' = Step(at), ~(Step(at).b > Len(batches)), phase' = "open",
               status' # "complete", outcome = "N1"
        PROVE  Served'
    <2>1. Step(at) \in Place /\ Before(at, Step(at))
      BY <1>2, <1>9, StepPlaced, StepOrder
    <2>2. Step(at) # at
      BY <1>7, <2>1
    <2>3. Done(Step(at)) = 0 /\ effects'[Who(Step(at))][Step(at).i] = 0
      BY <1>3, <1>6, <2>1, <2>2
    <2>4. ASSUME NEW p \in Place
          PROVE  /\ Before(p, Step(at)) => Done(p)' > 0 /\ Done(p)' <= 1 + Budget(p.i)
                 /\ Before(Step(at), p) => Done(p)' = 0
      <3>1. Before(p, Step(at)) => Before(p, at) \/ p = at
        BY <1>2, <1>9, StepOrder
      <3>2. Before(Step(at), p) => Before(at, p)
        BY <1>2, StepOrder
      <3>3. CASE p = at
        BY <1>5, <1>7, <1>9, <3>2, <3>3
      <3>4. CASE p # at
        BY <1>3, <1>5, <1>6, <3>1, <3>2, <3>4
      <3> QED BY <3>3, <3>4
    <2>5. Done(at)' = 0
      BY <1>5, <1>9, <2>3 DEF Done, Who
    <2>6. at'.i \in Intent /\ Budget(at'.i) \in Nat
      BY <1>2, <1>9, <2>1, PlaceTypes, BudgetTypes
    <2>7. Done(at)' <= 1 + Budget(at.i)'
      BY <1>4, <2>5, <2>6 DEF Budget, High
    <2> QED BY <1>4, <1>5, <1>9, <2>4, <2>5, <2>7 DEF Served, ServePhases
  <1>10. \/ outcome = "N3" /\ phase' = "ended" /\ status' = "dirty" /\ at' = at
         \/ /\ outcome = "N1" /\ Step(at).b > Len(batches) /\ at' = at /\ phase' = "ended"
         \/ /\ outcome = "N1" /\ ~(Step(at).b > Len(batches)) /\ at' = Step(at)
            /\ phase' = "open" /\ status' = status
    BY DEF Conclude
  <1>11. status = "running"
    BY DEF Busy, ServePhases, Shape, Verdict
  <1> QED BY <1>8, <1>9, <1>10, <1>11

LEMMA GoesOnServed ==
  ASSUME Shape, Served, Busy, target.box = Here \/ effects' = effects,
         effects' \in {effects, Applied}, UNCHANGED <<batches, plan>>,
         NEW ph \in ServePhases, GoesOn(ph), RetryMax \in Nat, retries' \in Nat,
         effects'[Who(at)][at.i] + retries' <= Budget(at.i)
  PROVE  Served'
  <1>1. /\ phase # "idle" /\ UNCHANGED <<at, status>> /\ phase' \in ServePhases
        /\ status = "running"
    BY DEF Busy, ServePhases, GoesOn, Shape, Verdict
  <1>2. Divided(batches) /\ at \in Place /\ at.i \in Intent
    BY <1>1, HereTypes
  <1>3. \A p \in Place : p # at => effects'[Who(p)][p.i] = Done(p)
    BY <1>1, Elsewhere DEF Done
  <1>4. \A i : Budget(i)' = Budget(i)
    BY DEF Budget, High
  <1>5. Place' = Place /\ \A p : Who(p)' = Who(p) /\ Done(p)' = effects'[Who(p)][p.i]
    BY DEF Place, Who, Done
  <1>6. \A p \in Place : /\ Before(p, at) => Done(p) > 0 /\ Done(p) <= 1 + Budget(p.i)
                         /\ Before(at, p) => Done(p) = 0
    BY <1>1 DEF Served
  <1>7. ~Before(at, at)
    BY <1>2, StepOrder
  <1>8. ASSUME NEW p \in Place
        PROVE  /\ Before(p, at) => Done(p)' > 0 /\ Done(p)' <= 1 + Budget(p.i)
               /\ Before(at, p) => Done(p)' = 0
    BY <1>3, <1>5, <1>6, <1>7
  <1>9. Done(at)' = effects'[Who(at)][at.i] /\ Done(at)' \in Nat /\ Budget(at.i) \in Nat
    <2>1. effects'[Who(at)][at.i] \in Nat
      <3>1. Who(at) \in Machine /\ effects \in [Machine -> [Intent -> Nat]]
        BY <1>2, PlaceTypes DEF Shape, Typed
      <3>2. CASE effects' = effects
        BY <1>2, <3>1, <3>2
      <3>3. CASE effects' = Applied /\ target.box = Here
        BY <1>1, <1>2, <3>3, Elsewhere
      <3> QED BY <3>2, <3>3
    <2> QED BY <1>1, <1>2, <1>5, <2>1, BudgetTypes DEF Done, Who
  <1>10. Done(at)' <= 1 + Budget(at.i) /\ Done(at)' + retries' <= Budget(at.i)
    BY <1>9
  <1> QED BY <1>1, <1>4, <1>5, <1>8, <1>10 DEF Served, ServePhases

LEMMA ServedStill ==
  ASSUME Served, UNCHANGED <<phase, batches, at, retries, status, plan, effects>>
  PROVE  Served'
  <1>1. Place' = Place /\ (\A p : Who(p)' = Who(p) /\ Done(p)' = Done(p))
    BY DEF Place, Who, Done
  <1>2. Done(at)' = Done(at)
    BY DEF Done, Who
  <1>3. (\A i : Budget(i)' = Budget(i)) /\ Budget(at.i)' = Budget(at.i)
    BY DEF Budget, High
  <1> QED BY <1>1, <1>2, <1>3 DEF Served

LEMMA ServedNext ==
  ASSUME Shape, Rows, Served, Next
  PROVE  Served'
  <1>0. effects \in [Machine -> [Intent -> Nat]] /\ RetryMax \in Nat /\ retries \in 0..RetryMax
    BY DEF Shape, Typed
  <1>1. CASE StartRun(Everyone)
    <2>1. /\ phase = "idle" /\ phase' = "open" /\ status' = "running"
          /\ UNCHANGED <<plan, effects>> /\ at' = [b |-> 1, j |-> 1, i |-> 1]
      BY <1>1 DEF StartRun
    <2>2. Placed'
      BY <1>1, StartShape, EveryoneStarts DEF Rows, Shape
    <2>3. Divided(batches') /\ at' \in Place'
      BY <2>1, <2>2 DEF Placed
    <2>4. \A p \in Place' : Who(p)' \in Machine /\ p.i \in Intent /\ p.b >= 1 /\ p.j >= 1 /\ p.i >= 1
                            /\ p.b \in Nat /\ p.j \in Nat /\ p.i \in Nat
      <3> SUFFICES ASSUME NEW p \in Place'
                   PROVE  /\ Who(p)' \in Machine /\ p.i \in Intent /\ p.b >= 1 /\ p.j >= 1 /\ p.i >= 1
                          /\ p.b \in Nat /\ p.j \in Nat /\ p.i \in Nat
        OBVIOUS
      <3>1. p \in Position /\ p.b \in DOMAIN batches' /\ p.j \in DOMAIN batches'[p.b]
        BY DEF Place
      <3>2. batches' \in Seq(Seq(Machine))
        BY <2>3 DEF Divided
      <3>3. batches'[p.b] \in Seq(Machine) /\ p.b >= 1
        BY <3>1, <3>2
      <3>4. batches'[p.b][p.j] \in Machine /\ p.j >= 1
        BY <3>1, <3>3
      <3> QED BY <3>1, <3>3, <3>4 DEF Position, Intent, Who
    <2>5. \A p \in Place' : Done(p)' = 0
      BY <1>0, <2>1, <2>4 DEF Served, Done
    <2>6. \A p \in Place' : ~Before(p, at')
      BY <2>1, <2>4 DEF Before
    <2>7. Done(at)' = 0
      BY <2>3, <2>5 DEF Done, Who
    <2>8. at'.i \in Intent
      BY <2>3, <2>4
    <2>9. Budget(at.i)' \in Nat
      BY <2>8, BudgetTypes DEF Budget, High
    <2> QED BY <2>1, <2>5, <2>6, <2>7, <2>9 DEF Served, ServePhases
  <1>2. CASE Refuse
    <2>1. /\ Busy /\ phase = "open" /\ Conclude("N3", "noRollbackPoint")
          /\ UNCHANGED <<batches, plan, effects>>
      BY <1>2 DEF Refuse, Busy
    <2>2. at \in Place /\ at.i \in Intent /\ Divided(batches) /\ Done(at) = 0
      BY <2>1, HereTypes DEF Served
    <2>3. effects'[Who(at)][at.i] <= 1 + Budget(at.i)
      BY <2>1, <2>2, BudgetTypes DEF Done
    <2> QED BY <2>1, <2>3, ConcludeServed
  <1>3. CASE Open
    <2>1. /\ Busy /\ phase = "open" /\ GoesOn("send") /\ "send" \in ServePhases
          /\ UNCHANGED <<batches, plan, effects>>
          /\ retries' = IF High(at.i) THEN 0 ELSE RetryMax
      BY <1>3 DEF Open, Busy, ServePhases
    <2>2. Done(at) = 0
      BY <2>1 DEF Served
    <2>3. retries' \in Nat /\ effects'[Who(at)][at.i] + retries' <= Budget(at.i)
      BY <1>0, <2>1, <2>2 DEF Done, Budget
    <2> QED BY <1>0, <2>1, <2>3, GoesOnServed
  <1>4. CASE Dispatch
    <2>1. Busy /\ phase = "send" /\ phase # "idle" /\ UNCHANGED <<batches, plan>>
          /\ effects' \in {effects, Applied} /\ "send" \in ServePhases /\ "register" \in ServePhases
      BY <1>4, DispatchCases DEF Busy, ServePhases
    <2>2. /\ target.box = Here /\ at \in Place /\ at.i \in Intent
          /\ Done(at) + retries <= Budget(at.i) /\ Budget(at.i) \in Nat
      BY <2>1, HereTypes, BudgetTypes DEF Shape, Serving, Served
    <2>3. /\ effects' = effects => effects'[Who(at)][at.i] = Done(at)
          /\ effects' = Applied => effects'[Who(at)][at.i] = Done(at) + 1
          /\ Done(at) \in Nat
      BY <2>1, <2>2, Elsewhere
    <2>4. effects'[Who(at)][at.i] \in Nat /\ effects'[Who(at)][at.i] <= 1 + Budget(at.i)
      BY <1>0, <2>1, <2>2, <2>3
    <2>5. CASE Conclude("N1", "success") /\ effects' = Applied
      <3>1. effects'[Who(at)][at.i] > 0
        BY <2>3, <2>5
      <3> QED BY <2>1, <2>2, <2>4, <2>5, <3>1, ConcludeServed
    <2>6. CASE \E why : Conclude("N3", why)
      BY <2>1, <2>2, <2>4, <2>6, ConcludeServed
    <2>7. CASE GoesOn("register") /\ effects' = effects /\ retries' = retries
      <3>1. retries' \in Nat /\ effects'[Who(at)][at.i] + retries' <= Budget(at.i)
        BY <1>0, <2>2, <2>3, <2>7
      <3> QED BY <1>0, <2>1, <2>2, <2>7, <3>1, GoesOnServed
    <2>8. CASE GoesOn("send") /\ retries > 0 /\ retries' = retries - 1
      <3>1. retries' \in Nat /\ effects'[Who(at)][at.i] + retries' <= Budget(at.i)
        BY <1>0, <2>1, <2>2, <2>3, <2>8
      <3> QED BY <1>0, <2>1, <2>2, <2>8, <3>1, GoesOnServed
    <2> QED BY <1>4, <2>5, <2>6, <2>7, <2>8, DispatchCases
  <1>5. CASE Register \/ Delete \/ Put
    <2>1. PICK ph \in ServePhases : GoesOn(ph)
      <3>1. CASE Register
        BY <3>1 DEF Register, ServePhases
      <3>2. CASE Delete
        BY <3>2 DEF Delete, ServePhases
      <3>3. CASE Put
        BY <3>3 DEF Put, ServePhases
      <3> QED BY <1>5, <3>1, <3>2, <3>3
    <2>2. /\ Busy /\ phase \in ServePhases /\ phase # "idle"
          /\ UNCHANGED <<batches, plan, effects, retries>>
      BY <1>5 DEF Register, Delete, Put, Busy, ServePhases
    <2>3. Done(at) + retries <= Budget(at.i)
      BY <2>2 DEF Served
    <2>4. retries' \in Nat /\ effects'[Who(at)][at.i] + retries' <= Budget(at.i)
      BY <1>0, <2>2, <2>3 DEF Done
    <2> QED BY <1>0, <2>1, <2>2, <2>4, GoesOnServed
  <1>6. CASE ReRegisterFails
    <2>1. /\ Busy /\ phase \in ServePhases /\ phase # "idle" /\ Conclude("N3", "reRegister")
          /\ UNCHANGED <<batches, plan, effects>>
      BY <1>6 DEF ReRegisterFails, Busy, ServePhases
    <2>2. at \in Place /\ Done(at) <= 1 + Budget(at.i)
      BY <2>1, HereTypes DEF Served
    <2>3. effects'[Who(at)][at.i] <= 1 + Budget(at.i)
      BY <2>1, <2>2 DEF Done
    <2> QED BY <2>1, <2>3, ConcludeServed
  <1>7. ASSUME NEW m \in Machine, Rotate(m) PROVE Served'
    <2>1. UNCHANGED <<phase, batches, at, retries, status, plan, effects>>
      BY <1>7 DEF Rotate, run
    <2> QED BY <2>1, ServedStill
  <1> QED BY <1>1, <1>2, <1>3, <1>4, <1>5, <1>6, <1>7 DEF Next, Scheduling

----------------------------------------------------------------------------
(* The theorems. *)

\* Every machine and intent has its place.
LEMMA EveryPair ==
  ASSUME Shape, Whole, phase # "idle", NEW m \in Machine, NEW i \in Intent
  PROVE  \E p \in Place : Who(p) = m /\ p.i = i
  <1>1. Divided(batches) /\ Covers(batches, Machine)
    BY HereTypes DEF Shape, Placed, Whole
  <1>2. PICK b \in DOMAIN batches : \E j \in DOMAIN batches[b] : batches[b][j] = m
    BY <1>1 DEF Covers
  <1>3. PICK j \in DOMAIN batches[b] : batches[b][j] = m
    BY <1>2
  <1>4. b \in Nat /\ batches[b] \in Seq(Machine)
    BY <1>1 DEF Divided
  <1>5. j \in Nat
    BY <1>4
  <1> DEFINE p == [b |-> b, j |-> j, i |-> i]
  <1>6. p \in Place /\ Who(p) = m /\ p.i = i
    BY <1>3, <1>4, <1>5 DEF Place, Position, Who
  <1> QED BY <1>6

FleetInv == Shape /\ Rows /\ Whole /\ Served

\* The invariant the properties follow from: every step of Run, of a
\* re-registration and of the agents keeps it.
THEOREM FleetInvariance == Spec => []FleetInv
  <1>1. Init => FleetInv
    BY ShapeInit, RowsInit, ServedInit DEF FleetInv, Whole, Init
  <1>2. FleetInv /\ [Next]_vars => FleetInv'
    <2> SUFFICES ASSUME FleetInv, [Next]_vars PROVE FleetInv'
      OBVIOUS
    <2>1. CASE Next
      BY <2>1, RowsNext, ServedNext DEF FleetInv
    <2>2. CASE UNCHANGED vars
      <3>1. UNCHANGED <<phase, batches, nodes, at, retries, status, plan, effects>>
        BY <2>2 DEF vars, run
      <3>2. Whole'
        BY <3>1 DEF FleetInv, Whole
      <3> QED BY <2>2, <3>1, <3>2, StillShape, ServedStill DEF FleetInv
    <2> QED BY <2>1, <2>2
  <1> QED BY <1>1, <1>2, PTL DEF Spec

\* Every variable has its type, the present place is one of the batches, and
\* a call goes to the machine of that place (Run, runOne).
THEOREM FleetTypes == Spec => []TypeOK
  <1>1. FleetInv => TypeOK
    <2> SUFFICES ASSUME FleetInv PROVE TypeOK
      OBVIOUS
    <2>1. Typed /\ Serving /\ Verdict /\ Shape
      BY DEF FleetInv, Shape
    <2>2. status \in {"none", "running", "complete", "dirty"}
      BY <2>1 DEF Typed, Verdict, ServePhases
    <2>3. stopped \in 0..NumMachines
      <3>1. CASE status = "dirty"
        <4>1. phase # "idle"
          BY <2>1, <3>1 DEF Verdict
        <4>2. /\ Divided(batches) /\ at.b \in 1..Len(batches) /\ Len(batches) \in Nat
          BY <2>1, <4>1, HereTypes, PlaceTypes
        <4>3. Len(batches) <= NumMachines
          BY <4>2 DEF Divided
        <4> QED BY <2>1, <3>1, <4>2, <4>3 DEF Verdict
      <3>2. CASE status # "dirty"
        BY <2>1, <3>2 DEF Verdict
      <3> QED BY <3>1, <3>2
    <2>4. ASSUME Running
          PROVE  /\ at.b \in DOMAIN batches /\ at.j \in DOMAIN batches[at.b]
                 /\ at.i \in Intent /\ Here \in DOMAIN nodes
      <3>1. phase # "idle"
        BY <2>4 DEF Running
      <3>2. at \in Place /\ at.i \in Intent /\ Here \in DOMAIN nodes
        BY <2>1, <3>1, HereTypes
      <3> QED BY <3>2 DEF Place
    <2>5. phase \in {"idle", "open", "send", "register", "delete", "put", "ended"}
      BY <2>1 DEF Typed, ServePhases
    <2>6. phase \in {"send", "register", "delete", "put"} => target.box = Here
      BY <2>1 DEF Serving, ServePhases
    <2> QED BY <2>1, <2>2, <2>3, <2>4, <2>5, <2>6 DEF Typed, TypeOK
  <1> QED BY <1>1, FleetInvariance, PTL

(* No machine is forgotten. *)

\* An id that some machine has, or had.
Used(id) == \E x \in Ids : id <= x

\* No node id is ever that of two machines: what agents say, what the registry
\* says, and what a re-registration is about to say.
Unshared ==
    /\ \A m, n \in Machine : m # n => agent[m].id # agent[n].id
    /\ \A id \in NodeId : registry[id].box # 0 =>
          Used(id) /\ \A m \in Machine : m # registry[id].box => agent[m].id # id
    /\ phase \in {"delete", "put"} =>
          /\ Used(fresh.id) /\ registry[fresh.id].box \in {0, Here}
          /\ \A m \in Machine : m # Here => agent[m].id # fresh.id

Rowless(m) == \A id \in NodeId : registry[id].box # m

Remembered == \A m \in Machine : Rowless(m) => InBetween(m)

LEMMA UnsharedInit == Init => Unshared /\ Remembered
  <1> SUFFICES ASSUME Init PROVE Unshared /\ Remembered
    OBVIOUS
  <1>1. /\ Machine \subseteq NodeId /\ 0 \notin Machine
        /\ \A m \in Machine : m <= NumMachines
    BY DEF Machine, NodeId
  <1>2. PICK cap \in [Machine -> Capabilities] :
          /\ agent = [m \in Machine |-> [id |-> m, cap |-> cap[m], known |-> TRUE]]
          /\ registry = [id \in NodeId |->
                IF id \in Machine THEN [box |-> id, cap |-> Normalized(cap[id])] ELSE NoRow]
    BY DEF Init
  <1>3. phase = "idle" /\ \A m \in Machine : agent[m].id = m
    BY <1>2 DEF Init
  <1>4. \A id \in NodeId : registry[id].box = IF id \in Machine THEN id ELSE 0
    BY <1>2 DEF NoRow
  <1>5. \A id \in NodeId : id \in Machine => Used(id)
    <2>1. NumMachines \in Ids
      BY DEF Ids
    <2> QED BY <1>1, <2>1 DEF Used
  <1>6. Unshared
    BY <1>3, <1>4, <1>5 DEF Unshared
  <1>7. Remembered
    BY <1>1, <1>4 DEF Remembered, Rowless
  <1> QED BY <1>6, <1>7

\* Where no id changes.
LEMMA SameIds ==
  ASSUME Shape, \A m \in Machine : agent'[m].id = agent[m].id, NEW id
  PROVE  Used(id)' <=> Used(id)
  BY DEF Used, Ids

LEMMA UnsharedStep ==
  ASSUME Shape, Rows, Unshared, Next
  PROVE  Unshared'
  <1>1. CASE /\ UNCHANGED registry /\ phase' \notin {"delete", "put"}
             /\ \A m \in Machine : agent'[m].id = agent[m].id
    BY <1>1, SameIds DEF Unshared
  <1>2. CASE Register
    <2>1. /\ phase = "register" /\ Here' = Here
          /\ fresh'.id = agent[Here].id
          /\ \A m \in Machine : agent'[m].id = agent[m].id
          /\ UNCHANGED registry
      BY <1>2, RegisterShape
    <2>2. Here \in Machine /\ agent[Here].id \in NodeId /\ agent[Here].id \in Ids
      BY <2>1, HereTypes DEF Shape, Typed, Ids
    <2>3. Used(fresh'.id)
      BY <2>1, <2>2 DEF Used, NodeId
    <2>4. registry[fresh'.id].box \in {0, Here}
      BY <2>1, <2>2 DEF Unshared
    <2> QED BY <2>1, <2>2, <2>3, <2>4, SameIds DEF Unshared
  <1>3. CASE Delete
    <2>1. /\ phase = "delete" /\ Here' = Here
          /\ registry' = [registry EXCEPT ![target.id] = NoRow] /\ NoRow.box = 0
          /\ UNCHANGED <<agent, fresh>>
      BY <1>3, DeleteShape DEF Delete, NoRow
    <2>2. \A id \in NodeId : registry'[id].box \in {0, registry[id].box}
      BY <2>1 DEF Shape, Typed
    <2>3. fresh.id \in NodeId
      BY <2>1 DEF Rows, Rejoining
    <2>4. registry'[fresh.id].box \in {0, Here}
      BY <2>1, <2>2, <2>3 DEF Unshared
    <2> QED BY <2>1, <2>2, <2>4, SameIds DEF Unshared
  <1>4. CASE Put
    <2>1. /\ phase = "put" /\ phase' = "send"
          /\ registry' = [registry EXCEPT ![fresh.id] = [box |-> fresh.box, cap |-> fresh.cap]]
          /\ UNCHANGED agent
      BY <1>4 DEF Put, GoesOn
    <2>2. fresh.id \in NodeId /\ fresh.box = Here
      BY <2>1 DEF Rows, Rejoining
    <2>3. \A id \in NodeId : \/ registry'[id] = registry[id]
                             \/ id = fresh.id /\ registry'[id].box = Here
      BY <2>1, <2>2 DEF Shape, Typed
    <2> QED BY <2>1, <2>3, SameIds DEF Unshared
  <1>5. ASSUME NEW m \in Machine, Rotate(m) PROVE Unshared'
    <2>1. /\ UNCHANGED <<registry, run>> /\ Here' = Here
          /\ \A n \in Machine \ {m} : agent'[n] = agent[n]
      BY <1>5, RotateShape
    <2>2. phase' = phase /\ fresh' = fresh
      BY <2>1 DEF run
    <2> DEFINE new == agent'[m].id
    <2>3. new \in Nat /\ \A x \in Ids : x < new /\ x \in Nat
      <3> DEFINE top == Max(Ids)
      <3>1. top \in Nat /\ \A id \in Ids : id <= top
        BY NewId DEF Shape
      <3>2. new = top + 1
        BY <1>5 DEF Rotate, Shape, Typed
      <3>3. \A x \in Ids : x \in Nat
        BY DEF Shape, Typed, Ids, NodeId
      <3> HIDE DEF top, new
      <3> QED BY <3>1, <3>2, <3>3
    <2>4. Ids' \subseteq Ids \cup {new} /\ new \in Ids'
      BY <2>1 DEF Ids
    <2>5. \A n \in Machine : agent[n].id \in Ids
      BY DEF Ids
    <2> HIDE DEF new
    <2>6. ASSUME NEW id \in Nat, Used(id) PROVE Used(id)' /\ id # new
      <3>1. PICK x \in Ids : id <= x
        BY <2>6 DEF Used
      <3>2. id < new
        BY <2>3, <3>1
      <3> QED BY <2>3, <2>4, <3>2 DEF Used
    <2>7. \A id \in NodeId : id \in Nat
      BY DEF NodeId
    <2>8. \A n \in Machine : n # m => agent'[n].id = agent[n].id /\ agent[n].id # new
      BY <2>1, <2>3, <2>5
    <2>9. agent'[m].id = new
      BY DEF new
    <2>10. phase \in {"delete", "put"} => fresh.id \in Nat
      BY <2>7 DEF Rows, Rejoining
    <2>11. \A p, n \in Machine : p # n => agent'[p].id # agent'[n].id
      BY <2>8, <2>9 DEF Unshared
    <2>12. ASSUME NEW id \in NodeId, registry[id].box # 0
           PROVE  Used(id)' /\ \A n \in Machine : n # registry[id].box => agent'[n].id # id
      <3>1. Used(id)' /\ id # new
        BY <2>6, <2>7, <2>12 DEF Unshared
      <3> QED BY <2>8, <2>9, <2>12, <3>1 DEF Unshared
    <2>13. ASSUME phase \in {"delete", "put"}
           PROVE  Used(fresh.id)' /\ \A n \in Machine : n # Here => agent'[n].id # fresh.id
      <3>1. Used(fresh.id)
        BY <2>13 DEF Unshared
      <3>2. \E x \in Ids : fresh.id <= x
        BY <3>1 DEF Used
      <3>3. fresh.id # new /\ Used(fresh.id)'
        <4>1. PICK x \in Ids : fresh.id <= x
          BY <3>2
        <4>2. fresh.id < new /\ fresh.id <= new
          BY <2>3, <2>10, <2>13, <4>1
        <4> QED BY <2>2, <2>3, <2>4, <2>10, <2>13, <4>2 DEF Used
      <3> QED BY <2>8, <2>9, <2>13, <3>3 DEF Unshared
    <2> QED BY <2>1, <2>2, <2>11, <2>12, <2>13 DEF Unshared
  <1>6. CASE StartRun(Everyone)
    <2>1. UNCHANGED <<registry, agent>> /\ phase' = "open"
      BY <1>6 DEF StartRun
    <2> QED BY <1>1, <2>1
  <1>7. CASE Refuse \/ Open \/ Dispatch
    <2>1. UNCHANGED <<registry, agent>> /\ phase' \notin {"delete", "put"}
      <3>1. CASE Refuse
        BY <3>1 DEF Refuse, Conclude
      <3>2. CASE Open
        BY <3>2 DEF Open, GoesOn
      <3>3. CASE Dispatch
        BY <3>3, DispatchCases DEF Conclude, GoesOn
      <3> QED BY <1>7, <3>1, <3>2, <3>3
    <2> QED BY <1>1, <2>1
  <1>8. CASE ReRegisterFails
    <2>1. /\ phase' \in {"open", "ended"} /\ UNCHANGED registry
          /\ \A m \in Machine : agent'[m].id = agent[m].id
      BY <1>8, FailsShape
    <2> QED BY <1>1, <2>1
  <1> QED BY <1>2, <1>3, <1>4, <1>5, <1>6, <1>7, <1>8 DEF Next, Scheduling

LEMMA RememberedStep ==
  ASSUME Shape, Rows, Unshared, Remembered, Next
  PROVE  Remembered'
  <1> SUFFICES ASSUME NEW m \in Machine, Rowless(m)' PROVE InBetween(m)'
    BY DEF Remembered
  <1>1. m # 0
    BY DEF Machine
  <1>2. ASSUME UNCHANGED registry PROVE InBetween(m)
    BY <1>2 DEF Remembered, Rowless
  <1>3. CASE StartRun(Everyone) \/ Refuse \/ Open \/ Dispatch \/ Register
    <2>1. UNCHANGED registry /\ phase \in {"idle", "open", "send", "register"}
      BY <1>3 DEF StartRun, Refuse, Open, Dispatch, Register
    <2> QED BY <1>2, <2>1 DEF InBetween
  <1>4. CASE Delete
    <2>1. Here' = Here /\ phase' = "put"
      BY <1>4, DeleteShape
    <2>2. /\ phase = "delete" /\ registry[target.id] # NoRow
          /\ registry' = [registry EXCEPT ![target.id] = NoRow]
      BY <1>4 DEF Delete
    <2>3. Here \in Machine /\ target.id = Here /\ Here \in NodeId /\ Here # 0
      BY <2>2, HereTypes DEF Rows, Rejoining, Machine, NodeId
    <2>4. registry[Here].box = Here
      <3>1. registry[Here].box # 0
        BY <2>2, <2>3 DEF Rows, Owned
      <3>2. ~(Here > NumMachines)
        BY <2>3 DEF Machine
      <3> QED BY <2>3, <3>1, <3>2 DEF Rows, Owned, Later
    <2>5. ASSUME m # Here PROVE FALSE
      <3>1. \A id \in NodeId \ {Here} : registry'[id] = registry[id]
        BY <2>2, <2>3 DEF Shape, Typed
      <3>2. Rowless(m)
        BY <2>4, <2>5, <3>1 DEF Rowless
      <3> QED BY <2>2, <3>2 DEF Remembered, InBetween
    <2> QED BY <2>1, <2>5 DEF InBetween
  <1>5. CASE Put
    <2>1. /\ phase = "put"
          /\ registry' = [registry EXCEPT ![fresh.id] = [box |-> fresh.box, cap |-> fresh.cap]]
      BY <1>5 DEF Put
    <2>2. fresh.id \in NodeId /\ fresh.box = Here
      BY <2>1 DEF Rows, Rejoining
    <2>3. /\ registry'[fresh.id].box = Here
          /\ \A id \in NodeId \ {fresh.id} : registry'[id] = registry[id]
      BY <2>1, <2>2 DEF Shape, Typed
    <2>4. m # Here
      BY <2>2, <2>3 DEF Rowless
    <2>5. Rowless(m)
      BY <1>1, <2>1, <2>3, <2>4 DEF Rowless, Unshared
    <2> QED BY <2>1, <2>4, <2>5 DEF Remembered, InBetween
  <1>6. CASE ReRegisterFails
    <2>1. InBetween(m) /\ phase \notin {"idle", "ended"}
      BY <1>2, <1>6, FailsShape DEF ReRegisterFails
    <2>2. phase = "put" /\ m = Here /\ Conclude("N3", "reRegister")
      BY <1>6, <2>1 DEF InBetween, ReRegisterFails
    <2> DEFINE r == [m |-> Here, i |-> at.i, node |-> target'.id, outcome |-> "N3", why |-> "reRegister"]
    <2>3. results' = Append(results, r) /\ phase' = "ended" /\ status' = "dirty"
      BY <2>2 DEF Conclude
    <2>4. r.m = Here /\ r.why = "reRegister"
      OBVIOUS
    <2> HIDE DEF r
    <2>5. results'[Len(results')] = r
      <3>1. results \in Seq(Result)
        BY DEF Shape, Typed
      <3> QED BY <2>3, <3>1
    <2> QED BY <2>2, <2>3, <2>4, <2>5 DEF InBetween
  <1>7. ASSUME NEW n \in Machine, Rotate(n) PROVE InBetween(m)'
    <2>1. UNCHANGED <<registry, phase, results, status>> /\ Here' = Here
      BY <1>7, RotateShape DEF run
    <2> QED BY <1>2, <2>1 DEF InBetween
  <1> QED BY <1>3, <1>4, <1>5, <1>6, <1>7 DEF Next, Scheduling

LEMMA NoneForgotten == Spec => [](Unshared /\ Remembered)
  <1>1. FleetInv /\ Unshared /\ Remembered /\ [Next]_vars => (Unshared /\ Remembered)'
    <2> SUFFICES ASSUME FleetInv, Unshared, Remembered, [Next]_vars PROVE (Unshared /\ Remembered)'
      OBVIOUS
    <2>1. CASE Next
      BY <2>1, UnsharedStep, RememberedStep DEF FleetInv
    <2>2. CASE UNCHANGED vars
      <3>1. UNCHANGED <<registry, agent, phase, batches, at, fresh, results, status>>
        BY <2>2 DEF vars, run
      <3> QED BY <3>1 DEF Unshared, Used, Ids, Here, Remembered, Rowless, InBetween
    <2> QED BY <2>1, <2>2
  <1> QED BY UnsharedInit, FleetInvariance, <1>1, PTL DEF Spec

\* Registry.Delete, Registry.Put, reRegister: a machine never has two rows in
\* nodes.jsonl, wherever its re-registration is interrupted and however often it is
\* renamed, and it has none only between Delete and Put or when the run failed there.
THEOREM OneRowAlways == Spec => []OneRowPerMachine
  <1>1. FleetInv /\ Remembered => OneRowPerMachine
    <2> SUFFICES ASSUME FleetInv, Remembered, NEW m \in Machine
                 PROVE  Cardinality(RowsOf(m)) <= 1 /\ (RowsOf(m) = {} => InBetween(m))
      BY DEF OneRowPerMachine
    <2>1. m # 0
      BY DEF Machine
    <2>2. \A k, id \in RowsOf(m) : k = id
      BY <2>1 DEF FleetInv, Rows, OneRow, RowsOf
    <2>3. RowsOf(m) = {} \/ \E k : RowsOf(m) = {k}
      BY <2>2
    <2>4. Cardinality(RowsOf(m)) = 0 \/ Cardinality(RowsOf(m)) = 1
      BY <2>3, FS_EmptySet, FS_Singleton, Zenon
    <2>5. RowsOf(m) = {} => InBetween(m)
      BY DEF RowsOf, Rowless, Remembered
    <2> QED BY <2>4, <2>5
  <1> QED BY <1>1, FleetInvariance, NoneForgotten, PTL

\* runOne: an agent applies an intent at most once for the call and once for
\* each retry it has, a high-risk intent at most once, whatever answers are lost.
THEOREM WithinBudget == Spec => []AppliedWithinBudget
  <1>1. FleetInv => AppliedWithinBudget
    <2> SUFFICES ASSUME FleetInv, NEW m \in Machine, NEW i \in Intent
                 PROVE  effects[m][i] <= 1 + Budget(i)
      BY DEF AppliedWithinBudget, Budget
    <2>1. Shape /\ Whole /\ Served /\ Budget(i) \in Nat
      BY BudgetTypes DEF FleetInv
    <2>2. CASE phase = "idle"
      BY <2>1, <2>2 DEF Served
    <2>3. CASE phase # "idle"
      <3>1. PICK p \in Place : Who(p) = m /\ p.i = i
        BY <2>1, <2>3, EveryPair
      <3>2. Before(p, at) \/ p = at \/ Before(at, p)
        BY <2>1, <2>3, HereTypes, StepOrder
      <3>3. Done(p) <= 1 + Budget(i)
        BY <2>1, <2>3, <3>1, <3>2 DEF Served
      <3> QED BY <3>1, <3>3 DEF Done
    <2> QED BY <2>2, <2>3
  <1> QED BY <1>1, FleetInvariance, PTL

\* Run: a plan that is complete has been applied by every machine; one that is
\* dirty names the first batch nothing of which has been touched.
THEOREM VerdictEarned == Spec => []VerdictIsEarned
  <1>1. FleetInv => VerdictIsEarned
    <2> SUFFICES ASSUME FleetInv PROVE VerdictIsEarned
      OBVIOUS
    <2>1. Shape /\ Whole /\ Served /\ Verdict
      BY DEF FleetInv, Shape
    <2>2. ASSUME status = "complete", NEW m \in Machine, NEW i \in Intent
          PROVE  effects[m][i] > 0
      <3>1. phase # "idle" /\ Step(at).b > Len(batches)
        BY <2>1, <2>2 DEF Verdict
      <3>2. PICK p \in Place : Who(p) = m /\ p.i = i
        BY <2>1, <3>1, EveryPair
      <3>3. Before(p, at) \/ p = at
        BY <2>1, <3>1, HereTypes, StepOrder
      <3>4. Done(p) > 0
        BY <2>1, <2>2, <3>1, <3>3 DEF Served
      <3> QED BY <3>2, <3>4 DEF Done
    <2>3. ASSUME status = "dirty"
          PROVE  /\ results[Len(results)].outcome = "N3"
                 /\ stopped = 0 => results[Len(results)].m \in Range(batches[Len(batches)])
                 /\ stopped > 0 =>
                      /\ \A b \in stopped..Len(batches) : \A m \in Range(batches[b]) :
                            \A i \in Intent : effects[m][i] = 0
                      /\ results[Len(results)].m \in Range(batches[stopped - 1])
      <3>1. /\ phase # "idle" /\ results[Len(results)].outcome = "N3"
            /\ results[Len(results)].m = Here
            /\ stopped = IF at.b < Len(batches) THEN at.b + 1 ELSE 0
        BY <2>1, <2>3 DEF Verdict
      <3>2. /\ Divided(batches) /\ at \in Place
            /\ at.b \in 1..Len(batches) /\ Len(batches) \in Nat /\ at.b \in Nat
            /\ at.b \in DOMAIN batches /\ at.j \in DOMAIN batches[at.b]
        BY <2>1, <3>1, HereTypes, PlaceTypes DEF Place
      <3>3. Here \in Range(batches[at.b])
        BY <3>2 DEF Here, Range
      <3>4. stopped = 0 => at.b = Len(batches)
        BY <3>1, <3>2
      <3>5. stopped > 0 => stopped - 1 = at.b /\ stopped = at.b + 1
        BY <3>1, <3>2
      <3>6. ASSUME stopped > 0, NEW b \in stopped..Len(batches), NEW m \in Range(batches[b]),
                   NEW i \in Intent
            PROVE  effects[m][i] = 0
        <4>1. PICK j \in DOMAIN batches[b] : batches[b][j] = m
          BY DEF Range
        <4> DEFINE p == [b |-> b, j |-> j, i |-> i]
        <4>2. b \in Nat /\ b \in DOMAIN batches /\ b > at.b
          <5>1. DOMAIN batches = 1..Len(batches)
            BY <3>2 DEF Divided
          <5>2. stopped = at.b + 1
            BY <3>5, <3>6
          <5>3. b \in (at.b + 1)..Len(batches)
            BY <3>6, <5>2
          <5> QED BY <3>2, <5>1, <5>3
        <4>3. batches[b] \in Seq(Machine)
          BY <3>2, <4>2 DEF Divided
        <4>4. j \in Nat
          BY <4>1, <4>3
        <4>5. p \in Place /\ Who(p) = m /\ p.i = i
          BY <4>1, <4>2, <4>4 DEF Place, Position, Who
        <4>6. Before(at, p)
          BY <4>2 DEF Before
        <4>7. Done(p) = 0
          BY <2>1, <3>1, <4>5, <4>6 DEF Served
        <4> QED BY <4>5, <4>7 DEF Done
      <3> QED BY <3>1, <3>3, <3>4, <3>5, <3>6
    <2> QED BY <2>2, <2>3 DEF VerdictIsEarned
  <1> QED BY <1>1, FleetInvariance, PTL

----------------------------------------------------------------------------
(* What a run has to do, in its order. *)

Offsets == CHOOSE off : IsOffset(off, batches)

\* The number of a place on the agenda.
Index(p) == (Offsets[p.b] + p.j - 1) * NumIntents + p.i

\* Rows of n fields laid end to end.
LEMMA Laid ==
  ASSUME NEW x \in Nat, NEW i \in Intent, NEW w, w = x * NumIntents + i
  PROVE  w \in Nat /\ (w - 1) \div NumIntents = x /\ (w - 1) % NumIntents = i - 1
  <1> DEFINE r == i - 1
  <1>1. r \in Nat /\ r < NumIntents /\ i = r + 1 /\ NumIntents \in Nat
    BY DEF Intent
  <1> HIDE DEF r
  <1>2. (x * NumIntents + r) % NumIntents = r /\ (x * NumIntents + r) \div NumIntents = x
    BY <1>1
  <1>3. x * NumIntents \in Nat
    BY <1>1
  <1>4. x * NumIntents + i - 1 = x * NumIntents + r
    BY <1>1, <1>3
  <1> QED BY <1>1, <1>2, <1>3, <1>4

LEMMA Ordered ==
  ASSUME NEW x \in Nat, NEW y \in Nat, NEW i \in Intent, NEW k \in Intent,
         x < y \/ (x = y /\ i < k)
  PROVE  x * NumIntents + i < y * NumIntents + k
  <1>1. NumIntents \in Nat /\ i \in Nat /\ k \in Nat /\ i <= NumIntents /\ 1 <= k
        /\ x * NumIntents \in Nat /\ y * NumIntents \in Nat
    BY DEF Intent
  <1>2. CASE x < y
    <2>1. (x + 1) * NumIntents <= y * NumIntents
      BY <1>1, <1>2
    <2>2. (x + 1) * NumIntents = x * NumIntents + NumIntents
      BY <1>1
    <2> QED BY <1>1, <2>1, <2>2
  <1>3. CASE x = y /\ i < k
    BY <1>1, <1>3
  <1> QED BY <1>2, <1>3

LEMMA PlaceNumbers ==
  ASSUME Divided(batches), Covers(batches, Machine)
  PROVE  /\ IsOffset(Offsets, batches)
         /\ FlattenSeq(batches) \in Seq(Machine) /\ Len(FlattenSeq(batches)) = NumMachines
         /\ \A p \in Place :
              /\ Offsets[p.b] \in Nat /\ Offsets[p.b] + p.j - 1 \in 0..(NumMachines - 1)
              /\ FlattenSeq(batches)[Offsets[p.b] + p.j] = Who(p)
  <1>1. IsOffset(Offsets, batches)
    BY FlattenAll, Zenon DEF Offsets
  <1>2. FlattenSeq(batches) \in Seq(Machine) /\ Len(FlattenSeq(batches)) = NumMachines
    BY FlattenAll
  <1>3. ASSUME NEW p \in Place
        PROVE  /\ Offsets[p.b] \in Nat /\ Offsets[p.b] + p.j - 1 \in 0..(NumMachines - 1)
               /\ FlattenSeq(batches)[Offsets[p.b] + p.j] = Who(p)
    <2>1. /\ p.b \in 1..Len(batches) /\ p.j \in 1..Len(batches[p.b])
          /\ Len(batches) \in Nat /\ p.j \in Nat /\ p.j >= 1
      BY PlaceTypes
    <2>2. Offsets \in [1..(Len(batches) + 1) -> Nat]
      BY <1>1 DEF IsOffset
    <2>3. p.b \in 1..(Len(batches) + 1)
      BY <2>1
    <2>4. Offsets[p.b] \in Nat
      BY <2>2, <2>3
    <2>5. /\ Offsets[p.b] + p.j <= Len(FlattenSeq(batches))
          /\ FlattenSeq(batches)[Offsets[p.b] + p.j] = batches[p.b][p.j]
      BY <1>1, <2>1, Zenon DEF IsOffset
    <2>6. Offsets[p.b] + p.j <= NumMachines
      BY <1>2, <2>5
    <2> QED BY <2>1, <2>4, <2>5, <2>6 DEF Who
  <1> QED BY <1>1, <1>2, <1>3

\* A place is found on the agenda under its number.
LEMMA OnAgenda ==
  ASSUME Divided(batches), Covers(batches, Machine), NEW p \in Place
  PROVE  /\ Index(p) \in DOMAIN Agenda
         /\ Agenda[Index(p)] = [m |-> Who(p), i |-> p.i]
  <1> DEFINE r == FlattenSeq(batches)
             x == Offsets[p.b] + p.j - 1
  <1>1. /\ r \in Seq(Machine) /\ Len(r) = NumMachines
        /\ x \in 0..(NumMachines - 1) /\ r[Offsets[p.b] + p.j] = Who(p)
        /\ Offsets[p.b] \in Nat
    BY PlaceNumbers
  <1>2. p.i \in Intent /\ p.j \in Nat
    BY PlaceTypes
  <1>3. Offsets[p.b] + p.j = 1 + x
    BY <1>1, <1>2
  <1>4. Agenda = [k \in 1..(NumMachines * NumIntents) |->
                   [m |-> r[1 + (k - 1) \div NumIntents], i |-> 1 + ((k - 1) % NumIntents)]]
    BY <1>1 DEF Agenda
  <1> HIDE DEF r, x
  <1>5. Index(p) = x * NumIntents + p.i
    BY DEF Index, x
  <1>6. /\ Index(p) \in Nat /\ (Index(p) - 1) \div NumIntents = x
        /\ (Index(p) - 1) % NumIntents = p.i - 1
    <2>1. x \in Nat
      BY <1>1
    <2> QED BY <1>2, <1>5, <2>1, Laid, Zenon
  <1>7. Index(p) \in 1..(NumMachines * NumIntents)
    <2>1. x * NumIntents \in Nat /\ (NumMachines - 1) * NumIntents \in Nat /\ x \in Nat
      BY <1>1
    <2>2. x * NumIntents <= (NumMachines - 1) * NumIntents
      BY <1>1
    <2>3. (NumMachines - 1) * NumIntents + NumIntents = NumMachines * NumIntents
      OBVIOUS
    <2>4. p.i \in Nat /\ 1 <= p.i /\ p.i <= NumIntents
      BY <1>2 DEF Intent
    <2> QED BY <1>5, <1>6, <2>1, <2>2, <2>3, <2>4
  <1>8. Agenda[Index(p)] = [m |-> r[1 + x], i |-> p.i]
    <2>1. 1 + (p.i - 1) = p.i
      BY <1>2 DEF Intent
    <2> QED BY <1>4, <1>6, <1>7, <2>1
  <1> QED BY <1>1, <1>3, <1>4, <1>7, <1>8

\* Places come on the agenda in the order in which they are served.
LEMMA AgendaOrder ==
  ASSUME Divided(batches), Covers(batches, Machine), NEW p \in Place, NEW q \in Place, Before(p, q)
  PROVE  Index(p) < Index(q)
  <1> DEFINE x == Offsets[p.b] + p.j - 1
             y == Offsets[q.b] + q.j - 1
  <1>1. /\ IsOffset(Offsets, batches) /\ batches \in Seq(Seq(Machine))
        /\ Offsets[p.b] \in Nat /\ Offsets[q.b] \in Nat
        /\ x \in 0..(NumMachines - 1) /\ y \in 0..(NumMachines - 1)
    BY PlaceNumbers DEF Divided
  <1>2. /\ p.b \in 1..Len(batches) /\ p.j \in 1..Len(batches[p.b])
        /\ q.b \in 1..Len(batches) /\ q.j \in 1..Len(batches[q.b])
        /\ p.i \in Intent /\ q.i \in Intent
        /\ p.j \in Nat /\ q.j \in Nat /\ q.j >= 1 /\ Len(batches[p.b]) \in Nat
    BY PlaceTypes
  <1>3. x < y \/ (x = y /\ p.i < q.i)
    <2>1. CASE p.b < q.b
      <3>1. Offsets[p.b] + Len(batches[p.b]) <= Offsets[q.b]
        BY <1>1, <1>2, <2>1, OffsetsGrow
      <3> DEFINE o == Offsets[p.b]
                 w == Offsets[q.b]
                 n == Len(batches[p.b])
      <3>2. /\ o \in Nat /\ w \in Nat /\ n \in Nat /\ o + n <= w /\ p.j <= n
            /\ p.j \in Nat /\ q.j \in Nat /\ q.j >= 1
        BY <1>1, <1>2, <3>1
      <3> HIDE DEF o, w, n
      <3>3. o + p.j - 1 < w + q.j - 1
        BY <3>2
      <3> QED BY <3>3 DEF o, w
    <2>2. CASE p.b = q.b
      <3> DEFINE o == Offsets[p.b]
      <3>1. /\ o \in Nat /\ p.j \in Nat /\ q.j \in Nat /\ x = o + p.j - 1 /\ y = o + q.j - 1
            /\ (p.j < q.j \/ (p.j = q.j /\ p.i < q.i))
        <4>1. p.b \in Nat /\ (p.j < q.j \/ (p.j = q.j /\ p.i < q.i))
          BY <1>2, <2>2 DEF Before
        <4> QED BY <1>1, <1>2, <2>2, <4>1
      <3> HIDE DEF o, x, y
      <3> QED BY <3>1
    <2> QED BY <2>1, <2>2 DEF Before
  <1>4. x \in Nat /\ y \in Nat
    BY <1>1
  <1> HIDE DEF x, y
  <1>5. x * NumIntents + p.i < y * NumIntents + q.i
    BY <1>2, <1>3, <1>4, Ordered
  <1> QED BY <1>5 DEF Index, x, y

\* And there is nothing else on it.
LEMMA AgendaOnly ==
  ASSUME Divided(batches), Covers(batches, Machine), NEW k \in DOMAIN Agenda
  PROVE  \E p \in Place : Index(p) = k
  <1> DEFINE x == (k - 1) \div NumIntents
             i == 1 + ((k - 1) % NumIntents)
  <1>1. /\ IsOffset(Offsets, batches) /\ FlattenSeq(batches) \in Seq(Machine)
        /\ Len(FlattenSeq(batches)) = NumMachines
    BY PlaceNumbers
  <1>2. DOMAIN Agenda = 1..(NumMachines * NumIntents)
    BY <1>1 DEF Agenda
  <1>3. k - 1 \in Nat /\ k \in Nat /\ k <= NumMachines * NumIntents
    BY <1>2
  <1>4. /\ k - 1 = x * NumIntents + ((k - 1) % NumIntents)
        /\ (k - 1) % NumIntents \in 0..(NumIntents - 1) /\ x \in Nat
    <2> DEFINE c == k - 1
    <2>1. c \in Nat /\ NumIntents \in Nat /\ NumIntents > 0
      BY <1>3
    <2> HIDE DEF c
    <2>2. c = (c \div NumIntents) * NumIntents + (c % NumIntents)
          /\ c % NumIntents \in 0..(NumIntents - 1) /\ c \div NumIntents \in Nat
      BY <2>1
    <2> QED BY <2>2 DEF c
  <1>5. i \in Intent /\ k = x * NumIntents + i
    <2> DEFINE rest == (k - 1) % NumIntents
               row == x * NumIntents
    <2>1. row \in Nat /\ rest \in 0..(NumIntents - 1) /\ i = 1 + rest /\ k - 1 = row + rest
      BY <1>4
    <2> HIDE DEF rest, row, i
    <2>2. i \in Intent
      BY <2>1 DEF Intent
    <2>3. k = row + i
      BY <1>3, <2>1
    <2> QED BY <2>2, <2>3 DEF row
  <1> HIDE DEF x, i
  <1>6. x < NumMachines
    <2>1. SUFFICES ASSUME ~(x < NumMachines) PROVE FALSE
      OBVIOUS
    <2>2. NumMachines * NumIntents <= x * NumIntents
      BY <1>4, <2>1
    <2>3. i \in Nat /\ 1 <= i /\ x * NumIntents \in Nat /\ NumMachines * NumIntents \in Nat
      BY <1>4, <1>5 DEF Intent
    <2> QED BY <1>3, <1>5, <2>2, <2>3
  <1>7. x + 1 \in 1..Len(FlattenSeq(batches))
    BY <1>1, <1>4, <1>6
  <1>8. PICK b \in 1..Len(batches) : \E j \in 1..Len(batches[b]) : x + 1 = Offsets[b] + j
    <2>1. \A l \in 1..Len(FlattenSeq(batches)) :
            \E b \in 1..Len(batches) : \E j \in 1..Len(batches[b]) : l = Offsets[b] + j
      BY <1>1, Zenon DEF IsOffset
    <2> QED BY <1>7, <2>1
  <1>9. PICK j \in 1..Len(batches[b]) : x + 1 = Offsets[b] + j
    BY <1>8
  <1> DEFINE p == [b |-> b, j |-> j, i |-> i]
  <1>10. batches \in Seq(Seq(Machine)) /\ b \in DOMAIN batches /\ b \in Nat
    BY DEF Divided
  <1>11. batches[b] \in Seq(Machine)
    BY <1>10
  <1>12. j \in DOMAIN batches[b] /\ j \in Nat
    BY <1>11
  <1>13. p \in Place
    BY <1>5, <1>10, <1>12 DEF Place, Position
  <1>14. Offsets[b] \in Nat
    BY <1>13, PlaceNumbers
  <1>15. Offsets[b] + j - 1 = x
    <2> DEFINE o == Offsets[b]
    <2>1. o \in Nat /\ x \in Nat /\ j \in Nat /\ x + 1 = o + j
      BY <1>4, <1>9, <1>12, <1>14
    <2> HIDE DEF o
    <2>2. o + j - 1 = x
      BY <2>1
    <2> QED BY <2>2 DEF o
  <1>16. Index(p) = k
    BY <1>5, <1>15 DEF Index
  <1> QED BY <1>13, <1>16

\* The loops of Run take the agenda in its order and end with it.
LEMMA StepIndex ==
  ASSUME Divided(batches), Covers(batches, Machine), at \in Place
  PROVE  /\ Index(at) \in 1..(NumMachines * NumIntents)
         /\ ~(Step(at).b > Len(batches)) => Index(Step(at)) = Index(at) + 1
         /\ Step(at).b > Len(batches) => Index(at) = NumMachines * NumIntents
  <1> DEFINE s == Step(at)
             o == Offsets[at.b]
             N == Len(batches[at.b])
             Q == NumIntents
  <1>1. /\ at.b \in 1..Len(batches) /\ at.j \in 1..N /\ at.i \in 1..Q
        /\ Len(batches) \in Nat /\ N \in Nat
        /\ at.b \in Nat /\ at.j \in Nat /\ at.i \in Nat
        /\ at = [b |-> at.b, j |-> at.j, i |-> at.i]
    BY PlaceTypes DEF Intent
  <1>2. /\ IsOffset(Offsets, batches) /\ o \in Nat /\ Len(FlattenSeq(batches)) = NumMachines
    BY PlaceNumbers
  <1>3. Index(at) \in 1..(NumMachines * NumIntents)
    <2>1. DOMAIN Agenda = 1..(NumMachines * NumIntents)
      BY <1>2 DEF Agenda
    <2> QED BY <2>1, OnAgenda
  <1>4. /\ Offsets[at.b + 1] = o + N
        /\ Offsets[Len(batches) + 1] = NumMachines
    BY <1>1, <1>2, Zenon DEF IsOffset
  <1>5. Q \in Nat /\ Q > 0 /\ NumMachines \in Nat
    OBVIOUS
  <1>6. Index(at) = (o + at.j - 1) * Q + at.i
    BY DEF Index
  <1>7. CASE at.i < Q
    <2>1. s = [b |-> at.b, j |-> at.j, i |-> at.i + 1]
      BY <1>1, <1>7 DEF Step
    <2>2. Index(s) = (o + at.j - 1) * Q + (at.i + 1)
      BY <2>1 DEF Index
    <2> DEFINE w == (o + at.j - 1) * Q
    <2>3. w \in Int
      BY <1>1, <1>2, <1>5
    <2>4. Index(s) = w + (at.i + 1) /\ Index(at) = w + at.i
      BY <1>6, <2>2
    <2>5. s.b = at.b
      BY <2>1
    <2> HIDE DEF w, s, Q
    <2>6. Index(s) = Index(at) + 1 /\ ~(s.b > Len(batches))
      BY <1>1, <2>3, <2>4, <2>5
    <2> QED BY <1>3, <2>6 DEF s
  <1> DEFINE x == o + at.j
  <1>8. x \in Nat /\ o + at.j - 1 = x - 1 /\ (x - 1) * Q + Q = x * Q
    <2>1. x \in Nat /\ o + at.j - 1 = x - 1
      BY <1>1, <1>2
    <2> HIDE DEF x
    <2>2. (x - 1) * Q + Q = x * Q
      BY <1>5, <2>1
    <2> QED BY <2>1, <2>2
  <1>9. at.i = Q => Index(at) = x * Q
    BY <1>6, <1>8
  <1>10. CASE at.i = Q /\ at.j < N
    <2>1. s = [b |-> at.b, j |-> at.j + 1, i |-> 1]
      BY <1>1, <1>10 DEF Step
    <2>2. Index(s) = (o + (at.j + 1) - 1) * Q + 1
      BY <2>1 DEF Index
    <2>3. o + (at.j + 1) - 1 = x
      BY <1>1, <1>2
    <2>4. Index(s) = Index(at) + 1
      BY <1>9, <1>10, <2>2, <2>3
    <2>5. ~(s.b > Len(batches))
      BY <1>1, <2>1
    <2> QED BY <1>3, <2>4, <2>5
  <1>11. CASE at.i = Q /\ at.j = N
    <2>1. s = [b |-> at.b + 1, j |-> 1, i |-> 1]
      BY <1>1, <1>11 DEF Step
    <2>2. Offsets[at.b + 1] = x /\ s.b = at.b + 1
      BY <1>4, <1>11, <2>1
    <2>3. Index(s) = (x + 1 - 1) * Q + 1
      BY <2>1, <2>2 DEF Index
    <2>4. x + 1 - 1 = x
      BY <1>8
    <2>5. Index(s) = Index(at) + 1
      BY <1>9, <1>11, <2>3, <2>4
    <2>6. ASSUME s.b > Len(batches) PROVE Index(at) = NumMachines * Q
      <3>1. at.b = Len(batches)
        BY <1>1, <2>2, <2>6
      <3>2. x = NumMachines
        BY <1>4, <2>2, <3>1
      <3> QED BY <1>9, <1>11, <3>2
    <2> QED BY <1>3, <2>5, <2>6
  <1> QED BY <1>1, <1>7, <1>10, <1>11

\* The results are the agenda up to the present place, and a failure ends the run.
Listed ==
    phase # "idle" =>
      /\ Len(results) = IF phase = "ended" THEN Index(at) ELSE Index(at) - 1
      /\ \A k \in 1..Len(results) :
            /\ [m |-> results[k].m, i |-> results[k].i] = Agenda[k]
            /\ results[k].outcome = "N3" => k = Len(results) /\ phase = "ended"

LEMMA ConcludeListed ==
  ASSUME Shape, Whole, Listed, Busy, NEW outcome \in {"N1", "N3"}, NEW why \in Why,
         Conclude(outcome, why), target' \in AnyTarget, UNCHANGED batches
  PROVE  Listed'
  <1>1. phase # "idle" /\ phase # "ended"
    BY DEF Busy, ServePhases
  <1>2. /\ Divided(batches) /\ Covers(batches, Machine)
        /\ at \in Place /\ Here = Who(at) /\ Here \in Machine /\ at.i \in Intent
    BY <1>1, HereTypes DEF Shape, Placed, Whole
  <1> DEFINE result == [m |-> Here, i |-> at.i, node |-> target'.id, outcome |-> outcome, why |-> why]
             n == Len(results)
  <1>3. /\ results \in Seq(Result) /\ results' = Append(results, result) /\ result \in Result
        /\ [m |-> result.m, i |-> result.i] = [m |-> Who(at), i |-> at.i]
        /\ result.outcome = outcome
    BY <1>2 DEF Shape, Typed, Conclude, Result, AnyTarget
  <1> HIDE DEF result
  <1>4. n \in Nat /\ Len(results') = n + 1 /\ results'[n + 1] = result
        /\ \A k \in 1..n : results'[k] = results[k]
    BY <1>3
  <1>5. /\ n = Index(at) - 1 /\ Index(at) \in Nat
        /\ \A k \in 1..n : /\ [m |-> results[k].m, i |-> results[k].i] = Agenda[k]
                           /\ results[k].outcome # "N3"
    <2>1. Index(at) \in Nat
      BY <1>2, StepIndex
    <2> QED BY <1>1, <2>1 DEF Listed
  <1>6. Len(results') = Index(at)
    BY <1>4, <1>5
  <1>7. Agenda' = Agenda /\ \A p : Index(p)' = Index(p)
    BY DEF Agenda, Index, Offsets
  <1>8. \/ /\ phase' = "ended" /\ at' = at
        \/ /\ ~(Step(at).b > Len(batches)) /\ at' = Step(at) /\ phase' = "open" /\ outcome = "N1"
    BY DEF Conclude
  <1>9. Len(results') = IF phase' = "ended" THEN Index(at)' ELSE Index(at)' - 1
    <2>1. CASE phase' = "ended" /\ at' = at
      <3>1. Index(at)' = Index(at)
        BY <2>1 DEF Index, Offsets
      <3> QED BY <1>6, <2>1, <3>1
    <2>2. CASE ~(Step(at).b > Len(batches)) /\ at' = Step(at) /\ phase' = "open"
      <3>1. Index(at)' = Index(Step(at))
        BY <2>2 DEF Index, Offsets
      <3>2. Index(Step(at)) = Index(at) + 1
        BY <1>2, <2>2, StepIndex
      <3> QED BY <1>5, <1>6, <2>2, <3>1, <3>2
    <2> QED BY <1>8, <2>1, <2>2
  <1>10. ASSUME NEW k \in 1..Len(results')
         PROVE  /\ [m |-> results'[k].m, i |-> results'[k].i] = Agenda[k]
                /\ results'[k].outcome = "N3" => k = Len(results') /\ phase' = "ended"
    <2>1. k \in 1..n \/ k = n + 1
      BY <1>4
    <2>2. CASE k \in 1..n
      BY <1>4, <1>5, <2>2
    <2>3. CASE k = n + 1
      <3>1. k = Index(at) /\ results'[k] = result
        BY <1>4, <1>5, <2>3
      <3>2. Agenda[k] = [m |-> result.m, i |-> result.i]
        BY <1>2, <1>3, <3>1, OnAgenda
      <3> QED BY <1>3, <1>4, <1>8, <2>3, <3>1, <3>2
    <2> QED BY <2>1, <2>2, <2>3
  <1> QED BY <1>7, <1>9, <1>10 DEF Listed

LEMMA GoesOnListed ==
  ASSUME Listed, Busy, UNCHANGED <<batches, at, results>>, phase' \in ServePhases \/ phase' = phase
  PROVE  Listed'
  <1>1. /\ phase # "idle" /\ phase # "ended" /\ phase' # "ended"
    BY DEF Busy, ServePhases
  <1>2. Agenda' = Agenda /\ Index(at)' = Index(at)
    BY DEF Agenda, Index, Offsets
  <1> QED BY <1>1, <1>2 DEF Listed

LEMMA ListedNext ==
  ASSUME Shape, Rows, Whole, Listed, Next
  PROVE  Listed'
  <1>1. CASE StartRun(Everyone)
    <2>1. /\ phase = "idle" /\ phase' = "open" /\ results' = <<>> /\ at' = [b |-> 1, j |-> 1, i |-> 1]
      BY <1>1 DEF StartRun
    <2>2. Divided(batches') /\ Covers(batches', Machine)
      <3>1. Shape' /\ DOMAIN nodes' = Machine
        BY <1>1, StartShape, EveryoneStarts DEF Rows
      <3> QED BY <2>1, <3>1 DEF Shape, Placed
    <2>3. IsOffset(Offsets', batches')
      BY <2>2, FlattenAll, Zenon DEF Offsets
    <2>4. Offsets'[1] = 0
      BY <2>3 DEF IsOffset
    <2>5. Index(at)' = (0 + 1 - 1) * NumIntents + 1
      BY <2>1, <2>4 DEF Index
    <2>6. (0 + 1 - 1) * NumIntents + 1 = 1
      OBVIOUS
    <2>7. Len(results') = 0
      BY <2>1
    <2> QED BY <2>1, <2>5, <2>6, <2>7 DEF Listed
  <1>2. CASE Refuse \/ ReRegisterFails
    <2>1. /\ Busy /\ UNCHANGED batches /\ \E why \in Why : Conclude("N3", why)
      BY <1>2 DEF Refuse, ReRegisterFails, Busy, ServePhases, Why
    <2>2. target' \in AnyTarget
      <3>1. CASE Refuse
        <4>1. phase # "idle" /\ target' = nodes[Here]
          BY <3>1 DEF Refuse
        <4> QED BY <4>1, HereTypes
      <3>2. CASE ReRegisterFails
        BY <3>2 DEF ReRegisterFails, Shape, Typed
      <3> QED BY <1>2, <3>1, <3>2
    <2> QED BY <2>1, <2>2, ConcludeListed
  <1>3. CASE Open
    <2>1. /\ Busy /\ UNCHANGED <<batches, at, results>> /\ phase' \in ServePhases
      BY <1>3 DEF Open, GoesOn, Busy, ServePhases
    <2> QED BY <2>1, GoesOnListed
  <1>4. CASE Dispatch
    <2>1. Busy /\ UNCHANGED batches /\ target' \in AnyTarget
      BY <1>4, DispatchCases DEF Dispatch, Busy, ServePhases, Shape, Typed
    <2>2. CASE \/ Conclude("N1", "success")
               \/ \E why \in {"mismatch", "exhausted", "refused"} : Conclude("N3", why)
      BY <2>1, <2>2, ConcludeListed DEF Why
    <2>3. CASE GoesOn("register") \/ GoesOn("send")
      <3>1. UNCHANGED <<at, results>> /\ phase' \in ServePhases
        BY <2>3 DEF GoesOn, ServePhases
      <3> QED BY <2>1, <3>1, GoesOnListed
    <2> QED BY <1>4, <2>2, <2>3, DispatchCases
  <1>5. CASE Register \/ Delete \/ Put
    <2>1. /\ Busy /\ UNCHANGED <<batches, at, results>> /\ phase' \in ServePhases
      BY <1>5 DEF Register, Delete, Put, GoesOn, Busy, ServePhases
    <2> QED BY <2>1, GoesOnListed
  <1>6. ASSUME NEW m \in Machine, Rotate(m) PROVE Listed'
    <2>1. UNCHANGED <<phase, batches, at, results>>
      BY <1>6 DEF Rotate, run
    <2> QED BY <2>1 DEF Listed, Agenda, Index, Offsets
  <1> QED BY <1>1, <1>2, <1>3, <1>4, <1>5, <1>6 DEF Next, Scheduling

\* What separates two stages of a run: a digit of weight R, one of weight 4.
LEMMA Nearer ==
  ASSUME NEW x \in Nat, NEW y \in Nat, NEW r \in 0..RetryMax, NEW q \in 0..RetryMax,
         NEW c \in 0..3, NEW d \in 0..3,
         \/ x < y
         \/ x = y /\ (r < q \/ (r = q /\ c < d))
  PROVE  (x * (RetryMax + 1) + r) * 4 + c < (y * (RetryMax + 1) + q) * 4 + d
  <1> DEFINE R == RetryMax + 1
             a == x * R
             b == y * R
  <1>1. R \in Nat /\ r \in Nat /\ q \in Nat /\ r < R /\ q < R
    OBVIOUS
  <1> HIDE DEF R
  <1>2. a \in Nat /\ b \in Nat
    BY <1>1
  <1>3. a + r < b + q \/ (a + r = b + q /\ c < d)
    <2>1. CASE x < y
      <3>1. (x + 1) * R <= y * R /\ (x + 1) * R = a + R
        BY <1>1, <2>1
      <3> HIDE DEF a
      <3>2. a + R <= b
        BY <3>1
      <3> HIDE DEF b
      <3> QED BY <1>1, <1>2, <3>2
    <2>2. CASE x = y /\ (r < q \/ (r = q /\ c < d))
      <3>1. a = b
        BY <2>2
      <3> HIDE DEF a, b
      <3> QED BY <1>1, <1>2, <2>2, <3>1
    <2> QED BY <2>1, <2>2
  <1> HIDE DEF a, b
  <1>4. (a + r) * 4 + c < (b + q) * 4 + d
    BY <1>1, <1>2, <1>3
  <1> QED BY <1>4 DEF a, b, R

LEMMA ListedAlways == Spec => []Listed
  <1>1. Init => Listed
    BY DEF Init, Listed
  <1>2. Listed /\ UNCHANGED vars => Listed'
    BY DEF vars, run, Listed, Agenda, Index, Offsets
  <1>3. FleetInv /\ Listed /\ [Next]_vars => Listed'
    BY <1>2, ListedNext DEF FleetInv
  <1> QED BY <1>1, <1>3, FleetInvariance, PTL DEF Spec

\* Run, SplitBatches: whatever the batching, every machine and intent is served
\* once, in the order of the batches, and nothing is sent past a failure.
THEOREM NothingAfterFailure == Spec => []NothingPastAFailure
  <1>1. FleetInv /\ Listed => NothingPastAFailure
    <2> SUFFICES ASSUME FleetInv, Listed, phase # "idle"
                 PROVE  LET agenda == Agenda
                            served == Len(results) + (IF Running THEN 1 ELSE 0)
                        IN  /\ Len(agenda) = NumMachines * NumIntents
                            /\ Range(agenda) = [m : Machine, i : Intent]
                            /\ \A k \in DOMAIN results :
                                  /\ [m |-> results[k].m, i |-> results[k].i] = agenda[k]
                                  /\ results[k].outcome = "N3" => k = Len(results)
                            /\ \A k \in DOMAIN agenda : k > served => effects[agenda[k].m][agenda[k].i] = 0
      BY DEF NothingPastAFailure
    <2>1. /\ Shape /\ Whole /\ Served /\ at \in Place
          /\ Divided(batches) /\ Covers(batches, Machine)
      BY HereTypes DEF FleetInv, Shape, Placed, Whole
    <2>2. DOMAIN Agenda = 1..(NumMachines * NumIntents) /\ Len(Agenda) = NumMachines * NumIntents
      <3>1. DOMAIN Agenda = 1..(NumMachines * NumIntents) /\ NumMachines * NumIntents \in Nat
        BY <2>1, PlaceNumbers DEF Agenda
      <3> QED BY <3>1
    <2>3. \A k \in DOMAIN Agenda : \E p \in Place : Index(p) = k /\ Agenda[k] = [m |-> Who(p), i |-> p.i]
      <3> TAKE k \in DOMAIN Agenda
      <3>1. PICK p \in Place : Index(p) = k
        BY <2>1, AgendaOnly
      <3>2. Agenda[Index(p)] = [m |-> Who(p), i |-> p.i]
        BY <2>1, OnAgenda
      <3> QED BY <3>1, <3>2
    <2>4. Range(Agenda) = [m : Machine, i : Intent]
      <3>1. Range(Agenda) = {Agenda[k] : k \in DOMAIN Agenda}
        BY DEF Range
      <3>2. ASSUME NEW k \in DOMAIN Agenda PROVE Agenda[k] \in [m : Machine, i : Intent]
        <4>1. PICK p \in Place : Agenda[k] = [m |-> Who(p), i |-> p.i]
          BY <2>3
        <4> QED BY <2>1, <4>1, PlaceTypes
      <3>3. ASSUME NEW pair \in [m : Machine, i : Intent]
            PROVE  \E k \in DOMAIN Agenda : Agenda[k] = pair
        <4>1. PICK p \in Place : Who(p) = pair.m /\ p.i = pair.i
          BY <2>1, EveryPair
        <4>2. Index(p) \in DOMAIN Agenda /\ Agenda[Index(p)] = [m |-> pair.m, i |-> pair.i]
          BY <2>1, <4>1, OnAgenda
        <4> QED BY <4>2
      <3>4. Range(Agenda) \subseteq [m : Machine, i : Intent]
        BY <3>1, <3>2
      <3>5. [m : Machine, i : Intent] \subseteq Range(Agenda)
        BY <3>1, <3>3
      <3> QED BY <3>4, <3>5
    <2>5. DOMAIN results = 1..Len(results)
      BY <2>1 DEF Shape, Typed
    <2>6. Len(results) + (IF Running THEN 1 ELSE 0) = Index(at)
      <3>1. Index(at) \in Nat /\ (Running <=> phase # "ended")
        BY <2>1, StepIndex DEF Running, Shape, Typed, ServePhases
      <3> QED BY <3>1 DEF Listed
    <2>7. ASSUME NEW k \in DOMAIN Agenda, k > Index(at)
          PROVE  effects[Agenda[k].m][Agenda[k].i] = 0
      <3>1. PICK p \in Place : Index(p) = k /\ Agenda[k] = [m |-> Who(p), i |-> p.i]
        BY <2>3
      <3>2. Index(at) \in Nat /\ k \in Nat
        BY <2>1, <2>2, StepIndex
      <3>3. ~Before(p, at) /\ p # at
        BY <2>1, <2>7, <3>1, <3>2, AgendaOrder
      <3>4. Before(at, p)
        BY <2>1, <3>3, StepOrder
      <3> QED BY <2>1, <3>1, <3>4 DEF Served, Done
    <2> QED BY <2>2, <2>4, <2>5, <2>6, <2>7 DEF Listed
  <1> QED BY <1>1, FleetInvariance, ListedAlways, PTL

\* How far a run is from its end: pairs not concluded, and of the present one
\* whether it has been sent, whether it may register again; retries; calls.
Ahead == Len(Agenda) - Len(results)
Unsent == IF phase = "open" THEN 1 ELSE 0
Spare == IF again THEN 0 ELSE 1
Stage == (2 * Ahead + Unsent) * 2 + Spare
ToCall == CASE phase = "register" -> 3 [] phase = "delete" -> 2
            [] phase = "put" -> 1 [] OTHER -> 0

LEMMA StageNearer ==
  ASSUME NEW a \in Nat, NEW b \in Nat, NEW u \in 0..1, NEW v \in 0..1, NEW s \in 0..1, NEW t \in 0..1,
         a < b \/ (a = b /\ u < v)
  PROVE  (2 * a + u) * 2 + s \in Nat /\ (2 * a + u) * 2 + s < (2 * b + v) * 2 + t
  OBVIOUS

LEMMA DistanceParts ==
  ASSUME Shape, Whole, Listed, phase # "idle"
  PROVE  /\ Distance = (Stage * (RetryMax + 1) + retries) * 4 + ToCall
         /\ Ahead \in Nat /\ (Busy => Ahead >= 1)
         /\ Unsent \in 0..1 /\ Spare \in 0..1 /\ ToCall \in 0..3
         /\ Stage \in Nat /\ retries \in 0..RetryMax
         /\ Distance \in Nat /\ results \in Seq(Result)
         /\ Len(Agenda) \in Nat /\ Len(results) \in Nat
  <1>1. /\ Divided(batches) /\ Covers(batches, Machine)
        /\ at \in Place /\ retries \in 0..RetryMax /\ results \in Seq(Result)
    BY HereTypes DEF Shape, Typed, Placed, Whole
  <1> DEFINE L == NumMachines * NumIntents
  <1>2. L \in Nat /\ Len(Agenda) = L /\ Index(at) \in 1..L
    <2>1. DOMAIN Agenda = 1..L /\ L \in Nat
      BY <1>1, PlaceNumbers DEF Agenda
    <2>2. Agenda = [k \in 1..L |-> Agenda[k]]
      BY <1>1, PlaceNumbers DEF Agenda
    <2> HIDE DEF L
    <2>3. Len(Agenda) = L
      BY <2>1, <2>2
    <2> QED BY <1>1, <2>1, <2>3, StepIndex DEF L
  <1> HIDE DEF L
  <1>3. Len(results) = IF phase = "ended" THEN Index(at) ELSE Index(at) - 1
    BY DEF Listed
  <1>4. Ahead \in Nat /\ (Busy => Ahead >= 1) /\ Len(results) \in Nat
    <2>1. Busy => phase # "ended"
      BY DEF Busy, ServePhases
    <2> QED BY <1>2, <1>3, <2>1 DEF Ahead
  <1>5. Unsent \in 0..1 /\ Spare \in 0..1
    BY DEF Unsent, Spare
  <1>6. ToCall \in 0..3
    BY DEF ToCall
  <1>7. Stage \in Nat
    BY <1>4, <1>5 DEF Stage
  <1>8. Distance = (Stage * (RetryMax + 1) + retries) * 4 + ToCall
    BY Zenon DEF Distance, Stage, ToCall, Ahead, Unsent, Spare
  <1>9. Distance \in Nat
    <2> DEFINE w == Stage * (RetryMax + 1)
    <2>1. w \in Nat
      BY <1>7
    <2> HIDE DEF w
    <2>2. (w + retries) * 4 + ToCall \in Nat
      BY <1>1, <1>6, <2>1
    <2> QED BY <1>8, <2>2 DEF w
  <1> QED BY <1>1, <1>2, <1>4, <1>5, <1>6, <1>7, <1>8, <1>9

\* Run, runOne: a run ends, whatever the agents answer and however often they
\* change their id, as every step of the scheduler brings it nearer to its end.
THEOREM EveryRunEnds == Spec => RunEnds
  <1>1. ASSUME FleetInv, Listed, Scheduling, FleetInv', Listed'
        PROVE  Distance' < Distance /\ Distance \in Nat
    <2>1. phase # "idle" /\ phase' # "idle" /\ Busy /\ Shape /\ Whole /\ Shape' /\ UNCHANGED batches
      <3>1. /\ Busy /\ UNCHANGED batches
            /\ (\E outcome, why : Conclude(outcome, why)) \/ \E ph \in ServePhases : GoesOn(ph)
        <4>1. CASE Dispatch
          BY <4>1, DispatchCases DEF Busy, ServePhases
        <4>2. CASE Refuse \/ ReRegisterFails
          BY <4>2 DEF Refuse, ReRegisterFails, Busy, ServePhases
        <4>3. CASE Open
          BY <4>3 DEF Open, Busy, ServePhases
        <4>4. CASE Register
          BY <4>4 DEF Register, Busy, ServePhases
        <4>5. CASE Delete \/ Put
          BY <4>5 DEF Delete, Put, Busy, ServePhases
        <4> QED BY <1>1, <4>1, <4>2, <4>3, <4>4, <4>5 DEF Scheduling
      <3>2. phase' # "idle"
        BY <3>1 DEF Conclude, GoesOn, ServePhases
      <3> QED BY <1>1, <3>1, <3>2 DEF FleetInv, Busy, ServePhases
    <2>2. /\ Distance = (Stage * (RetryMax + 1) + retries) * 4 + ToCall
          /\ Ahead \in Nat /\ Ahead >= 1
          /\ Unsent \in 0..1 /\ Spare \in 0..1 /\ ToCall \in 0..3
          /\ Stage \in Nat /\ retries \in 0..RetryMax
          /\ Distance \in Nat /\ results \in Seq(Result)
          /\ Len(Agenda) \in Nat /\ Len(results) \in Nat
      BY <1>1, <2>1, DistanceParts
    <2>3. Agenda' = Agenda
      BY <2>1 DEF Agenda
    <2>4. Unsent' \in 0..1 /\ Spare' \in 0..1 /\ ToCall' \in 0..3 /\ retries' \in 0..RetryMax
      BY <2>1 DEF Unsent, Spare, ToCall, Shape, Typed
    <2>5. Distance' = (Stage' * (RetryMax + 1) + retries') * 4 + ToCall'
      BY Zenon DEF Distance, Stage, ToCall, Ahead, Unsent, Spare
    <2>6. ASSUME Stage' \in Nat, \/ Stage' < Stage
                                 \/ Stage' = Stage /\ (retries' < retries \/ (retries' = retries /\ ToCall' < ToCall))
          PROVE  Distance' < Distance
      BY <2>2, <2>4, <2>5, <2>6, Nearer
    <2>7. ASSUME NEW outcome, NEW why, Conclude(outcome, why)
          PROVE  Stage' \in Nat /\ Stage' < Stage
      <3>1. Len(results') = Len(results) + 1
        BY <2>2, <2>7 DEF Conclude
      <3>2. Ahead' = Ahead - 1
        BY <2>2, <2>3, <3>1 DEF Ahead
      <3>3. Ahead' \in Nat /\ Ahead' < Ahead
        BY <2>2, <3>2
      <3> QED BY <2>2, <2>4, <3>3, StageNearer DEF Stage
    <2>8. ASSUME NEW ph, GoesOn(ph) PROVE Ahead' = Ahead
      BY <2>3, <2>8 DEF GoesOn, Ahead
    <2>9. CASE \E outcome, why : Conclude(outcome, why)
      BY <2>2, <2>6, <2>7, <2>9
    <2>10. CASE Open
      <3>1. Ahead' = Ahead /\ Unsent = 1 /\ Unsent' = 0
        BY <2>8, <2>10 DEF Open, GoesOn, Unsent
      <3>2. Stage' \in Nat /\ Stage' < Stage
        <4>1. Ahead' \in Nat /\ (Ahead' = Ahead /\ Unsent' < Unsent)
          BY <2>2, <3>1
        <4> QED BY <2>2, <2>4, <4>1, StageNearer DEF Stage
      <3> QED BY <2>2, <2>6, <3>2
    <2>11. CASE phase = "send" /\ GoesOn("register") /\ ~again /\ again' = TRUE
      <3>1. Ahead' = Ahead /\ Unsent = 0 /\ Unsent' = 0 /\ Spare = 1 /\ Spare' = 0
        BY <2>8, <2>11 DEF GoesOn, Unsent, Spare
      <3>2. Stage' \in Nat /\ Stage' < Stage
        BY <2>2, <3>1 DEF Stage
      <3> QED BY <2>2, <2>6, <3>2
    <2>12. CASE phase = "send" /\ GoesOn("send") /\ again' = again /\ retries > 0 /\ retries' = retries - 1
      <3>1. Ahead' = Ahead /\ Unsent' = Unsent /\ Spare' = Spare
        BY <2>8, <2>12 DEF GoesOn, Unsent, Spare
      <3>2. Stage' = Stage /\ retries' < retries
        BY <2>2, <2>12, <3>1 DEF Stage
      <3> QED BY <2>2, <2>6, <3>2
    <2>13. CASE Register \/ Delete \/ Put
      <3>1. /\ \E ph : GoesOn(ph)
            /\ phase # "open" /\ phase' # "open" /\ again' = again /\ retries' = retries
        BY <2>13 DEF Register, Delete, Put, GoesOn
      <3>2. ToCall' < ToCall
        <4>1. CASE Register
          BY <4>1 DEF Register, GoesOn, ToCall
        <4>2. CASE Delete
          BY <4>2 DEF Delete, GoesOn, ToCall
        <4>3. CASE Put
          BY <4>3 DEF Put, GoesOn, ToCall
        <4> QED BY <2>13, <4>1, <4>2, <4>3
      <3>3. Ahead' = Ahead /\ Unsent' = Unsent /\ Spare' = Spare
        BY <2>8, <3>1 DEF Unsent, Spare
      <3>4. Stage' = Stage
        BY <3>3 DEF Stage
      <3> QED BY <2>2, <2>6, <3>1, <3>2, <3>4
    <2>14. CASE Dispatch
      BY <2>9, <2>11, <2>12, <2>14, DispatchCases
    <2>15. CASE Refuse \/ ReRegisterFails
      BY <2>9, <2>15 DEF Refuse, ReRegisterFails
    <2> QED BY <1>1, <2>2, <2>10, <2>13, <2>14, <2>15 DEF Scheduling
  <1>2. FleetInv /\ Listed /\ FleetInv' /\ Listed' /\ [Next]_vars
          => [Scheduling => Distance' < Distance /\ Distance \in Nat]_vars
    BY <1>1
  <1> QED BY <1>2, FleetInvariance, ListedAlways, PTL DEF Spec, RunEnds

=============================================================================
