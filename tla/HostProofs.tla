------------------------------ MODULE HostProofs ------------------------------
(* Proofs about the services of daedalus-host: what the controller drives,    *)
(* what the node registry reports, what the rescue commands claim, and all of *)
(* it again for the services side by side (HostCommands).                     *)
EXTENDS HostCommands, FiniteSetTheorems, TLAPS
----------------------------------------------------------------------------
(* NodeRegistry: what was reported done is what the table holds. *)

\* Put, Delete and MarkSeen make a table of a table.
LEMMA EffectIsTable ==
  ASSUME NEW o \in Operation, NEW t \in Table
  PROVE  Effect(o, t) \in Table
  <1>1. o.node \in Node /\ o.kind \in {"put", "delete", "seen"}
    BY DEF Operation
  <1>2. CASE o.kind = "put"
    <2>1. o.content \in Content
      BY <1>2 DEF Operation
    <2> QED BY <1>1, <1>2, <2>1 DEF Effect, Table, Entry
  <1>3. CASE o.kind = "delete"
    BY <1>1, <1>3 DEF Effect, Table
  <1>4. CASE o.kind = "seen"
    <2>1. CASE t[o.node] = NoEntry
      BY <1>4, <2>1 DEF Effect
    <2>2. CASE t[o.node] # NoEntry
      <3>1. t[o.node] \in [is : {TRUE}, content : Content, seen : BOOLEAN]
        BY <1>1, <2>2 DEF Table
      <3>2. Entry(t[o.node].content, TRUE) \in [is : {TRUE}, content : Content, seen : BOOLEAN]
        BY <3>1 DEF Entry
      <3>3. Effect(o, t) = [t EXCEPT ![o.node] = Entry(@.content, TRUE)]
        BY <1>4, <2>2 DEF Effect
      <3> QED BY <1>1, <3>2, <3>3 DEF Table
    <2> QED BY <2>1, <2>2
  <1> QED BY <1>1, <1>2, <1>3, <1>4

LEMMA EmptyIsTable == Empty \in Table
  BY DEF Empty, Table

\* The inductive invariant: what a process is to store is the effect of its
\* operation on the table it loaded, so that the table it finds unchanged
\* becomes what is told of it.
RegistryInv == NTypeOK /\ ReportedIsStored

LEMMA RegistryInit == NInit => RegistryInv
  <1> SUFFICES ASSUME NInit PROVE RegistryInv
    OBVIOUS
  <1>1. stores \in 0..MaxStores
    BY RegistryAssumption DEF NInit
  <1>2. step \in [Writer -> {"idle", "loaded", "writing", "written"}]
        /\ \A p \in Writer : step[p] = "idle"
    BY DEF NInit
  <1>3. table = Empty /\ told = Empty /\ overrun \in BOOLEAN /\ DOMAIN op = Writer
        /\ copy \in [Writer -> Table] /\ derived \in [Writer -> Table]
    BY EmptyIsTable DEF NInit
  <1>4. NTypeOK
    BY <1>1, <1>2, <1>3, EmptyIsTable DEF NTypeOK
  <1> QED BY <1>3, <1>4, EmptyIsTable, TornAssumption DEF RegistryInv, ReportedIsStored

\* An operation that is over leaves nothing behind.
LEMMA IdleType ==
  ASSUME NTypeOK, NEW p \in Writer, Idle(p)
  PROVE  /\ step' \in [Writer -> {"idle", "loaded", "writing", "written"}]
         /\ copy' \in [Writer -> Table] /\ derived' \in [Writer -> Table]
         /\ DOMAIN op' = Writer
         /\ \A q \in Writer : step'[q] # "idle" =>
               /\ q # p /\ step[q] # "idle"
               /\ op'[q] = op[q] /\ copy'[q] = copy[q] /\ derived'[q] = derived[q]
  BY EmptyIsTable DEF NTypeOK, Idle

LEMMA RegistryNext == RegistryInv /\ [NNext]_nvars => RegistryInv'
  <1> SUFFICES ASSUME RegistryInv, [NNext]_nvars PROVE RegistryInv'
    OBVIOUS
  <1> USE DEF RegistryInv
  <1>1. CASE UNCHANGED nvars
    BY <1>1 DEF nvars, NTypeOK, ReportedIsStored
  <1>2. ASSUME NEW p \in Writer, NEW o \in Operation, LoadTable(p, o)
        PROVE  RegistryInv'
    <2>1. table \in Table
      BY <1>2 DEF LoadTable, NTypeOK
    <2>2. Effect(o, table) \in Table
      BY <2>1, EffectIsTable
    <2>3. stores' \in 0..MaxStores
      BY <1>2, RegistryAssumption DEF LoadTable, Loaded, NTypeOK
    <2>4. NTypeOK'
      BY <1>2, <2>1, <2>2, <2>3 DEF LoadTable, Loaded, NTypeOK
    <2> QED BY <1>2, <2>4 DEF LoadTable, Loaded, ReportedIsStored
  <1>3. ASSUME NEW p \in Writer, WriteTemp(p)
        PROVE  RegistryInv'
    BY <1>3 DEF WriteTemp, NTypeOK, ReportedIsStored
  <1>4. ASSUME NEW p \in Writer, Rename(p)
        PROVE  RegistryInv'
    <2>1. op[p] \in Operation /\ copy[p] = Effect(op[p], derived[p]) /\ derived[p] \in Table
      BY <1>4 DEF Rename, NTypeOK
    <2>2. table' \in Table /\ told' \in Table
      BY <1>4, <2>1, EffectIsTable DEF Rename, NTypeOK
    <2>3. overrun' \/ table' = told'
      BY <1>4, <2>1 DEF Rename, ReportedIsStored
    <2>4. NTypeOK'
      <3>1. Idle(p) /\ stores' = stores /\ overrun' \in BOOLEAN
        BY <1>4 DEF Rename, NTypeOK
      <3> QED BY <2>2, <3>1, IdleType DEF NTypeOK
    <2> QED BY <2>2, <2>3, <2>4, TornAssumption DEF ReportedIsStored
  <1>5. ASSUME NEW p \in Writer, Abandon(p)
        PROVE  RegistryInv'
    <2>1. Idle(p) /\ UNCHANGED <<table, stores, told, overrun>>
      BY <1>5 DEF Abandon
    <2> QED BY <2>1, IdleType DEF NTypeOK, ReportedIsStored
  <1> QED BY <1>1, <1>2, <1>3, <1>4, <1>5 DEF NNext

\* Whatever processes do at once and wherever they fail or die, the table is
\* whole, and holds what was reported done until a store overruns another one
\* (registry.go, Put, Delete, MarkSeen and store).
THEOREM ReportsAreStored == NSpec => []ReportedIsStored
  BY RegistryInit, RegistryNext, PTL DEF NSpec, RegistryInv

\* Every variable has its type, and a process stores the effect of its operation
\* on the table it loaded (registry.go, load and store).
THEOREM RegistryTypeCorrect == NSpec => []NTypeOK
  BY RegistryInit, RegistryNext, PTL DEF NSpec, RegistryInv
----------------------------------------------------------------------------
(* Controller: the events between the two goroutines, and what is driven. *)

\* The inductive invariant: to the properties it adds that what was noted is a
\* row of the informer's view, which is given to it before it notes anything,
\* and that what the row in hand is desired to be is among what was offered.
ControllerInv ==
    /\ CTypeOK
    /\ EventsAccountedFor
    /\ DrivesTheDesired
    /\ seen \subseteq Entries
    /\ informer = "off" => scan = {} /\ seen = {}
    /\ loop = "start" => informer = "off"
    /\ \A r \in hand : desired[r] \in offered

LEMMA ControllerInit == CInit => ControllerInv
  <1> SUFFICES ASSUME CInit PROVE ControllerInv
    OBVIOUS
  <1>1. channel \in Seq(Row) /\ Len(channel) = 0 /\ DOMAIN channel = {} /\ Range(channel) = {}
    BY DEF CInit, Range
  <1>2. CTypeOK
    <2>1. 0 \in 0..MaxChanges /\ Len(channel) <= Capacity
      BY <1>1, ControllerAssumption
    <2> QED BY <1>1, <2>1 DEF CInit, CTypeOK
  <1>3. EventsAccountedFor /\ DrivesTheDesired
    BY <1>1 DEF CInit, EventsAccountedFor, DrivesTheDesired
  <1> QED BY <1>2, <1>3 DEF CInit, ControllerInv
----------------------------------------------------------------------------
(* The buffer. *)

\* An event put at the end of the buffer is one more.
LEMMA AppendRange ==
  ASSUME NEW S, NEW s \in Seq(S), NEW x \in S
  PROVE  /\ Append(s, x) \in Seq(S) /\ Len(Append(s, x)) = Len(s) + 1
         /\ Range(Append(s, x)) = Range(s) \cup {x}
         /\ (\A j, k \in DOMAIN s : s[j] = s[k] => j = k) /\ x \notin Range(s) =>
               \A j, k \in DOMAIN Append(s, x) : Append(s, x)[j] = Append(s, x)[k] => j = k
  <1> DEFINE t == Append(s, x)
  <1>1. t \in Seq(S) /\ Len(t) = Len(s) + 1 /\ t[Len(s) + 1] = x
        /\ \A i \in 1..Len(s) : t[i] = s[i]
    OBVIOUS
  <1>2. DOMAIN t = 1..(Len(s) + 1) /\ DOMAIN s = 1..Len(s) /\ Len(s) \in Nat
    BY <1>1
  <1>3. Range(t) = Range(s) \cup {x}
    BY <1>1, <1>2 DEF Range
  <1>4. ASSUME \A j, k \in DOMAIN s : s[j] = s[k] => j = k, x \notin Range(s),
               NEW j \in DOMAIN t, NEW k \in DOMAIN t, t[j] = t[k]
        PROVE  j = k
    BY <1>1, <1>2, <1>4 DEF Range
  <1> QED BY <1>1, <1>3, <1>4

\* An event that is taken off an injective buffer is in it no longer.
LEMMA TailRange ==
  ASSUME NEW S, NEW s \in Seq(S), s # <<>>, \A j, k \in DOMAIN s : s[j] = s[k] => j = k
  PROVE  /\ Head(s) \in S /\ Head(s) \in Range(s)
         /\ Tail(s) \in Seq(S) /\ Len(Tail(s)) = Len(s) - 1
         /\ Range(Tail(s)) = Range(s) \ {Head(s)}
         /\ \A j, k \in DOMAIN Tail(s) : Tail(s)[j] = Tail(s)[k] => j = k
  <1> DEFINE t == Tail(s)
  <1>1. t \in Seq(S) /\ Len(t) = Len(s) - 1 /\ \A i \in 1..Len(t) : t[i] = s[i + 1]
        /\ Head(s) = s[1] /\ Len(s) \in Nat \ {0}
    OBVIOUS
  <1>2. DOMAIN t = 1..(Len(s) - 1) /\ DOMAIN s = 1..Len(s)
    BY <1>1
  <1>3. Range(t) \subseteq Range(s) \ {Head(s)}
    <2> SUFFICES ASSUME NEW i \in DOMAIN t PROVE t[i] \in Range(s) /\ t[i] # s[1]
      BY <1>1 DEF Range
    <2>1. t[i] = s[i + 1] /\ i + 1 \in DOMAIN s /\ 1 \in DOMAIN s /\ i + 1 # 1
      BY <1>1, <1>2
    <2> QED BY <2>1 DEF Range
  <1>4. Range(s) \ {Head(s)} \subseteq Range(t)
    <2> SUFFICES ASSUME NEW i \in DOMAIN s, s[i] # s[1] PROVE s[i] \in Range(t)
      BY <1>1 DEF Range
    <2>1. i - 1 \in DOMAIN t /\ t[i - 1] = s[i]
      BY <1>1, <1>2
    <2> QED BY <2>1 DEF Range
  <1>5. ASSUME NEW j \in DOMAIN t, NEW k \in DOMAIN t, t[j] = t[k]
        PROVE  j = k
    <2>1. s[j + 1] = s[k + 1] /\ j + 1 \in DOMAIN s /\ k + 1 \in DOMAIN s
      BY <1>1, <1>2, <1>5
    <2>2. j + 1 = k + 1
      BY <2>1
    <2> QED BY <1>2, <2>2
  <1>6. s[1] \in S /\ s[1] \in Range(s)
    BY <1>1, <1>2 DEF Range
  <1> QED BY <1>1, <1>3, <1>4, <1>5, <1>6

\* A full buffer and one row more: the view has more rows than the buffer holds.
LEMMA FullBuffer ==
  ASSUME ControllerInv, NEW r \in Entries, r \notin seen, Len(channel) = Capacity
  PROVE  Cardinality(Entries) > Capacity
  <1> DEFINE N == 1..(Capacity + 1)
             f == [i \in N |-> IF i <= Capacity THEN channel[i] ELSE r]
  <1>1. Capacity \in Nat /\ IsFiniteSet(Row) /\ DOMAIN channel = 1..Capacity
    BY ControllerAssumption DEF ControllerInv, CTypeOK
  <1>2. IsFiniteSet(Entries) /\ Cardinality(Entries) \in Nat
    BY <1>1, FS_Subset, FS_CardinalityType DEF Entries
  <1>3. IsFiniteSet(N) /\ Cardinality(N) = Capacity + 1
    BY <1>1, FS_Interval
  <1>4. \A i \in 1..Capacity : channel[i] \in seen /\ channel[i] \in Entries
    BY <1>1 DEF ControllerInv, EventsAccountedFor, Range
  <1>5. f \in [N -> Entries]
    BY <1>1, <1>4
  <1>6. \A i, j \in N : i # j => f[i] # f[j]
    <2> SUFFICES ASSUME NEW i \in N, NEW j \in N, i # j PROVE f[i] # f[j]
      OBVIOUS
    <2>1. CASE i <= Capacity /\ j <= Capacity
      BY <1>1, <2>1 DEF ControllerInv, EventsAccountedFor
    <2>2. CASE ~(i <= Capacity) /\ j <= Capacity
      BY <1>1, <1>4, <2>2
    <2>3. CASE i <= Capacity /\ ~(j <= Capacity)
      BY <1>1, <1>4, <2>3
    <2>4. CASE ~(i <= Capacity) /\ ~(j <= Capacity)
      BY <1>1, <2>4
    <2> QED BY <2>1, <2>2, <2>3, <2>4
  <1>7. ~(Cardinality(Entries) < Cardinality(N))
    <2> HIDE DEF f, N
    <2> SUFFICES ASSUME Cardinality(Entries) < Cardinality(N) PROVE FALSE
      OBVIOUS
    <2>1. \E i, j \in N : i # j /\ f[i] = f[j]
      BY <1>2, <1>3, <1>5, FS_PigeonHole
    <2> QED BY <1>6, <2>1
  <1> QED BY <1>1, <1>2, <1>3, <1>7
----------------------------------------------------------------------------
(* The steps of the informer. *)

LEMMA StartInv == ControllerInv /\ Start => ControllerInv'
  <1> SUFFICES ASSUME ControllerInv, Start PROVE ControllerInv'
    OBVIOUS
  <1>1. seen = {} /\ scan = {} /\ Range(channel) = {} /\ hand = {} /\ dropped = {}
    BY DEF ControllerInv, CTypeOK, EventsAccountedFor, Start
  <1>2. UNCHANGED <<world, seen, scan, channel, hand, object, cancelled, past>>
        /\ view' = desired /\ informer' = "waiting" /\ loop' = "waiting"
    BY DEF Start
  <1>3. CTypeOK'
    BY <1>1, <1>2 DEF ControllerInv, CTypeOK, world, past, Entries
  <1>4. EventsAccountedFor'
    BY <1>1, <1>2 DEF ControllerInv, EventsAccountedFor, past, Range
  <1>5. DrivesTheDesired'
    BY <1>2 DEF DrivesTheDesired
  <1> QED BY <1>1, <1>2, <1>3, <1>4, <1>5 DEF ControllerInv, world, past

\* A step that leaves the events, the rows and the hand alone.
LEMMA QuietInv ==
  ASSUME ControllerInv,
         UNCHANGED <<world, view, seen, channel, control, past>>, loop # "start",
         scan' \subseteq Entries, informer' \in {"waiting", "scanning", "ended"}
  PROVE  ControllerInv'
  <1> USE DEF world, control, past
  <1>1. CTypeOK'
    BY DEF ControllerInv, CTypeOK, Entries
  <1>2. EventsAccountedFor'
    BY DEF ControllerInv, EventsAccountedFor, Entries, Range
  <1>3. DrivesTheDesired'
    BY DEF ControllerInv, DrivesTheDesired
  <1> QED BY <1>1, <1>2, <1>3 DEF ControllerInv, Entries

LEMMA TickInv == ControllerInv /\ (Tick \/ TickEnds \/ InformerEnds) => ControllerInv'
  <1> SUFFICES ASSUME ControllerInv, Tick \/ TickEnds \/ InformerEnds PROVE ControllerInv'
    OBVIOUS
  <1>1. informer # "off" /\ loop # "start" /\ scan \subseteq Entries
    BY DEF ControllerInv, CTypeOK, Tick, TickEnds, InformerEnds
  <1>2. CASE Tick
    BY <1>1, <1>2, QuietInv DEF Tick
  <1>3. CASE TickEnds
    BY <1>1, <1>3, QuietInv DEF TickEnds
  <1>4. CASE InformerEnds
    BY <1>1, <1>4, QuietInv DEF InformerEnds
  <1> QED BY <1>2, <1>3, <1>4

LEMMA PassOverInv == ASSUME ControllerInv, NEW r \in Row, PassOver(r) PROVE ControllerInv'
  <1> USE DEF PassOver, control, world, past
  <1>1. CTypeOK'
    BY DEF ControllerInv, CTypeOK, Entries
  <1>2. EventsAccountedFor' /\ DrivesTheDesired'
    BY DEF ControllerInv, EventsAccountedFor, DrivesTheDesired, Entries, Range
  <1> QED BY <1>1, <1>2 DEF ControllerInv, Entries

LEMMA OfferInv == ASSUME ControllerInv, NEW r \in Row, Offer(r) PROVE ControllerInv'
  <1>1. r \in Entries /\ r \notin seen /\ r \notin Range(channel)
    BY DEF ControllerInv, CTypeOK, EventsAccountedFor, Offer
  <1>2. UNCHANGED <<world, view, informer, control, past>>
        /\ channel' = Append(channel, r) /\ seen' = seen \cup {r} /\ scan' = scan \ {r}
        /\ Len(channel) < Capacity /\ channel \in Seq(Row)
    BY DEF ControllerInv, CTypeOK, Offer
  <1>3. /\ channel' \in Seq(Row) /\ Len(channel') = Len(channel) + 1
        /\ Range(channel') = Range(channel) \cup {r}
        /\ \A j, k \in DOMAIN channel' : channel'[j] = channel'[k] => j = k
    BY <1>1, <1>2, AppendRange DEF ControllerInv, EventsAccountedFor
  <1>4. Len(channel') <= Capacity
    BY <1>2, <1>3, ControllerAssumption
  <1>5. CTypeOK'
    BY <1>2, <1>3, <1>4 DEF ControllerInv, CTypeOK, Entries, world, control, past
  <1>6. r \notin hand \cup handled \cup dropped
    BY <1>1 DEF ControllerInv, EventsAccountedFor
  <1>7. EventsAccountedFor'
    BY <1>2, <1>3, <1>6 DEF ControllerInv, EventsAccountedFor, Entries, control, past
  <1>8. DrivesTheDesired'
    BY <1>2 DEF ControllerInv, DrivesTheDesired, control, past, world
  <1>9. informer # "off" /\ loop # "start"
    BY DEF ControllerInv, Offer
  <1> QED BY <1>1, <1>2, <1>5, <1>7, <1>8, <1>9
      DEF ControllerInv, Entries, control, past, world

LEMMA DropInv == ASSUME ControllerInv, NEW r \in Row, Drop(r) PROVE ControllerInv'
  <1>1. r \in Entries /\ r \notin seen /\ Len(channel) = Capacity
    BY DEF ControllerInv, CTypeOK, Drop
  <1>2. UNCHANGED <<world, view, informer, channel, control, handled, offered>>
        /\ dropped' = dropped \cup {r} /\ seen' = seen \cup {r} /\ scan' = scan \ {r}
    BY DEF Drop
  <1>3. Cardinality(Entries) > Capacity
    BY <1>1, FullBuffer
  <1>4. r \notin Range(channel) /\ r \notin hand \cup handled \cup dropped
    BY <1>1 DEF ControllerInv, EventsAccountedFor
  <1>5. CTypeOK'
    BY <1>1, <1>2 DEF ControllerInv, CTypeOK, Entries, world, control
  <1>6. EventsAccountedFor'
    BY <1>2, <1>3, <1>4 DEF ControllerInv, EventsAccountedFor, Entries, control
  <1>7. DrivesTheDesired'
    BY <1>2 DEF ControllerInv, DrivesTheDesired, control, world
  <1>8. informer # "off" /\ loop # "start"
    BY DEF ControllerInv, Drop
  <1> QED BY <1>1, <1>2, <1>5, <1>6, <1>7, <1>8
      DEF ControllerInv, Entries, control, world
----------------------------------------------------------------------------
(* The steps of the loop. *)

LEMMA IgnoreInv == ControllerInv /\ Ignore => ControllerInv'
  <1> SUFFICES ASSUME ControllerInv, Ignore PROVE ControllerInv'
    OBVIOUS
  <1> DEFINE r == Head(channel)
  <1>1. UNCHANGED <<world, poll, control, dropped, offered>>
        /\ channel' = Tail(channel) /\ handled' = handled \cup {r} /\ channel # <<>>
        /\ loop = "waiting" /\ hand = {} /\ channel \in Seq(Row)
    BY DEF ControllerInv, CTypeOK, Ignore
  <1>2. /\ r \in Row /\ r \in Range(channel)
        /\ channel' \in Seq(Row) /\ Len(channel') = Len(channel) - 1
        /\ Range(channel') = Range(channel) \ {r}
        /\ \A j, k \in DOMAIN channel' : channel'[j] = channel'[k] => j = k
    BY <1>1, TailRange DEF ControllerInv, EventsAccountedFor
  <1>3. Len(channel') <= Capacity
    BY <1>1, <1>2, ControllerAssumption DEF ControllerInv, CTypeOK
  <1> HIDE DEF r
  <1>4. CTypeOK'
    BY <1>1, <1>2, <1>3 DEF ControllerInv, CTypeOK, Entries, world, control, poll
  <1>5. EventsAccountedFor'
    BY <1>1, <1>2 DEF ControllerInv, EventsAccountedFor, Entries, control, poll
  <1>6. DrivesTheDesired'
    BY <1>1 DEF ControllerInv, DrivesTheDesired, control, world
  <1> QED BY <1>1, <1>4, <1>5, <1>6 DEF ControllerInv, Entries, control, world, poll

LEMMA TakeInv == ControllerInv /\ Take => ControllerInv'
  <1> SUFFICES ASSUME ControllerInv, Take PROVE ControllerInv'
    OBVIOUS
  <1> DEFINE r == Head(channel)
  <1>1. UNCHANGED <<world, poll, object, cancelled, dropped, handled>>
        /\ channel' = Tail(channel) /\ hand' = {r} /\ offered' = {desired[r]} /\ channel # <<>>
        /\ loop' = "reading" /\ hand = {} /\ channel \in Seq(Row) /\ r \in managed
        /\ object = NoValue
    BY DEF ControllerInv, CTypeOK, Take
  <1>2. /\ r \in Row /\ r \in Range(channel)
        /\ channel' \in Seq(Row) /\ Len(channel') = Len(channel) - 1
        /\ Range(channel') = Range(channel) \ {r}
        /\ \A j, k \in DOMAIN channel' : channel'[j] = channel'[k] => j = k
    BY <1>1, TailRange DEF ControllerInv, EventsAccountedFor
  <1>3. Len(channel') <= Capacity
    BY <1>1, <1>2, ControllerAssumption DEF ControllerInv, CTypeOK
  <1> HIDE DEF r
  <1>4. CTypeOK'
    BY <1>1, <1>2, <1>3 DEF ControllerInv, CTypeOK, Entries, world, poll
  <1>5. r \notin handled \cup dropped
    BY <1>2 DEF ControllerInv, EventsAccountedFor
  <1>6. EventsAccountedFor'
    BY <1>1, <1>2, <1>5 DEF ControllerInv, EventsAccountedFor, Entries, poll
  <1>7. DrivesTheDesired'
    BY <1>1 DEF DrivesTheDesired
  <1> QED BY <1>1, <1>4, <1>6, <1>7 DEF ControllerInv, Entries, world, poll

LEMMA ReadInv == ControllerInv /\ Read => ControllerInv'
  <1> SUFFICES ASSUME ControllerInv, Read PROVE ControllerInv'
    OBVIOUS
  <1> USE DEF world, poll, past
  <1>1. object' # NoValue /\ object' \in Value /\ object' \in offered /\ hand \subseteq managed
    BY DEF ControllerInv, CTypeOK, Read
  <1>2. CTypeOK'
    BY <1>1 DEF ControllerInv, CTypeOK, Read, Entries
  <1>3. EventsAccountedFor'
    BY DEF ControllerInv, EventsAccountedFor, Read, Entries
  <1>4. DrivesTheDesired'
    BY <1>1 DEF DrivesTheDesired, Read
  <1> QED BY <1>2, <1>3, <1>4 DEF ControllerInv, Read, Entries

LEMMA DoneInv ==
  ASSUME ControllerInv, Done, loop \in {"reading", "driving"}
  PROVE  ControllerInv'
  <1> USE DEF world, poll
  <1>1. CTypeOK'
    BY DEF ControllerInv, CTypeOK, Done, Entries
  <1>2. EventsAccountedFor'
    BY DEF ControllerInv, EventsAccountedFor, Done, Entries
  <1>3. DrivesTheDesired'
    BY DEF DrivesTheDesired, Done
  <1> QED BY <1>1, <1>2, <1>3 DEF ControllerInv, Done, Entries

LEMMA EndInv == ControllerInv /\ (StartFails \/ Return) => ControllerInv'
  <1> SUFFICES ASSUME ControllerInv, StartFails \/ Return PROVE ControllerInv'
    OBVIOUS
  <1>1. loop' = "ended" /\ hand = {} /\ object = NoValue
        /\ UNCHANGED <<world, poll, channel, hand, object, cancelled, past>>
    BY DEF ControllerInv, CTypeOK, StartFails, Return
  <1> USE DEF world, poll, past
  <1>2. CTypeOK'
    BY <1>1 DEF ControllerInv, CTypeOK, Entries
  <1>3. EventsAccountedFor'
    BY <1>1 DEF ControllerInv, EventsAccountedFor, Entries
  <1> QED BY <1>1, <1>2, <1>3 DEF ControllerInv, DrivesTheDesired, Entries
----------------------------------------------------------------------------
LEMMA SignalInv == ControllerInv /\ Signal => ControllerInv'
  <1> SUFFICES ASSUME ControllerInv, Signal PROVE ControllerInv'
    OBVIOUS
  <1> USE DEF world, poll, past
  <1>1. CTypeOK'
    BY DEF ControllerInv, CTypeOK, Signal, Entries
  <1>2. EventsAccountedFor' /\ DrivesTheDesired'
    BY DEF ControllerInv, EventsAccountedFor, DrivesTheDesired, Signal, Entries
  <1> QED BY <1>1, <1>2 DEF ControllerInv, Signal, Entries

LEMMA ChangeInv ==
  ASSUME ControllerInv, NEW r \in Row, NEW v \in Value \cup {NoValue}, Change(r, v)
  PROVE  ControllerInv'
  <1>1. UNCHANGED <<managed, poll, channel, control, dropped, handled>>
        /\ desired' = [desired EXCEPT ![r] = v] /\ desired \in [Row -> Value \cup {NoValue}]
        /\ offered' = IF r \in hand THEN offered \cup {v} ELSE offered
    BY DEF ControllerInv, CTypeOK, Change
  <1>2. changes' \in 0..MaxChanges
    BY ControllerAssumption DEF ControllerInv, CTypeOK, Change
  <1> USE DEF poll, control
  <1>3. CTypeOK'
    BY <1>1, <1>2 DEF ControllerInv, CTypeOK, Entries
  <1>4. EventsAccountedFor' /\ DrivesTheDesired'
    BY <1>1 DEF ControllerInv, EventsAccountedFor, DrivesTheDesired, Entries
  <1>5. \A s \in hand : desired'[s] \in offered'
    BY <1>1 DEF ControllerInv, CTypeOK
  <1> QED BY <1>1, <1>3, <1>4, <1>5 DEF ControllerInv, Entries

LEMMA ControllerNext == ControllerInv /\ [CNext]_cvars => ControllerInv'
  <1> SUFFICES ASSUME ControllerInv, [CNext]_cvars PROVE ControllerInv'
    OBVIOUS
  <1>1. CASE UNCHANGED cvars
    <2> USE <1>1 DEF cvars, world, poll, control, past
    <2>1. CTypeOK'
      BY DEF ControllerInv, CTypeOK, Entries
    <2>2. EventsAccountedFor' /\ DrivesTheDesired'
      BY DEF ControllerInv, EventsAccountedFor, DrivesTheDesired, Entries
    <2> QED BY <2>1, <2>2 DEF ControllerInv, Entries
  <1>2. CASE Polling
    BY <1>2, TickInv, PassOverInv, OfferInv, DropInv DEF Polling
  <1>3. CASE InformerEnds
    BY <1>3, TickInv
  <1>4. CASE Looping
    <2>1. CASE Start \/ StartFails \/ Return
      BY <2>1, StartInv, EndInv
    <2>2. CASE Ignore \/ Take \/ Read
      BY <2>2, IgnoreInv, TakeInv, ReadInv
    <2>3. CASE ReadFails \/ Drive
      BY <2>3, DoneInv DEF ReadFails, Drive
    <2> QED BY <1>4, <2>1, <2>2, <2>3 DEF Looping
  <1>5. CASE Signal
    BY <1>5, SignalInv
  <1>6. ASSUME NEW r \in Row, NEW v \in Value \cup {NoValue}, Change(r, v)
        PROVE  ControllerInv'
    BY <1>6, ChangeInv
  <1> QED BY <1>1, <1>2, <1>3, <1>4, <1>5, <1>6 DEF CNext

\* No event is lost or doubled between the informer and the loop, and none is
\* dropped while the view has no more rows than the buffer holds
\* (informer.go, Run; loop.go, RunLoop).
THEOREM EventsAreAccountedFor == CSpec => []EventsAccountedFor
  BY ControllerInit, ControllerNext, PTL DEF CSpec, ControllerInv

\* What the loop drives is a managed row, towards a state that was desired of it
\* since its event was taken (loop.go, reconciler.go).
THEOREM DesiredIsDriven == CSpec => []DrivesTheDesired
  BY ControllerInit, ControllerNext, PTL DEF CSpec, ControllerInv
----------------------------------------------------------------------------
(* Rescue: a command that had the machine to itself tells the truth, and units
   are started over the stub only. *)

\* What is true of the machine when a command that runs alone is at call k.
Ready(s, k) ==
    /\ k \in {"harden", "stub", "unmask", "start", "open"} => installed
    /\ k \in {"stub", "unmask", "start", "open"} => sesman = "deep" \/ s \in warned
    /\ k \in {"unmask", "start", "open"} => startwm = "stub"
    /\ k \in {"start", "open"} => masked = {}
    /\ k = "open" => enabled = Unit /\ active = Unit
    /\ k \in {"mask", "close"} => enabled = {} /\ active = {}
    /\ k = "close" => masked = Unit

\* The inductive invariant: of two commands under way each has run beside
\* another one; one that has not is where the calls before have brought it; and
\* a claim stands only while nothing runs.
RescueInv ==
    /\ RescueTypeOK
    /\ ClaimIsTrue
    /\ \A s, t \in Session : at[s] # "idle" /\ at[t] # "idle" /\ s # t => s \in mixed
    /\ \A s \in Session \ mixed : Ready(s, at[s])
    /\ claim # "none" => \A s \in Session : at[s] = "idle"

Calls == {"check", "epel", "copr", "harden", "stub", "unmask", "start", "open",
          "stop", "mask", "close"}

\* The machine has its type.
MachineOK ==
    /\ installed \in BOOLEAN /\ partly \in BOOLEAN /\ port \in BOOLEAN
    /\ partly => installed
    /\ startwm \in {"none", "packaged", "stub", "cut"}
    /\ sesman \in {"none", "bare", "deep", "odd"}
    /\ ~installed => startwm = "none" /\ sesman = "none" /\ enabled = {} /\ active = {}
    /\ masked \subseteq Unit /\ enabled \subseteq Unit /\ active \subseteq Unit

LEMMA RescueTypes ==
  RescueTypeOK <=>
    /\ MachineOK /\ at \in [Session -> Calls \cup {"idle"}]
    /\ mixed \subseteq Session /\ warned \subseteq Session
    /\ begun \in 0..MaxCommands
    /\ claim \in {"none", "up", "down", "baseless"}
  BY DEF RescueTypeOK, MachineOK, Calls

LEMMA RescueInitInv == RescueInit => RescueInv
  <1> SUFFICES ASSUME RescueInit PROVE RescueInv
    OBVIOUS
  <1>1. RescueTypeOK
    <2>1. 0 \in 0..MaxCommands
      BY RescueAssumption
    <2>2. at \in [Session -> Calls \cup {"idle"}]
      BY DEF RescueInit
    <2>3. MachineOK
      BY DEF RescueInit, MachineOK
    <2> QED BY <2>1, <2>2, <2>3, RescueTypes DEF RescueInit
  <1>2. \A s \in Session : at[s] = "idle"
    BY DEF RescueInit
  <1>3. ClaimIsTrue /\ \A s \in Session : Ready(s, "idle")
    BY DEF RescueInit, ClaimIsTrue, Ready
  <1> QED BY <1>1, <1>2, <1>3 DEF RescueInv
----------------------------------------------------------------------------
(* How a command begins, goes on and ends. *)

LEMMA BeginInv ==
  ASSUME RescueInv, NEW s \in Session, NEW first \in {"check", "stop"}, Begin(s, first)
  PROVE  RescueInv'
  <1> USE DEF machine, files, units
  <1>1. at' = [at EXCEPT ![s] = first] /\ claim' = "none" /\ UNCHANGED machine
        /\ mixed' = IF Working = {} THEN {} ELSE Working \cup {s}
    BY DEF Begin
  <1>2. at \in [Session -> Calls \cup {"idle"}] /\ Working \subseteq Session
    BY RescueTypes DEF RescueInv, Working
  <1>3. begun' \in 0..MaxCommands
    BY RescueAssumption DEF RescueInv, RescueTypeOK, Begin
  <1>4. MachineOK' /\ warned' \subseteq Session
    BY <1>1, RescueTypes DEF RescueInv, MachineOK, RescueTypeOK, Begin
  <1>5. RescueTypeOK'
    <2>1. at' \in [Session -> Calls \cup {"idle"}] /\ mixed' \subseteq Session
      BY <1>1, <1>2 DEF Calls
    <2> QED BY <1>1, <1>3, <1>4, <2>1 DEF RescueTypeOK, MachineOK, Calls
  <1>6. \A t, u \in Session : at'[t] # "idle" /\ at'[u] # "idle" /\ t # u => t \in mixed'
    BY <1>1, <1>2 DEF Working
  <1>7. ASSUME NEW t \in Session \ mixed' PROVE Ready(t, at[t])' 
    <2>1. CASE t = s
      BY <1>1, <1>2, <2>1 DEF Ready
    <2>2. CASE t # s
      <3>1. at'[t] = "idle"
        BY <1>1, <1>2, <1>7, <2>2 DEF Working
      <3> QED BY <3>1 DEF Ready
    <2> QED BY <2>1, <2>2
  <1> QED BY <1>1, <1>5, <1>6, <1>7 DEF RescueInv, ClaimIsTrue

LEMMA GotoInv ==
  ASSUME RescueInv, NEW s \in Session, at[s] # "idle", NEW next \in Calls, Goto(s, next),
         MachineOK', warned' \subseteq Session,
         s \notin mixed => Ready(s, next)'
  PROVE  RescueInv'
  <1>1. at' = [at EXCEPT ![s] = next] /\ UNCHANGED <<mixed, begun, claim>> /\ claim = "none"
        /\ at \in [Session -> Calls \cup {"idle"}] /\ next # "idle"
    BY RescueTypes DEF Goto, RescueInv, Calls
  <1>2. RescueTypeOK'
    <2>1. at' \in [Session -> Calls \cup {"idle"}]
      BY <1>1
    <2> QED BY <1>1, <2>1 DEF RescueInv, RescueTypeOK, MachineOK, Calls
  <1>3. \A t, u \in Session : at'[t] # "idle" /\ at'[u] # "idle" /\ t # u => t \in mixed'
    BY <1>1 DEF RescueInv
  <1>4. ASSUME NEW t \in Session \ mixed' PROVE Ready(t, at[t])'
    <2>1. CASE t = s
      <3>1. at'[t] = next /\ s \notin mixed
        BY <1>1, <1>4, <2>1
      <3> QED BY <2>1, <3>1 DEF Ready
    <2>2. CASE t # s
      <3>1. at'[t] = "idle"
        BY <1>1, <1>4, <2>2 DEF RescueInv
      <3> QED BY <3>1 DEF Ready
    <2> QED BY <2>1, <2>2
  <1> QED BY <1>1, <1>2, <1>3, <1>4 DEF RescueInv, ClaimIsTrue

LEMMA EndsInv ==
  ASSUME RescueInv, NEW s \in Session, at[s] # "idle",
         NEW word \in {"none", "up", "down", "baseless"}, Ends(s, word), MachineOK',
         s \notin mixed =>
            /\ word = "baseless" => partly' 
            /\ word = "up" => Ready(s, "open")' 
            /\ word = "down" => Ready(s, "close")'
  PROVE  RescueInv'
  <1>1. at' = [at EXCEPT ![s] = "idle"] /\ UNCHANGED <<mixed, begun, warned>>
        /\ claim' = (IF s \in mixed THEN "none" ELSE word)
        /\ at \in [Session -> Calls \cup {"idle"}]
    BY RescueTypes DEF Ends, RescueInv
  <1>2. RescueTypeOK'
    <2>1. at' \in [Session -> Calls \cup {"idle"}]
      BY <1>1
    <2> QED BY <1>1, <2>1 DEF RescueInv, RescueTypeOK, MachineOK, Calls
  <1>3. \A t, u \in Session : at'[t] # "idle" /\ at'[u] # "idle" /\ t # u => t \in mixed'
    BY <1>1 DEF RescueInv
  <1>4. \A t \in Session \ mixed : at'[t] = "idle"
    BY <1>1 DEF RescueInv
  <1>5. \A t \in Session \ mixed' : Ready(t, at[t])'
    <2>1. \A t \in Session : Ready(t, "idle")'
      BY DEF Ready
    <2> QED BY <1>1, <1>4, <2>1 DEF Ready
  <1>6. claim' # "none" => \A t \in Session : at'[t] = "idle"
    BY <1>1 DEF RescueInv
  <1>7. ClaimIsTrue'
    <2>1. CASE s \in mixed \/ word = "none"
      BY <1>1, <2>1 DEF ClaimIsTrue
    <2>2. CASE s \notin mixed /\ word = "up"
      BY <1>1, <2>2 DEF ClaimIsTrue, Ready, UnitShown, Unit
    <2>3. CASE s \notin mixed /\ word = "down"
      BY <1>1, <2>3 DEF ClaimIsTrue, Ready, UnitShown, Unit
    <2>4. CASE s \notin mixed /\ word = "baseless"
      BY <1>1, <2>4 DEF ClaimIsTrue
    <2> QED BY <1>1, <2>1, <2>2, <2>3, <2>4
  <1> QED BY <1>2, <1>3, <1>5, <1>6, <1>7 DEF RescueInv
----------------------------------------------------------------------------
LEMMA Typed ==
  ASSUME RescueInv PROVE MachineOK /\ warned \subseteq Session
  BY RescueTypes DEF RescueInv

LEMMA InstallsOK ==
  ASSUME MachineOK, Installs
  PROVE  MachineOK' /\ installed'
  <1>1. CASE partly /\ UNCHANGED machine
    BY <1>1 DEF MachineOK, machine, files, units
  <1>2. CASE ~(partly /\ UNCHANGED machine)
    BY <1>2 DEF MachineOK, Installs, Laid, units
  <1> QED BY <1>1, <1>2

LEMMA BreaksOffOK ==
  ASSUME MachineOK, BreaksOff
  PROVE  MachineOK'
  <1>1. CASE UNCHANGED machine
    BY <1>1 DEF MachineOK, machine, files, units
  <1>2. CASE ~UNCHANGED machine
    BY <1>2 DEF MachineOK, BreaksOff, Laid, units
  <1> QED BY <1>1, <1>2
----------------------------------------------------------------------------
(* rescueEnableVnc *)

LEMMA CheckInv == ASSUME RescueInv, NEW s \in Session, CheckInstalled(s) PROVE RescueInv'
  <1>1. at[s] # "idle" /\ UNCHANGED <<machine, warned>>
        /\ Goto(s, IF installed THEN "harden" ELSE "epel")
    BY DEF CheckInstalled
  <1>2. MachineOK' /\ warned' \subseteq Session /\ installed' = installed
    BY <1>1, Typed DEF MachineOK, machine, files, units
  <1>3. CASE installed
    <2>1. Goto(s, "harden") /\ Ready(s, "harden")' /\ "harden" \in Calls
      BY <1>1, <1>2, <1>3 DEF Ready, Calls
    <2> QED BY <1>1, <1>2, <2>1, GotoInv
  <1>4. CASE ~installed
    <2>1. Goto(s, "epel") /\ Ready(s, "epel")' /\ "epel" \in Calls
      BY <1>1, <1>4 DEF Ready, Calls
    <2> QED BY <1>1, <1>2, <2>1, GotoInv
  <1> QED BY <1>3, <1>4

LEMMA InstallInv ==
  ASSUME RescueInv, NEW s \in Session, InstallFromEpel(s) \/ InstallFromCopr(s)
  PROVE  RescueInv'
  <1>1. at[s] # "idle" /\ UNCHANGED warned /\ MachineOK /\ warned \subseteq Session
    BY Typed DEF InstallFromEpel, InstallFromCopr, Fails, Ends
  <1>2. CASE Installs /\ Goto(s, "harden")
    <2>1. MachineOK' /\ installed'
      BY <1>1, <1>2, InstallsOK
    <2>2. Ready(s, "harden")'
      BY <2>1 DEF Ready
    <2>3. "harden" \in Calls
      BY DEF Calls
    <2> QED BY <1>1, <1>2, <2>1, <2>2, <2>3, GotoInv
  <1>3. CASE BreaksOff /\ Goto(s, "copr")
    <2>1. MachineOK'
      BY <1>1, <1>3, BreaksOffOK
    <2> QED BY <1>1, <1>3, <2>1, GotoInv DEF Ready, Calls
  <1>4. CASE BreaksOff /\ Fails(s)
    <2>1. MachineOK'
      BY <1>1, <1>4, BreaksOffOK
    <2> QED BY <1>1, <1>4, <2>1, EndsInv DEF Fails
  <1> QED BY <1>2, <1>3, <1>4 DEF InstallFromEpel, InstallFromCopr

LEMMA HardenInv == ASSUME RescueInv, NEW s \in Session, HardenSesman(s) PROVE RescueInv'
  <1>1. at[s] = "harden" /\ Goto(s, "stub") /\ UNCHANGED <<installed, partly, startwm, units, port>>
    BY DEF HardenSesman
  <1>2. MachineOK' /\ warned' \subseteq Session
    BY <1>1, Typed DEF MachineOK, units, HardenSesman
  <1>3. s \notin mixed => installed
    BY <1>1 DEF RescueInv, Ready
  <1>4. s \notin mixed => Ready(s, "stub")'
    BY <1>1, <1>3 DEF Ready, HardenSesman
  <1> QED BY <1>1, <1>2, <1>4, GotoInv DEF Calls

LEMMA StubInv == ASSUME RescueInv, NEW s \in Session, WriteStub(s) PROVE RescueInv'
  <1>1. at[s] = "stub" /\ UNCHANGED <<installed, partly, sesman, units, port>> /\ UNCHANGED warned
    BY DEF WriteStub, Fails, FailsBaselessly, Ends
  <1>2. s \notin mixed => Ready(s, "stub")
    BY <1>1 DEF RescueInv
  <1>3. MachineOK' /\ warned' \subseteq Session
    BY <1>1, Typed DEF MachineOK, units, WriteStub
  <1>4. CASE installed /\ startwm' = "stub" /\ Goto(s, "unmask")
    <2>1. s \notin mixed => Ready(s, "unmask")'
      BY <1>1, <1>2, <1>4 DEF Ready
    <2> QED BY <1>1, <1>3, <1>4, <2>1, GotoInv DEF Calls
  <1>5. CASE Fails(s)
    BY <1>1, <1>3, <1>5, EndsInv DEF Fails
  <1>6. CASE (~installed \/ partly) /\ FailsBaselessly(s)
    <2>1. s \in mixed \/ partly'
      BY <1>1, <1>2, <1>6 DEF Ready
    <2> QED BY <1>1, <1>3, <1>6, <2>1, EndsInv DEF FailsBaselessly
  <1> QED BY <1>4, <1>5, <1>6 DEF WriteStub

LEMMA UnmaskInv == ASSUME RescueInv, NEW s \in Session, Unmask(s) PROVE RescueInv'
  <1>1. at[s] = "unmask" /\ UNCHANGED <<files, enabled, active, port>> /\ UNCHANGED warned
    BY DEF Unmask, Fails, Ends
  <1>2. s \notin mixed => Ready(s, "unmask")
    BY <1>1 DEF RescueInv
  <1>3. MachineOK' /\ warned' \subseteq Session
    BY <1>1, Typed DEF MachineOK, files, Unmask
  <1>4. CASE masked' = {} /\ Goto(s, "start")
    <2>1. s \notin mixed => Ready(s, "start")'
      BY <1>1, <1>2, <1>4 DEF Ready, files
    <2> QED BY <1>1, <1>3, <1>4, <2>1, GotoInv DEF Calls
  <1>5. CASE Fails(s)
    BY <1>1, <1>3, <1>5, EndsInv DEF Fails
  <1> QED BY <1>4, <1>5 DEF Unmask

LEMMA StartUnitsInv == ASSUME RescueInv, NEW s \in Session, StartUnits(s) PROVE RescueInv'
  <1>1. at[s] = "start" /\ UNCHANGED <<files, masked, port>> /\ UNCHANGED warned
    BY DEF StartUnits, Fails, FailsBaselessly, Ends
  <1>2. s \notin mixed => Ready(s, "start")
    BY <1>1 DEF RescueInv
  <1>3. MachineOK' /\ warned' \subseteq Session
    BY <1>1, Typed DEF MachineOK, files, StartUnits
  <1>4. CASE masked = {} /\ enabled' = Unit /\ active' = Unit /\ Goto(s, "open")
    <2>1. s \notin mixed => Ready(s, "open")'
      BY <1>1, <1>2, <1>4 DEF Ready, files
    <2> QED BY <1>1, <1>3, <1>4, <2>1, GotoInv DEF Calls
  <1>5. CASE Fails(s)
    BY <1>1, <1>3, <1>5, EndsInv DEF Fails
  <1>6. CASE (masked # {} \/ ~installed \/ partly) /\ FailsBaselessly(s)
    <2>1. s \in mixed \/ partly'
      BY <1>1, <1>2, <1>6 DEF Ready, files
    <2> QED BY <1>1, <1>3, <1>6, <2>1, EndsInv DEF FailsBaselessly
  <1> QED BY <1>4, <1>5, <1>6 DEF StartUnits

LEMMA OpenInv == ASSUME RescueInv, NEW s \in Session, OpenPort(s) PROVE RescueInv'
  <1>1. at[s] = "open" /\ UNCHANGED <<files, units>> /\ Ends(s, "up") /\ UNCHANGED warned
    BY DEF OpenPort, Ends
  <1>2. s \notin mixed => Ready(s, "open")'
    BY <1>1 DEF RescueInv, Ready, files, units
  <1>3. MachineOK'
    <2>1. port' \in BOOLEAN
      BY Typed DEF MachineOK, OpenPort
    <2> QED BY <1>1, <2>1, Typed DEF MachineOK, files, units
  <1> QED BY <1>1, <1>2, <1>3, EndsInv
----------------------------------------------------------------------------
(* rescueDisableVnc, and a command that is killed. *)

LEMMA StopInv == ASSUME RescueInv, NEW s \in Session, StopUnits(s) PROVE RescueInv'
  <1>1. at[s] = "stop" /\ UNCHANGED <<files, masked, port>> /\ UNCHANGED warned
    BY DEF StopUnits, Fails, Ends
  <1>2. MachineOK' /\ warned' \subseteq Session
    BY <1>1, Typed DEF MachineOK, files, StopUnits
  <1>3. CASE Fails(s)
    BY <1>1, <1>2, <1>3, EndsInv DEF Fails
  <1>4. CASE Goto(s, "mask") /\ enabled' = {} /\ active' = {}
    <2>1. Ready(s, "mask")'
      BY <1>4 DEF Ready
    <2> QED BY <1>1, <1>2, <1>4, <2>1, GotoInv DEF Calls
  <1>5. CASE ~installed /\ Goto(s, "mask") /\ UNCHANGED <<enabled, active>>
    <2>1. enabled' = {} /\ active' = {}
      BY <1>5, Typed DEF MachineOK
    <2> QED BY <1>4, <1>5, <2>1
  <1> QED BY <1>3, <1>4, <1>5 DEF StopUnits

LEMMA MaskInv == ASSUME RescueInv, NEW s \in Session, Mask(s) PROVE RescueInv'
  <1>1. at[s] = "mask" /\ UNCHANGED <<files, enabled, active, port>> /\ UNCHANGED warned
    BY DEF Mask, Fails, Ends
  <1>2. s \notin mixed => Ready(s, "mask")
    BY <1>1 DEF RescueInv
  <1>3. MachineOK' /\ warned' \subseteq Session
    BY <1>1, Typed DEF MachineOK, files, Mask
  <1>4. CASE masked' = Unit /\ Goto(s, "close")
    <2>1. s \notin mixed => Ready(s, "close")'
      BY <1>1, <1>2, <1>4 DEF Ready
    <2> QED BY <1>1, <1>3, <1>4, <2>1, GotoInv DEF Calls
  <1>5. CASE Fails(s)
    BY <1>1, <1>3, <1>5, EndsInv DEF Fails
  <1> QED BY <1>4, <1>5 DEF Mask

LEMMA CloseInv == ASSUME RescueInv, NEW s \in Session, ClosePort(s) PROVE RescueInv'
  <1>1. at[s] = "close" /\ UNCHANGED <<files, units>> /\ Ends(s, "down") /\ UNCHANGED warned
    BY DEF ClosePort, Ends
  <1>2. s \notin mixed => Ready(s, "close")'
    BY <1>1 DEF RescueInv, Ready, files, units
  <1>3. MachineOK'
    <2>1. port' \in BOOLEAN
      BY Typed DEF MachineOK, ClosePort
    <2> QED BY <1>1, <2>1, Typed DEF MachineOK, files, units
  <1> QED BY <1>1, <1>2, <1>3, EndsInv

LEMMA KilledInv == ASSUME RescueInv, NEW s \in Session, Killed(s) PROVE RescueInv'
  <1>1. at[s] # "idle" /\ Ends(s, "none")
    BY DEF Killed
  <1>2. MachineOK'
    <2>1. CASE UNCHANGED machine
      BY <2>1, Typed DEF MachineOK, machine, files, units
    <2>2. CASE Installs
      BY <2>2, Typed, InstallsOK
    <2>4. CASE BreaksOff
      BY <2>4, Typed, BreaksOffOK
    <2>3. CASE startwm = "stub" /\ startwm' = "cut" /\ UNCHANGED <<installed, partly, sesman, units, port>>
      BY <2>3, Typed DEF MachineOK, units
    <2> QED BY <2>1, <2>2, <2>3, <2>4 DEF Killed
  <1> QED BY <1>1, <1>2, EndsInv
----------------------------------------------------------------------------
LEMMA RescueNextInv == RescueInv /\ [RescueNext]_rescuevars => RescueInv'
  <1> SUFFICES ASSUME RescueInv, [RescueNext]_rescuevars PROVE RescueInv'
    OBVIOUS
  <1>1. CASE UNCHANGED rescuevars
    <2> USE <1>1 DEF rescuevars, machine, files, units
    <2>1. RescueTypeOK'
      BY DEF RescueInv, RescueTypeOK
    <2>2. ClaimIsTrue'
      BY DEF RescueInv, ClaimIsTrue, UnitShown
    <2>3. \A s \in Session \ mixed' : Ready(s, at[s])'
      BY DEF RescueInv, Ready
    <2> QED BY <2>1, <2>2, <2>3 DEF RescueInv
  <1>2. ASSUME NEW s \in Session, EnableVnc(s) \/ DisableVnc(s) PROVE RescueInv'
    BY <1>2, BeginInv DEF EnableVnc, DisableVnc
  <1>3. ASSUME NEW s \in Session,
               CheckInstalled(s) \/ InstallFromEpel(s) \/ InstallFromCopr(s) \/ HardenSesman(s)
        PROVE  RescueInv'
    BY <1>3, CheckInv, InstallInv, HardenInv
  <1>4. ASSUME NEW s \in Session,
               WriteStub(s) \/ Unmask(s) \/ StartUnits(s) \/ OpenPort(s)
        PROVE  RescueInv'
    BY <1>4, StubInv, UnmaskInv, StartUnitsInv, OpenInv
  <1>5. ASSUME NEW s \in Session, StopUnits(s) \/ Mask(s) \/ ClosePort(s) \/ Killed(s)
        PROVE  RescueInv'
    BY <1>5, StopInv, MaskInv, CloseInv, KilledInv
  <1> QED BY <1>1, <1>2, <1>3, <1>4, <1>5 DEF RescueNext

\* A command that had the machine to itself reports success only of what it has
\* done, and fails only of a call that fails (rescue.go, rescueEnableVnc and
\* rescueDisableVnc).
THEOREM ClaimsAreTrue == RescueSpec => []ClaimIsTrue
  BY RescueInitInv, RescueNextInv, PTL DEF RescueSpec, RescueInv

\* Only enable --now starts units, and it comes after the stub.
LEMMA StartStep ==
  RescueInv /\ [RescueNext]_rescuevars =>
    [active' \ active # {} => startwm = "stub" \/ mixed # {}]_rescuevars
  <1> SUFFICES ASSUME RescueInv, RescueNext, active' \ active # {}
               PROVE  startwm = "stub" \/ mixed # {}
    OBVIOUS
  <1> USE DEF machine, files, units
  <1>1. PICK s \in Session : StartUnits(s)
    <2>1. ASSUME NEW s \in Session, EnableVnc(s) \/ DisableVnc(s) PROVE FALSE
      BY <2>1 DEF EnableVnc, DisableVnc, Begin
    <2>2. ASSUME NEW s \in Session,
                 CheckInstalled(s) \/ InstallFromEpel(s) \/ InstallFromCopr(s) \/ HardenSesman(s)
          PROVE  FALSE
      BY <2>2 DEF CheckInstalled, InstallFromEpel, InstallFromCopr, HardenSesman, Installs, BreaksOff
    <2>3. ASSUME NEW s \in Session, WriteStub(s) \/ Unmask(s) \/ OpenPort(s) PROVE FALSE
      BY <2>3 DEF WriteStub, Unmask, OpenPort
    <2>4. ASSUME NEW s \in Session, StopUnits(s) \/ Mask(s) \/ ClosePort(s) \/ Killed(s)
          PROVE  FALSE
      BY <2>4 DEF StopUnits, Mask, ClosePort, Killed, Installs, BreaksOff
    <2> QED BY <2>1, <2>2, <2>3, <2>4 DEF RescueNext
  <1>2. at[s] = "start"
    BY <1>1 DEF StartUnits
  <1> QED BY <1>2 DEF RescueInv, Ready

\* No unit is started over the packaged startwm.sh, or one that is cut, by a
\* command that runs alone (rescue.go, the order of enable-vnc).
THEOREM StartedOverStub == RescueSpec => StartsOverStub
  BY RescueInitInv, RescueNextInv, StartStep, PTL DEF RescueSpec, StartsOverStub
----------------------------------------------------------------------------
(* HostCommands: the services side by side. *)

\* The inductive invariant of the whole: none of the three touches what another
\* one keeps, so each keeps its own.
HostInv == ControllerInv /\ RegistryInv /\ RescueInv

LEMMA HostInitInv == HostInit => HostInv
  BY ControllerInit, RegistryInit, RescueInitInv DEF HostInit, HostInv

\* A step of the host is, for each service, a step of its own or none.
LEMMA HostStep ==
  [HostNext]_hostvars => [CNext]_cvars /\ [NNext]_nvars /\ [RescueNext]_rescuevars
  <1> SUFFICES ASSUME [HostNext]_hostvars
               PROVE  [CNext]_cvars /\ [NNext]_nvars /\ [RescueNext]_rescuevars
    OBVIOUS
  <1>1. CASE UNCHANGED hostvars
    BY <1>1 DEF hostvars
  <1>2. CASE ByController(CNext)
    BY <1>2 DEF ByController
  <1>3. CASE ByRegistry
    BY <1>3 DEF ByRegistry
  <1>4. CASE ByRescue
    BY <1>4 DEF ByRescue
  <1> QED BY <1>1, <1>2, <1>3, <1>4 DEF HostNext

LEMMA HostNextInv == HostInv /\ [HostNext]_hostvars => HostInv'
  BY HostStep, ControllerNext, RegistryNext, RescueNextInv DEF HostInv

LEMMA HostInvariant == HostSpec => []HostInv
  BY HostInitInv, HostNextInv, PTL DEF HostSpec

\* Every variable of the three services has its type: a row is in hand exactly
\* while one is reconciled, a process stores the effect of its operation on the
\* table it loaded, and no unit is enabled of a package that is not there.
THEOREM HostTypeCorrect == HostSpec => []HostTypeOK
  <1>1. HostInv => HostTypeOK
    BY DEF HostInv, HostTypeOK, ControllerInv, RegistryInv, RescueInv
  <1> QED BY <1>1, HostInvariant, PTL

\* What holds of each service by itself holds of the host: no event is lost or
\* doubled, what is driven is desired, what was reported done is stored, and the
\* rescue commands tell the truth.
THEOREM HostIsSafe ==
  HostSpec => [](EventsAccountedFor /\ DrivesTheDesired /\ ReportedIsStored /\ ClaimIsTrue)
  <1>1. HostInv => EventsAccountedFor /\ DrivesTheDesired /\ ReportedIsStored /\ ClaimIsTrue
    BY DEF HostInv, ControllerInv, RegistryInv, RescueInv
  <1> QED BY <1>1, HostInvariant, PTL

\* Nor does any service start a rescue unit over a startwm.sh that is not the
\* stub (rescue.go, the order of enable-vnc).
THEOREM HostStartsOverStub == HostSpec => StartsOverStub
  <1>1. HostInv /\ [HostNext]_hostvars =>
          [active' \ active # {} => startwm = "stub" \/ mixed # {}]_rescuevars
    BY HostStep, StartStep DEF HostInv
  <1> QED BY <1>1, HostInvariant, PTL DEF HostSpec, StartsOverStub
=============================================================================
