----------------------------- MODULE Controller -----------------------------
(***************************************************************************)
(* internal/controller/runtime under `daedalus-host controller start`.  A  *)
(* goroutine, the informer, polls a view for rows it has not noted yet and *)
(* offers them to a bounded channel; the loop takes them off one by one,   *)
(* reads the row anew and hands what is desired now to daedalus-tx.  The   *)
(* transactions go on meanwhile and change the desired state.              *)
(***************************************************************************)
EXTENDS Naturals, Sequences, FiniteSets, Functions

CONSTANTS
    Row,         \* the resources a view may have a row for
    Value,       \* desired states
    NoValue,     \* the desired state of a resource without a row
    Capacity,    \* the channel's buffer (64)
    LoadFaults,  \* whether loading the view may fail
    MaxChanges   \* bound: changes of the desired state

ASSUME ControllerAssumption ==
    /\ IsFiniteSet(Row) /\ NoValue \notin Value
    /\ Capacity \in Nat \ {0} /\ MaxChanges \in Nat /\ LoadFaults \in BOOLEAN

VARIABLES
    desired,     \* [Row -> Value or NoValue]: what desiredview.Load would find
    changes,     \* how often that has changed
    managed,     \* the rows of the kinds under managed/reconcile in policy.toml
    view,        \* the view the informer was given
    seen,        \* the rows it has noted
    scan,        \* the rows it has still to look at in this tick
    informer,    \* off | waiting | scanning | ended; ended: the channel is closed
    channel,     \* the events in the buffer
    loop,        \* start | waiting | reading | driving | ended
    hand,        \* the event being reconciled: its row, in a set
    object,      \* the desired state handed to the driver
    cancelled,   \* SIGINT or SIGTERM has come
    dropped,     \* history: the events that met a full buffer
    handled,     \* history: the events the loop is through with
    offered      \* history: what was desired of the row in hand since it was taken

world == <<desired, changes, managed>>
poll == <<view, seen, scan, informer>>
control == <<loop, hand, object, cancelled>>
past == <<dropped, handled, offered>>
cvars == <<world, poll, channel, control, past>>

Entries == {r \in Row : view[r] # NoValue}    \* the rows of the informer's view

CInit ==
    /\ desired \in [Row -> Value \cup {NoValue}] /\ changes = 0
    /\ managed \in SUBSET Row
    /\ view = [r \in Row |-> NoValue] /\ seen = {} /\ scan = {} /\ informer = "off"
    /\ channel = <<>>
    /\ loop = "start" /\ hand = {} /\ object = NoValue /\ cancelled = FALSE
    /\ dropped = {} /\ handled = {} /\ offered = {}
----------------------------------------------------------------------------
(* RunLoop, up to the informer's start. *)

Start ==
    /\ loop = "start"
    /\ view' = desired
    /\ informer' = "waiting" /\ loop' = "waiting"
    /\ UNCHANGED <<world, seen, scan, channel, hand, object, cancelled, past>>

StartFails ==
    /\ loop = "start" /\ LoadFaults
    /\ loop' = "ended"
    /\ UNCHANGED <<world, poll, channel, hand, object, cancelled, past>>
----------------------------------------------------------------------------
(* pollingInformer.Run *)

Tick ==
    /\ informer = "waiting"
    /\ informer' = "scanning" /\ scan' = Entries
    /\ UNCHANGED <<world, view, seen, channel, control, past>>

\* A row is passed over when it was noted with the same source transaction.
\* The view is never replaced, so that is so whenever it was noted at all.
PassOver(r) ==
    /\ r \in scan \cap seen
    /\ scan' = scan \ {r}
    /\ UNCHANGED <<world, view, seen, informer, channel, control, past>>

\* Mutant: a row is offered, and not noted.
OfferUnnoted(r) ==
    /\ r \in scan \ seen /\ Len(channel) < Capacity
    /\ scan' = scan \ {r} /\ seen' = seen
    /\ channel' = Append(channel, r)
    /\ UNCHANGED <<world, view, informer, control, past>>

\* Mutant: without a buffer, an event finds no receiver while the loop is busy.
OfferUnbuffered(r) ==
    /\ r \in scan \ seen /\ Len(channel) < Capacity
    /\ scan' = scan \ {r} /\ seen' = seen \cup {r}
    /\ channel' = IF loop = "waiting" THEN Append(channel, r) ELSE channel
    /\ UNCHANGED <<world, view, informer, control, past>>

\* Noted first, then sent without blocking.
Offer(r) ==
    /\ r \in scan \ seen /\ Len(channel) < Capacity
    /\ scan' = scan \ {r} /\ seen' = seen \cup {r}
    /\ channel' = Append(channel, r)
    /\ UNCHANGED <<world, view, informer, control, past>>

\* Mutant: the send blocks until there is room.
DropNever(r) == FALSE

\* The buffer is full: the event is lost, and the row stays noted.
Drop(r) ==
    /\ r \in scan \ seen /\ Len(channel) = Capacity
    /\ scan' = scan \ {r} /\ seen' = seen \cup {r}
    /\ dropped' = dropped \cup {r}
    /\ UNCHANGED <<world, view, informer, channel, control, handled, offered>>

TickEnds ==
    /\ informer = "scanning" /\ scan = {}
    /\ informer' = "waiting"
    /\ UNCHANGED <<world, view, seen, scan, channel, control, past>>

\* The context is done, or RunLoop has returned and called Stop.
InformerEnds ==
    /\ informer = "waiting" /\ (cancelled \/ loop = "ended")
    /\ informer' = "ended"
    /\ UNCHANGED <<world, view, seen, scan, channel, control, past>>

Polling ==
    \/ Tick \/ TickEnds
    \/ \E r \in Row : PassOver(r) \/ Offer(r) \/ Drop(r)
----------------------------------------------------------------------------
(* RunLoop *)

\* An event of a row in any other mode is passed over.
Ignore ==
    /\ loop = "waiting" /\ channel # <<>> /\ Head(channel) \notin managed
    /\ channel' = Tail(channel)
    /\ handled' = handled \cup {Head(channel)}
    /\ UNCHANGED <<world, poll, control, dropped, offered>>

\* Mutant: policy.toml is not asked.
TakeAny ==
    /\ loop = "waiting" /\ channel # <<>>
    /\ channel' = Tail(channel)
    /\ loop' = "reading" /\ hand' = {Head(channel)}
    /\ offered' = {desired[Head(channel)]}
    /\ UNCHANGED <<world, poll, object, cancelled, dropped, handled>>

Take ==
    /\ loop = "waiting" /\ channel # <<>> /\ Head(channel) \in managed
    /\ channel' = Tail(channel)
    /\ loop' = "reading" /\ hand' = {Head(channel)}
    /\ offered' = {desired[Head(channel)]}
    /\ UNCHANGED <<world, poll, object, cancelled, dropped, handled>>

\* Mutant: what was desired when the controller started is driven.
ReadOld ==
    /\ loop = "reading"
    /\ object' \in {view[r] : r \in hand} \ {NoValue}
    /\ loop' = "driving"
    /\ UNCHANGED <<world, poll, channel, hand, cancelled, past>>

\* ObjectFromViewAndState reads the view again.  The generation it makes up is
\* positive and the observed one zero: Reconcile never skips.
Read ==
    /\ loop = "reading"
    /\ object' \in {desired[r] : r \in hand} \ {NoValue}
    /\ loop' = "driving"
    /\ UNCHANGED <<world, poll, channel, hand, cancelled, past>>

\* The loop is through with an event, whatever came of it.
Done ==
    /\ loop' = "waiting" /\ hand' = {} /\ object' = NoValue
    /\ handled' = handled \cup hand
    /\ offered' = {}
    /\ UNCHANGED <<world, poll, channel, cancelled, dropped>>

\* There is no view, or no such row any more: an error nobody looks at.
ReadFails ==
    /\ loop = "reading"
    /\ LoadFaults \/ \E r \in hand : desired[r] = NoValue
    /\ Done

\* Driver.ApplyDesired: `daedalus-tx begin` takes no arguments, so the child
\* refuses; the error is audited, and RunLoop goes on.
Drive == loop = "driving" /\ Done

\* The context is done, or the channel is closed and empty.
Return ==
    /\ loop = "waiting"
    /\ cancelled \/ (informer = "ended" /\ channel = <<>>)
    /\ loop' = "ended"
    /\ UNCHANGED <<world, poll, channel, hand, object, cancelled, past>>

Looping == Start \/ StartFails \/ Ignore \/ Take \/ Read \/ ReadFails \/ Drive \/ Return
----------------------------------------------------------------------------
Signal ==
    /\ ~cancelled
    /\ cancelled' = TRUE
    /\ UNCHANGED <<world, poll, channel, loop, hand, object, past>>

\* A transaction that is applied or rolled back changes a row, or its absence.
Change(r, v) ==
    /\ changes < MaxChanges /\ v # desired[r]
    /\ desired' = [desired EXCEPT ![r] = v]
    /\ changes' = changes + 1
    /\ offered' = IF r \in hand THEN offered \cup {v} ELSE offered
    /\ UNCHANGED <<managed, poll, channel, control, dropped, handled>>

CNext ==
    \/ Polling \/ InformerEnds \/ Looping \/ Signal
    \/ \E r \in Row, v \in Value \cup {NoValue} : Change(r, v)

CSpec == CInit /\ [][CNext]_cvars

\* Both goroutines are scheduled; a view loads and a command ends (CommandsEnd
\* of TxCli).  A select that finds several cases ready chooses at random, so
\* the case that ends the informer is not passed over for ever.
CFair == WF_cvars(Polling) /\ SF_cvars(InformerEnds) /\ WF_cvars(Looping)
----------------------------------------------------------------------------
\* Every variable has its type; a row is in hand exactly while one is reconciled.
CTypeOK ==
    /\ desired \in [Row -> Value \cup {NoValue}] /\ view \in [Row -> Value \cup {NoValue}]
    /\ changes \in 0..MaxChanges
    /\ managed \subseteq Row /\ seen \subseteq Row /\ scan \subseteq Entries
    /\ informer \in {"off", "waiting", "scanning", "ended"}
    /\ channel \in Seq(Row) /\ Len(channel) <= Capacity
    /\ loop \in {"start", "waiting", "reading", "driving", "ended"}
    /\ hand \subseteq managed
    /\ loop \in {"reading", "driving"} <=> hand # {}
    /\ object \in Value \cup {NoValue} /\ (object # NoValue => loop = "driving")
    /\ cancelled \in BOOLEAN
    /\ dropped \subseteq Row /\ handled \subseteq Row
    /\ offered \subseteq Value \cup {NoValue}

\* informer.go: an event is neither lost nor doubled between the two
\* goroutines: what was noted is in the buffer once, or in hand, or done with,
\* or was dropped, and never two of these; and none is dropped, however slow the
\* loop is, as long as the view has no more rows than the buffer holds.
EventsAccountedFor ==
    /\ \A j, k \in DOMAIN channel : channel[j] = channel[k] => j = k
    /\ seen = Range(channel) \cup hand \cup handled \cup dropped
    /\ Range(channel) \cap (hand \cup handled \cup dropped) = {}
    /\ hand \cap (handled \cup dropped) = {} /\ handled \cap dropped = {}
    /\ dropped # {} => Cardinality(Entries) > Capacity

\* reconciler.go, driver.go: what is driven is a managed row, towards a state
\* that was desired of it since its event was taken, never towards one that
\* had been replaced or rolled back before.
DrivesTheDesired ==
    loop = "driving" => hand \subseteq managed /\ object \in offered \ {NoValue}

\* Each row of the view the controller started with is reconciled or passed
\* over, once, unless the buffer was full or the controller ends before.
RowsAreServed ==
    \A r \in Row : r \in Entries ~> r \in handled \cup dropped \/ loop = "ended"

\* Told to stop, both goroutines end: the informer never waits for a reader.
StopsWhenTold == cancelled ~> loop = "ended" /\ informer \in {"off", "ended"}

\* Not met by the code, no run checks it (see README.md).
\* docs/desired-state-projection.md:59, a row under managed/reconcile is driven
\* towards its desired state for as long as the controller runs.
KeepsDriving ==
    \A r \in Row : []<>((loop = "driving" /\ r \in hand) \/ loop = "ended"
                        \/ r \notin managed \/ desired[r] = NoValue)
=============================================================================
