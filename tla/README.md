# daedalus-core in TLA+

TLA+ models of daedalus-core, the TLC runs that check them and the theorems
TLAPS proves about them. Paths are relative to `src/`; a definition's exact
lines are in `PROJECT.json` under `map`.

## 1. The system

daedalus-core changes a machine's services, packages and files through small
transactions that are proposed, applied by a person's decision, and rolled
back. A control plane does the same for many machines: it sends the intents of
a plan to agents, in batches, and stops when one fails.

| component | state | operations | talks to |
| --- | --- | --- | --- |
| transaction journal `internal/tx` | one JSON file per transaction (status, steps, rollback plan), an flock on it, a copy and a CAS baseline per process | Begin, Load, Append, MarkApplying/Applied/RolledBack/Failed, persist | the file system; called by the command line and the desired view |
| transaction CLI `cmd/daedalus-tx` | none of its own: a process per subcommand | begin, propose, apply, rollback, resolve, status | journal, adapters, audit log |
| adapters `cmd/daedalus-tx/*_set.go`, `disk_clean.go`, `organize_move.go` | sidecar files (package.set), moved files, unit files | Propose, Apply, Rollback | systemctl, package tools, podman, the file system |
| audit stamps `stamp.go` | the hash-chained audit log (of the SDK) | stampTx, stampPlain, scanTxTail | SDK |
| desired view `internal/desiredview`, `tx/list.go` | none: a replay of all journals | List, Project, Load | journal; read by controller and drift |
| fleet scheduler `internal/fleet/scheduler.go` | one PlanRun, in memory | Run, runOne, reRegister | agents over mTLS, registry |
| node registry `internal/fleet/registry.go` | `nodes.jsonl` | Put, Get, Delete, MarkSeen, List | scheduler, `host node` |
| plan commands `cmd/daedalus-host/plan.go` | `plans.jsonl`, append-only | submit, status, advance `--skip`/`--force` | scheduler, a person |
| controller `internal/controller/runtime` | noted rows, a bounded channel, the view loaded at start | informer poll, take, read, drive, stop | desired view, `daedalus-tx` |
| rescue `cmd/daedalus-host/rescue.go` | none of its own: a package, two files, two units, a port | enable-vnc, disable-vnc, status | dnf, systemctl, firewall-cmd |
| drift, ownership, plugin host, audit tool, packer, smoke test, copilot, scripts | little or none | reports and one-shot tools | |

What is hard here, and what makes each part correct:

* **Journal.** Processes that share nothing but files hold copies of a
  document and rewrite it in place, under a lock, after comparing it with what
  they loaded. Correct means: no update is lost, nobody reads half a document,
  a refused or failed write leaves memory and file in agreement, and the
  history of a transaction is one path through the status table.
* **CLI.** Between two saves nothing protects what a command does: adapters
  and audit stamps of two commands interleave, a process may be killed
  anywhere, and the outcome of a step reaches the journal only with the
  verdict. Correct means: one applier, each step once and in order, a verdict
  that tells what ran, a rollback of exactly what succeeded, one audit chain
  per transaction, and no apply that hangs.
* **Adapters.** Each is a short sequence of commands on a machine that others use
  too; any of them may fail, time out after it was done, or be the last before
  the process dies, and a rollback may be run again. Correct means: applied is
  what was asked for, undone is what Propose found, and nothing is lost between.
* **Desired view.** Files are read one by one while commands change them, and
  replayed by the wall clock at begin. Correct means: the view is one the
  system could have had, and agrees with the machine where nobody interferes.
* **Fleet.** Answers are lost, agents change their node id, the registry
  is written in two steps, the process may die. Correct means: nothing is sent
  past a failure, a high-risk intent is applied at most once, the verdict is
  earned, no machine has two rows, and every run ends.
* **Plan commands.** A later command knows an earlier run by one line of a
  file. Correct means: nothing is done twice behind a person's back,
  `complete` is true, and everything done can be found for a rollback.
* **Node registry.** Schedulers and `node add` rewrite one table with no lock.
  Correct means: the table is always whole, and what was reported done is in it
  unless another process stored over it.
* **Controller.** Two goroutines share a channel that is never waited for, and the
  desired state changes under them. Correct means: no event is lost or doubled
  but those a full buffer costs, nothing is driven towards a state that had been
  replaced, and a signal stops both.
* **Rescue.** A dozen calls, each of which may fail half done, on a machine that an
  earlier command may have left anywhere. Correct means: a command that says it
  succeeded has, and one can always be run again.

## 2. The modules

| module | models | builds on |
| --- | --- | --- |
| `TxDoc` | the document: statuses, transitions, Append, mark, rollback plan | |
| `TxLifecycle` | **abstract specification**: what may become of a transaction, whatever processes, files and locks do | `TxDoc` |
| `TxJournal` | `internal/tx` system call by system call: open, lock, compare, truncate, write, sync, I/O errors, crashes | `TxDoc`; implements `TxLifecycle` |
| `TxDocProofs`, `TxJournalProofs` | lemmas on documents; the theorems about the journal | `TxDoc`; `TxJournal` |
| `TxCli` | the subcommands as interleaving processes, with adapters, audit stamps and a world to change | `TxDoc` |
| `TxCliEnds` | how the subcommands end: their fairness, and a note of the applies that were cut off | `TxCli` |
| `TxCliProofs` | the theorems about the subcommands | `TxCli`, `TxDocProofs` |
| `UnitAdapters`, `PackageAdapter`, `SmallAdapters`, `FileAdapters` | what each adapter makes of a step: Propose's conditions and snapshot, the calls of Apply and of Rollback, and what the calls do to the machine; pure functions | |
| `Adapters` | one step from Propose to Rollback, executed call by call among failures and other programs | the four above |
| `AdapterProofs` | the theorems about the adapters | `Adapters` |
| `DesiredView` | List and Project while the commands run | `TxCli` |
| `ViewProofs` | the theorems about the desired view | `DesiredView`, `TxCliProofs` |
| `FleetPlan` | batching, risk, capabilities, buckets: pure functions | |
| `FleetScheduler` | Run, runOne, reRegister, registry and agents | `FleetPlan` |
| `FleetProofs` | batches divide the machines, and the row they make; the theorems about a run | `FleetScheduler` |
| `PlanRecovery` | submit and advance around the scheduler | `FleetScheduler` |
| `RecoveryProofs` | the theorems about them | `PlanRecovery`, `FleetProofs` |
| `Controller` | the informer's goroutine and RunLoop's, the channel between them, the changing desired state | |
| `NodeRegistry` | Put, Delete and MarkSeen of several processes on one `nodes.jsonl` | |
| `Rescue` | enable-vnc and disable-vnc, call by call | |
| `HostCommands` | the three above as the services of one program | `Controller`, `NodeRegistry`, `Rescue` |
| `HostProofs` | the theorems about the three, alone and together | `HostCommands` |
| `MC*` | what the configurations need beyond constants | |

### How state and actions correspond to the code

**TxJournal.** `disk[id]` is the file, `NoDoc` before it exists and `Garbled`
while it is empty or cut; `committed[id]` is a history variable, the last
document completely written. `holder[id]` is the flock. A process has a
`Transaction` in `mem`, its `diskDoc` in `base` and, during a save, the document
before the change in `prev`. `persist` is cut at the points where another process
can get in: `BeginOpen` is the `open(O_CREATE|O_EXCL)` of `create`, `StartSave`
(from `AppendStep` and `Mark`) the change of the copy before the lock is taken,
`Truncate` the lock, the re-read, the comparison and the truncation, `Write` the
write, the sync and the unlock. `Refuse` is the comparison that fails; it undoes
the change in memory, as `mark` and `Append` do. `WriteError` and `SyncError` leave
the file cut, or new while memory goes back. A step's outcome is changed in
memory only (`RecordFailure`).

**TxCli.** A save is one step, refused unless the journal still is what the
process loaded: `TxJournal` shows that the library provides this, with
`SaveFails` and `Crash` for what it leaves behind when it fails. `world` is what
adapters read and write, one value per resource; `Silent` resources have adapters
with nothing to restore; a failing adapter may have written or not. `log` holds
the stamped audit entries with the entry each follows; a stamp may be lost.
`order` is `created_at`, and the clock may go back. `cmdApply` scans the audit
tail just before `MarkApplying`; the scan is modelled with it, since only `begin`
can have stamped a transaction that is still proposed. `status` changes nothing
and is left out, as is everything before `mustLoad` (argument checks). `TxCliEnds`
adds the fairness of a process that has started (`GoesOn`, failing saves included) and
`struck`, the transactions whose apply was killed or could not save its document.

**Adapters.** `machine` is the part of the machine the step is about: a systemd unit
(its file, what systemd has read of it, whether it is active and enabled), a
package with the dnf history and the sidecar file, a container, the policy file
with the file `content_ref` names, or a small file tree in which every file can be
followed. `StartApply` and `StartUndo` compute the calls the adapter will make, from
what it observes then; `Call` makes the next one, `CallFails` is one that is
impossible, not made, or made and reported as failed; the adapter returns at once,
as every adapter does. `Others` is another program, once. `StartUndo` may come again
after a rollback that ended, stopped or was cut, since `rolled_back` is saved
afterwards. What systemctl, dnf, podman and the kernel do is external, modelled as
the adapters expect it; a call is done or not done, so a file half written is left
out. The history variables `found`, `touched` and `again` only serve the properties.

**DesiredView.** `ListDir` fixes the names, `ReadJournal` reads one file, `LoadFails`
is the error of one unreadable journal that makes the whole load fail.
`orderly`, chosen at the start, restricts the commands to a discipline and leaves loads
out, which change nothing; otherwise loads go on. Commands that fail, are killed, resolved or
broken off are part of the disciplined histories too. The discipline asks of a person that

* a transaction has one command at a time, and commands that work at once are about
  different resources (`OneEach`, `Separate`);
* nothing is applied or undone beneath an applied transaction that was begun later, nor on a
  resource another transaction has left half-way (`OnTop`);
* what is applied was proposed against the present state, and a failed transaction is not
  rolled back once more after a rollback that ran to its end (`Timely`).

The history variable `hand` notes for each resource the transaction that has begun to
change, or to restore, it and has not come to an end there. `LoadBounds` and `CalmBounds`
keep the two kinds of history finite. `Put` over a row replaces it, whoever wrote it; `PutAll` does
so for the steps of one transaction and `Project` for the transactions in the order of
`created_at`, which is the sort at the end of `List`.

**FleetScheduler.** `at` is the position in the three loops of `Run`; `target` is the
row `runOne` works with, `nodes` the rows read at the start. `Dispatch` is one
round of the loop of `runOne`. `Register`, `Delete` and `Put` are the steps of
`reRegister`. There is no action for a crash: any state may be the last of a run,
and the safety properties hold there. A registry operation replaces the
file by a rename and is one step; `markSeen` writes only `last_seen`, its errors
are ignored, and it is left out. Agents are external and modelled from their
answers as `ClassifyApply` and `dialRegister` take them: an agent whose id has
changed answers FailedPrecondition until it is registered again, and a call that is not answered,
or is answered by a refusal, may have been acted on. `Plan.Validate` and the blast radius
check reject a plan before anything is sent, and are left out.

**PlanRecovery.** `record` is the last line of `plans.jsonl` for the plan (`torn` when
it was cut, from when on no line of the file is read), `merged` the results an advance carries over. One command at a time.
A result keeps the machine of its intent id (`m`) and the node id (`node`) apart:
the code uses the first to count and the second to skip.

**Controller.** `desired` is what `desiredview.Load` would return, changed at any
moment by `Change`; `view` is what the informer was given, once. A tick is a `Tick`,
one `PassOver`, `Offer` or `Drop` for each row, in any order, and a `TickEnds`: the
note and the send are one step, since only the informer reads its notes. `Take` and
`Ignore` are the receive, `Read` and `ReadFails` the second load of the view in
`ObjectFromViewAndState`, `Drive` the child process. `Reconcile`'s generation gate
never closes (the generation is the number of rows, the observed one zero) and is left
out. `workqueue.go` is used by nothing but its test. `dropped`, `handled` and
`offered` only serve the properties.

**NodeRegistry.** An operation is a `LoadTable`, two `WriteTemp` (the temporary file
incomplete and complete) and a `Rename`, or an `Abandon` at any point between: an
error before the rename and the death of the process leave the same table. The file's
order of rows is left out, as the code sorts it away. `told` adds up what was reported
done, and `overrun` notes the first store of a table that was loaded before another
one stored.

**Rescue.** `at[s]` is the call a command is at, one action per call; the calls of dnf
in one attempt to install are one, which may succeed, break off before anything the commands
look at is there, or leave a part of the package with its binary (`partly`). A call that fails may have done part of its work,
and `Killed` is a kill between two calls or during one. What dnf and systemd do is
modelled as the code expects it: `enable --now` refuses masked and missing units,
`mask` masks what does not exist. `mixed` marks commands that ran beside another one,
of which nothing is promised; `claim` is what the last command that ran alone said.

**HostCommands.** The three share no state: no file, no channel, no lock. What one
does is therefore a stuttering step of the others, and a property of one holds of
all together if it holds of it alone. An initial choice (`service`) says which one is at
work, and the steps, properties and fairness are those of the three modules.

## 3. The runs

Passing runs.

| run | bounds | what it shows |
| --- | --- | --- |
| `TxJournal` | 2 processes, 1 transaction, 2 steps, I/O errors, crashes | the safety invariants of the journal, that its history of documents implements `TxLifecycle`, and that calls return |
| `TxCliConcurrent` | 3 processes, 1 transaction, 2 steps, every fault | one applier; steps once, in order, none after a failure; `applied` means all of them, `failed` at step k means the k-1 before it and none after; rollback undoes an executed prefix in inverse order, also when two rollbacks run at once |
| `TxCliTwo` | 2 processes, 1 transaction, 2 steps, 2 values, failing steps, lost stamps, failing saves, kills | a rolled-back transaction has restored what it had a snapshot of, even with two rollbacks at once; every command ends, and a transaction stays applying only if its apply was killed or could not save |
| `DesiredViewCut` | 2 processes, 2 transactions, 2 resources, failing steps, crashes, unreadable journals, a clock that goes back; with a reader: 1 command at a time, 1 step a transaction, 1 new value, 2 stamps and those that are lost; with the discipline: 2 commands at once, 2 steps in all, 2 values, every stamp lost | the view is the replay of a set of transactions between those applied all along and those applied at some moment; the stamps of a transaction form one chain; under the discipline the view tells the state of every resource no transaction has left half-way, also after applies and rollbacks that failed or were killed |
| `Adapters` | every adapter, 2 contents of a file and 2 policies, 3 versions of a package, a tree of 3 names with one file in each directory, 1 or 2 paths or moves, every fault, one change by others, any number of rollbacks | an applied step is what was asked for, an undone one what was found, also when the rollback is run again; nothing impossible is asked of an undisturbed machine, a rollback loses no data and a move none that Propose found, a timer is disabled before its file goes and the reload comes before the verb, the sidecar names an entry of the step's command |
| `FleetRun` | 3 machines, all supported or the first experimental, 2 intents, chunks of 1 or 2 or importance classes, every risk, 1 retry, 1 new node id, every fault | results follow the agenda and nothing is sent past a failure; complete and dirty, and StoppedAt, mean what they say; the retry budget holds per agent; no machine has two rows, and none is without one but between Delete and Put; the run ends, because a measure of what is left falls with every step of the scheduler |
| `PlanRecovery` | 2 machines, 2 intents, 1 new node id, 3 commands, every fault | complete means done or skipped; until an answer or a record is lost, nothing is applied twice and the record accounts for all that was applied |
| `HostCommands` | controller: 3 rows, a buffer of 2, 1 change of the desired state, views that fail to load; registry: 2 writers, 2 nodes, 2 contents, 3 operations, failures and deaths; rescue: 2 sessions, 4 commands, every failure and kill | what was noted is in the buffer, in hand, done or dropped, once, and dropped only if the view is larger than the buffer; a drive aims at a state desired since its event was taken; each row is served once, and a signal ends both goroutines; the table is whole and holds what was reported; an enable or disable that ran alone tells the truth wherever earlier ones broke off, and starts no unit over a wrong script |

Why the bounds are enough. Two processes make every conflict of the journal
(loser and winner of a save, creator and reader); for any number of them the
theorems hold. Three commands are an applier, its rival and a resolver or two
rollbacks. Two steps are one that succeeds and one that fails. `MaxLog`
limits stamped entries; commands whose stamps are lost go on, so long sequences
of commands are still reached. Under the discipline of `DesiredViewCut` nothing depends on a
stamp, so all are lost there; two steps are two on one resource, one on each of two, or
one each in two transactions on the same. An adapter works on one unit,
package, container or file at a time; two paths or moves are the least that can
overlap, and a move keeps the depth of a path. Three machines give a full and a short chunk, and
a batch after the failing one. Three commands on a plan are a submission and two
decisions. Three rows are one more than the buffer holds, so that it is full, and
a change may come before, in and after each step of one event. Two
writers make every overrun; the theorem covers any number. Four commands are a
disable, two enables that break off and one that is judged, in any order. A run that may stop for want of a new command, or at a bound, switches
the deadlock check off and says so in its configuration.

Runs in which the code does not do what its documents say; each is a
finding in `PROJECT.json` with the quoted line.

| run | the shortest way there |
| --- | --- |
| `TxJournalTorn` | a crash between `Truncate(0)` and `Write`: the only copy of the journal is empty, every later command refuses it |
| `TxCliRollbackFails` | the adapter cannot roll back; the transaction is `rolled_back` although the document says it stays `applied` |
| `PackageForeignUndo` | somebody installs a package, then it is applied as `present`: dnf has nothing to do and makes no entry, the last entry has the same command line and its id goes into the sidecar; a rollback would undo the other's installation |
| `PlanSkipRerun` | `--skip a`, then `--skip b`: machine `a` has no success, so it is pending again and is run |

Seen while modelling, and true of the models, but without a run of their own:

* Between `open(O_EXCL)` and the lock a reader finds the empty file of a
  transaction being created (`NeverHalfVisible` of `TxJournal` does not hold), and
  a `Begin` that fails after the open leaves that file, which makes every later
  `List` fail (`NoHalfMadeJournal`).
* An apply killed after a step and then resolved is `failed` without a failed
  step, so rollback undoes nothing (`NoFailureNothingRan` of `TxCli`).
* With two rollbacks of one transaction at once both continue the audit chain
  from the same entry: `ChainLinear` holds for one command at a time only.
* After a stamp that is not written, `stamp.go:52` says, the chain breaks and the next steps
  open a new one. `cmdApply` and `cmdRollback` keep the last hash that was written, as
  `commands.go:121` says ("步号可跳, 链不断"): the chain goes on from the last stamp that
  was written, with a gap in the step numbers. `ChainLinear` states what the code does; the
  comment in `stamp.go` is the one to correct.
* When the save of a verdict fails (`commands.go:125`, `:135`), the apply exits with 1 and its
  transaction stays applying until it is resolved, without anybody having been killed.
* The view is ordered by begin, not by apply: of two transactions on one resource
  the one begun last wins even if the other was applied last. And before_state is read by
  propose: what another transaction does before the apply is lost by a rollback.
  `DesiredIsActual` therefore needs the discipline of `orderly`, whose `OnTop` and `Timely`
  exclude the two; nothing in the code does.
* An agent that is re-registered reports no rollback point any more; the high-risk
  intent is sent again without looking (`HighNeedsSnapshot` of `FleetScheduler`).
* A machine gets a new id during intent 1 and another during intent 2: the row to
  delete is the one from the start of the run, already gone, so the plan is dirty
  (`RotationIsNoFailure`).
* service.set does not record whether a unit was enabled, so the rollback of
  `enabled` or `disabled` reports success and leaves it as it is now. A container
  that was removed is not made again, and the rollback reports success, as
  `container_set.go:221` says.
* Once the dnf history is cleared, the rollback of `present` or `latest` removes the
  package, also when the step had only upgraded it, and reports success.
* Two moves of one step may have the same destination: Propose sees it free for
  both, and the second rename replaces the file of the first. The properties of
  organize.move therefore ask for destinations that are apart (`Apart`).
* A rollback of organize.move that stopped half way cannot be run again: it stops at
  the first file that is back already. disk.clean makes its paths again in the order
  given, so a path given before its directory stops it.
* Whether a destination is free is asked by Propose only. The rename of
  `organize_move.go:229` replaces what another program has put there since; `KeepsData`
  speaks of what was there at Propose, and leaves that file out.
* container.set reads from the snapshot of Propose whether the container has to be started
  or stopped (`container_set.go:208`): if somebody has undone since what it was then, apply
  does nothing and reports success.
* policy.set compares the policy with the one proposed against (`policy_set.go:192`) and
  replaces it by a later rename (`:220`): a policy put there in between is replaced.
* disk.clean records a digest to find drift with, and Apply never compares it.
* A policy that fails to be read back is a failed step, with the file replaced;
  `policy_set.go:158` says that a failure does not modify the file.
* A rollback that wrote a unit file back and stopped before `daemon-reload` does not
  reload when it is run again, since the file is as it should be (`Reread`).
* `--skip` marks results by node id; those of a machine whose id has changed
  are not accepted, and its plan stays dirty (`SkipAccepts` of `PlanRecovery`).
* `adapterKinds` knows two of the seven adapters, so the others never show in
  the desired view.
* The controller's driver calls `daedalus-tx begin --steps ... --auto-apply`, and `begin`
  takes no arguments: no drive succeeds, and each is audited as an error.
* The informer's view is loaded once and each row noted once, so a row is driven
  at most once in the life of a controller, and what is applied later never:
  `docs/desired-state-projection.md:59` says that managed/reconcile drives on
  (`KeepsDriving` of `Controller` does not hold). An event lost to a full buffer is
  not made up for.
* Two writers of the registry that load the same table lose the rows of the one that
  stores first, after both have reported success (`overrun` of `NodeRegistry`).
* Two advances of one plan at once read the same last record and run the same
  machines; nothing claims the plan. `PlanRecovery` has one command at a time.
* enable-vnc takes a machine on which dnf has left a part of the package for installed, as it
  looks for `/usr/sbin/xrdp` only (`xrdpInstalled`): it never installs again, and may fail at
  the stub or at the units for ever (`partly` of `Rescue`).
* enable-vnc beside disable-vnc may leave units that are masked and running, and both
  report success. The promises of `Rescue` are for commands that run alone.
* `mapXrdpUnitState` passes on systemd's `loaded`; `rescue.go:38` lists `disabled` and
  not `loaded`.
* The port is opened in the running firewall only: the attempt to make it permanent
  is made only if the first one failed (`openFirewallPort`).
* Drift of a package that is to be `latest` compares the word with a version and is
  therefore always reported (`drift.go:91`).

### Fairness

`TxJournal`: a process inside `persist` goes on, and flock is granted once it is
free; the call has no timeout and the code has no other wait. `TxCli`: a started
process goes on until it ends; adapters return, since each child process they
start has a timeout (`ESpec` of `TxCliEnds`). A save that fails is the last thing a process
does, so it ends like any other; but its transaction, like that of an apply that is killed, may
stay applying until someone resolves it, and `CommandsEnd` excuses these two (`struck`) and
no other.
`FleetScheduler` needs no fairness: `RunEnds` is an action property, a measure
that every step of the scheduler lowers. `HostSpec`: both goroutines of the controller are scheduled, a view loads or fails, and a
child process ends (`CommandsEnd`), so `Polling` and `Looping` are weakly fair. Between two
ticks the informer's `select` finds the end and the next tick ready and chooses at
random, which weak fairness does not cover, as the case is disabled during a tick:
`InformerEnds` is strongly fair. Registry and rescue need none. Nobody is obliged to start a
command, to break down, to send a signal or to change a node id.

## 4. The proofs

Each theorem holds for any sets and bounds the constants' assumptions allow: any
number of processes, transactions, steps, machines, intents, rows, nodes and sessions,
and under any
faults. The assumptions say that the special values (`NoId`, `NoValue`, `Torn`, ...)
are none of the ordinary ones, that bounds are numbers, and that faults are among the
kinds named; sets are finite where a cardinality is taken.

| module | theorem | property |
| --- | --- | --- |
| `TxJournalProofs` | `Invariance`, `TypeCorrect` | `TypeOK`, the rollback plan frozen from applied on |
| | `LockProtects`, `NoUpdateLost`, `NoFork` | `LockProtectsFile`, `NoLostUpdate`, `MemoryFollowsDisk` |
| | `Refinement` | `Implements`: the journal implements `TxLifecycle` |
| `TxCliProofs` | `CliInvariance` | the inductive invariant |
| | `OneApplier`, `OnceInOrder` | `SoleApplier`, `StepsOnceInOrder` |
| | `VerdictIsTrue`, `UndoneSucceeded` | `VerdictTells`, `UndoesOnlySuccesses` |
| | `CliTypeCorrect` | `TypeOK` |
| | `ChainIsLinear`, `ChainOfOne` | `ChainLinear`, while no two commands stamp one transaction |
| | `RollbackRestores`, `OneRestores` | `RolledBackRestores`, while no two transactions write one resource |
| `ViewProofs` | `ProjectIsReplay` | what `Project` returns |
| | `ReaderIsNeutral` | `DSpec => Spec`: the theorems about the subcommands hold beside a load |
| | `ViewIsOfACut` | `ViewIsOfSomeCut` |
| | `DesiredStateIsActual` | `DesiredIsActual`, with adapters that restore what they report |
| `AdapterProofs` | `AppliedStepsAreDesired`, `UndoneStepsAreRestored` | `AppliedIsDesired`, `UndoneIsRestored` |
| | `AppliedStepsCanBeUndone` | `UndoIsPossible`: the first rollback of a recoverable step on an undisturbed machine |
| | `DataIsKept` | `KeepsData`: rollbacks, and moves as to what was there at Propose |
| | `UnitsAreInOrder`, `SidecarAlwaysFits` | `UnitsInOrder`, `SidecarFits` |
| `FleetProofs` | `BatchesDivide` | what `SplitBatches` returns |
| | `FleetInvariance`, `FleetTypes` | the inductive invariant, `TypeOK` |
| | `OneRowAlways`, `WithinBudget`, `VerdictEarned` | `OneRowPerMachine`, `AppliedWithinBudget`, `VerdictIsEarned` |
| | `NothingAfterFailure`, `EveryRunEnds` | `NothingPastAFailure`, `RunEnds` |
| `RecoveryProofs` | `RecoveryInvariance` | the inductive invariant |
| | `EachAppliedOnce`, `AllOnRecord`, `CompleteIsSettled` | `AppliedOnce`, `NothingUnaccounted`, `CompleteMeansSettled` |
| `HostProofs` | `ReportsAreStored`, `RegistryTypeCorrect` | `ReportedIsStored`, `NTypeOK` |
| | `EventsAreAccountedFor`, `DesiredIsDriven` | `EventsAccountedFor`, `DrivesTheDesired` |
| | `ClaimsAreTrue`, `StartedOverStub` | `ClaimIsTrue`, `StartsOverStub` |
| | `HostTypeCorrect`, `HostIsSafe`, `HostStartsOverStub` | `HostTypeOK` and the same five of all services side by side |

**The journal.** None of the properties is inductive alone. That a write replaces the
document it was derived from follows only if the process that holds the lock
compared its baseline with the last complete document, which needs the lock to
cover every hole in the file; that a creator's first write replaces nothing
needs that nobody else can have loaded the transaction; and that memory goes
back to the baseline needs to know what a save under way was derived from. The
inductive invariant is their conjunction with that knowledge (`InFlight`):

    IInv == TypeOK /\ LockProtectsFile /\ NoLostUpdate /\ MemoryFollowsDisk /\ InFlight

`Invariance` proves it with one lemma per action, over lemmas on documents (Append and
mark keep them well formed, `EXCEPT` on a record changes one field; `TxDocProofs`).
The refinement then maps `Write` to a step of the lifecycle and everything else to
stuttering: `NoLostUpdate` says which.

**The subcommands.** Nothing locks a transaction between two saves, so the argument is
about what a process may still believe. `CliInv` says of each process how its copy, its
baseline and the executed steps agree (`AtWork`, `Progress`), and of each document

* that one without a verdict has no failed step (`Untried`);
* that one with a verdict tells what was executed (`Tells`), and that nobody is applying
  the transaction any more (`Over => NoApplier`);
* that nothing was executed while it was still open to proposals.

The step that matters is the save that starts an apply: it succeeds only if the journal
still is what the process loaded, which is a proposed document, so no other applier can
have started, and any that follows loads something else. From then on the steps executed
change only with the one applier. That a baseline with a verdict excludes an applier as
well as the journal does is what makes a rollback right that has loaded its document long
ago. `SoleApplier` is part of the invariant, the other three follow from it. TLC has
checked `CliInv` as an invariant before it was proved.

Two properties need more. `RolledBackRestores` is false as soon as two transactions write
one resource: each restores what it found, in the order of the rollbacks. The theorem names
what makes it true, a division `own` of the resources among the transactions that every
command keeps to (`Apart`), and adapters that restore what they report (no `undo` among the
faults, as in the run; with it the code reports `rolled_back` all the same, see above). Then
`RestoreInv` relates the world to the one at the beginning, `w`: before an apply the
resources of a transaction have their first value; each snapshot holds that value, or none;
and while a rollback goes on, what its list has left behind has it again, and nobody but a
rollback touches the rest. It holds for any number of processes, also for two rollbacks at
once, and for one transaction without a hypothesis on the resources (`OneRestores`).
`ChainLinear` is false when two commands stamp one transaction at once. While none do
(`Alone`), whatever is stamped for other transactions in between, the tail a command has in
hand is the last entry of its transaction and none has a larger step (`ChainInv`).
`CliTypeCorrect` adds that the order lists what was begun and that a stamp points back.

**The desired view.** The properties compare two folds with a description: `Expected` says,
resource by resource, that the latest transaction with a step on it decides. `ProjectIsReplay`
shows that Project computes that, for transactions and steps of any number, from what the fold
has brought after its first n (`After`, `Tell`), by the shortest prefix that would be a
counterexample. What remains of `ViewIsOfACut` is that a journal counted was applied when it was
read and one applied throughout was read as such (`CutInv`).

`DesiredStateIsActual` is about every history the discipline allows. Its invariant says,
resource by resource, what is true of one that nobody has in hand and of one that somebody has:

    OrderlyInv == commands at once are about different transactions and resources
                    /\ Engaged(p) for each p /\ Held(r) for each r
                    /\ every applied transaction is Fitting

A resource nobody has in hand is as the applied transactions ask (`Agrees`); from that the
property follows. One that is in hand can be put back: the transaction that has it is the
latest with a step on it (`NoneLater`), and its snapshots hold what the applied
transactions before it ask (`Fitting`). That is what makes the invariant inductive: undoing
brings back the state of the earlier transactions and not just an earlier state, also when the
apply failed, was killed and resolved, or when a rollback was broken off and is run again.
`Own` says of a process at work that an apply has brought what it has reached to its last
step there, and a rollback to what the earlier transactions ask. One hypothesis is about the
adapters: none reports a rollback it has not made (no `undo` among the faults; with it the code
reports `rolled_back` all the same). Everything else may fail: steps, saves, stamps and whole
processes, and the clock may go back. TLC has checked these parts on the instance of
`DesiredViewCut` first.

**The adapters.** One step runs among failures and other programs, so an invariant must say,
for each adapter, which calls are still to be made and what the ones already made have
brought about, whichever call failed and however often a rollback was run again:

    AdapterInv == FlowInv /\ UnitInv /\ PackageInv /\ ContainerInv /\ PolicyInv
                    /\ CleanInv /\ MoveInv

`FlowInv` gives the phases and when others may have interfered; each other part is about one
adapter (`UnitInv` about service.set and task.set). Most of them list the remaining calls
case by case. The files need an argument over lists of any length: `CleanFacts` and
`MoveFacts` say after k calls which paths are gone or back. For organize.move that is
`Moved`: every file is where the first move that takes it along has put it, each move's way
back is free, and nothing a later move brings back is in the way of an earlier one; a
rollback shortens k by one per call, and one that is run again stops at its first call
(`Barred`), as the file it would move is back already. A tree of any depth is allowed;
`PathAssumption` asks that the directories above a path are paths and that what can stand
below one can stand below another of the same length, which holds of a file system.
For `KeepsData` others may interfere, so `Moved` is of no help; what stays true is that no
file found by Propose lies at or below a destination that is still to come (`Spared`): Propose saw
it free, others bring only files of their own there, and earlier moves go elsewhere (`Apart`).

**The fleet.** A run is three nested loops over batches that depend on the plan, so a proof
for every plan needs to know what batches are: `BatchesDivide` shows that, however they are
made, every machine of the list, all of the plan or those an advance has left, has exactly
one place in them and no batch is empty. It needs an
induction along the list; as the library's induction theorems are out of the provers' reach,
the lemmas take the shortest prefix that would be a counterexample, which exists because
every set of numbers has a least one (`LeastNumber`), and refute it with the prefix before.
That is why `Those` is a recursive function, not a selection. The invariant of a run is

    FleetInv == Shape /\ Rows /\ Whole /\ Served

`Shape` says that the run is at a place of its batches, holds a row for each of its machines
and calls only the machine of that place, and what its status means; `Rows` says that a number
of the plan is the id of no machine but its own and that a row under a later id belongs to a
machine that has given up its first, which is why a re-registration, whichever of its two
writes fails, leaves no machine with two rows. That none is without a row either needs that
no id is, or is about to be, that of two machines (`Unshared`): the row a re-registration
deletes or replaces is then its own machine's, and a machine without one is the one that is
just being registered again, or was when the run failed on it (`Remembered`). `Served` divides the places into those
behind, applied within their budget, the present one, whose retries so far and effects
together stay within it, and those ahead, still untouched. That a complete plan reached
every machine needs them all: the last place has none after it, and the batches contain
everyone (`Whole`). TLC has checked the parts on the instance of `FleetRun` first.

The last two theorems are about the batches laid in a row, the agenda. `FlattenAll` shows that
the row has every machine once and at which offset each batch begins; the number of a place
is that offset, its position in the batch and its intent (`Index`), a step of the loops makes
it one larger (`StepIndex`), and so the results are the agenda up to the present place
(`Listed`). `EveryRunEnds` then compares the measure `Distance` before and after each step;
that a system whose every step lowers a natural number stops is the only part of
termination left to the reader.

**Plan commands.** `Shape` and `Rows` say nothing about earlier runs, so they hold of a run that
submit or advance has started for any of the machines, and of the end of each. What is added
is bookkeeping from the machine's effects to the last line of `plans.jsonl`:

    RecoveryInv == Shape /\ Rows /\ Commanded /\ Named /\ Noted
                     /\ Counted /\ Accepted /\ CompleteMeansSettled /\ Accounted

A record drops which intent a result was of, so all it can be held to is a number.
`Noted` says that the results of a run are of different pairs, those its loops have passed,
and its successes of intents the machine has applied; counting them by an injection into
those intents (`RunShows`), a machine never has more successes on record than it has applied
(`Counted`), whatever was lost, and as many only if it has applied everything. That
gives `CompleteMeansSettled`, with `Accepted`: what is accepted is of a machine that was
skipped, since a result's node id is the plan's for its own machine or a later one (`Named`).
So long as nothing is lost the number is exact (`Accounted`): a machine without a success has
applied nothing, and these are the only ones run again, so a run starts over untouched
machines, and an agent that acts on the present pair has not acted on it before. Adding up
two lists of results, one of which has none of a machine's, gives the next record
(`SuccessesAdd`). TLC has checked `RecoveryInv` on the instance of `PlanRecovery` first.

**The registry.** `NTypeOK` says that a process is to store the effect of its operation on
the table it loaded; up to the first overrun that table is the one in the file, and the
one reported, so storing keeps them equal.

**The controller.** To the two properties the invariant adds that what was noted is in the
informer's view, and so within its cardinality: a full buffer then holds as many noted
rows as it has places and the row that is dropped is another one, which makes the view
larger than the buffer. That what is desired of the row in hand is among what was offered
since gives the second.

**Rescue.** The invariant says where the calls before have brought a command that has run
alone (`Ready`), whatever it found; any two commands under way have each run beside
another one, so the machine of one that has not is changed by nobody else.

**The host.** Those theorems are about `NSpec`, `CSpec` and `RescueSpec`. `HostInv` is the
conjunction of the three invariants; a step of one service leaves the variables of the
others alone, so it is kept, and the theorems about `HostSpec`, which the run
`HostCommands` checks, follow.

Only model-checked:

* liveness: `CallsReturn`, `CommandsEnd`, `RowsAreServed`, `StopsWhenTold`;
* what the runs that expect a violation show.

## 5. Not modelled

* Of the adapters: checks of names and paths, symbolic links, file modes, digests,
  half-written files.
* Drift and ownership: reports over one view, without state. `workqueue.go`: not used.
* The SDK (hash chain, rotation of the audit log, policy files, directories) and
  the agents: outside the repository, modelled from how they are used.
* The mTLS client, the plugin host, the audit tool, the packer and the
  smoke test: one-shot programs without state that lasts, or pure I/O.
* Two plan commands at once; more than one service of the host at once, which
  share nothing.
* The copilot (TypeScript) and the build scripts.
* Wording, JSON layout, argument parsing.

## 6. What could follow

* Two advances of one plan at once, in `PlanRecovery`, once the code claims a plan
  before it runs it.
* That the one-step save of `TxCli` is what `TxJournal` provides, as a refinement.
