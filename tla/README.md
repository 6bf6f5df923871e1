# Formal models of Task Monki

Task Monki is an Electron application that manages coding agents: it keeps
tasks, worktrees and conversations in SQLite, starts provider runtimes (the
Codex App Server, ACP agents, OpenCode) as child processes, sends them turns,
and delivers the results by Git and by GitHub or GitLab. This directory holds
TLA+ models of the parts where its correctness depends on order: who may work
when, what happens to a turn that was sent when a process, a timer or the
application itself does not do what was expected, how the records of two stores
follow each other through crashes, who owns the profile, what a restore
leaves behind when it is cut short, and whether a committed row keeps its file.
Paths below are relative to `src/`, the repository.

- [Inventory](#inventory): the system, its state, its hard behaviours
- [Modules](#modules): which module models which code, and how
- [Runs](#runs): what TLC checks, the bounds, the fairness
- [Proofs](#proofs): what is proved and along which argument
- [Disagreements](#disagreements-with-the-code): four runs that end in a counterexample
- [Not modelled](#not-modelled)
- [Plan](#plan)

To check a run: `tlc -workers 2 -config MCTransientTurn_one.cfg MCTransientTurn`.
To check the proofs: `tlapm TransientTurnProofs.tla`.

## Inventory

The program is one Node process in a single thread: between two `await`s
nothing else runs. Everything hard comes from what happens during an `await`,
from the child processes, and from crashes between two transactions.

| component | state | operations | what makes it correct |
|---|---|---|---|
| runtime operation gate (`core/app/RuntimeOperationGate.ts`) | `closing`, `lifecycleTail`, `activeOperations` | run an operation, enqueue a lifecycle change, close | a change and an operation never overlap; nothing starts after `close` |
| task actions and shutdown (`core/app/TaskManagerService.ts`) | `taskActionLocks`, `lifecycleState` | `withTaskAction`, `withQueuedTaskAction`, `shutdown` | one action per task; after shutdown nothing is at work; every call returns |
| agent orchestrator (`core/agent/AgentOrchestrator.ts`) | `runtimeTurnEventQueue`, listeners | prepare, start, interrupt, wait, finish, verify the repository, initialize, shutdown | a prompt is sent at most once; output is handed out only after the repository was verified; what ended has stopped |
| agent runtime store (`core/storage/SqliteAgentRuntimeStore.ts`) | sessions, runs, queue entries, receipts, artifacts | prepare, update by compare-and-swap, lease, settle, purge, latch | only legal transitions; every legal course of events finds its updates accepted |
| turn scheduler (`core/agent/AgentTurnScheduler.ts`) | the queue entries and the latch | lease the next turn, latch, reopen | limits per session, conversation and in all; no starvation |
| Codex adapter (`core/agent/codex/CodexAppServerAdapter.ts`) | `inboundQueue`, interruption timers, current server | start, interrupt, notifications, process loss, recovery at startup | loss of a process is recorded for every run it owned, once; an acknowledged stop is settled |
| Codex supervisor and RPC client (`core/agent/codex/`) | process generation, pending requests | spawn, terminate, send, close | an answer belongs to the generation that was asked; an exit is believed only when confirmed |
| ACP and OpenCode adapters (`core/agent/acp/`, `core/agent/opencode/`) | as Codex, per session | as Codex | the same contract |
| Discourse (`core/discourse/`, `core/app/DiscourseRuntimeHost.ts`) | conversations, waves, jobs, messages; the pump, the event tail, deadlines | send, prepare, dispatch, stop, ingest turn events, hand off to the author, recover | what is settled is over; what is published was verified; what counts as never sent was not; two stores agree after a crash |
| task store and projection (`core/storage/SqliteTaskStore.ts`, `core/projection/reducer.ts`) | tasks, runs, iterations, events | append events, project, transition | a phase changes only as the policy allows |
| interactions (`core/agent/AgentInteractionService.ts`) | interaction requests | claim, respond, stale | an answer is delivered at most once, to the process that asked |
| store ownership (`core/storage/StoreOwnershipLease.ts`) | lease files | acquire, reclaim, clean up, release | at most one owner among processes; a dead owner's lease can be reclaimed |
| managed files, attachments (`core/storage/sqlite/ManagedFileStore.ts`) | files, the file queue, deletion barriers; `managed_files`, `managed_file_gc` rows | publish, read, delete, hold deletions back, collect | a committed row never names a missing file; a chosen revision is found; no bytes are left that nobody names |
| backup and restore (`core/storage/sqlite/BackupRestoreService.ts`) | live, staged and previous roots, the intent in a root | restore, resume, roll back, quarantine | data once in use is never lost; what was reported is durable; an interrupted restore can be resumed; only whole roots are opened |
| Design, preview, review, side questions | coordinators over tasks and runs | per feature | one update at a time; queue order |
| Git, worktrees, remotes (`core/git/`, `core/worktree/`, `core/remote/`) | worktrees, snapshots, publications | snapshot, commit, push, create a pull request | an uncertain push is settled from the remote ref and not repeated blindly |
| Electron shell, renderer | windows, IPC | | input and output |

How they interact. A person's call or a provider's event reaches
`TaskManagerService`, which takes a task action, a place in the gate, or both,
and calls the orchestrator. The orchestrator writes the intent to the store,
calls an adapter, and writes the answer to the store. The adapter hears of the
turn in notifications, which it handles one at a time (`inboundQueue`), writes
to the same records, and emits events, which the orchestrator handles one at a
time (`runtimeTurnEventQueue`): it verifies the repository and wakes whoever
waits. So one run record has three writers, the caller, the inbound queue and
the event queue, and each write is a compare-and-swap on the record's revision.
A Discourse job has a run and a queue entry in the runtime store and its own
record in the Discourse store: the pump, the event chain, the person's requests
and recovery carry what happened from one store to the other, each step a
transaction of its own. All stores lie under a profile directory, which the
lease gives to one process, and which a restore replaces as a whole.

The hard behaviours are listed at their lines in `PROJECT.json` ("hazards"):
records read before an `await` and written after it, a process that exits with
or without its process tree, answers that come after the loss of who gave them,
deadlines racing the event they wait for, crashes between any two writes, two
locks taken in two orders.

## Modules

| module | role |
|---|---|
| `RuntimeOperationGate` | the gate: state, actions, inductive invariant, properties |
| `RuntimeOperationGateProofs` | its theorems |
| `TaskActions` | extends the gate: the service's locks over it, and shutdown |
| `TaskActionsProofs` | its theorems, among them that it implements the gate |
| `MCTaskActions` | model values: six named calls, their kinds, one busy task of two |
| `OneShotTurn` | abstract: what a caller of a transient turn is promised |
| `TransientTurn` | caller, orchestrator, adapter, store, provider process, repository, crashes; implements `OneShotTurn` |
| `TransientTurnProofs` | its theorems: the type invariant, `SentAtMostOnce` |
| `TransientTurnInvariant` | its inductive invariant, `TurnInv`, which a run checks too |
| `TransientTurnSafetyProofs` | its theorems: `TurnInv` and what follows from it, the refinement of `OneShotTurn` included |
| `MCTransientTurn` | model values: one run |
| `ProfileLease` | abstract: a lock whose holder may die |
| `StoreOwnershipLease` | the lease files, call by call; implements `ProfileLease` until two reclaims race |
| `StoreOwnershipLeaseProofs` | its theorems |
| `MCStoreOwnershipLease` | three processes; the scene of the race, with four |
| `BackupRestore` | uses `ProfileLease`: roots, names and intents through restores, failures, deaths and power losses |
| `BackupRestoreProofs` | its theorems |
| `MCBackupRestore` | three processes and their symmetry |
| `DiscourseWave` | one wave over two stores: requests, pump, event chain, recovery, adapter, crashes |
| `MCDiscourseWave` | the bound on troubles |
| `DiscourseWaveProofs` | its theorems: the type invariant, `PublishedIsVerified`, `CanceledNeverSent`, `SettledIsOver` |
| `ManagedFiles` | the files and the row of one artifact, through the file queue and the database queue: writes, collection, backup, crashes |
| `ManagedFilesProofs` | its theorems |
| `MCManagedFiles` | seven calls, and which of them are made together |

### RuntimeOperationGate

A lifecycle change is a promise chained to the one before it, so the model names
it by its position: change `c` is the `c`-th call of `enqueueLifecycleChange`,
`tail` is `lifecycleTail`, and change 0 is the promise the gate begins with. An
operation is `idle`, `waiting` (the `then` callback of line 21 has not run),
`running`, `settled`. `admitted[c]` is the array `admittedOperations` of that
call, `after[o]` the `lifecycleTail` the operation was chained to, `drain` what
`close()` returned. The actions are the methods and their callbacks:
`RunOperation`, `StartOperation` (with the second `assertOpen`),
`SettleOperation`, `ForgetOperation` (the `delete`), `RunLifecycleChange`,
`StartChange`, `SettleChange`, `Close`. What an action passed to the gate does is
not the gate's concern: it runs and settles.

`enqueueLifecycleChange` is also called without `assertOpen`, by the deferred
restart of Codex, which tests `isClosing` itself in the same turn of the event
loop; both are `RunLifecycleChange`.

### TaskActions

The service combines `withTaskAction` and `withRuntimeOperation` in six ways; a
call's `Kind` says in which. The interesting ones take the two locks in opposite
orders: a Preview message and a side question hold the task action and then
enter the gate; `cancelRun` and the queue dispatches enter the gate and then
want the task action. `lock[t]` is the entry of `taskActionLocks`. `Waitable` is
the test of the two labels a task action waits for instead of refusing, and
`ObserveHolder`, `AfterObservation` are the two sides of that wait: after it the
call asserts again that work is accepted, and reads the map again. `withQueuedTaskAction` is a loop that ends when the map has
no entry, in the same turn in which it registers, so it is `TakeLock` guarded by
`LockFree`.

`BeginShutdown` is `shutdown()`: it closes the gate and reads the task actions
in one turn; `CompleteShutdown` is the moment `Promise.allSettled` of all of it
is over. `cancelRun`'s special case, a run not sent yet while another action
holds the task, is `CancelBeside`.

Abstractions: control actions and prompt refinement, which shutdown joins in the
same way, are not separate calls. `dispatchTaskQueue` takes its locks in the same
order as `dispatchPreviewAgentQueue`, which stands for it.

### TransientTurn

One prompt refinement is one run, one session and one queue entry
(`startTransientReadOnlyRuntimeTurn`). The model follows it from `PrepareTurn`
to `Purge` and puts everything around it that can interfere.

| variable | code |
|---|---|
| `run[r]` | the run record: status, delivery, interrupt delivery, server, recovery state, terminal source, repository integrity |
| `entry[r]`, `latched` | the queue entry's status; `shutdownLatched` |
| `server`, `process` | the newest App Server generation, and whether it is up, down, or fenced: disconnected, but its process tree not known to be gone |
| `inbox`, `sweep` | `inboundQueue`; the `handleCanonicalServerLoss` it is running, with the records it read when it began |
| `deadline` | armed interruption timers |
| `events`, `verifying` | `runtimeTurnEventQueue`, with the calls that await its tail (barriers); the event being verified |
| `pc[r]`, `outcome[r]` | where the caller is, and what it was told |
| `turn[r]`, `repo` | what really happened at the provider; the repository's fingerprint |
| `phase`, `todo`, `restarts` | the application: ready, shutting down, down, recovering |

The grain: an action writes the store at most once, so a crash or another writer
can fall between any two writes. Where the code reads a record, awaits, and
writes it under the revision it read, the model keeps the record that was read
(`sweep.snap`, `verifying.snap`) and refuses the write if it changed. Where the
code reads again after a conflict and decides afresh (three attempts), read and
write are one step.

`Allowed` is `updateRuntimeRunRecord`'s check of a change (the two transition
tables and the rule for interrupts) and `Consistent` is
`assertRuntimeRunLifecycle`. The actions do not use them as guards, except where
the code handles the refusal; that the store accepts every other write is the
property `UpdatesAccepted`.

The caller: `PrepareTurn`, `LeaseTurn`, `InspectBefore`, `MarkStarting`,
`Submit`, `Response` or `ResponseLost`, `DrainInbound`, `PersistAck`; the failure
branch `StartFails`, `StartFailsConflict`, `SettleFailedStart`,
`VerifyFailedStart`; the wait `WaitEnds`
or `WaitFails`; the stop `InterruptReopen`, `InterruptIntent`,
`InterruptDelivered` or `InterruptFails`, `InterruptAcked`, `ConfirmEnds`; the end
`AwaitEvents`, `FinishTurn`, `Purge` or `ReleaseFails`. The adapter:
`HandleStarted`, `HandleCompletedAck` and `HandleCompleted` (two writes),
`CompletedConflict`,
`HandleExit`, `SweepRun` (one write per run), `SweepAborts`, `SweepEnds`,
`DeadlineFires`, `HandleDeadline` with its settlements. The event queue:
`TakeEvent`, `VerifyBoundary`, `ReopenViolated`, `FailViolated`, `ReachBarrier`.
The application: `BeginShutdown`, `LatchShutdown`, `StopProvider`,
`SettleShutdown`, `CloseStores`, `Crash`, `Restart`, `RecoverLoss`,
`RecoverEnds`, `BeginReconcile`, `ReconcileRun`, `OpenService`.

External, modelled from how the code uses it: the provider (`Submit`'s effect,
`ProviderEnds`), the end of a process tree (`StopTurnsOf`), edits of the
repository (`Edit`), the crash (`Crash`, `Forget`). The provider calls a turn
interrupted only if it was asked to. After a crash the App Server may outlive
the application with the turns it runs.

Abstractions, beyond data: a cancellation by the person is the same step as a
timeout (`WaitFails`), the caller being told an error either way; the branches of
`interruptTurn` for a run that is still queued or was never delivered are left
out, this caller not reaching them; other owners and purposes, the session
record, receipts and artifacts are left out, and so are violations of the
read-only boundary other than a changed repository.

### OneShotTurn

What `startTransientReadOnlyRuntimeTurn` promises: a prompt is given to the
provider at most once, never after the caller was answered; an answer is final;
an output is that of a turn that completed and left the repository as it was.
`TransientTurn` maps `prompt` to what the provider really did (`PromptOf`, of
`turn[r]`) and `answer` to `outcome`; the state of the records is not part of
the mapping, so what they say is checked against what happened.

### StoreOwnershipLease and ProfileLease

Processes share a directory and nothing else. A lease is a file with a random
token that has up to two names: the lease path, and an anchor, which is the
owner file of the process that made it or the claim of a process that reclaims
it; `canonical` and `anchor` are the two. Each action is one file-system call of
`acquireStoreOwnershipLease`, `reclaimStoreOwnershipLease`,
`cleanupOrphanedStoreLeaseFiles` or `releaseStoreOwnershipLease` with the local
computation around it; processes interleave at every call and die between any
two.

`Link` is the hard link that fails if the path is taken; `Look` and `Read` the
two halves of an inspection, the second of which may find another file than the
first; `Find`, `Claim`, `Verify`, `UnlinkLease`, `UnlinkClaim`, `Restore` the
reclamation; `Scan` and `Clean` the cleanup, which reads the directory once and
then looks at each entry. `raced` becomes true when `UnlinkLease` removes a file
other than the one `Verify` saw: the code cannot notice this, the properties
speak of what holds until then.

Abstractions: a process uses one token for its attempts, as a lost attempt's file
is unlinked by the process itself; the scan of `findStoreLeaseAnchor` is one
step, so an anchor that vanishes between its `lstat` and its `open` and makes
the start fail is not seen; permissions, links and the checks of file types are
left out; pids are not reused.

### BackupRestore

A storage root is a directory with all that is in it and is renamed as a whole.
`dir` says which roots have which names (live, staging, the previous root of a
restore, quarantined), `body` what a root contains, `marker` which roots hold an
intent. `dirDisk` and `markerDisk` are what a power loss may leave: a rename or
an intent's removal is among the possible states until its directory was
synchronized. `served` are the roots some process worked on, from the step that
serves them. `fresh` is the root of a new profile until the profile directory is
synchronized, which the code does when it releases the lease or takes it again
(`Begin`, `Leave`) and not when it makes the root (`ServeNew`): a power loss in
the first session may take it (`lost`). Changes of one directory reach the disk in order, which a
journaling file system gives; the contents of a staged root are synchronized
file by file while it is staged and are taken to be durable then.

Every file-system call is an action that may also fail (`Fails`), and the failure
goes where the code's `catch` goes. `NewRestore` to `SyncBefore` is
`restoreBackup`, `Resume` a restore that was interrupted and is called again;
`VerifyPrepared` to `SyncClear` is `completeRestore` and `clearRestoreIntent`;
`PutBack` to `SyncRemoval` is `rollbackFailedActivation`; `Serve` and `ServeNew`
are `ApplicationPersistence.open`, with `MayOpen` for
`assertNoInterruptedRestore`. Whoever works has the lease: the module uses
`ProfileLease`, not the files that implement it.

`spoiled` marks the two cases in which the code gives up its evidence: the
recursive removal of a staged root was interrupted and the intent is still in
it, and an intent whose removal was not on disk is back after its root came into
use. In both the next start refuses, which is the safe side, but no restore can
be resumed; `Resumable` excepts them.

### DiscourseWave

One `CHAT` wave: the user's message, a job of the peer and, if its answer asks
for it, one of the author. With one agent there is the author's only. The
variables are those of the current phase's job: `wave`, `job`, `message` of the
Discourse store; `run`, `entry` of the runtime store; `provider`, what really
happened. Four processes work on them: the person's requests and the start of
the application, both under the lock of the conversation; the scheduler's pump,
which is not; the event chain, which is only where it advances the wave.

An action is one transaction, or one read with the branch taken on it. `pc[p]` is
where a process is. An update of the Discourse store carries the revision that
was read: `stale[p]` says which records changed since, and such an update is
refused (`TryJob`, `TryWave`), as is a transition that the tables of
`DiscourseState.ts` do not have. A refusal is an exception (`Throw`): a request
fails, the pump and the event chain recover the conversation once, a start of the
application fails. `TryRun` compares the whole record, which stands for the
revision of a run.

- Requests: `Send`, `ActivateNextWave`, `PrepareJob` to `Notify`; `StopWave` with
  `CancelQueuedWave`, `CancelUnsubmittedJob`, or `StopActiveWave` with
  `InterruptTurn`, `StopRecovered` (`cancelRecoveredJob`) and `FinishStop`.
- Pump: `Wake`, `LeaseAvailable`, `PumpEnds`, `CheckContext`, `RejectJob`, `DispatchLeasedJob`
  to `Acknowledge`, with `StartRecovery` and `StartFailed` for a start that
  failed; `RetryTimer`.
- Events: `TakeEvent`, `Ingest` to `Complete`, `IngestFailure`, `SettleRuntime`,
  `Reconcile`, `AdvanceWave`, `AddAuthorJob`.
- Recovery, by a start, the pump or the event chain: `LockRecover`, `Recover` to
  `Decide` and the branches `RecoverCancelRun` to `RecoverStartingWave`.
- Outside: `Submit`, `Accept`, `ProviderEnds`, `VerifyBoundary`, `ServerLost`,
  `Crash`, `Restart`, `BootSettles`, `BootFails`.

The pump looks for work (`AgentTurnScheduler.ts:33`) and, when it finds none, ends:
`schedulerWork` is cleared in a `finally` (`DiscourseRuntimeHost.ts:172-176`), and
what the pump is told before that is dropped (`:164-168`). `LeaseAvailable` and
`PumpEnds` are the two ends of that window; in it every other process may step, and
`Notified` drops the notification. One order is excluded there, that a turn is
queued after the look and notified before the end. Four continuations of promises
lead from the look to the end, none of which waits for a store: `snapshot` returns
to `leaseAvailable`, this to `pumpScheduler`, whose promise resolves that of the
gate's operation, whose `finally` runs. More lead from the commit that queues a turn
to the notification of it: the write returns through `performWrite`, `enqueue`,
`completeWrite` and `trackWriteCompletion` of `AppDatabase` and then through the
store and the coordinator, and the job is linked and the wave queued in
transactions of their own first. Callbacks run in the order in which their promises
settled, so the pump has ended before. This is what `QueuedIsLeased` rests on, and
its mutant `Notified_Meanwhile`, a pump that waits for a store between its look and
its end, loses the wake-up.

Abstractions: a read and an update of the same record with nothing between them
are one step (`SetEntry`, `SetWave`); `Decide` and `RecoverRunning` look at the
job as it is now; operation receipts appear where an id is used again on a
changed record (`released`, the two ids of a message). The adapter's part of a
run's life is taken as `TransientTurn` has it, in larger steps. An answer that
completes has a fresh context. A deadline is a stop. Several waves and
conversations, the capacity of the scheduler, archive and deletion, a blocked or
reconfirmed context, the prompt budget and a preparation that fails half-way are
not modelled.

### ManagedFiles

An artifact of the runtime store is a row that names an immutable file; a new
revision is a new file, and the one it replaces is collected. Two promise chains
order what happens, `ManagedFileStore.queue` and `AppDatabase.queue`, and nothing
orders them against each other: that is what the module is about.

| variable | code |
|---|---|
| `disk` | the file of each revision; `artifactStorageKey` makes the key of the artifact's id and the revision, so here a key is a revision |
| `row`, `gc` | the row of the artifact, `managed_file_gc` |
| `receipts` | `operation_receipts`: the operation id with the request it was given for (`requestFingerprint`); an append asks for its text, an update for its text and the revision it expects |
| `fileQueue`, `dbQueue`, `pc[c]` | the two chains; in which of them a call waits, and for what |
| `barriers` | `deletionBarriers` |
| `base[c]` | the record a call read from memory before its first `await`, or the snapshot of a backup |
| `todo[c]`, `swept[c]` | the keys `retryPendingGarbageCollection` has read, and `completed` |
| `phase` | the application: starting, up, or refused by the check of its artifacts |

`updateArtifact` and `appendArtifact` are `Begin`, `LookUp` (`replayedOperation`),
`Read` for an append, `Publish`, `Write` (the transaction with its three
outcomes: a replay, the new revision, a refusal), and then either the collection
(`Collect`, `Sweep`, `Note`, `Clear`) or the cleanup `Check` and `Discard`
(`deletePreparedFilesWithoutReferences`). `WriteFails` is a transaction that is
rolled back; if its artifact rows had been written, the rollback callback deletes
the file first (`Undo`). `Replayed` and `Known` are `replayedOperation`: a receipt
of the same operation id answers the same request and refuses any other.
`Purge` is `purgeRuntimeOwner`. A backup is
`BeginBarrier`, `Snapshot`, `Copy`. `Start` is `initialize`: it verifies the file
of the row and collects what is owed.

`PublishFails` covers the two ways a publication fails: nothing was renamed, or the
file is in its place and the directory was not synchronized.

Abstractions: artifacts share only the queues and the barrier, so one is modelled,
which was created before. `Start` is one step, as nothing else runs before the
store is initialized; a crash in its midst leaves no more than one that comes
after it. The other work of a backup, and its queue of restores, is in
`BackupRestore` or left out. The preparation of a call is one step with its place
in the first queue. An update is made of the revision the call sees when it
begins. Attachments and the removal of stale temporary files are not modelled.

## Runs

| run | question | bounds | states |
|---|---|---|---|
| `task_actions` | do the locks exclude, does everything end, is shutdown complete? | observation, side question, cancellation on one task; 2 changes | 28,168 |
| `task_actions_dispatch` | does a dispatch end? (no) | message, dispatch; 2 changes | |
| `turn_one` | one turn: sent once, ended means stopped, output verified, updates accepted, promise kept, records and queues consistent | 2 servers, 2 crashes or shutdowns, 1 edit | 1,687,499 |
| `turn_live` | do calls end and stops settle? | 1 server, 1 restart | 53,214 |
| `turn_lost_server` | is nothing left running on a lost server? (no) | as `turn_one` | |
| `lease_three` | do the files implement a lock, and recover from any death? | 3 processes, 3 attempts | 2,253,005 |
| `lease_race` | is there at most one owner? (no) | 4 processes, 2 attempts, a dead owner | |
| `restore_three` | is data kept, outcome durable, restore resumable? | 3 processes, 2 failures, any power losses | 2,206,343 |
| `discourse_two` | is what is settled over, and what is published verified? | 2 agents, 1 crash, 1 fault, 2 stops | 1,011,529 |
| `discourse_live` | does a running job close, is a queued turn leased? | 1 agent, 1 crash, 1 stop | 319,196 |
| `discourse_start` | does every start end? (no) | 1 agent, 1 crash | |
| `files_calls` | does a row keep its file, is a chosen revision found, is nothing left over, does every call end? | 3 revisions; up to 5 of 7 calls; 1 crash, 1 failed file operation, 1 failed transaction | 318,195 |

**Properties.** `Exclusion`, `NothingAfterDrain`, `NoStartAfterClose` are the
gate's. `OneActionPerTask`: a call at work on a task holds its action.
`NothingEscapesShutdown`: from the turn in which shutdown stops admitting work no
task action is registered that it does not join, though a call admitted before may
be waiting for an observation then.
`QuietAfterShutdown`: when the stores are closed nothing is at work.
`EverythingEnds`: calls return, changes run, shutdown completes.

`SentAtMostOnce`: a prompt reaches the provider at most once.
`EndedMeansStopped`: a run recorded as ended, or whose lease was given back, is
not running at the provider (a run failed for a changed repository is the
exception the code makes: it fails the run although it may still run).
`OutputIsVerified`: the caller gets output only of a turn that completed and
during which the repository did not change. `UpdatesAccepted`: the store accepts
each write. `KeepsPromise`: the composition implements `OneShotTurn`. `TurnInv`:
between any two steps the records, the two queues, the timers and the processes
fit together; it is the invariant of the proofs, checked as well because it says
what each handler may rely on when its turn comes. `CallsEnd`, `StopIsSettled`:
liveness of a call and of a stop.

`OwnsUntilRaced`: one owner, whose file the lease path names, until a reclaim
removes a lease it had not verified. `StaleIsReclaimable`: the lease of a dead
process keeps a name by which it can be reclaimed. `LoneStartSucceeds`: a start
that meets nobody succeeds, whoever died before, unless one died while it wrote
its owner file. `KeepsLease`: the files implement `ProfileLease` until the race.

`NothingIsLost`: a root the application works or worked on has a name, in the
directory and in every state of it a power loss can leave. One thing is excepted,
which the code does not protect: the root of a new profile in the session that made
it (`fresh`), which a power loss, and nothing else, may take (`lost`). `OutcomeIsDurable`: a reported success is
the live root and stays it; a reported failure left the old one. `Resumable`: the
intent is found, once, its root is whole and the names say how far the restore
came. `OpensWholeRoots`: no start opens a partial root.

`SettledIsOver`: a settled wave's job, run and turn are over, whoever settled it.
`CanceledNeverSent`: a job closed as one the provider never got was never sent.
`PublishedIsVerified`: a message is the answer of a completed turn whose
repository was unchanged, and a completed job has its message.
`RunningTurnCloses`: a running job is closed or handed to the user; excepted is an
answer appended or refused whose job is left running, which recovery can be
unable to close. `QueuedIsLeased`: a queued turn is leased or withdrawn, though the
pump drops what it is told while it runs and between its last look and its end.

`RowHasFile`: while no transaction that had begun a revision failed, the committed
row names a file that is there, with its bytes. The condition is needed, see
[below](#disagreements-with-the-code). `ChosenIsFound`: a read and a backup find
the revision they chose, although it may be replaced and collected meanwhile; only
an append can come too late, and then its operation is done or refused anyway.
`OrphansComeFromTrouble`: bytes that no row names are owed to the collection or in
a call's hands, unless there was a crash or a failed file operation. `CallsSettle`:
every call comes to an end, a deletion that waits for a backup at the head of the
file queue included.

**Bounds.** `MaxChanges`: two changes are enough for a change to follow
another and for an operation to be parked behind either; a third repeats the
second. One task is enough since tasks share nothing but the gate; the other
kinds of calls take the same two locks in the same two orders and are in
`task_actions_dispatch` and in the proofs. `MaxServers` = 2: a run belongs to a
server that is lost or to the one that replaced it. `MaxRestarts` = 2: a crash
during the recovery from a crash. `MaxEdits` = 1: the repository is as before or
is not; no state comes back. `Process`, `Attempts`: a holder, one that reclaims it
and one that interferes with either; a third attempt follows one that was lost
and one that was undone (16 in the code). `lease_race` begins with a dead owner
and no other death (`DeadOwner`), which shortens the way to the race and adds no
behaviour. In a restore three processes are a start that worked on the old root,
a restore and one that comes after it; two failures are one in the activation and
one in its rollback. `FewTroubles`: a wave meets two troubles of a crash, a fault
and the stops while the job is the peer's and one after the hand-off, since the
author's job repeats the peer's and `discourse_live` follows a single job.
`Together`: the calls of one behaviour on an artifact (any set of them is an
initial state of `Spec`): two writers that race with
a removal, a read and a backup; an operation and its retry with a removal; an
operation and another request under its id with a removal; an operation, its
retry and another writer with a backup. `MaxRevision` = 3: a
revision is made, replaced and collected, and made again by the loser of a race.
One crash and one failed file operation meet at every pair of steps. `WriteFails`
happens once: a second failed transaction adds nothing to `RowHasFile` and
`ChosenIsFound`, which speak of the time before.

Each bound guards the environment's action that would exceed it; no action of the
program is cut short by one. All configurations turn deadlock checking off: the
service may have stopped and every call returned.

**Fairness.** The steps of one thread: a promise that is resolved runs its
callback. `TaskActions` assumes that the work a call does ends, that parked
operations and changes start when what they wait for has settled, and that
shutdown completes when what it joined has settled. `TransientTurn` assumes that
calls, the two queues, the deadline timer, recovery and shutdown go on. It
assumes nothing of the provider (`ProviderEnds`, `ServerStarts`), of a person, or
of crashes; a call has its own timeouts, which are why it ends. `DiscourseWave`
assumes that its processes go on (`PumpEnds` among them), that the call of a start returns, that a turn
ends (a wave's deadline is what makes it end in the code; the model counts it
among the stops), that the end of a turn is verified, and that the application is
started again after a crash. It assumes nothing of requests and crashes.
`ManagedFiles` assumes of each of the two queues that its head is served if it
can be, that a copying backup goes on and that a start does; a call that waits
behind another has no fairness of its own. Weak
fairness is enough throughout: nothing a fair action needs is taken away again
and again. The lease and the restore have no liveness properties: nothing makes
anybody start the application.

## Proofs

`tlapm` checks these for every set of calls, runs and processes and every value
of the bounds.

*RuntimeOperationGateProofs.* `Exclusion`, `NothingAfterDrain` and
`NoStartAfterClose` follow from `GateInv`, which is inductive: the changes
enqueued are exactly 1..`tail` and run in order (`ChangesInOrder`); a live
operation is tracked and a running one outlived the change it was chained to
(`OperationsTracked`); a change joined every live operation that was called
before it (`ChangesJoinOperations`); once the gate is closed the drain lists
every live operation and the last change (`DrainComplete`). `Exclusion` alone is
not inductive: that a starting operation meets no running change needs the order
of the changes and whom each joined.

*TaskActionsProofs.* `ImplementsGate`: every step of the composition is a step
of the gate or leaves it unchanged, so the gate's theorems hold of the service.
`OneActionPerTask`, `NothingEscapesShutdown` and `QuietAfterShutdown` follow from
the type invariant of the locks, which is a theorem and no run's property, `GateInv`
and `ActionsInv`: a call holds its task's entry from registration to release
(`HoldersWork`), no entry is registered after shutdown read the map
(`NothingEscapesShutdown`), and what it read and the gate's drain have ended when it
stops the owners (`StoppedAfterAll`).

*TransientTurnProofs.* The type invariant of the whole composition, one lemma
per action, which says among other things that no write makes a record outside
its type; and `SentAtMostOnce`, by `SendInv`: nothing was sent for a call that has yet to
send, and no step or crash leads back to such a point.

*TransientTurnSafetyProofs.* `EndedMeansStopped`, `OutputIsVerified`,
`UpdatesAccepted`, and `KeepsPromise`, the refinement of `OneShotTurn`, from
`TurnInv`. None of the four is inductive: a record is written by a handler that
heard of something some time ago, and what makes the write right is a fact about
what the handler holds. So the invariant speaks of everything that is held.
`RunsCoherent`: each record, with its queue entry, its caller and its turn (how
far the record can have come at each point of the caller, what was sent and when,
and that what it says of the end is so). `InboxTruthful`, `Deadlines`: a message
or an armed timer is about a turn of the newest server, an end in the inbox is the
end the turn had, and an exit that was confirmed left nothing running.
`SweepSound`, `VerifyingSound`: what a sweep and a verification read before they
waited is either still so or the record was written since, and then their write
is refused. `EventsSound`: the repository is inspected only when the turn has
ended or its server is lost. `FoundUnchanged`: what was found unchanged was so
from the first to the last moment of the turn, or its end is not heard of any
more. `CallsLeaving`: recovery runs while no call does. The proof has three
layers: lemmas about one write each (`StartGood` to `FailedGood`: a coherent run
that is written in this way is coherent); lemmas about one part of the invariant
over all actions, by what each action does to it (`MailStep`, `DeadlineStep`,
`SweepStep`, `EventsStep`, `VerifyingStep`, `FoundStep`, `CallsStep`); and
`TurnInvStep`, which puts them together. Most parts survive most steps for one
reason, `SuccessionStep`: the facts about a turn only grow, servers are only
succeeded, and what has ended stays so.

*StoreOwnershipLeaseProofs.* The type invariant; `OwnsUntilRaced`,
`StaleIsReclaimable`, `LoneStartSucceeds`, and `KeepsLease`, the refinement of
`ProfileLease`. `IInv`
says that processes work on what was started (`Started`), that whoever is being
reclaimed is dead and stays dead (`ReclaimsTheDead`), that nobody touches the
owner file of a live process (`OwnFile`), and, until the race, that the lease
path names a live process exactly while it is at a point where it holds the lease
(`HoldersNamed`) and that its file has an anchor (`LeaseAnchored`). Mutual
exclusion is not inductive alone: it needs that a reclaim does not remove the
lease of a living process, which is the one thing the race breaks.
`LoneStartSucceeds` adds `LoneInv`: who starts alone stays alone while it lives
(`Alone`), and at each of its calls the files are as its first attempt left them
(`Unhindered`): the lease it found is a dead process's, with the anchor it found,
so its reclaim succeeds, its second attempt finds no lease, and its cleanup moves
nothing it has to put back. Two attempts are therefore enough, which is why the
assumption on `Attempts` asks for them; the exception, an owner file whose writer
died in the midst of it, is the `TornLeft` of the property.

*BackupRestoreProofs.* The type invariant; `NothingIsLost`; `OpensWholeRoots`;
`OutcomeIsDurable`; `Resumable`.
`IInv` adds to the first three: whoever works has the lease and the disk has what
there is, but for the root of a new profile that is being served for the first time
(`Working`); before a rename its target is free (`PlaceIsFree`), for a rename onto
a taken name would remove a root; a staged root is no root of the profile in any
state the disk may be in (`Apart`), so that removing it removes nothing else; and
every root with a name is whole or used (`Complete`). The last two need
`OutcomeInv`, which looks at every directory the disk may hold after a loss of
power and not only at the one the program sees. In each of them (`Sound`) the
names say how far the restore of the intent that is found came (`Fits`), at most
one intent can be found (`IntentsFit`), and a reported outcome is the live root;
while a live root that was set aside may have to be put back, nothing was
reported. `OpInv` says what the calls of a restore left durable at each of its
steps: where its root is (`OpPlaced`), which names are on the disk for certain
(`OpNamed`), and that no other intent comes back while one is made
(`OpUnseen`). The order of the syncs is what it says: a step that would report or
remove before its sync breaks one of the three. After a failure that the code
leaves to the next start (`spoiled`) two intents may be found, and the parts
about them are asserted until then, as in the properties.

*ManagedFilesProofs.* The type invariant and `RowHasFile`, by `FilesInv`: a call
waits in the queue its `pc` says, at one place in it (`WellPlaced`); one backup
runs at a time, and the barrier is up exactly while it holds it (`OneBarrier`);
what is owed to the collection or being deleted is behind the row, and no call has
read a record that is ahead of it (`Behind`); an operation that got its receipt
after a call of it had looked took the row from that call (`DoneIsPast`); a
transaction that can still succeed finds its file in place, and what is cleaned
up is behind the row (`CleanupIsLate`). `RowHasFile` is not inductive alone: that no deletion hits the
row's file, or the file of a transaction about to commit, needs the others. The
argument for the cleanup is that a call cleans up only after it was refused, so
another one had already gone past its revision. A failed transaction breaks
this: its cleanup begins while the row is still where the call found it, and so
`CleanupIsLate` is asserted under `~writeFailed`. `ChosenIsFound` adds `FoundInv`:
a call has one place in each queue and only while it waits for it (`Queued`);
what deletes the file of a read stands behind the read (`ReadersFirst`), the
record having been chosen, and the read queued, before the row went past it; the
file of a waiting read and of a copying backup is there, and an append that came
too late was made from a record that is not the committed one (`Found`).

`OrphansComeFromTrouble` adds `OrphansInv`, whose last part, `AllKept`, says more
than the property: the hand that a file is in is that of a call which will commit
it or delete it (`Minds`), and what is owed is in nobody's list of deleted keys.
A call that waits for its transaction with its operation already done will do
neither, for a replay leaves the prepared file where it is. So there must not be
one whose file is another than the one that was committed, and this is what needs
the order of the calls. `InTurn`: a call that began with an older revision is not overtaken,
in either queue, by one of the same kind that began with a newer; both queues
being first in, first out, each step of the one that is ahead puts it where the
other cannot be before it. Two calls of one request have therefore begun with the
same revision whenever one of them commits (`SameRequest`), and made the same file.
The one place left is a call that publishes again what the first attempt
committed and a third call has replaced: its file is then owed, and the sweep that
will delete it stands behind the publication (`Covered`, `Owed`). That what is
replaced was not on a list of deleted keys is `SweptBehind`. The proof has a
lemma per part over all steps and rests on one about a queue (`OrderKeeps`: nobody
gets ahead of a call that stays).

*DiscourseWaveProofs.* The type invariant; `PublishedIsVerified`;
`CanceledNeverSent`; `SettledIsOver`, for one or two agents and any number of
crashes, failed starts and stops. The first two rest on `IInv`, which is about what
outlives a transaction. `StoreInv` says it of the records: a run that counts as not sent has not been sent and no call is
about to send it; a run or a job that counts as not delivered is one no call can
send any more (`Barred`), or its repository changed; a message, and an event of a
completed turn in the queue, is of a verified run; before the user's message there
is nothing. `ProcInv` says it of the processes, at each label: recovery and the
hand-off hold the lock of the conversation (`LockInv`); a process returns into
code that called it (`WayInv`); a run that was read and is still to be used says
of the present run what the use relies on (`SeenInv`); the answer about to be
published is of a verified run, and the job is completed after its message
(`ResultInv`); the pump starts the job it leased the entry of, already marked as
being sent, and reports it as unsent only when nothing can be sent (`PumpInv`).
Neither of the two is inductive alone. That a closed job was not sent depends on
what the pump, between its lease and its call, holds of records that a stop or a
recovery has changed since; that a message is verified depends on an event that
was queued when the run was completed. The hand-off to the author's job replaces
the records under the other processes: those it has overtaken hold a stale job,
and every later write they make of it is refused. So one lemma serves nearly
every step: a step that goes on (`Onward`: no hand-off, what is verified stays
verified and what is barred stays barred) keeps what all other processes hold
(`OthersKeep`), and it is left to show for the process that made it.

`SettledIsOver` has a second invariant over the first, `SInv`. Of the records it
says what the property does and more (`OverInv`: a settled wave has no job to do,
and a job that ended no run that is not over); that a job is queued without a run
but while it is linked to it (`NewInv`); that no turn works for a run that ended,
and what may still be sent or verified of one (`TurnInv`); that an event of a turn
that ended without an answer is of a failed run (`EventInv`); and that nothing
works while the application is down (`LifeInv`). Of each process it says, at each
label (`ActInv`): who prepares a job or hands off has the lock of the conversation
(`HoldInv`); a stop or a withdrawal is of a wave that is being stopped and goes
nowhere else, so that a later write of it cannot find the wave at work again
(`StopInv`); and whoever is about to close a job has a run that is over
(`EndsInv`). The property is not inductive because a wave is settled on a read of
the job, and the job closed on a read of the run, both long before: between them
come other processes' stops, events and recoveries, and the hand-off, which makes
the peer's settled records the author's. So the proof is a lemma for each kind of
write, over what the writer still holds and what every other process goes on to
claim (`Going`). The alternatives of the operators it reasons about are written
with conditions that exclude each other, as `tlapm` reads a CASE whose arms
overlap as saying nothing of them.

The proofs assume the named assumptions only: `MaxChangesAssumption`,
`CallsAssumption` (each call has a task and a kind), `BoundsAssumption` and
`LeaseAssumption`, `RestoreAssumption`, `FilesAssumption` (the bounds are naturals,
at least two attempts, each call has a kind, and the null values are none of the
values they stand beside), `WaveAssumption` (one or two agents, bounds that are
naturals). TLC evaluates them in the runs.

Only model-checked: all liveness (`EverythingEnds`, `CallsEnd`, `StopIsSettled`,
`RunningTurnCloses`, `QueuedIsLeased`, `CallsSettle`), which is outside what tlapm
proves, as are `ENABLED` and induction over data; and the four runs that end in a
counterexample. Every safety property of a run that passes is a theorem.

## Disagreements with the code

Four runs check what a comment or a document says and end in a counterexample.
`PROJECT.json` ("findings") quotes the lines.

1. `task_actions_dispatch`: the dispatch of the Preview queue waits for a task
   action inside the gate; a message that holds it may be parked in the gate
   behind a lifecycle change that joined the dispatch. The three wait for each
   other, and shutdown for them.
2. `turn_lost_server`: the acknowledgement of a start is persisted over the
   RECOVERY_REQUIRED that the loss of its server wrote in between; the run is
   RUNNING on a server that is gone until the next start.
3. `lease_race`: two reclaims of one stale lease both verify it; the second
   removes the lease the first has put in its place, and two processes own the
   profile.
4. `discourse_start`: a crash after a turn was acknowledged and before its job
   left STARTING; the turn is lost, its repository is found changed, and the
   recovery of the conversation asks for a delivery that is refused, at every
   start, which fails as a whole.

Seen while modelling and not checked by a run:

- The latch of a shutdown is lifted at the next start only if no queue entry of
  any owner is LEASED; one uncertain turn keeps every owner out.
- A crash before the run has a server leaves a QUEUED or STARTING run of a
  transient turn that nothing recovers; a loss sweep stops at the first update
  that is refused; a turn that ends after its caller gave it up keeps its lease
  until the next start.
- A crash between the two updates of an integrity violation leaves a record whose
  loss the store refuses, which stops the recovery of the runs after it, at every
  start.
- A crash between the publication of a revision and its transaction, or a directory
  that cannot be synchronized after the rename, leaves a file that no start
  collects; a later write of that revision with other bytes is refused each time
  (`Publish` in `ManagedFiles`).
- A transaction that fails after it wrote its artifact rows has its file deleted by
  the rollback callback and by the cleanup. Neither holds the key: another writer
  that published the same revision before the deletion, and commits after it, has a
  row that names a missing file, and the next start refuses to open.
  `docs/architecture/PERSISTENCE_ARCHITECTURE.md:127-128` has the rollback remove
  only unreferenced bytes. `RowHasFile` excepts it by `~writeFailed`.
- `verifyReadOnlyRuntimeBoundary` returns at once when the boundary was found
  UNCHANGED, so a run that a later event reopens is not looked at again; a
  transient turn is verified after its end only.
- A pid given to another process keeps a dead owner's lease; a second recovery of
  a run's event processing is answered with the first one's receipt; a permission
  profile that cannot be honoured before a turn id is known writes FAILED with
  delivery AMBIGUOUS, which the store's check of a record refuses. None of these is
  in a model.
- A first start of a new profile does not synchronize the profile directory after
  it made the storage root, so that a power loss in that session may take all of its
  work. `NothingIsLost` excepts it by `fresh` and `lost`.
- A crash between a message and the completion of its job: recovery appends under
  another operation id and is refused. A job that was refused for its text while
  a stop asked to cancel it is refused FAILED at every recovery.
- A crash inside the withdrawal of a leased turn leaves a job CANCEL_REQUESTED
  whose entry is SETTLED: recovery passes it by and a stop throws.
- The second release of a leased turn in recovery returns the receipt of the first
  and does nothing: the entry stays LEASED until the wave is stopped.
- A crash after the author's job was added and before it was prepared leaves a
  wave with a job that nothing prepares until a stop or the deadline.
- Recovery while the pump's start call is out fences the STARTING run; the
  returning call takes it back to RUNNING.

## Not modelled

Reasons are given per component in `PROJECT.json`. In short: ACP and OpenCode
follow the contract of the Codex adapter over other protocols and are left for
later as variants; the capacity of the scheduler, the task workflow, attachments,
remotes and interactions are planned below; SQLite is taken as atomic
transactions; parsing, prompts, redaction, the user interface and Electron are
data or input and output.

## Plan

In order of what matters most to the system:

1. *Done.* `RuntimeOperationGate`, `TaskActions` with proofs.
2. *Done.* `TransientTurn`, its runs, `OneShotTurn`, and the proofs of its safety
   and of the refinement.
3. *Done.* `StoreOwnershipLease` with `ProfileLease` and proofs.
4. *Done.* `BackupRestore` with proofs.
5. *Done, one wave.* `DiscourseWave` with proofs. To come: two waves of a
   conversation, whose second is activated by the settling of the first.
6. `TurnScheduler`: limits per session and conversation, aging and owner
   fairness over several entries; safety of the limits proved.
7. *Done for runtime artifacts.* `ManagedFiles` with proofs. To come: task
   attachments, staged before their row.
8. `BranchPublication`: pushes with an uncertain outcome.
9. `CodexRpc`: requests, generations and the supervisor's confirmed exits, as the
   specification that `TransientTurn` abstracts.
10. `Interactions`: an answer delivered at most once, to the process that asked.
11. `TaskWorkflow`, then the Design, review and side-question coordinators.

Each module is written to be proved about: bounds as constants with assumptions,
one action per operation, invariants as conjunctions of named parts, no
recursive operators outside model-checking modules.
