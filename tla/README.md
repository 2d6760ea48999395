# Cinderdeck verification

TLA+ models of the coordination code of Cinderdeck, checked with TLC on small
instances and, for the parts named below, proved with TLAPS for every instance.
Paths are relative to `src/`; `ov2/` stands for
`agent-runtime/apps/server/src/orchestration-v2/`.

`PROJECT.json` lists the components, the runs, the mutants each property is
tested with, the lines every definition translates (`map`), the findings, the
hazards and the theorems.

To repeat the work, in this directory:

    tlc -workers 2 -config outbox_lanes.cfg MCEffectOutbox.tla
    tlapm EffectOutboxProofs.tla
    tlapm EffectOutboxRecoveryProofs.tla

## 1. The system

Cinderdeck is a macOS application (Swift, `Cinderdeck/`) around an agent runtime
(TypeScript, `agent-runtime/`): a server that drives coding agents, clients
(web, mobile, desktop shell) that send it commands and follow its events, and
services around both. The logic of its own that is hardest to get right is in
the server's orchestration: it is event-sourced, keeps everything in one SQLite
database, runs many fibers, and must survive the loss of its process at any
point. The models start there.

    client --command--> Orchestrator.dispatch --plan--> EventSink.commitCommand
                            |  keyed locks               one transaction: receipt,
                            |  per thread                events, rows, effects
                            v                                   |
                        receipts                  +-------------+--------------+
                                                  v                            v
                               hubs -> live streams -> clients      effect outbox (table)
                                                                            |
                             ingested events <- providers <- EffectWorker fibers

| Component | State | Operations | Interacts with |
|---|---|---|---|
| Effect outbox and worker (`ov2/EffectOutbox.ts`, `ov2/EffectWorker.ts`) | table of effects (status, lease, attempts, deadline); wake-up queue; cancellation and settled signals; fibers | enqueue, cancel, claim, execute, settle, retry, wait, prune, recover | written by the sink's transactions; drives the providers |
| Event sink, stores, streams (`ov2/EventSink.ts`, `OrchestrationEventStore.ts`, `ov2/LiveStreamBudget.ts`) | event log; the one writing connection; publish lane; hubs; buffers and budgets | write, commit, publish, subscribe, replay, go live, overflow, resume | every service writes through it; every client reads through it |
| Command dispatch (`ov2/Orchestrator.ts`, `shared/src/KeyedLock.ts`, command receipts) | locks by thread; receipts; projected rows | route, lock, check receipt, decide, commit, answer | the sink; clients; reactors |
| Project deletion (`project/ProjectService.ts`) | the project; the rows and receipts of its threads | list, cascade, delete | locks and receipts of dispatch |
| Run lifecycle (`ov2/Orchestrator.ts`, `RunExecutionService.ts`, `RunFinalizationService.ts`) | runs, turns, queue of a thread | start, steer, interrupt, promote, finalize | dispatch, outbox, ingestion |
| Runtime recovery (`ov2/ProviderRuntimeRecoveryService.ts`, `serverRuntimeStartup.ts`) | phase of the process | reconcile, continue, start workers, shut down | outbox, runs, sessions |
| Provider sessions (`ov2/ProviderSessionManager.ts`) | sessions, leases, idle timers | open, attach, release, turn start | outbox, ingestion |
| Provider ingestion (`ov2/ProviderEventIngestor.ts`, coalescer) | pending deltas, watermarks | ingest, coalesce, flush | sink, sessions |
| Delegated results (`ov2/Orchestrator.ts`, `ProviderContinuationService.ts`, `NotificationMailbox.ts`) | task rows, the cohort of a run with its current delivery, wakes, steering effects, offers and run updates in memory | finish, plan, offer, dispatch, steer, wake, withdraw, stop, recover | run lifecycle of the parent, outbox |
| Stream resumption and pruning (`ws.ts`, `ov2/ProjectionMaintenance.ts`) | mark and boundary of the log; the preparation of a subscription | resume, replay, snapshot, mark, publish the boundary, delete pages | streams of the sink, clients |
| Checkpoints and rollback | refs of worktrees, scopes | capture, roll back | outbox, git |
| Projections and maintenance | derived tables, pruned sequence | project, prune, rebuild | sink |
| Reactors (settlement, pull requests, usage limits, compaction) | cursors, timers | observe, dispatch | sink, dispatch |
| Scheduled tasks, webhooks | due times, leases, delivery ids | claim, run, deduplicate | dispatch |
| Terminals | sessions, output offsets | open, attach, write, close | clients |
| Client connection supervisor (`packages/client-runtime/src/connection/supervisor.ts`) | intent, queue of signals, phase, failures, session, probe, checks of routes | connect, disconnect, retry, attempt, probe, back off, switch routes | users, platform, server |
| Desktop shell | backend process, update state | spawn, restart, update | server process |
| Relay, peers, cloud link | links, devices | link, relay | services outside the repository |
| Auth, settings, source control, drivers, interfaces | lookups, I/O, rendering | | |
| macOS app: stacks and lanes, recording, capture, editing, history, upload | processes, leases; sessions; documents | | operating system frameworks |

Which of these are modelled, and why the others are not (yet), is in section 7
and under `components` in `PROJECT.json`.

### What makes it hard, and what must hold

**Outbox.** Several fibers claim from one table. Cancellations, retries, failed
statements, shutdown and process loss interleave with executions that may take
arbitrarily long. *Must hold*: effects of one lane run one at a time and in
order; a cancelled execution is told; nothing that belonged to a lost process
runs in the next; nothing that should run is left leased, asleep or forgotten;
what has settled stays settled; a waiter returns when, and only when, its effect
has settled.

**Sink and streams.** A transaction holds the only writing connection while it
waits for the publish lane; publication goes to one hub after another after the
commit; a stream has to splice replay and live tail without a gap or an overlap,
and fails when its client is slow. *Must hold*: what clients receive is, for each,
exactly what it asked for in log order, across reconnections; retention is
bounded; no deadlock between connection and lane.

**Dispatch.** Up to several locks per command, neither reentrant nor
deadlock-aware; plans computed from rows read some steps before they are written
out in full; commands sent again. *Must hold*: no lock cycle, no lost update,
a command executes once and callers agree on its outcome, deleted threads stay
deleted, side chats go with their parent.

**Project deletion.** A cascade over threads, one lock at a time, that can stop
halfway. *Must hold*: nobody's write is lost, children go before the project, a
second call finishes the first.

**Delegated results.** The end of a child is committed in one thread and handled,
from memory, in another; the parent's turn may end, be stopped, or be spoken to
meanwhile; deliveries are numbered, joined, withdrawn, queued and steered; the
process may be lost anywhere. *Must hold*: every result reaches the parent, once
it counts as delivered it was heard, no wake is orphaned, and what was stopped
stays stopped.

**Resumption and pruning.** A client names the last sequence it holds; what
follows may be deleted while it is read. *Must hold*: no client has a hole in
what it holds, nor goes back.

**Connection supervisor.** Users, the platform, the loop, the race of an attempt,
the monitor of a session, its probes and a check of routes share one queue of
signals and an intent that is changed before it is signalled. *Must hold*: no
withdrawn intent lives on unnoticed, what is intended comes about, a retry counts
once, a session is not given up for the route it is on.

**Not modelled** (see section 7): the rest of the run lifecycle, provider sessions
and ingestion, scheduled tasks, terminals, the desktop shell.

## 2. Modules

| Module | Role | Source |
|---|---|---|
| `EffectOutbox` | the outbox, its worker fibers, waiters, recovery and process | `ov2/EffectOutbox.ts`, `ov2/EffectWorker.ts`, part of `EventSink.ts`, recovery, startup |
| `EffectOutboxProofs` | theorems about it: types, lanes, holders, settlement | |
| `EffectOutboxRecoveryProofs` | further theorems about it: cancellation, waiters, leases, lost processes, wakeups | |
| `EventLog` | abstract: an append-only log and subscribers that receive in order | what `EventSink` promises |
| `EventSink` | transactions, lane, hubs, replay, live tail, budgets; refines `EventLog` | `ov2/EventSink.ts`, `ov2/LiveStreamBudget.ts`, `OrchestrationEventStore.ts` |
| `EventSinkProofs` | theorems about it, the refinement included | |
| `CommandDispatch` | routing, locks, receipts, plans, commits, answers | `ov2/Orchestrator.ts`, `KeyedLock.ts`, `EventSink.ts` |
| `CommandDispatchProofs` | theorems about it | |
| `ProjectDeletion` | EXTENDS `CommandDispatch` with deleters that use its locks and receipts | `project/ProjectService.ts` |
| `ProjectDeletionProofs` | theorems about it | |
| `StreamResume` | EXTENDS `EventSink`: resumption of a subscription while the log is pruned | `ws.ts`, `ov2/ProjectionMaintenance.ts`, client `shell.ts` |
| `StreamResumeProofs` | theorems about it | |
| `DelegatedCompletion` | the results of delegated tasks on their way to the parent | `ov2/Orchestrator.ts`, `ProviderContinuationService.ts`, `NotificationMailbox.ts`, `EffectWorker.ts`, recovery |
| `DelegatedCompletionProofs` | theorems about it | |
| `ConnectionSupervisor` | a client's connection to one server | `client-runtime/src/connection/supervisor.ts` |
| `ConnectionSupervisorProofs` | theorems about it | |
| `MC...` | instances for TLC: ids, commands, batches, symmetry | |

### What is one step

The writing connection is a synchronous `DatabaseSync` behind a semaphore of one
permit (`agent-runtime/packages/shared/src/nodeSqliteClient.ts`): a write
statement, or a transaction that is all SQL, is one step together with the
JavaScript that follows it up to the next point where a fiber can yield. Reads
marked `readOnly` go to a reader thread, so every read is a step of its own, and
what was read may be stale when it is used. Everything in memory is lost with the
process; tables are not.

### EffectOutbox

A row is `status`, `rowid` (the insertion order the claim compares), `attempts`,
`later` (`available_at` lies in the future), `owner` (`lease_owner`) and `born`
(`created_at`, by process). In memory: `tokens` (the dropping queue `available`),
`signal` (`cancellationSignals`), `attached` (`settledSignals`); `post` is what
the last commit still has to signal (one at a time: the publish lane holds).

`Claim` is `claimNext` with its lane predicate (`Blocks`); `Recheck`,
`ExecutionReturns/TimesOut/Cancelled/Unwound` are `runOnce`'s race of the
execution against its cancellation; `Succeed`, `Concede`, `FailAttempt` settle
under the lease, `RequeueClaim` and `TerminalizeClaim` are the error paths with
their second failure; `CoolOff`, `ReadDeadline`, `WakeNotified`, `WakeScheduled`
are the loop `runWorker`. `EnqueueCommand`, `InterruptCommand`, `ReconcileThread`
are the transactions that write to the table, `PublishCommit` what follows them.
`AwaitSettled` and `ReadAwaited` are the two halves of `awaitSettled`. `Boot`,
`RetireProcessBound`, `RequeueReplaySafe`, `StartDaemon`, `Shutdown` and `Crash`
are the process.

Abstractions. Time: a backoff is `later`, and runs out at any moment (`Elapse`).
A claim picks any claimable row (the code takes the one available for longest),
so what is shown holds for every order among lanes. A transaction inserts at most
one effect. Only `provider-runtime.continue` is enqueued again under its id or
delayed, as in the callers. What an effect does is not modelled, only that it
returns, fails, is cancelled, hangs or, for `delegated-tasks.stop`, times out.
Claim and arming are one step; a command or a recovery may cancel the row between it
and the second read, which then finds it cancelled (`Recheck`).

### EventSink and EventLog

`Begin`, `TakeLane`, `Commit` (or `Abandon`, `CommitFails`), `Publish` per hub,
`Finish` are `commitThenPublish`. `Connect`, `ReadHighWater`, `ReadPage`,
`PullReplay`, `EndReplay`, `PullLive` are a stream; `Drain`, `Fail`, `Acknowledge`
the fiber and the accounting of `retainLiveStream`; `Receive`, `End`, `Drop` the
client, which keeps the last sequence it received and resumes from it; `Crash`
loses everything but log and cursors. Kinds stand for the type and thread filters;
agent streams filter in SQL, the application stream pages over raw rows, and that
difference is modelled because a page with nothing for the client must not end its
replay. Only the application stream has a budget in the code, and `SinkAssumption`
says so. A limit in bytes is one in items here; hubs of types exist from the start.

`EventLog` knows a log and cursors. `LogSpec` states that `EventSink` implements
it: every step of the sink is a commit, a delivery of the *next* wanted event, or
a stutter. The refinement mapping is explicit: the log of the sink is the log, a
client's `cursor` its position.

### StreamResume

`Subscribe`, `CheckRange`, `ReadRange`, `RecheckBoundary`, `LoadSnapshot`,
`TakeSnapshot`, `TakeReplayed`, `GoLive` are `subscribeOrchestrationV2Shell`
(`ws.ts` 1078-1335; the thread stream, 970-1071, has the same steps);
`SetMark`, `PublishBoundary`, `DeletePage`, `EndPass` are `pruneEventStore`. From
`GoLive` on, a subscription is a stream of `EventSink`; before, it has the state
`resume`. `seen` is what a client holds: a snapshot replaces it, an event adds to it.
`log` remains what was committed, `gone` what of it was deleted; `LogEnd` is
computed, as in the code, from the rows that are left.

Abstractions. A mark is a day old when it is used (`RETAINED_EVENT_HISTORY`); the
model says what that day is for: `MarkIsDue` lets no pass begin while a
subscription whose replay or snapshot ended before the mark has not gone live. A
subscription that takes longer than a day to do so is outside the model. The
newest row of all is kept; the code keeps the newest of each stream, which deletes
less. Left out: the limit on the size of a replay, coalescing of events and skipped
frames, enrichment (no sequence changes), the snapshot a new session fetches by
HTTP (a snapshot here), pruning of receipts.

### DelegatedCompletion

One run of the parent, the spawner, delegates `Tasks`. `task` is the row on the
parent's side (result, delivery state, watched by a blocking wait), `cohort` the
spawner's `delegatedCompletion`, `wake` the message and run of each generation,
`steering` its `provider-turn.steer` effect; `offers`, `dispatching`, `updates` and
`promoting` are memory. `ChildEnds` and `EndRun` commit and leave an update;
`HandleChildUpdate`, `HandleRunUpdate` and `Promote` are `handleRunUpdate` with the
locks it takes one after the other; `planDelegatedCompletionDelivery` decides whether
a result reserves a delivery, joins the current one, waits for its end, or needs
none. `TakeOffer`, `Dispatch`, `DispatchFails` are the service that dispatches;
`Stop`, `CancelWake`, `Resolve`, `WakeAlways` what users and agents do;
`RecoverRuntime`, `RecoverResult`, `RecoverDeliveries`, `ContinueChild`,
`recoverDelegatedTask` what the next process does.

A steering effect has a record of its own: how far it is (`stage`), what became of the
turn it targets (`target`: live, late once it completed, lost once it failed or was
stopped) and the message as it read it (`tasks`). `SteerChecks`, `SteerHeard`,
`FollowUp`, `SteerFails` and `dispatchNotificationAccepted` move it. The effect outlives a
second dispatch of its delivery, since nothing on the way of that dispatch cancels it, so
its acceptance may come late: it concludes whatever the delivery has become, as
`ov2/Orchestrator.ts:13016-13031` compares message and generation only. The follow-up of a
late steer is dispatched once, under one command id; when it is refused the effect fails.
The effects of a thread share one lane, so the turn of the next run begins (`StartTurn`,
`turn` = starting until then) once no effect steers into an earlier one.

Abstractions. One critical section of the parent's lock is one step (its
exclusion is what `CommandDispatch` shows). `told` records what a run of the parent
was given to read, by the message it starts with or by a steer that its agent took; a wake
whose start fails counts its results as delivered, as the code does, and
`DeliveredMeansTold` says so. The content of a message is read when the effect checks the
delivery. A run that is stopped before its turn began ends in one step more than in the
code. A stop that holds the queue closes the cohort though nothing may be owed. Left out:
archiving and deletion of the parent, follow-ups to tasks, tasks on peers, buffered
notifications, policies that lower a wake, a steer given up while its run lives, waits of
the queue for usage limits or modes, queued messages of users, disabled providers, a failed
start within `queue.resume`, and failures inside `handleRunUpdate`, which drop the update
(`ov2/Orchestrator.ts:13880`) until a restart makes up for it. A continuation of the parent
after a restart is `StartOther`.

Two constants name behaviours that the passing run leaves out, because the code
goes wrong there: `CutShort` (a turn fails or stops before the agent has read what is
steered into it, or the follow-up of a late steer is refused: finding 3) and
`Overlapping`. With `Overlapping` TRUE TLC finds `NothingStranded` violated: an agent that
acknowledges or cancels the last task of a delivery *while it is being steered* leaves the
cohort with a current delivery of no tasks, which after a lost process or steer is neither
finalized nor offered, so that later results wait for it for good; and acknowledging the
last task of a *queued* wake while another result is pending clears the delivery without
reserving the other.

The late acceptance is not left out. What it does is stated in the properties
themselves, as the second way in which a delivered result has not been told
(`DeliveredMeansTold`), as the only wake in the queue that is not the cohort's current
delivery (`QueuedWakeOwned`, in `NothingStranded`), and as the only one that starts after a
stop (`StopIsFinal`); section 6 says what the code promises instead.

### ConnectionSupervisor

`desired` and `online` are the intent, `sending` the signal a sender has still to put
into the queue after it has changed the intent (`Connect`, `Disconnect`, `RetryNow`,
`NetworkChanges`, `Wakes`, then `Send`). `Begin`, `Wait`, `Delayed`, `Conclude` are
`run`; `Progress`, `TakeEstablishing`, `EstablishFails`, `Establishes` are `runAttempt` with
the race of `waitForEstablishmentInterrupt`; `TakeConnected`, `TakeProbing`,
`ProbeAnswered`, `ProbeFails`, `Closes` are `monitorConnectedLease`; `Tick`, `StartCheck`,
`FinishCheck` are `checkBetterRoutes`. `Leave` is what every end of an attempt does at
once (`clearLease`); `Conclude` follows when its scope is closed.

The instance is a server that is not the primary one, with a preferred LAN route and a
relay. Reading the intent and parking, or taking a signal and acting on it, is one
step: nothing asynchronous lies between. `backlog` counts what was queued when the
attempt began: the race takes that before a driver can answer. Delays and deadlines are
choices under fairness. A check may report nothing, which covers the silent routes,
their back-off and the cooldown of a route. Left out: the primary target, learned
routes, preparation and refresh of credentials, numbers of generations, `lastFailure`,
tracing.

### CommandDispatch and ProjectDeletion

`Call`, `Route`, `Lock`, `ListSideChats`, `CheckReceipt`, `Accept` / `Decline` /
`Refuse`, `commitCommand` / `commitRejectedCommand` / `NoteNothingDone`, `Answer`
are the steps of `dispatchWithReceipt` in order. The row of a thread is its kind,
its parent, whether it is deleted, and the set of commands whose writes it bears
(`edits`): rows are written in full from what was read when planning, so a commit
in between would lose an element of `edits`. Seven types of command stand for the
forty or so of the code, one for each combination of locks and rows; a decision can
always be a rejection or a refusal, for reasons outside the model. The two reads
of `Route` are one. The id of a delegated child derives from that of its command,
which `DispatchAssumption` expresses. `Interrupt` ends a call anywhere; since
nothing but rows, receipts and log outlives the process, its loss is the
interruption of all calls.

`ProjectDeletion` adds deleters, callers that run one derived command per child
through the same locks and the same `commitCommand`. The project's own plan and
commit, under its own lock, are one step; force, or its absence, is a choice.

## 3. Runs

Each run takes less than four minutes with two workers.

| Run | Question | Instance | States |
|---|---|---|---|
| `outbox_lanes` | Are order, exclusion, cancellation and wake-ups right while commands race with fibers? | start, title and the stop of delegated tasks of one thread, 2 fibers, 2 attempts, queue of 2, 2 processes, no faults | 1.5M |
| `outbox_restart` | What survives failed statements, shutdown and process loss? | interrupt and awaited continuation, 2 fibers, 1 waiter, 2 faults, 2 processes, 1 pruned row | 1.3M |
| `outbox_liveness` | Does everything settle, and every waiter return? | a start and an awaited continuation in the lanes of two threads, 2 fibers, 1 waiter, 2 attempts, 2 processes, no faults | 510k |
| `sink_streams` | Do streams splice replay and live tail without gap or overlap behind two writers? | bounded application stream that skips messages, unbounded stream of all agent events, log of 3, budget and page of 1, 1 lost connection or process | 3.3M |
| `sink_resume` | Does a client that is slow or cut off keep a whole view, and get everything in the end, while the log is pruned? | application stream, 2 writers, log of 2, 1 pass, 1 lost connection or process | 366k |
| `dispatch_commands` | Locks, receipts, lost updates, termination | 2 callers, 3 calls, 4 threads, 10 commands | 330k |
| `dispatch_proof` | (finding 1) Is an accepted command one that was executed? | 2 callers, one id for two threads | violated |
| `project_cascade` | Is a cascade safe beside commands and another cascade? | 2 deleters, 3 deletions of 2 ids, 1 client with 2 calls, 2 threads | 925k |
| `project_orphan` | (finding 2) Do side chats go with their parent? | 1 deleter, 1 client, 1 call | violated |
| `delegated_results` | Does every result reach its parent, and nothing else? | 2 tasks, one watched, 3 generations, 1 other run, 1 fault, 1 lost process | 1.8M |
| `delegated_wake` | (finding 3) Also when a turn is cut short while a result is steered into it? | 2 tasks, 2 generations, 1 fault | violated |
| `supervisor_intent` | Does what is intended come about, and no signal get lost? | 2 users, 3 calls or reports, 1 failure on the ladder, 1 reported route | 1.5M |

### What each property says, and why it is not obvious

* `LaneExclusive`, `InOrder` — the lane predicate alone keeps effects apart:
  no lock, no fiber affinity. A retry's backoff and a requeue after a restart keep
  their place.
* `OnlyCancelledOverlap` — cancelling settles the row at once, so the next effect
  of the lane starts while the old execution unwinds. That is the only overlap.
* `CancellationArrives` — the cancelling commit and the firing of the signal are
  two steps; whatever is claimed, settled or requeued between, an execution under
  way whose row is cancelled has its signal fired or about to be.
* `NoLostWakeup` — a claimable effect is not left to the thirty-second poll.
  It is stated for states in which nothing was ever delayed: a fiber asleep
  until a deadline can consume the notification meant for another, and then only
  the poll is certain, as the comment at `ov2/EffectWorker.ts:902` concedes.
* `OneHolder`, `NoOrphanedLease` — the worker id names the process, not the fiber,
  so the lease check cannot tell fibers apart; the structure has to.
  A row stays leased with nobody at work on it only if a statement failed and the
  one that should have made up for it failed too.
* `ProcessBoundDies`, `SettledIsFinal`, `AwaitSettledExact` —
  what recovery, requeueing, redelivery and late settlements may not do.
* `EventuallySettles`, `WaiterReturns` — liveness; see section 4. The run has retries
  with backoff, a start that is cancelled while it is claimed or executed, a requeue by
  the next process, and a lane whose execution never returns beside one that must go on.
  Its lanes hold one effect each, and no statement fails in it: that an effect waits for
  its predecessor, and what a failed statement leaves behind, is checked as safety
  (`InOrder`, `NoOrphanedLease`).
* `NothingSkipped`, `LogSpec` — a safety form of "no gap": every wanted event not
  yet received is on its way through some buffer, or to be published; and the
  refinement, which also excludes duplicates and reordering.
* `TypeOK` of `EventSink` — the budget holds, and the client's unacknowledged batch
  counts in it.
* `WriterFinishes` — whoever holds the lane needs no connection to let it go.
* `EveryCallEnds` — parent before child, parent before side chat,
  source before target, and never the inverse, although what decides which locks
  to take is read before any is held.
* `NoLostUpdate`, `DeletionIsFinal` — full-row writes from earlier reads never
  undo another commit.
* `AppliedOnce`, `AnswersAgree` — one id, one execution, one answer.
* `NoOrphanSideChat` — forks, and deletions with their cascade, in every order.
* `ChildrenGoFirst` — when the project goes, all the cascade found has gone.
* `ViewWhole`, `NeverBack` — a client cannot notice an event that was deleted
  before it read it; that it never misses one depends on the order of boundary and
  deletions, on the second look at the boundary, and on the row that is kept.
  `EventuallyReceived` says that the snapshot makes up for the rest.
* `NothingStranded`, `ResultReachesParent` — the safety and the liveness of
  delivery: what is owed belongs to the current delivery or waits for its end, and
  something that still runs will move it. Five kinds of state can hold the next
  step (`OnItsWay`: a request, a wake that is held or active, one in a queue that will
  be looked at, an effect that steers, an update), and every command hands over from one
  to another.
* `DeliveredMeansTold`, `StopIsFinal` — the other direction: nothing counts as
  delivered that no run was given to read, and a stop holds against results, offers,
  joins, steers and recoveries that are under way, but for what a late acceptance left.
* `NoLostWakeup`, `IntentRealised` of the supervisor — four different takers drop
  most of the signals they take; the intent is changed before, and read at other
  times than, the signal that announces it.
* `RetryNotLeaked`, `NoNeedlessSwitch` — a flag and a report that outlive the
  session they were made for.

### Bounds, and why they are enough

Two fibers, writers, callers or deleters suffice for a race between two; a
third adds competitors for the same lock, not a new kind of conflict, and the
proofs cover every number where they exist. Three effects give a lane a
predecessor and a successor, and a neighbouring lane. Between them the three runs of the
outbox have a start that commands cancel, an interrupt that may be conceded, a stop that
times out, a title and a continuation; one instance with all of them is out of reach.
Two attempts give one retry and one exhaustion; a queue of two overflows; two faults are what it takes to
strand a lease; two processes give one recovery, with rows of the earlier one.
A log of three gives a page boundary, a batch of two, an unwanted event in front of
a wanted one, and an overflow of a budget of one. Three calls are what it takes for
fork, delete and a late edit, or for a command, its retry and a competitor.
Of two tasks, one wakes the parent at once and one is watched; three generations give a
delivery, the one reserved at its end, and one more. Two users change their minds
against each other with three calls, which reaches every state of the supervisor.
`MaxLog`, `MaxDrops`, `MaxCalls`, `MaxDeletes`, `MaxFaults`, `MaxProcesses`,
`MaxPruned`, `MaxPasses`, `MaxGeneration`, `MaxTurns`, `MaxCrashes`, `MaxInputs` and
`MaxQueue` exist for TLC only, `MaxFailures` merges the rungs of the retry ladder above it. Symmetry is used for fibers, writers, callers and
deleters, in runs without liveness properties. Deadlock is checked except in the
dispatch, project, delegation and supervisor runs, where callers, agents and users
stop when their calls run out.

## 4. Fairness

*Outbox*: weak fairness of each fiber's own steps other than failures and
returns, of timers, of the post-commit step, of waiters, of recovery and of the
host starting the process again: all of these are the Effect runtime's scheduling,
or the supervisor's. **Not** assumed: that an execution returns or that an
interrupted one finishes its finalizers, since only `delegated-tasks.stop` has a
timeout. `EventuallySettles` therefore has the premise `LaneReturns`: executions of
the lane keep returning, and other lanes do not occupy every fiber for ever.
*Sink*: weak fairness of each writer inside its transaction and of each stream
with its client; none of connection loss. *Dispatch*: weak fairness of a call's
next step; none of new calls or interruptions. Weak fairness of a lock is enough because
calls are bounded in an instance; the code's semaphores are first-come,
first-served. *Resumption*: a client's steps as in the sink; maintenance need never
run. *Delegation*: the service that dispatches, the worker, the handler of updates and
the recovery go on; a turn that nothing cuts short completes, and a run whose turn is
over ends. Agents and users need do nothing, children need not end.
*Supervisor*: a sender that has changed the intent signals it (the two steps are one
uninterrupted program), and loop and monitor go on, since attempts, probes and backoff
have deadlines. Sessions need not close, checks of routes need not run.

## 5. Proofs

`EffectOutboxProofs` proves, for every set of effects, fibers and waiters and
every bound, from `OutboxAssumption` alone (effects are finitely many, types are
types, bounds are numbers):

* `TypeCorrect` — `TypeOK`, one lemma per group of actions.
* `LaneExclusion`, `LaneOrder` — from the invariant `LanesOK`, which adds to the
  two properties that rows are numbered by insertion without gaps or repetition and
  that a row that was never inserted has no attempts (`RowsOK`). Without it `InOrder` is not
  inductive: an insert must be known to get a number above all others. All steps
  but a claim and an insert are `Calm` (no row starts to run, no number or attempt
  changes, nothing settled returns), and calm steps preserve the invariant.
* `SingleHolder`, `OverlapOnlyCancelled` — a fiber that works on an effect is
  alone with it, and two running rows of a lane do not exist, so an overlap
  involves a cancelled row.
* `SettledForGood` — the action property, action by action.

`EffectOutboxRecoveryProofs` builds on it, from the same assumption. `FiberStepCases`
and `WriterStepCases` say once what a fiber or a writer can do to the table, the
signals and the claim; the proofs go through those few cases.

* `LostProcessDies` — from `BornHere`: already between the two statements of the
  recovery, whatever is bound to a process and unsettled is of the present one.
* `CancellationNotLost` — from `SignalsTrue`. A signal is announced and fired only for
  rows that were cancelled, and is armed from the claim until the execution is over;
  no other fiber clears it, because it holds another effect (`SingleHolder`).
* `AwaitsExactly` — from `AwaitsRight`: a waiter shares the entry of its row from before
  it reads it, its row is not one that a recovery cancels silently, and an entry is
  forgotten only when its waiters are woken (`AwaitsResolved`).
* `LeasesHeld` — from `LeasesRight`. When a fiber finds its lease gone the row
  is cancelled (`SingleHolder`), as it is when an execution is interrupted
  (`SignalsTrue`); otherwise a fiber that lets go of a row without settling it has
  seen two statements fail.
* `WakeupsArrive` — from `WakeOK`, with the hypothesis `FewFibers`. `NoLostWakeup` counts
  the tokens of the wakeup queue against the work that can be claimed, and is not
  inductive: claiming uses up a token and a row together, but a fiber that finds nothing
  uses up a token alone, and a full queue drops one. `Notified` adds the tokens that a
  commit has still to put there and the fibers that seek already, and allows that
  there is a token for every fiber asleep instead, which is what is left when the queue
  drops one: it holds as many tokens as there are fibers. That is `FewFibers` (there are
  finitely many fibers, and no more than the queue holds), true of the
  code by far (four fibers, `ov2/EffectWorker.ts:885`; 64 tokens, `ov2/EffectOutbox.ts:294`)
  and needed: with two fibers and a queue of one token TLC finds `NoLostWakeup` violated.

`EventSinkProofs` proves, for every set of writers, clients and filters, every budget
and every set of batches, from the assumption of the module:

* `TypesCorrect`, `NothingIsSkipped` — from the inductive invariant `SinkInv`. It
  describes each stream by where its parts lie in the log (`StreamInv`): a replay has read all
  that was asked for up to its position (`Replayed`), what has been handed out to the client
  has no hole (`HandedOut`), what comes after the high-water mark is in the buffer, the
  queue of the hub or still to be published (`Tailed`), and these ascend from one to the
  next (`Ordered`), because only the holder of the lane publishes, and does so in the
  order it committed in (`Held`, `Publication`). One lemma per action.
* `SinkImplementsLog` — the refinement `LogSpec`: a commit appends to the log of
  `EventLog`, the receipt of an event is the abstract receipt of the next one due (which is
  what `HandedOut` and `Ordered` say), and every other step is a stutter.

What a filter leaves of a sequence is computed by recursion over it
(`Keep`). The library's induction theorems cannot be used, but the well-foundedness of the
order of the naturals can: it gives a least counterexample (`Least`), from which `KeepUnfolds`
shows that the recursive function exists and `KeepIs` what it computes.

`StreamResumeProofs` proves, for every set of clients and every number of passes of the
pruning, `ViewsWhole` and `ClientsAdvance` from the inductive invariant `ResumeInv`. Every
step moves the sink as one of the sink's own steps does, or moves the cursor of a stream
that is closed, so `SinkInv` holds here as well. Neither property is
inductive: a replay is whole only if nothing it was to read was deleted before it
read it. `Prepared` says that of a subscription under way, on the condition that the boundary
has not passed the cursor (`p <= c`), which is what the second look at the boundary checks;
`Behind` says that the boundary has not passed what a live stream has still to read; and
`Pruning` that the boundary is published before anything is deleted and the last
row of the log is kept.

`CommandDispatchProofs` proves, for every set of callers, threads and commands,
from `DispatchAssumption` (commands name threads, `NoThread` and `NoReceipt` are
no thread and no receipt, a command that delegates names the child that its id
derives, so that no two command ids create the same one):

* `DispatchTypes` — `TypeOK`: besides the types, how far a call is tells which
  locks it has still to take and that it holds none before it is under way.
* `ExecutedOnce`, `UpdatesKept`, `DeletedForGood` — from the inductive invariant
  `WritesOK`. None of the three is inductive: that a commit undoes nothing is true
  because the plan it writes, made from rows read some steps before, still
  *extends* the rows as they are (keeps every edit, every deletion and every
  lineage). `PlanRight` says that, and it stays true under the steps of others
  because of `LocksRight`: every row of a plan is either locked by the call, and
  then nobody else can commit it, or a delegated child, which only its own
  command creates (`ChildrenUnborn`) and which exists only if that command has its
  receipt. The loser of a race for a receipt writes nothing (`CommitLoses`).
  `LogOK` ties receipts to commits, from which `ExecutedOnce` follows.
* `SideChatsDieWithParent` — `NoOrphanSideChat`, from `WritesOK` and `FamilyOK`. A fork
  holds the lock of its source when it commits, and found it alive (`ForkRight`); a deletion
  that holds its thread knows every live side chat of it (`CascadeRight`), although
  it listed them before it took their locks; only a deletion deletes, and only a
  fork makes a side chat (`FamilyPlan`). The hypothesis `ForksFromSeen` says that clients
  fork threads that exist when they send the fork. It is needed: a source that is not found at routing is not locked (section 6).
* `CallersToldOneThing` — `AnswersAgree`, from `WritesOK` and `GivenOK`: what has been
  answered, or is about to be, is what the receipt says, or a rejection beside the
  accepted command of another thread (`AgreesWithReceipt`); and a call that has found
  no receipt, while it holds its thread, is the first there to be told (`Unanswered`). The
  hypothesis `SettlesAlone` says that the id of a settlement is not used for another
  thread. It is needed: an answer that nothing was left to do is given on any receipt
  of that id (section 6).

`ProjectDeletionProofs` proves, for every set of deletions, clients and threads, from
`DeletionAssumption` and `DispatchAssumption`:

* `ProjectTypes`, `ProjectUpdatesKept`, `ProjectDeletesForGood` — from the inductive
  invariant `ProjectInv`. All but two of a deletion's steps are steps of a call of
  `CommandDispatch`, or its end (`StepKinds`), so most of what that module's proofs say is
  used as it is; the two that take and keep a lock of their own are shown to keep
  `LocksRight`.
* `ChildrenGoBeforeProject` — `ChildrenGoFirst`. A thread that the deletion found leaves its
  list only when the receipt of the derived command is that of an accepted
  deletion of that very thread, and such a receipt proves that the thread is deleted
  (`DerivedReceipts`), because no client's command has a derived id (`CallsApart`).

`ConnectionSupervisorProofs` proves, for every set of users and every bound, from
`SupervisorAssumption` (users are not the platform, bounds are numbers):

* `SupervisorTypes`, `WakeupsKept`, `RetryAnsweredOnce` — from the inductive
  invariant `IInv`. `NoLostWakeup` is not inductive: where an attempt or a session
  fails, the loop will park, so the signals the failed part did not take must still be
  there (`FailureLeavesSignals`). The lemmas `ComingWhile...` say what each operation on
  the queue keeps; `LeaveInv` covers every way an attempt or a session ends.
* `SwitchOnlyFromRelay` — the action property, from `NoStaleReport`: a report of a
  better route is in the queue only behind what an attempt drops first, or before a
  session on the relay. This is where `backlog` is needed.

`DelegatedCompletionProofs` proves, for every set of tasks and every bound, from
`DelegationAssumption` (what is watched is a task, bounds are numbers):

* `DelegationTypes` — `TypeOK`, one lemma per group of actions.
* `NoForeignWake`, `StoppedForGood` — from the inductive invariant `QueueInv`.
  `QueuedWakeOwned`, a part of `NothingStranded`, is not inductive. The end of a run moves
  the cohort on, so it must be known that it is not about a wake that is still in the
  queue: the runs named by updates are over. And where an acceptance moves it on and leaves
  its wake in the queue, the delivery must never become current again: one that was
  accepted is not current and lies below `next`. Every operation is a `DeliveryStep`, which
  says what a step may do to a wake, to the steering, to the updates and to the cohort
  at once; the two theorems follow from it without looking at the operations again.
* `DeliveredWasTold` — `DeliveredMeansTold`, from `QueueInv` and `ToldInv`. What the current
  delivery carries is, by the state of its wake, in its message or told; and, by the stage
  of its effect, in what the effect has read or told (`CarriedTold`). A cohort that is no
  longer open owes nothing (`ClosedOver`). What was delivered untold shows in a wake that
  failed to start or was left in the queue (`Shown`), and stays so until it is told. No
  hypothesis on `CutShort` and `Overlapping`: where the code strands a result, it does not
  count it as delivered.
* `NothingIsStranded` — `NothingStranded`, from these and `StrandInv`: what is owed has
  its result and a place in the current delivery or behind it (`OwedRight`), that delivery is
  not empty while it waits (`Loaded`), no effect under way has lost its turn
  (`NoneCutShort`), and by the state of the wake its request, its effect, the promotion of
  the queue or the update that ends it is there to move it (`Moving`). A watched
  result stays pending only when the spawner has gone, and the spawner does not come
  back (`SpawnerDies`). Wakes that are held or released are the same wakes (`Reordered`).
  The hypothesis `Undisturbed` (neither `CutShort` nor `Overlapping`) is needed: with either
  of them TRUE, TLC finds `NothingStranded` violated (section 2, finding 3).

Every invariant and action property of the passing runs has its theorem, and so has the
refinement. With TLC alone remain liveness (`EventuallySettles`,
`WaiterReturns`, `WriterFinishes`, `EventuallyReceived`, `EveryCallEnds`,
`ResultReachesParent`, `IntentRealised`), since neither fairness over these modules nor
`ENABLED` is within the prover's reach, and the counterexamples of the violation runs.
The modules contain no `RECURSIVE` operator, so that all can be proved about.

## 6. Findings

1. **A reused command id is answered with another thread's receipt**
   (`dispatch_proof`, `AcceptedIsProven`). Two calls send one id to two threads at once; both
   find no receipt, under different locks. The second commit finds the first one's
   receipt, writes nothing and returns it, and `dispatchWithReceipt`
   (`ov2/Orchestrator.ts:13739`) looks only at its status: the caller is told that its
   command was accepted. "Receipts only prove execution for the thread they
   were recorded against" (line 13558).
2. **A side chat forked during the deletion of its project outlives its parent**
   (`project_orphan`, `NoOrphanSideChat`). The cascade lists the threads once
   (`project/ProjectService.ts:463`) and does not list the side chats of a thread
   under the lock of the thread, as `thread.delete` does.
3. **A result steered into a turn that is cut short is not delivered**
   (`delegated_wake`, `ResultReachesParent`). The steering fails without `turnCompleted`
   (`ov2/ProviderTurnControlService.ts:136`), so the worker does not dispatch the message
   again (`ov2/EffectWorker.ts:264-267`); it retries in vain. The result stays claimed by
   a delivery that nobody offers, and later results wait behind it, until a restart. The
   same follows when the turn completed but the message that follows up is refused: its
   command id is fixed (`ov2/EffectWorker.ts:289`), so every retry meets the rejected receipt
   (`ov2/Orchestrator.ts:13646`).
   `mcp/OrchestratorMcpService.ts:2471`: "Async delegations wake the parent on every child
   terminal".

Further disagreements were met that have no run of their own. One is the two
behaviours behind `Overlapping` (section 2). One is the late acceptance: a delivery that is
offered twice may be steered by the first request, and heard, and queued again by the
second, once the turn has completed but before `notification.delivery.accept` is
dispatched. The acceptance then concludes the delivery (`ov2/Orchestrator.ts:13016-13031`):
a result that joined the queued wake counts as delivered, and the wake stays in the queue
with no cohort that owns it. It starts later, even after a stop, which cancels the current
delivery's wake only; and a user who removes it from the queue disposes what the cohort
delivers by then instead (`CancelWake`). Another: a comment at
`supervisor.ts:69` promises a cooldown for "a better route that answered the check but
then failed to connect"; the cooldown is set only when the attempt to switch lands on
another route (line 945), not when it fails as a whole. A third: when the source of a
fork does not exist yet at routing time, its lock is not taken
(`ov2/Orchestrator.ts:13789-13794`); if the source is created, and deleted, before the
fork commits, the side chat outlives it, contrary to the comment at 13781. With
`Existing` empty and a client that creates `p`, forks `s` from `p` and deletes
`p`, `NoOrphanSideChat` fails; the runs give `Existing` the threads that are
forked from. The proof of `AnswersAgree` met a relative of finding 1: a settlement that finds
nothing left to do is answered "accepted" whatever receipt its id has
(`ov2/Orchestrator.ts:13681-13711`), so if the id was used for another thread and
rejected there, the settlement is told accepted, and rejected when it is sent again.

## 7. Not modelled

* *Left out of modelled components*: listed in section 2 and in the notes of
  `PROJECT.json`.
* *The rest of the run lifecycle*, provider sessions and ingestion, checkpoints:
  what of them the delivery of results needs is in `DelegatedCompletion`, and what is
  theirs by locks, lanes and receipts in `CommandDispatch` and `EffectOutbox`. A module of
  their own would be next: `RunLifecycle` over these two, with recovery of runs and
  sessions, then the coalescing of deltas against their concatenation.
* *Scheduled tasks, terminals, the desktop shell, lanes of the macOS app*: state
  machines with leases, offsets and processes that fit one small module each; not
  written yet.
* *Proofs left*: none of the safety properties that the runs check. Next in line are
  properties that no run states yet, such as a bound on how long a live stream lags.
* *Not planned*: interfaces, drivers of agent programs, source control, file
  systems, cloud and relay services (I/O and protocols of systems outside the
  repository); auth, policy and settings (lookups); capture, editing and history of
  the macOS app (interface state on one thread); generated code, which is most of the
  repository's lines.
