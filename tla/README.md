# EventFabric: formal models

TLA+ models of the parts of EventFabric that keep promises under concurrency and
failure: asynchronous projections over the outbox, event-sourced sessions and
repositories, the idempotent command bus, sagas with their timers and commands, the
other readers of the log (catch-up projectors, sealers, verifiers), processes that
start and migrate, and the example applications built on all of them.  Small instances
are model-checked with TLC; what matters most of the outbox, the sessions, the command
bus, the sagas, the readers of the log, starting processes and the examples is proved with
TLAPS for every value of the constants.

Paths below are relative to `src/packages/` unless they start with `docs/` or
`examples/`, which lie beside `packages/`.

| Module | What it models | Checked by | Proved in |
| --- | --- | --- | --- |
| `Outbox` | events, outbox and DLQ tables, writers, operators, store statements | RunnerFaults, LoneRunner, LateCommitSkip | `AsyncRunnerProofs` |
| `AsyncRunner` | `AsyncProjectionRunner` over `Outbox`, checkpoints, faults | the same | `AsyncRunnerProofs` |
| `Custody` | abstract: what becomes of a published event | `CustodySpec` in RunnerFaults | `Refinement` |
| `Session` | `Session`, `Repository`, `AggregateRoot`, `PgEventStore.append`, snapshots | KeptSessions, CrossingSaves | `SessionProofs` |
| `CommandBus` | `CommandBus.send` with idempotency and retry over both stores | DuplicateSends | `CommandBusProofs` |
| `ExactlyOnce` | abstract: what a bus promises of a key | `BusIsExactlyOnce` in DuplicateSends, instance in `SagaCommands` | `Refinement` |
| `Saga` | `applySagaTransition`, saga state and timers, `SagaTimerScheduler` | SagaTimers, TimerRenewed | `SagaProofs` |
| `SagaCommands` | saga command queue and `SagaCommandDispatcher` | CommandDispatch | `SagaCommandsProofs` |
| `EventLog` | `append` with the hash chain, late commits, dismissals, detached partitions | LogReaders | `LogReadersProofs` |
| `CatchUp` | `CatchUpProjector` over `EventLog` and the checkpoint store | LogReaders | `LogReadersProofs` |
| `ChainAudit` | `verifyStream`, `PgChainAnchorSealer`, `PgChainAnchorRunner` over `EventLog` | LogReaders | `LogReadersProofs` |
| `LogReaders` | composes the last three | LogReaders | `LogReadersProofs` |
| `Bank`, `BankApi` | banking examples: accounts and transactions; the routes that write | Examples | `ExampleAppsProofs` |
| `TransferProjections` | the transfer chain as three catch-up projections | Examples | `ExampleAppsProofs` |
| `TransferSaga` | the transfer chain as a saga with command handlers and a timer | Examples, SagaStops | `ExampleAppsProofs` |
| `BankingApps` | composes the last four | Examples, SagaStops | `ExampleAppsProofs` |
| `MoneyTransfer` | abstract: a bank that moves money | `MovesMoney` in Examples | `ExampleAppsProofs` |
| `Insurance`, `InsuranceApi` | insurance example: holders, policies, claims; the routes that write | Examples | `InsuranceProofs` |
| `Settlement` | the claim-settlement projection | Examples | `InsuranceProofs` |
| `InsuranceApp` | composes the last three | Examples | `InsuranceProofs` |
| `InsuranceContract` | abstract: what an insurer promises | `HonoursContract` in Examples | `ContractHeld` |
| `Startup` | `migrate()` in several processes, `PgPartitionManager` | Examples | `ExampleAppsProofs` |
| `ExampleApps` | the example programs, one deployed at a time | Examples, SagaStops | `ExampleAppsProofs` |

`...Properties` modules state the properties (and inductive invariants) over a
component, `MC...` modules bind its constants for TLC, `...Proofs` modules hold
theorems.  Operators named `Wrong...` are deliberate mistakes: variants of the
definition they precede that a plausible bug would produce.  The specifications
never use them; putting one in the place of its definition breaks the property the
variant is listed with in `PROJECT.json`.

## 1. The system and its hard parts

**Event store** (`postgres/src/pg-event-store.ts`, `migrations/`).  State: `events`
(with `global_position`, a sequence), `stream_versions` (one row per stream, the
gate for optimistic concurrency), `outbox`.  `append` inserts or updates the gate
row `WHERE current_version = expected`, inserts the events behind it and, if asked,
outbox rows, all in the caller's transaction.  Hard: two appends race for one row;
a sequence value is drawn before the commit, so positions become visible out of order.
Correct when: versions of a stream have no gap and no duplicate; a conflict is
reported exactly when somebody else moved the stream.

**Session and aggregates** (`postgres/src/session.ts`,
`core/src/aggregates/aggregate-root.ts`).  State, in memory: the identity map
(`loadedAggregates`), the queue `pendingOperations`.  Nothing reaches the database
before `saveChangesAsync`, which pulls pending events, appends stream by stream and
takes snapshots in one transaction.  Hard: tracked versions are bumped before the
commit; the queue survives a failed or ambiguous save; two sessions lock streams in
opposite order; an aggregate may be made of a bare snapshot.  Correct when: no event
is decided on anything but the state it follows, stored twice or dropped; snapshots
equal the replay.

**Repository** (`core/src/repository.ts`, `core/src/resilience/with-concurrency-retry.ts`).
The second client of the append gate, one aggregate at a time and without a queue: `save`
pulls the pending events inside the transaction.  Hard: a save that fails has lost them.
Correct when: the same as for sessions, for a caller that loads again after a failure.

**Outbox, DLQ and asynchronous projections**
(`core/src/projections/async-projection-runner.ts`, `postgres/src/outbox/*`,
`postgres/src/projections/pg-projection-checkpoint-store.ts`).  State: `outbox` with
`locked_by` and `attempts`, `outbox_dead_letters`, `projection_checkpoints` per
projection and tenant.  A worker claims a batch in one transaction, processes it in
another (the whole batch, or row by row), and releases failed rows in a third; events
at or below a checkpoint are skipped and acked.  Hard: claims survive their worker;
checkpoint rows are locked by two transactions in different orders; acks, releases
and checkpoints refer to what was read earlier; operators requeue, purge, dismiss and
detach at any time.  Correct when: a projection's effect of an event commits at most
once and only together with the ack, a checkpoint is never behind an effect, nothing
is skipped, every row is resolved.

**Command bus** (`mediator/src/command-bus.ts`, `middleware.ts`,
`mediator-postgres/src/pg-idempotency-store.ts`,
`mediator/src/in-memory-idempotency-store.ts`).  State: one slot per idempotency
key, in a table (and then part of the transaction) or in a Map.  `send` retries a
ConcurrencyError, waits outside the transaction for a key in flight, replays a
completed slot.  Hard: two sends of a key at once, lost answers, retries inside a
claim, cleanup of slots.  Correct when: per key one effect and its result for all,
until the slot is deleted; every send ends.

**Sagas** (`sagas/src/*`, `sagas-postgres/src/*`).  State: `saga_instances` (with a
version for compare-and-set and the last event position), `saga_scheduled_messages`,
`saga_pending_commands`.  Events reach `applySagaTransition` through the projection
runner, timers through `SagaTimerScheduler` (claim in one transaction, deliver and
`markFired` in another), commands leave through `SagaCommandDispatcher` (claim, send
on the bus, ack, release: a transaction each).  Hard: an event and a timer race for
one instance; row locks on instance and timers are taken in both orders; claims
survive their process; an error ends the polling loop; the bus's answer, the ack or
the release can be lost.  Correct when: no transition is lost, nothing is reacted to
twice, every timer and command ends, a command runs once.

**Catch-up projections** (`core/src/projections/catch-up-projector.ts`).  State:
`projection_checkpoints` per projection and tenant.  A round discovers the tenants of
the log and gives each a transaction per pass (read the checkpoint, load a batch, handle
it, upsert the checkpoint) until nothing is left.  Hard: positions become visible out of
order; dismissed events are filtered after LIMIT; two projectors read one checkpoint
without a lock; a tenant that fails must not hold up others.  Correct when: a projector
commits an event's effect at most once, skips nothing but late commits, and catches up.

**Tamper evidence** (`core/src/integrity/hash-chain.ts`, `postgres/src/pg-event-store.ts`,
`postgres/src/chain-anchor-sealer.ts`).  State: `events.event_hash`,
`stream_versions.head_hash`, `event_chain_anchors` and their members.  An append of a
protected aggregate links its events to the head; a sealer chains the heads that have
advanced into an anchor per tenant; `verifyStream` and `verifyAnchors` walk both chains.
Hard: services with chaining on and off append to one stream; both verifications and the
sealer read in several statements; two sealers may run.  Correct when: an alarm has a
cause, a removed event raises one, and every head is sealed in the end.

**Startup** (`postgres/src/pg-migrator.ts`, `postgres/src/tenancy/tenant-resolver.ts`,
`postgres/src/partitioning/pg-partition-manager.ts`).  State: `schema_migrations` and the
schema of each database.  `migrate` reads the applied names once, then runs and records
each file that is left, without a transaction around the two, and may convert `events`
into a partitioned table; a process with a database per tenant migrates all of them side
by side.  Hard: processes start together, or are killed between a file and its record;
some files cannot run twice; the boundary of the first partition must lie above every
position while others write.  Correct when: whoever serves has what it needs, and every
process comes up in the end.

**Banking examples** (`examples/banking-api`, `examples/banking-api-saga`).  State: account
and transaction streams.  A transfer starts with one request and is carried on by three
catch-up projections, or by a saga whose commands withdraw, deposit and complete and whose
timer gives up.  Hard: requests deposit, withdraw and close meanwhile; each step appends to
two streams; projections see events again and out of order; the timer and the commands
race.  Correct when: money is conserved, taken once before it is given once, no account is
overdrawn, and every transfer ends.

**Insurance example** (`examples/insurance-api`).  State: holder, policy and claim streams
per tenant.  Each request loads, decides and appends to one stream; a claim depends on a
policy and a policy on a holder, which are only read; a catch-up projection pays approved
claims.  Hard: what was read may change before the save; two requests decide on one
version; approvals become visible late; ids repeat across tenants.  Correct when: refunds
are covered by premiums, claims by their policies, and a claim is decided once and paid
once, if and only if it was approved.

How they interact: `Session` and `Repository` append through the event store, which
enqueues outbox rows; the runner turns them into calls of projections, of which a saga is
one; a saga's reaction writes commands and timers in the runner's or scheduler's
transaction; the dispatcher hands the commands to the bus, whose handlers use sessions or
the store again.  Catch-up projectors, sealers and verifiers read the log directly.  All of
it shares `PgUnitOfWork` (BEGIN, work, COMMIT or ROLLBACK).

## 2. How code becomes actions

* A step is one awaited statement that other processes can tell apart; what happens
  between two such statements is part of the step before or after.  Isolation is
  READ COMMITTED, PostgreSQL's default, which the code never changes: a
  transaction sees committed rows and its own writes, writes lock rows to its end,
  and a lock wait that closes a circle aborts one of its members.
* A COMMIT can succeed, fail (nothing is visible), or succeed with its answer lost
  (`CommitUnknown`): `withTransaction` (`pg-unit-of-work.ts:28-35`) then rejects
  although everything is visible.
* A crash forgets what was in memory and rolls the open transaction back.
* Time is not modelled.  A timer may be due, a backoff over, a row stale at any moment.
  Where the code asks the operator to choose a window longer than any running work
  (`resetStaleClaimed`, `cleanupTerminal`), the action is taken only if no process
  works on the row.
* Payloads are left out: an event is its position or number, a message the arm of
  its timer, a state the set or list of what was folded into it.
* Faults and operator calls are bounded by a budget (`MaxFaults`, `MaxCrashes`, the
  disruptions of a deployment), and each kind can be switched on separately
  (`Disruptions`, `Faults`, `Exposed`).
* `Deployments` lists what a behaviour may be about: which workers start and how many
  disruptions they meet (`AsyncRunner`), which readers of the log or which example
  programs run (`LogReaders`, `ExampleApps`).  Those that are not deployed never act.

**Outbox / AsyncRunner.**  `AppendEvent`, `EnqueueOutbox` and `CommitAppend` split the
append, since `nextPos` and `nextId` are drawn before the commit.  `pc[w]` follows
`start`: `poll` (claim), `begin` (BEGIN, load events, dead-letter), `work`, `insert`,
`handle`, `set` (checkpoint read, insert, handler, upsert of the current row and
projection), `release` (the catch block), `stopped`.  `claimed`, `unit`, `todo`,
`acked`, `dead`, `handled`, `wrote` are the local arrays and the transaction's writes;
`effects` and `calls` are histories.  `Mode` is `transactionMode`, per worker.  A
deployment also says at which position its events begin, so that the runs with more
disruptions have fewer events.

**Session.**  `order` and `tracked` are the identity map, `ops` the queue.  `BeginSave`
pulls, `ResolveVersion` is `appendUnsafe`'s unlocked SELECT, `AppendOp` and `Reject`
the gate, `Publish` the snapshots and COMMIT.  `NewSession` and `KeepSession` are the
two things a client can do after a failure.  `via` says whether the client works with a
session or with a repository: the latter has one aggregate and no queue, loads an
aggregate also from an empty history, commits an empty save, and has lost the pending
events after a failed one (`Kept`).

**CommandBus.**  One transaction per attempt: `Claim`, `Replay` or `InFlight`, then
`HandlerReturns`, `HandlerConflicts` (a ConcurrencyError with attempts left) or
`Throws`, then `Commit`, `CommitFails` or `CommitUnknown`; `WaitOver` and `GiveUp` are
the in-flight wait, `MaxPolls` being `inFlightWaitMs / pollIntervalMs`.  The claim's
`INSERT ... ON CONFLICT DO UPDATE ... WHERE status = 'failed'` locks the row also
when the WHERE fails, so over the table a second claim always waits for the first
transaction: `in_flight` and `failed` are never seen committed, and the watchdog for
stale slots finds nothing (`NoOrphanedSlot`, a part of `SlotsSound`).  In memory the slot
changes at once and is completed before the COMMIT; if that COMMIT fails, the slot stays
completed without an effect.  The runs and proofs therefore expose the in-memory store to
crashes and lost answers but not to failing commits (`MemoryCommits`).

**Saga.**  `tx[p]` is the transaction of a worker or scheduler: `insert`, `react`,
`write` (cancels, then schedules, then the compare-and-set), `fire`, `commit`,
`release`.  The reaction is any element of `Reactions`, which stands for every pure
reducer.  `mine` and `row` are uncommitted writes and at the same time the row locks.
`todo` orders cancels before schedules as the code does.  `down` is a scheduler whose
`start` has rejected: `start` has no catch, so any error but a version conflict ends
it, and the process manager must restart the process.

**SagaCommands.**  `Look` and `Claim` are one SQL statement: it selects candidates from
its snapshot and then locks them.  For `fifo` PostgreSQL re-evaluates
`status = 'pending'` on a row that changed in between; the locking SELECT of
`fair-by-tenant` (`pg-saga-command-queue.ts:92-104`) only says `id IN (...)`, so a row
that another dispatcher has claimed or settled meanwhile is claimed once more.  The bus
is an instance of `ExactlyOnce`, the specification `CommandBus` is shown to implement.

**EventLog / CatchUp / ChainAudit.**  A second, leaner model of the log, because its
readers need what the outbox does not (hashes, versions, partitions) and nothing of the
outbox.  `AppendBatch` is the whole of `append` for a batch: the gate has already passed,
which `Session` is about.  An HMAC is modelled by what it stands for, the sequence of
all that went into it; `NoHash` is NULL.  `late` is a history of the positions that
became visible behind a later one of their tenant.  `phase[p]` follows
`processTenantBatch`; `active`, `turn` and `passes` are the set `pending`, the rest of
the loop over it and `passes`.  The handlers write in the transaction, so they are one
step with the load.  `stage[z]` follows `seal`, whose three reads are three snapshots
(READ COMMITTED) in spite of its comment; `Vacant` is the primary key of the anchors.
`verifyAnchors` changes nothing and is the operator `AnchorsVerify`.  DETACH PARTITION
waits for every transaction that has touched the table (`Unread`).

**Bank / BankApi.**  `bank` holds the committed streams: `accounts` (what the account
aggregate folds, and its version), `transactions` (the transaction aggregate), and `log`,
the events that move a transfer on, in the order of their positions, with `visible` for
committed and `enqueued` for an outbox row.  A request is two steps, `Ask` (load and
decide) and `Save` (append under the loaded version); in between anybody acts.  A conflict
ends in `Reject`, or in `Retry` on the one route that uses `withConcurrencyRetry`.
`PostTransfer` and `CommitTransfer` are apart, because a position can become visible late.

**TransferProjections / TransferSaga.**  `CatchUp(p)` is one pass of a projection: the
window of the next `BatchSize` events behind its checkpoint, the handlers in their order
(each loads what the one before wrote, as one transaction does), the checkpoint; an error
in one of them rolls all back.  The runner and queue under the saga are the promises that
`AsyncRunner`, `Saga` and `SagaCommands` are checked for: `Deliver` hands an enqueued event
to the saga at most once, `Fire` delivers a due timer once, `Dispatch` runs a command and
settles it, `DispatchFails` counts an attempt.  `Reaction` is `reactToEvent`, `Applied`
what `applySagaTransition` writes for it.

**Insurance / InsuranceApi / Settlement.**  `holders`, `policies` and `claims` are what the
aggregates fold per tenant and id.  A clerk is a request in progress; `desk[d].seen` is what
it loaded.  `Take` loads and decides, `SaveHolder`, `SavePolicy` and `SaveClaim` append;
an approval is inserted and committed in two steps, because the settlement reads positions.
`Again` is a retry of `withConcurrencyRetry`, `Refuse` the answer 400.  `Inboxes` are the
requests a behaviour may see, each once and in any order.

**Startup.**  `starting[p][d]` is where process `p` is in `migrate` for database `d`:
`List` (the one look at `schema_migrations`), `Run` or `RunFails` a file, `Record` it, then
`Finish` and `Convert`.  What a file does is kept where running it again matters: 005, 007
and 008 stand for all, and `Breaks` says which of them fail when.  `Exit` is `Promise.all`
rejecting: the process ends for all of its databases and starts again.  `Write` is an append
of a process that serves; a position in between was rolled back.

## 3. Properties and the runs that check them

Each run is a configuration of the same name.  In every run faults are chosen freely
from the listed kinds up to the bound.

| Run | Question | Instance |
| --- | --- | --- |
| RunnerFaults | Are rows exclusive and effects atomic, once and within the attempt budget, in what order may they commit, and is `Custody` implemented, in batch mode, in per-row mode, and in a mix? | 2 of 4 workers (2 batch, 2 per row), 2 filtered projections, 1 poison event; 4 events with no disruption, 3 with 1 of 11, or 2 with 2 or 3 |
| LoneRunner | Under which conditions is delivery at least once, and is every row resolved, through lock waits and deadlocks? | 1 worker with 2 of 9 disruptions, or 2 with none; 4 events, 2 tenants, 1 open transaction, no requeue |
| KeptSessions | May a session be kept after a failed save? Are there lost updates or wrong snapshots with bare snapshots, dismissed events and repositories? | 2 clients (one also as a repository), 1 stream, 4 events, 2 faults |
| CrossingSaves | Do streams stay gapless, saves end and conflicts have a cause, with saves that lock two streams in opposite order? | 2 clients, 2 streams |
| DuplicateSends | Is the bus exactly-once per key, over either store? | 3 senders of one key, 2 faults |
| SagaTimers | Are transitions serial and reacted to once, and do timers settle? | 2 workers, 2 schedulers, 1 timer, 2 faults |
| CommandDispatch | Is a saga's command neither lost nor run twice, and does it end? | 1 command, 2 dispatchers, 2 faults |
| LogReaders | Do catch-up projectors skip only late commits and finish, is verification exact, are the anchors one chain? | 3 writers, 3 streams, 2 tenants, 3 events; 2 projectors, 2 sealers, 1 verifier in the combinations of `Both` |
| Examples | Is money conserved and does each transfer chain implement `MoneyTransfer`; is the insurer's contract kept; does whoever serves have what it needs? | 2 accounts, 2 transfers, 2 clients over either chain; 2 tenants, 2 clerks, 2 claims and 3 inboxes; 2 processes, 2 databases, 3 histories, 1 kill |
| LateCommitSkip | (violation) at-least-once with two writers | 1 worker, 2 events, no faults |
| TimerRenewed | (violation) a renewed timer is delivered | 1 worker, 1 scheduler, no faults |
| SagaStops | (violation) the saga sees the follow-up events | 1 transfer, 1 client, no faults |

*AsyncRunnerProperties.*  `RowExclusive` relates the workers' arrays to `locked_by`;
`EffectAtMostOnce`, `NoPartialEffect` and `CheckpointCoversEffects` relate committed
handler runs to the three tables; `AttemptBudget` bounds handler calls per row and says
that a dead letter used them up; `EffectsInOrder` says in what order effects may commit
(below); `AtLeastOnce` and `EventuallyResolved` that nothing is skipped or left behind;
`CustodySpec` is the refinement.

Effects of a projection and tenant commit in the order of the log with one exception,
which section 6 describes: a worker may commit a later event after another has read the
checkpoint for an earlier one and before it writes it.  `EffectsInOrder` is as strong as the
code allows.  A run does not start if it is overtaken already; and of the runs of one
transaction only the first per projection and tenant can be overtaken when it commits,
because that run's checkpoint is written, and its row locked, before the next begins.
Without the exception TLC refutes it, with two batch workers, two events and no
fault; the later runs of a transaction are why the run has four events.

*SessionProperties.*  `StreamsGapless`, `EventOnce`, `DecidedOnLatest` (no lost update:
the state an event was decided on is exactly its prefix of the stream),
`SnapshotFaithful`, `NothingDropped`, `ConflictIsReal`, `SaveEnds`.

*CommandBus.*  `SlotsSound` (no slot is left behind, and completed slots and
committed effects agree both ways), `BusIsExactlyOnce` (refinement), `SendEnds`.

*SagaProperties.*  `TransitionsSerial` (every change of an instance appends one delivery
to the state an active row had, one version higher), `DeliversOnce` (nothing is reacted to
twice, and a timer marked fired was delivered), `TimersSettle`.

*SagaCommands.*  `NothingLost` (a deleted row was applied or purged as
failed), `AppliedOnce` (plus once for each time the bus forgot the key), `CommandsEnd`.

*LogReadersProperties.*  `OncePerProjector`, `SkipsOnlyLate` (what
is behind the checkpoint was handled, dismissed or committed late), `CaughtUp`,
`AuditExact` (`verifyStream` says broken if and only if a protected event is gone, is
followed by an unprotected one, or was committed between its two statements),
`AnchorsSound` (an anchor alarm has a cause, and anchors go forward), `HeadsSealed`.

*BankingProperties.*  `MoneyConserved` balances accounts, transfers on their way and
requests that were answered; `AccountsSound` (not overdrawn, closed ones empty);
`MovesMoney` (each chain refines `MoneyTransfer`, whose impatience is the saga's timer);
`TransfersEnd` with its exceptions (section 6); `SagaSeesFollowUps` (violated).

*InsuranceProperties.*  `BooksSound`, `HonoursContract` (routes and settlement refine
`InsuranceContract`), `ClaimsSettled`.

*ExampleApps.*  `ServesMigrated`, `StartsSucceed`.

### Why the bounds are enough

* Two workers, clients, schedulers or dispatchers: every shared row is held by one
  transaction at a time, so a conflict has a holder and a waiter; deadlocks are circles
  of two.  Three senders in DuplicateSends, because a retry can meet the slot of one
  earlier and the transaction of another send.
* Two to four events: out-of-order visibility needs two positions; a batch that mixes a
  healthy and a poison row needs two; two projections that lock two checkpoints in
  different orders need three; a checkpoint two tenants share two transactions over needs
  four (LoneRunner's deadlock).
* `MaxAttempts` 1 or 2 puts the boundary of the attempt check, the retry after it and
  an increment too many within reach.
* A requeue needs a fresh id, hence `MaxId` 4 for two or three events.
* SagaTimers has one timer and batches of one: items of a batch share only their
  scheduler, the time between claim and delivery is arbitrary, and a scheduler can die
  with an undelivered claim, which is what a second item would add.  In CommandDispatch
  one command suffices for the same reason.  `MaxSends` 14 there is never reached.
* `MaxArms` 1 in SagaTimers excludes a renewed timer id; what happens to one is the
  subject of TimerRenewed.
* In LogReaders each behaviour is about one of the deployments of `MCLogReaders`, the
  combinations that interact: two projectors with a writer of two tenants; writers that
  overtake each other; a partition detached under a projector or a verifier; two sealers.
  Projectors and auditors share only the log, which neither changes.  Three positions are
  a batch of two and one that overtakes it, or three anchors; `Poison` is the last of
  them, so that one tenant stalls while the other still has work; `MaxDismissed` is below
  `BatchSize` (section 6).  `MaxBatches` 2 reaches a second pass and the limit.
* In KeptSessions one client keeps its session and the other takes a new one after each
  failure and works on bare snapshots or through a repository; `NothingDropped` is about
  the first.
* In Examples the programs share no state, so each behaviour is about one of them.  One
  transfer empties an account that two requests also use; two transfers cross.  Amounts 0
  and 1 and a refused order are the boundaries the domain tests.  The three inboxes are the
  life of a policy, two claims on one policy, and the same ids with two tenants; one retry
  suffices to decide on a stale state.  A page of one approval makes the settlement stop
  between two.  One process serves a database the other also serves, and another of its
  own; partitions of two positions put the boundary between three writes.
* Runs that stop when everything is done switch deadlock checking off: writers and
  clients may stop for good, and bounded counters run out.

### Fairness

`WF` on the steps of a worker, save, send, scheduler or dispatcher: the event loop
runs on and the database answers.  Waiting for a lock is not a step, so weak fairness
would let a waiter starve behind an endless series of holders; in `Saga`, where timers
are delivered again and again, `TransactionStep` and `MarkFired` get `SF`, because
PostgreSQL grants a row lock in the order of the queue.  `Deadlock` is fair (the
server's detector), `Restart` (the process manager the operational runbook asks for,
`docs/operational-runbook.md:18-21`), and `Watchdog` (the runbook's cron job).  The
rounds of projectors and sealers get `WF`: they are polling loops.  `CaughtUp` and
`HeadsSealed` say what holds in the end when no more is appended.  In `ExampleApps` the
loops behind the routes get `WF` (`Background`), and so does each process that starts
(`StartupStep`), which its process manager starts again when it exits.  Nothing makes
writers, clients, requests, operators or faults act, so an open append of the library's
models need not commit; in the examples a route that has begun to commit ends.

## 4. What is proved

TLAPS checks these theorems for all constants that satisfy the named assumptions, which
only type the constants (and, in `CommandBusProofs`, `MemoryCommits`, section 2).  Seven
theorems have a hypothesis of their own: `OneAtATime`, `TimersScheduledOnce`, and for
sessions `NeverUnsafe`, `Disciplined` and `Plain`.  Each is true of the passing run that checks the
property; for the first two a violating run shows what happens without them, for the
sessions section 6 says what does.

**AsyncRunnerProofs.**  `Invariance` establishes `IInv`: beside the types, `RowInv` (a
position has one row in one of two tables, only once its event is committed),
`ClaimInv` (what a worker has in hand is locked by it or gone), `TxInv` (during a
transaction the rows in hand stay in the outbox, and every handler run belongs to a row
acked or to do), `CkptInv` (a checkpoint row is written by one transaction at a time,
upwards, and past every event the transaction handled), `EffectInv`.  `EffectAtMostOnce`
is not inductive alone: that a second worker cannot repeat an effect follows because an
effect commits with the deletion of the only row of its position, or is at or below the
checkpoint when the event is requeued.  From `IInv` follow `TypeCorrect`, `Exclusion`,
`AtMostOnce`, `NothingPartial`, `CheckpointCovers`, `CheckpointNeverBack` (no commit moves
a checkpoint back), and `Refinement`: every step maps to a move of `Custody` or a stutter.

`OrderedEffects` (`EffectsInOrder`) adds `TurnInv` in two halves.  What a worker is about to run
lies ahead of what its own transaction wrote, so a handler never follows one of a later
event in a transaction.  And a run that is not the first of its transaction is not
overtaken, because the checkpoint row is locked by then: another worker's commit would hold
the same lock (`NotOvertaken`), and one before the lock was taken would be at or below the
checkpoint it wrote (`TurnHandles`).

`BudgetKept` (`AttemptBudget`) adds `BudgetInv`: the invocations of a handler for an event
never exceed the attempts counted in the row, which is where it can be wrong, because the
count is taken in the claim, in another transaction than the handler.  While a row is in
hand its attempt is counted and the projections still to invoke are known; a lost claim, a
failed release or a crash only leaves attempts unused.

`Delivery` (`AtLeastOnce`) is the converse of `AtMostOnce`, and needs `OneAtATime`: one
worker, batch mode, writers that commit one at a time, no requeue.  Without any of the four
TLC finds a lost event (with two writers it is run LateCommitSkip).  `OrderInv` says why
they are enough: the batch is all the runner holds, and it deals out all of it
(`AloneInv`); positions are committed in the order of their rows, and a checkpoint is one of
those committed (`LineInv`); so what the runner has in hand, and may claim, lies ahead of its
checkpoints (`AheadInv`), and an event that is settled was processed by everyone who wants
it (`DoneInv`).

**SessionProofs.**  `Gapless` from `TxOk`: a transaction that bumped a stream is its only
holder and its events continue the committed version.  `TypeCorrect`.  Both cover sessions
and repositories.  `StoredOnce` (`EventOnce`) is about sessions that are kept after a failed
save, and is not obvious after an ambiguous commit, when what was stored is still queued.
`OwnInv` says that an unsaved event is the session's own and is in one place of its queue or
of one aggregate, `WroteInv` that a transaction has written what its operations up to `at`
hold.  `SpentInv` carries the argument: a queue with a stored event begins with an operation
that can never run again, because the commit that stored it moved the stream past the
version it expects (`Stuck`), and versions only grow.  That needs `NeverUnsafe`: an operation
of `appendUnsafe` expects no version.

`NoLostUpdate` (`DecidedOnLatest`) and `SnapshotsFold` (`SnapshotFaithful`) rest on one
invariant, `DecideInv`, because an aggregate may be loaded through a snapshot and a snapshot
is taken from an aggregate.  The check at the save compares versions only, so what has to be
carried from the load to the commit is what the version stands for: `KnownAt` says that the
state of an aggregate is the fold of its stream up to some version and of what it has raised
since, that each of its unsaved events was decided on the part before it, and that the first
operation on the stream (or the aggregate, while there is none) expects just that version.
Later operations do not: they are behind it in the same save.  At the commit every operation
has run (`DoneInv`), so the version it was known at is the committed one (`CommitsLatest`),
and the events are stored in the order they were raised in (`SortedInv`, `InOrder`).  A queue
that expects a version the stream has left behind is `Doomed` for good, and nothing need be
known of it: that covers what is kept after an ambiguous commit.  `Disciplined` is needed:
state is decided on after it was loaded, not appended to blindly, and a session that is kept
after a failed save neither loads bare snapshots nor is a repository's.

`SavesEverything` (`NothingDropped`) adds `HeldInv` to it: what a session has made and not
saved is in its queue or pending in an aggregate.  The theorem is that the operations of a
save take all of it along and that a commit finds all of them run.

`ConflictsAreReal` (`ConflictIsReal`) is the converse of the version check, that it rejects
nothing it need not.  `UpToDate` says what a session expects of a stream that nobody has
overtaken it on: its first operation on the stream, or the aggregate while there is none,
expects the version the stream has.  Later operations expect what is stale once the first has
run, which `SaveInv` tells from a conflict, as it has bumped the stream by then.  A commit
keeps `UpToDate` for its own session, because `Advanced` moves the aggregate along with the
stream, and overtakes every other.  This covers `append`, `appendUnsafe` and repositories, but
needs `Plain`: no session is kept after a failed save, and nothing is loaded below the
version of its stream, as a bare snapshot or an aggregate with a dismissed last event is.

**CommandBusProofs.**  `Invariance` with `NumberInv` (open sends have distinct numbers),
`EffectInv` (effects belong to sends that are over), `MemoryInv` and `TableInv` (the slot
in the Map, or the row lock, keeps other sends out).  From it `TypeCorrect`, `SlotsHold`,
`Refinement` (the bus implements `ExactlyOnce`).

**SagaProofs.**  `Invariance` establishes `IInv`: beside the types, `StoreInv`, one `ProcInv`
for each process and `Apart`.  A row has one writer at a time (`Apart`).  A version that is
still there means the row that was loaded (`Loaded`), because versions of a row only grow
and an insert, which sees no row, holds the key until it ends; so what a transaction has
updated it decided on the row as it is (`Holds`).  From it `Serial` (`TransitionsSerial`):
each commit extends the committed state by one delivery, and a completed instance changes
no more.  `EventReactsOnce`: an instance reacts to an event once, as `last_event_pos`, which
is written under the same version check, forgets none.  `Once` (`DeliversOnce`) is the same for
timers and for the mark `fired`, which are in another table: `OnceInv` follows a timer's arm
from its claim to its end.  It needs `TimersScheduledOnce`, that is `MaxArms` is at most 1:
`markFired` and `release` look at the key alone, so an arm that is scheduled under an id that
is in use is fired unseen (run TimerRenewed), or unclaimed while it is being delivered.

**SagaCommandsProofs.**  `CommandsKept` (`NothingLost`) and `CommandsApplyOnce`
(`AppliedOnce`).  A dispatcher that acknowledges has seen its handler commit (`AckInv`), and
the bus holds a key as applied from the first run until its cleanup forgets it (`KeyInv`); the
number of dispatchers that hold a row, which is not bounded under `fair-by-tenant`, does not
matter.  The bus is `ExactlyOnce`, which `CommandBusProofs!Refinement` justifies.

**LogReadersProofs.**  `Invariance` establishes `IInv` for the log and all its readers at
once.  `LogInv` is about the writers: a stream has all versions up to its own at growing
positions (`StreamInv`), its hashes grow from genesis to the stored head (`ChainInv`), and an
open append still follows what is committed, because the stream is locked (`TxInv`).
`ReadersInv` is about projectors: a batch lies ahead of the checkpoint it was loaded from and
has no hole but what was dismissed or late (`BatchInv`), and what a projector has handled is
behind its tenant's checkpoint and behind where it reads from (`HandledInv`); the row of the
checkpoint has one writer at a time.  From it `ProjectedOnce` (`OncePerProjector`) and
`NothingElseSkipped` (`SkipsOnlyLate`).  `SealInv` says that whatever a sealer has read or
sealed belongs to a row that was committed, which no later step can undo, and so
`SealsSound` (`AnchorsSound`): the primary key makes the second of two sealers fail, so the
delta of the first is still one when it is inserted.  `AuditsExactly` (`AuditExact`) needs the
lengths of the hashes only: a walk that begins with a hash of length one and ends at the
stored head begins and ends where the chain does, and what a verifier has read is a lower
part of the stream (`ReadInv`), so there is nothing of the chain outside of it.

**InsuranceProofs.**  `BooksHold` and `ContractHeld`, for any tenants, ids, requests, number
of clerks and page size.  The inductive invariant is `InsuranceInv`, that is `BookTyped`,
`BooksSound` and `DeskInv`; the last carries the argument.  A clerk decides on what it
loaded, so `BooksSound` alone says nothing about the save.  But a stream only changes
together with its version: what was seen at the stream's present version is the stream
(`DeskOK`), and the version check at the save makes the decision one about the stream as it
is.  An inserted approval keeps its stream locked until it ends (`ApprovalOK`), so its
commit needs no second check.  What a decision reads of another stream is of a kind that
stays true: a holder who was verified, a policy's coverage.  `ContractHeld` maps each step
to a step of `InsuranceContract` or a stutter under the same invariant.

**ExampleAppsProofs.**  `ServesWhatItNeeds` (`ServesMigrated`): what a process has run on a
database is its plan less what is left of it (`OnItsWay`), and a database only gains, so
neither another process nor a restart takes anything back; a name that is recorded was run.

`NoAccountIsOverdrawn` (`AccountsSound`) and `MoneyIsConserved` (`MoneyConserved`) hold for any
accounts, transfers, clients, amounts and batch sizes, and over either chain.  Their
invariant is `BankingInv`.  `Sound` is about a bank: accounts are typed, which keeps them from
being overdrawn, and each event of a transfer that moves money is in the log once, for a
transfer that was posted, the deposit not without the withdrawal.  The rest says why no
step adds a second one.  A request decides on what it loaded, and an account that is still
at that version is what it loaded (`Decided`).  What a projection made, it made of an event
at or below its checkpoint (`CaughtUp`), and its batch lies above; `Midway` carries that
through a batch, one event after the other.  In the saga a transfer has one command to
withdraw, because its event is in the log, and delivered, once; a pending one has not
taken effect (`CommandsSound`).  Every piece of work then leaves what the bank holds as it was (`Worked`),
and a request that is saved changes it by what it answers.

`ExamplesMoveMoney` (`MovesMoney`) maps each step to a step of `MoneyTransfer` or a stutter.
The balance, order and phase of a transfer are read off the bank, and three facts beyond
`BankingInv` make the phases move as the abstract bank allows (`MoneyInv`).  The status of a
transaction agrees with the log (`StatusSound`).  Over the projections a refused transfer was
never taken, and its order lies below the checkpoint, so nothing takes it later
(`RefusedSound`).  Over the saga an instance that runs has its timer set, and behind every
failure there is a fired timer or a command to withdraw that was tried (`SagaSound`).  A
batch commits several transfers in one step: along it each transfer that was touched has
come one phase further and the others are as they were (`Along`), and every balance differs
from the one before the batch by the amounts that left it and reached it (`Balanced`).
Once a timer has fired, a transfer whose money is taken may be failed, and one that was
failed may still be taken from: these are the two moves that `impatient` allows, and the
proof needs both.

Induction over data is beyond the provers only in the form the library gives it, as a
theorem about an operator.  The sums over accounts, transfers and requests and the banks
along a batch are shown with `Counting`: a set of numbers with 0 and the successor of each
member is all of them, from the least element of its complement (`WFMin`).  A sum is then a
function that every order of adding agrees with (`SumsOf`), which exists and is unique.

Only model-checked: the liveness properties (`EventuallyResolved`, `SaveEnds`, `SendEnds`,
`TimersSettle`, `CommandsEnd`, `CaughtUp`, `HeadsSealed`, `TransfersEnd`, `ClaimsSettled`,
`StartsSucceed`), which need fairness and are outside the prover.  Every other property of
the passing runs is stated by a theorem.

## 5. Disagreements between code and documentation that a run shows

* **LateCommitSkip.**  A writer that commits late publishes a position below the
  checkpoint, which the runner skips and acks, with a single worker and no fault
  (`async-projection-runner.ts:205`); `README.md:210` of the repository promises
  at-least-once.  LoneRunner shows a sufficient condition.
* **TimerRenewed.**  `markFired` (`pg-saga-timer-store.ts:139-144`) updates whatever row
  has the key.  A timer id that is scheduled again while its earlier arm is being
  delivered, in particular by `reactToTimer` itself, is pending for a moment and then
  fired without a delivery; scheduling again is the documented way to renew a timer.
* **SagaStops.**  The saga example's command handlers append `WithdrawalCompleted` and the
  other follow-ups without `enqueueOutbox`
  (`examples/banking-api-saga/src/sagas/funds-transfer.handlers.ts:67,90,139,218`), so no
  outbox row is written and the saga, which the outbox runner feeds, never reacts to one.
  `DepositToAccount` is never emitted, and after 30 s the timer fails a transfer whose
  money has been taken.  `examples/banking-api-saga/src/app.ts:108` and the `README.md:41`
  beside it say that the saga reacts to each follow-up.

## 6. Other limitations met while modelling

The properties hold in the instances above because these cases are outside of them;
none is hidden by the model, each appears when the named constant is changed.

*Outbox and runner*

* Per-row mode rethrows after a failed row, and the rest of the claimed batch stays
  locked (`async-projection-runner.ts:315`; `docs/projections/async-projections.md:127`
  says the others continue); a crash after the claim, a failed release, or (in batch mode)
  a row whose event is archived leave rows locked for good too, and the outbox has no
  watchdog: `Stranded`, the exception of `EventuallyResolved`.
* Two workers, or a requeue behind the checkpoint (`docs/outbox-and-dlq.md:296`), make
  the runner skip events: `AtLeastOnce` is stated for one worker, and LoneRunner has no
  `requeue`.
* The read of a checkpoint takes no lock (`async-projection-runner.ts:204-208`), and where it
  finds no row the checkpoint counts as 0 whatever another worker has committed meanwhile
  (`pg-projection-checkpoint-store.ts:22`).  Another worker may commit a later event of the
  tenant before the first write of the transaction, and the earlier event is handled and
  committed after it: its effect comes late, though once, and the checkpoint stays at the
  later position.  `docs/projections/async-projections.md:223` promises "**Ordered.** Rows
  are claimed in `id` order, preserving insertion order within a topic"; with more than one
  worker that is not the order of effects.  `EffectsInOrder` leaves room for just this.
* A failing batch counts an attempt for each of its rows, so healthy rows can end in the
  DLQ together with a poison one.

*Sessions and repositories*

* A save that appends to a stream the session has not loaded stores a snapshot of its
  own events only (`session.ts:680`): `SnapshotFaithful` with the operation `append`.
* A session that appends to a stream and has its aggregate loaded, too, moves the version of
  the aggregate past an event its state does not have (`session.ts:651`), and the next
  event it raises is decided without it: `DecidedOnLatest` with the operation `append`.
* `loadSnapshotAsync` replaces a tracked aggregate and its pending events
  (`session.ts:457`); `NothingDropped` is stated for clients that do not call it.
* An aggregate whose last event was dismissed is behind its stream for good and every
  save conflicts: `ConflictIsReal` with `dismiss`.  So does a save on a bare snapshot that is
  older than its stream: `ConflictIsReal` with `loadSnapshot`.
* A session that is kept after a failed save, and then calls `loadSnapshotAsync`, submits
  its old operations with the bare snapshot in the map, and stores that as the snapshot of
  the new version: `SnapshotFaithful` with `Reuse` of a client that uses `loadSnapshot`.
* A session that is kept after an ambiguous commit stores the events of an `appendUnsafe`
  again (`session.ts:717` clears the queue only after the commit is known): `EventOnce` with
  `Reuse` of a client that uses `appendUnsafe`.
* `Repository.save` called again on an aggregate whose save failed stores nothing, or
  events decided on state that was lost: `NothingDropped`, `DecidedOnLatest` and
  `SnapshotFaithful` with `Reuse` of a client that uses `repository`.
  `with-concurrency-retry.ts` asks for the whole cycle of load, decide and save to be
  repeated, which is what the runs do.

*Command bus and sagas*

* A completed in-memory slot whose transaction fails to commit answers later sends with
  a result that was never stored: `SlotsSound` with `commitFails` in memory.
* Cancelling a timer that is already claimed does not stop its delivery; a saga event
  that arrives after a later one is dropped (`saga-runner.ts:115-120`).
* Two dispatchers can hold one command under `fair-by-tenant` (section 2); effects are
  not repeated, but one may release or fail what the other has just settled.
* A requeued command runs again if the bus's cleanup has deleted its slot.
* The comment on `SagaTimerScheduler` (lines 111-114) says orphans are marked fired; the
  default is to mark them failed.

*Catch-up and tamper evidence*

* `loadGlobal` filters dismissed events after LIMIT (`pg-event-store.ts:512`), and an
  empty result ends the tenant's round without moving the checkpoint
  (`catch-up-projector.ts:131`): `batchSize` dismissed events in a row stall a catch-up
  projection for good: `CaughtUp` with `MaxDismissed` of at least `BatchSize`.
* A catch-up projector never reads an event that commits behind its checkpoint (`late`),
  and a second projector of one projection repeats effects.
* An append that commits between `verifyStream`'s two statements makes it report a
  broken chain; so does, for good, an append from a service that has chaining off for the
  aggregate, and `verifyAnchors` fails with it, although the comment at
  `chain-anchor-sealer.ts:16-18` excludes false alarms.
* Detaching a partition with protected events fails both verifications;
  `docs/tamper-evidence.md` calls partitioning fully compatible.

*Startup and partitions*

* 008 adds a constraint by name, and the `ON CONFLICT` of 005 names columns that are no
  key after 008, so neither runs twice.  A process that is killed after 008 ran and before
  it is recorded (`pg-migrator.ts:152-160`) blocks every later start, the exception of
  `StartsSucceed`; so does a process whose other database fails at that moment, without a
  kill.  `docs/schema-reference.md:48` calls all migrations idempotent, and the comment at
  `pg-migrator.ts:77` says that every startup may call `migrate`.
* Of two processes that convert one table the second fails on the existing `events_p0`,
  and starts again.
* `createPartition` says IF NOT EXISTS: for a range that was detached it does nothing and
  reports success.

*Examples*

* A transfer to an account that is closed meanwhile makes the deposit projection throw for
  ever, and with it the batch of every transfer behind; a `TransactionStarted` that commits
  behind the checkpoint is never seen: the exceptions of `TransfersEnd`.
* The saga's timer gives up a transfer whose money is taken (`lost` in `MoneyTransfer`);
  nothing refunds it, and every transfer ends there (SagaStops).  It may also fail a transfer
  while its withdrawal is waiting, and the money is taken afterwards: `MovesMoney` says that a
  refused transfer moves nothing only until a timer has fired, and then allows
  `refused` to become `lost`.
* In the insurance example only the written stream is checked: a policy may be issued to a
  holder who is suspended at that moment, a claim submitted on a policy that is being
  cancelled; `InsuranceContract` allows it.  The comment at `claim.routes.ts:44` says the
  policy must cover the incident date, which no code looks at; the claims of one policy may
  exceed its coverage together; a premium that is sent twice counts twice.

## 7. Not modelled

Left out because it changes no shared state or decides nothing: query builder, event
helpers, the lookup of tenant resolvers, OpenTelemetry observers, observer hooks, backoff
delays, upcasters, listings and statistics, the Express example.  In-memory saga stores are
test doubles.  Of the bus, the tenant gate and the modes without idempotency are left out,
of the scheduler the option that discards orphans, of the saga state store `reactivate` (no
code sets the status `failed` it needs), of the repository `forceSnapshot`, of the session
the inline projector, whose failure is a failed save.  Of the examples, the customer
routes, the e-mail, notification and audit projections, and the routes that read or
administer are left out: the first are `Session` once more, the second `AsyncRunner` and
`CatchUp`.  The migrations that may run again are left out of `Startup` beside 005, 007 and
008.  `docs/sagas.md` leaves ordering to the saga author, so no ordering property is stated
for events a saga reacts to.
