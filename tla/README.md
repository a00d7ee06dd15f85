# Verification of devengine in TLA+

devengine is a Go library for services on PostgreSQL: a process engine, a durable
job queue, a transactional outbox, migrations, transactions, health checks, schema
snapshots, mail and some HTTP helpers. This directory holds TLA+ modules for the
parts that keep state shared by goroutines, processes or sessions of the database, and for
the resolution of client addresses; the TLC configurations that check them on small
instances; and TLAPS proofs of the safety properties for instances of any size.

`PROJECT.json` lists the components, the runs, the line ranges each definition
models, the hazards of the code and the theorems.

## The system

| Component | State | Operations | What is hard | What makes it correct |
|---|---|---|---|---|
| `jobs` | table `devengine_jobs`; per worker the claimed batch, the current job, its renewal goroutine | `Enqueue`, `Worker.Run` (claim, renew, handle, delete / retry / fail), `RequeueFailed`, `DiscardFailed` | several workers, leases that run out, crashes, statements executed after their caller gave up | one owner, attempts counted once, acknowledged only when completed, everything settled |
| `outbox` | table `outbox_messages`; per relay as for a worker, plus how far it is among the handlers | `Enqueue`, `Relay.Run` | the same, with several handlers per message | implements an abstract queue: delivered before done, limit respected, settled messages stay so |
| `engine` | modules, workers, `started`, the run context, `errCh`, one goroutine per worker and one for the server | `Register`, `AddWorker`, `Run` | registration races with start, several failures at once, workers that ignore their context | nothing changes after start, no error lost, `Run` returns and names who is left |
| `health` | checks, generations, `running`, last results; requests and their probes | `Add*`, `Remove`, `Handler`, `Snapshot` | overlapping requests, checks that hang, replaced checks | one run at a time, no stale results, every request answered |
| `migrate` | advisory lock, metadata table, one session per process | `Apply`, `Status` | several processes and releases, death around COMMIT | each migration committed once, in order, with its record |
| `postgres` (tx.go) | the transaction, its savepoints, the retry loop | `WithTransaction`, `WithTransactionOptions` | lost answers to COMMIT, nested calls that fail, contexts that end at some level | one attempt is committed, the result is true, failed nested calls leave nothing |
| `schema` | a snapshot being filled, a baseline | `Capture`, `UnmarshalSnapshot`, `Diff`, `Report` | the schema changes between the queries of a capture, old file formats | drift reported exactly when there is some |
| `events` | handlers per event type, `frozen` | `Register`, `Freeze`, `HandlersFor` | registration races with the start of a relay; what "the same handler" is | a handler gets all events of its type or was refused |
| `jobs` (registry) | handler per name | `Register`, `Replace`, `HandlerFor` | used while jobs run | only `Replace` overwrites |
| `mail` | per call: a context, a connection, a goroutine that closes it | `NewSMTP`, `Send` | servers that hang, answers that are lost, cancellation | the result is true, `Send` returns in time |
| `httpx/clientip` | none (immutable resolver) | `New`, `Resolve` | four header formats, quoting, several lines, chains | the nearest untrusted hop, or the peer |
| the rest | none shared | `config`, `secrets`, `telemetry`, `id`, `httpx`, `cmd`, test helpers | | |

The parts interact through the database and through contexts. The engine runs the
jobs worker and the outbox relay as workers: it cancels their context and waits for
them, which is `Cancel` and `Exit` in `Jobs` and `Outbox`. Both queues are filled in
the transaction of the caller (`Tx`); a row that is visible has been committed, so
that `Enqueue` is one atomic step of the queues. The relay asks the `events` registry
for handlers and freezes it when it starts. Migrations create the tables before workers run.

## Modules

| Module | Models | Notes |
|---|---|---|
| `Jobs` | `jobs/worker.go`, `jobs.go`, `repository.go` | one action per SQL statement or goroutine step |
| `LeasedQueue` | the promise of a queue | abstract: no workers, leases or tokens |
| `Outbox` | `outbox/outbox.go` | refines `LeasedQueue` |
| `Engine` | `engine/engine.go` | |
| `Health` | `health/registry.go` | |
| `Migrate` | `migrate/migrate.go` | |
| `Tx` | `postgres/tx.go` | |
| `Schema` | `schema/schema.go` | |
| `Registry` | `events/events.go`, the registry of `jobs/jobs.go`, start and delivery of `outbox/outbox.go` | |
| `Mail` | `mail/smtp.go` | |
| `ClientIP` | `httpx/clientip/clientip.go` | a pure algorithm and its reference |
| `JobsProofs`, `OutboxProofs`, `EngineProofs`, `HealthProofs`, `MigrateProofs`, `TxProofs`, `SchemaProofs` | | TLAPS proofs about the module of that name |
| `PartsProofs` | | TLAPS proofs about `Mail` and `Registry` |
| `MC*` | | instances for TLC; `MCService` puts `Health` and `Migrate` side by side, `MCParts` `Engine`, `Tx`, `Schema`, `Registry`, `Mail` and `ClientIP` |

Operators whose comment begins with *Faulty* are deliberately wrong variants of the
definition below them (a forgotten guard, a dropped condition). They are not used by
any specification; each one, put in the place of the definition, makes TLC find a
property violated, and shows that the property depends on the code.

### Jobs

`job` is the table. A worker `w` is at `pc[w]`: `poll`, `handle`, `record` or `exited`;
`prefix[w]`, `batch[w]`, `cur[w]` and `result[w]` are the local variables of
`processBatch`, `renewal[w]`, `cancelled[w]` and `ctxDone[w]` the renewal goroutine and
the two contexts. `Claim` is the UPDATE ... RETURNING together with the loop that
follows; `RenewSend`, `RenewReply`, `RenewError` are one tick of the renewal;
`HandlerReturn`, `StopRenewal` and `Record` are the end of a job in the order the code
has them. `ClaimLost`, `RecordError`, `Cancel`, `Crash`, `Restart` are what may go wrong.

*Statements.* A statement is atomic and guarded by its WHERE clause (`Matches`). If its
caller stops waiting (context cancelled, connection lost, process dead), it has been
executed, never will be, or is put into `orphans` and executed later (`OrphanLands`).
This is what makes the claim token necessary, and most properties interesting.

*Time* is relative: `run_at` and `locked_until` are the time left, `Tick` lets one unit
pass. A worker may be arbitrarily slow.

*Tokens* are drawn from a finite set; `FreshPrefix` picks one that no worker, row or
orphan has, as a UUID would be. Tokens are therefore reused only when nobody can tell.

### Outbox and LeasedQueue

`Outbox` has the same structure. It differs where the code does: a message is delivered
to a sequence of handlers and one error fails the delivery; settled messages stay in the
table; `stop` waits for a renewal that is under way. `LeasedQueue` knows only items that
are absent, waiting, done or dead, a count of failures and a limit. The mapping reads the
first two from the row and `delivered` from the history of completed handlers; leases,
tokens, relays and orphans are stuttering steps.

### Engine

Registration by several callers (`Register`, `AddWorker`, `ModuleFails`,
`ModuleRegistered`; the mutex is not held while the module runs), then `Run`: `Start`,
the `select` on context and `errCh` (`SelectDone`, `SelectError`), `Shutdown`,
`waitForWorkers` (`WaitNext`, `WaitTimeout`), `Drain`. Each worker and the server is a
goroutine of three steps: return, report, cancel. Timeouts are choices.

### Health

A request (`Serve`, `Launch`, `Receive` / `Timeout`, `Collect`, `Respond`) and, apart from
it, the goroutine of each check (`CheckReturns`, `CheckClears`), which may never return.
`generation` tells a check from the one that replaced it.

### Migrate

`Apply` statement by statement for each process: lock, load, inspect, execute, record,
commit, unlock. `Lose` separates a client from its session; the server ends the session
later (`SessionEnds`), with or without the COMMIT that had been sent. `Status` is one SELECT
without the lock; it is an operator of the table, and `SuccessComplete` and
`FailureExplained` relate what it reports at any time to what `Apply` returned.

### Tx

The retry loop (`Begin`, `AttemptFailed`, `Wake`, `GiveUp`) around a stack of levels, the
transaction and its savepoints. A callback is arbitrary code: it may execute statements,
nest, ignore errors, return any error or panic, at any point. Of pgx the module assumes
that a statement is not sent under a context that is done, that a failed statement
aborts the transaction up to the next rollback to a savepoint, and that a transaction
that was not committed is rolled back when its connection is given back or closed.
A retryable SQLSTATE is taken to mean that the server rolled back.

### Schema

The catalogue is what the five queries of `Capture` return; each query is an action, and
DDL of others may come in between. The query for constraints does not ask for ordinary
tables, as those for columns and indexes do, so a partitioned table shows up in it alone
(`CreatePartitioned`). A column is compared field by field. A label of an
enum is the sequence of its comma-separated words, so that `Join` is concatenation; a label
without a comma is one word (`PlainLabels`). `View`, what drift is measured by, has the lists
of labels themselves and does not join them. The
sorting of the entries is left out: their keys are distinct, so `Compare` is a set.

### Registry

`RegisterEvent` is a call of `Register` that returns nil; the others change nothing. A
handler is a record whose form decides what `sameHandler` makes of it: comparable values by
equality, a `HandlerFunc` by its type, as written, and the code of its function (two
closures of one function literal are the same), other values never. What `EventType` returns
is a name with or without blanks around it: `TrimSpace` yields the name, and `sameHandler`
compares types as written. `RelayStarts` freezes; a delivery takes the list of handlers (`DeliverStarts`) and calls one after the other.

### Mail

`Send` goes through the operations its errors are named after (`Operations`, without those
the configuration does not ask for). Each succeeds, fails, or is interrupted. The context,
the deadline of the connection and the goroutine of `closeWhenDone` are on their own. The
end of the data is sent by `FinishSent`, and the server may accept the message at any time
after that (`MessageAccepted`), be it that `Send` has returned. Messages, addresses and
certificates are abstracted; a refused address is `SendRefused`.

### ClientIP

A header value is a sequence of symbols: separators, quotes, escapes, `for=`, other names,
control characters, and the text of a node, which is one symbol that is known to stand for
an address in some notation, or for none (`Written`). White space is left out, the code
trims it. `ScanSymbol`, `ParseElement`, `ParseForwardedNode`, `ParseHeader` and `Resolve`
follow the code. They do so symbol by symbol because that is where a resolver goes
wrong: a comma within quotes, an escaped quote, a parameter before or after `for`, a line
that ends within an element. The requests are rendered from hops, and the properties compare
the result with what the hops meant by the documentation (`Meant`), which they know without
parsing. `Unlisted` are the forms that the code accepts and the documentation does not
admit: `NearestUntrustedHop` leaves them out, `NearestDocumentedHop` does not and is violated.
In the requests the quotes of a header line are balanced.

### MCService and MCParts

`Engine`, `Tx`, `Schema`, `Registry`, `Mail` and `ClientIP` have no state in common and do not
call each other. `MCParts` is their sum: a behaviour is one of a single part, chosen at the
beginning, while the variables of the others keep their initial values. `MCService` is the
same for `Health` and `Migrate`.

## Runs

| Run | Checks | Size |
|---|---|---|
| `jobs_safety` | types; `SnapshotFresh`; `FailedExhausted`; `AttemptStep`; `AckedOnlyAfterSuccess` | 1 job, 2 workers, 2 disturbances |
| `jobs_backlog` | `SingleOwner`; `LeaseRespected`; `BacklogSettles`; `ShutdownCompletes`; `LostLeaseCancels` | 2 jobs in one batch, 2 workers, 1 disturbance |
| `jobs_failed_is_permanent` | **violated**: only `RequeueFailed` revives a failed job | as `jobs_safety` |
| `outbox_safety` | types; `SnapshotFresh`; `ImplementsLeasedQueue`; `LeaseStillAfterStop` | 1 message, 2 handlers, 2 relays, 2 disturbances |
| `outbox_backlog` | `BacklogSettles`; `ShutdownCompletes`; `LostLeaseCancels` | 2 messages, 2 relays, 1 disturbance |
| `service_start` | readiness: `SingleFlight`, `ResultsOfRegistered`, `ReadyMeansChecked`, `ProbesEnd` | 1 name, 2 requests, 3 generations |
| | migrations: `AppliedOnce`, `SuccessComplete`, `FailureExplained`, `AppliedInOrder`, `ApplyEnds` | 4 processes of different releases, 2 faults |
| `health_busy_after_return` | **violated**: a check is "already running" only while it runs | as `service_start` |
| `independent_parts` | engine: `ModulesDistinct`, `NoReportDropped`, `CleanReturn`, `UnfinishedNamed`, `RunReturns` | 3 profiles, 2 callers, 1 module, 2 workers |
| | transactions: `OneAttemptCommitted`, `ResultHonest`, `NestedUndone` | 2 attempts, savepoints two deep, 4 writes |
| | schema: `DriftDetected`, `PartsTrue` | 1 ordinary and 1 ignored table, 2 changes, both file formats |
| | registries: `AcceptedHandlersRun` | 8 handlers, 2 relays, 3 registrations; 2 job names |
| | mail: `SendHonest`, `SendEnds` | all configurations, 2 calls |
| | client addresses: `NearestUntrustedHop` | some 7,000 requests |
| `engine_failure_masked` | **violated**: the failure that stopped the run is returned | as `independent_parts` |
| `engine_silent_exit` | **violated**: a worker that returns before shutdown is noticed | as `independent_parts` |
| `schema_enum_drift_missed` | **violated**: every change of an enum is reported | as `independent_parts` |
| `clientip_unlisted_forms` | **violated**: nodes of `Forwarded` have one of the documented forms | as `independent_parts` |

`EngineTypeOK`, `HealthTypeOK` and `MigrateTypeOK` are not part of a run: the other properties
fail to evaluate in an ill-typed state. They are proved, as part of the inductive invariants.

`RunReturns` and `ProbesEnd` say in one formula what must happen once a run is to end, and
once a request or a check waits. For `ProbesEnd` that is `[]<>`: requests are served once and
start a check once, so that, if there is always a later state in which nobody waits, none
waits for ever.

### Bounds

- *Two workers, one job* (or a batch of two) suffice for a claim to be lost and taken
  over, for a late statement of the first owner to meet the row of the second, and for a
  job to run out of its lease while it waits behind another.
- The proofs (below) remove these bounds, and those on faults, generations, depth, writes,
  changes and calls, for the properties they are about.
- *`LeaseDuration` is 2*: one tick leaves a lease that can be renewed, the second ends it.
- *Tokens* are seven: more than two workers, the row and the orphans can hold at once, so
  that `Claim` is never blocked for want of one.
- *`MaxFaults`* bounds shutdowns, crashes and lost statements together. Two are enough
  for a crash after a lost statement. The liveness runs have one, to keep the state graph
  small enough for the search for cycles.
- *`MaxAge`* is 0: the order of overdue jobs does not matter with jobs due at once.
- *`MaxGeneration` 3*: a check is added, replaced and added again after its removal.
- *`MaxDepth`, `MaxWrites`*: a savepoint within a savepoint, with writes before, in and
  after it, and a second attempt that writes.
- *`MaxAccepted` 3*: a duplicate of the first handler after a second one; `MaxSends` 2: a
  retry, with the first message still on its way. Faults of `Mail` are not bounded.
- *`MaxHops` 3, `MaxHeaderBytes` 13* instead of 32 and 8192: the requests have one to four
  hops on one or two lines, in every notation, and headers on both sides of either limit.
- *`MaxDdl` 2*, from an empty catalogue or one with an object of each kind: one change
  before or during a capture and one after it. The labels of an enum are `a` and `b`, `b`
  and `a`, or the one label `a,b`.
- Workers (relays) are declared symmetric in the runs without liveness only.
- Runs say `CHECK_DEADLOCK FALSE` where the system comes to an end: `Run` and
  `WithTransaction` return, a mail is sent or given up, a settled backlog without disturbances left is the last state,
  requests are answered.

### Fairness

Steps of the code's own goroutines, and answers of the database, are weakly fair: a
goroutine that can run is scheduled, and a statement is answered or fails. Time passes,
and a process that is gone is restarted by its supervisor. Beyond that:

- `StopRenewal` is strongly fair: when the ticker and `Done()` are both ready, `select`
  picks at random, and does not pick the ticker for ever.
- `Lock` in `Migrate` is strongly fair: PostgreSQL serves waiters of a lock in order.
- In `Mail` only the timer, the goroutine and an operation whose connection was closed or
  whose deadline has passed are fair. The server owes nothing, not even an answer.
- Handlers, checks, workers and callbacks are not fair: the code cannot make them
  return. `BacklogSettles` and `ShutdownCompletes` have it as a hypothesis
  (`HandlersReturn`); `LostLeaseCancels`, `ProbesEnd` and `RunReturns` do without.
- `PromptTick`: in the liveness runs a lease that is being renewed does not run out, as
  `leaseRenewalInterval` is
  shorter than the lease, half of it by default. A job that outlives every
  renewal would otherwise be taken over for ever. Safety does not assume it.

## Proofs

Each `*Proofs` module extends a model and proves its safety properties for any sets of
jobs, workers, messages, relays, modules, checks, requests, processes, tables and so on,
and any bounds, from the assumptions named `*Assumption` in the model. These say that
constants have the right types and that markers such as `None` or `NoRow` are not among the
values they stand apart from; TLC evaluates them for each instance. `Schema` assumes more
about its constants: that the catalogues to begin with are `WellFormedCatalogue`, that is, names
are unique where PostgreSQL keeps them so and every ordinary table has the column the model
calls `id`, and that two columns with the same type, nullability and default are defined alike.
That DDL keeps a catalogue well formed is proved. Objects other than tables have one of the
names in `Identifiers`, as in the runs. An enum has a label: without one it is not in
the join of the query.

The specifications in the theorems are those of the runs, up to two points. Where
a run adds fairness for a liveness property, the theorem does without. `EngineSpec`, `TxSpec`,
`SchemaSpec` and `MailSpec` are the parts whose sum `MCParts` checks, `HealthSpec` and
`MigrateSpec` those of `MCService`.

An argument always has the same shape: the property is hardly ever inductive, so a stronger
invariant is stated at the top of the module, was checked by TLC on the instance of the
run, and is shown to hold initially and to be preserved by each action; the property
follows. Action properties and the refinement are proved of each step from the same
invariant.

### Jobs: `JobsInv`

| Theorem | Says |
|---|---|
| `TypeCorrect` | the state is well typed |
| `SingleOwnerHolds` | at most one worker can renew a job or record its outcome |
| `SnapshotFreshHolds` | the attempt count a worker holds is the table's, as long as its token is there |
| `FailedExhaustedHolds` | a failed job has used up its attempts |
| `AttemptStepHolds` | attempts grow by one, and are reset by `RequeueFailed` only |
| `AckedOnlyAfterSuccessHolds` | a row is deleted only when its job was completed, or discarded |
| `LeaseRespectedHolds` | a worker whose lease has not run out loses its claim only by letting go of the job |
| `BacklogSafe` | `SingleOwner` and `LeaseRespected` under `BacklogSpec`, which `jobs_backlog` uses |

That a stale count is never written depends on every statement that may still be executed,
so `JobsInv` says what each of them knows:

- `PrefixesDistinct`, `HeldOnce`: a claim prefix has one holder, and a worker holds a job
  once. The fresh token of `Claim` gives the first, and `SingleOwner` follows.
- `SnapshotFresh`, `HeldNotFailed`: while the token is in the row, what the worker
  remembers is what the row says, and the job is not failed.
- `OutcomesReleased`, `OutcomesUnique`: a worker that abandoned an outcome is through with
  that job, and a claim yields one outcome at most. So an orphan and its sender never
  both write.
- `OrphansFresh`, `DeletesEarned`: an orphan that still matches was computed from the
  row's present count, and a DELETE that still matches acknowledges a job that was
  completed since it was last enqueued or requeued.

The proof goes action by action. The statements (`Exec`) are dealt with once, for a
worker and for an orphan alike. For `LeaseRespected`, a statement that changes the token of
a row carries the holder's own token, which by `PrefixesDistinct` and `OutcomesReleased`
only the holder can have sent.

### Outbox: `OutboxInv`

| Theorem | Says |
|---|---|
| `OutboxTypeCorrect` | the state is well typed |
| `OutboxSnapshotFresh` | the count and limit a relay decides by are the row's while its claim is good, and the message is not settled |
| `LeaseStillAfterStopHolds` | as long as nothing is disturbed, no renewal changes a lease after `stop` has returned |
| `ImplementsLeasedQueueHolds` | `Outbox` implements `LeasedQueue` |
| `PhasesTrue` | a processed message was completed by all its handlers, a failed one has used up its attempts, any other has some left |
| `SingleRelayHolds` | at most one relay can renew a message or record its outcome |
| `LeaseRespectedHolds` | a relay whose lease has not run out loses its claim only by letting go of the message |
| `OutboxBacklogSafe` | `SnapshotFresh`, `PhaseTells`, `SingleRelay`, `LeaseRespected` and that each step is one of `LeasedQueue`, under `BacklogSpec`, which `outbox_backlog` uses |

The invariant is that of `Jobs` with two additions the refinement needs. `Deliveries`: if no
handler has failed so far, the handlers called so far have completed the message, and an
outcome is recorded when all were called. `OrphansRight`: a late statement that still
matches is the right one for the row, so `processed` means that every handler has completed
it, and `failed` that the limit is reached. `ImplementsLeasedQueue` is then shown step by step:
claims, renewals, lost answers, crashes and ticks stutter, a handler that completes a message is
`Deliver`, and an outcome is `Complete`, `Retry` or `GiveUp` of the abstract queue, whoever executes
it and whenever. `PhasesTrue` uses the refinement: `PhaseTells` is an invariant of
`LeasedQueue`, whose steps are easy to reason about, and so holds of the columns of a row.

`SingleRelay` and `LeaseRespected` are stated in `OutboxProofs`, as they are in `Jobs`; no run
lists them, but TLC has checked both, and `PhaseTells`, on the instance of `outbox_safety`.
The argument is that of `Jobs`. A backlog does not begin in `Init` of the abstract queue, so
`OutboxBacklogSafe` says that each step is one of `LeasedQueue`, and `BacklogInvInit` that
`OutboxInv` holds of a full table.

### Engine: `EngineInv`

| Theorem | Says |
|---|---|
| `ModulesDistinctHolds` | a module is registered once, by one caller at a time |
| `NoReportDroppedHolds` | `errCh` has room whenever a goroutine reports |
| `CleanReturnHolds` | nil means that all workers are done and no failure ended the run |
| `UnfinishedNamedHolds` | workers that are left are named |

`NoReportDropped` is a counting argument: `ReportedOnce` says that the errors in the channel
are from different goroutines that have sent, and one that is about to is not among them, so
there are fewer than workers and server together. `CleanReturn` rests on `ReportsKept`: an error
that stopped the run is in the channel until `Run` has taken one. `Waited` says what
`waitForWorkers` has passed.

### Health: `HealthInv`

`SingleFlightHolds`, `ResultsOfRegisteredHolds` and `ReadyMeansCheckedHolds`. The invariant links a
probe to the snapshot of its request (`ProbesSeen`), an outcome to the check that returned it
(`OutcomesReturned`), an answer to the outcome of the check the probe started itself
(`AnswersEarned`), and says that a check is started once (`ExecsLaunched`).

### Migrate: `MigrateInv`

`AppliedOnceHolds`, `SuccessCompleteHolds`, `FailureExplainedHolds` and the action property
`AppliedInOrderHolds`. Everything rests on who can still commit: `LockHeld` says that only the
holder of the advisory lock is past it, and that a COMMIT without a client belongs to a
session that has the lock still. So between the SELECT of a process and its COMMIT nobody
else adds a row, and `Progress` says that what it has passed is applied and that what it
is doing is next.

### Tx: `TxInv`

`OneAttemptCommittedHolds`, `ResultHonestHolds`, `NestedUndoneHolds`. The levels of the stack hold
disjoint sets of writes of this attempt (`LevelsOfAttempt`, `LevelsDisjoint`), every write of the
attempt is pending at a level or was undone (`Accounted`), and a write that was undone under a live
context is pending only at the top of an aborted connection, or on a closed one (`Doomed`):
what makes the connection usable again takes that level away.

### Schema: `SchemaInv`

`DriftDetectedHolds` and `PartsTrueHolds`. The invariant says, after each query, which parts of the
snapshot were filled, that each shows a catalogue of the time since `Capture` began, and that
tables without a part have it empty (`SnapSoFar`); and that the baseline shows catalogues of its
own capture (`BaseTrue`). Given that, `CompareExact` shows that `Compare` of two true snapshots is empty
exactly if the two catalogues have the same `View`: a table is in a snapshot if and
only if one of its rows is, objects are found by name, and names are unique. For enums this
needs that labels without commas can be read off what they are joined to (`PlainJoinedOnce`);
it follows from `JoinPlain`, that joining them yields the sequence of their words. `Join` folds
over a list through a recursive function; `JoinPlain` shows that the sequences of words satisfy
its equation, so that there is such a function, and that there is no first label at
which the two differ.

### Mail: `MailInv`

`SendHonestHolds`. `DoneSoFar` says that the operations behind the present one are done if the
configuration needs them: when one succeeds, those that are skipped are not needed. `Copies`
says that the end of the data left only from calls that came to that operation, and `Honest`
extends the second part of `SendHonest` to copies the server has not read yet; without
that the server could read one, of a call that had returned another error, later.

### Registry: `RegistryInv`

`AcceptedHandlersRunHolds`, for any handlers, types, relays and jobs and any number of
registrations. `RegistryAssumption` says that `"*"` is a type, that the empty name is not,
and that `NoHandler` is not a handler.

- `FrozenFirst`: a relay that has started has frozen the registry. So the lists do not change
  while anyone delivers, and a delivery that was completed is still what the lists say.
- `ListsAccepted`: each list is a numbering of the registrations of its type, one position for
  one registration, in the order they were accepted. For a delivery the numberings of its
  type and of `"*"` are put one behind the other, which is the bijection the property asks for.
- `CallsListed`: what a delivery has called, followed by what is left, is the list of handlers it
  began with.
- `ListedOnce`: a handler that can be compared is in its list once, since `Register` compares
  with every handler in it.
- `JobHandlersLast`, `RunsByLast`, `OpsHonest`: the table of job handlers is that of the last
  calls, and calls that are appended do not change what the first n of them were.

### Only model-checked

- Liveness (`BacklogSettles`, `ShutdownCompletes`, `LostLeaseCancels`, `RunReturns`, `ProbesEnd`,
  `ApplyEnds`, `SendEnds`): the prover does not reason about ENABLED and fairness.
- `NearestUntrustedHop` of `ClientIP`, a pure algorithm: it is about what folds and flattening yield for every
  sequence of symbols, which takes an induction over data. What could be stated without
  one (that `Resolve` falls back to the peer) is its definition.

## Where code and documentation disagree

1. `jobs_failed_is_permanent`. The jobs worker cancels a renewal that is under way when
   the handler returns. The server may execute it after the job was parked with
   `locked_until = 'infinity'` under the same claim token: the job gets an ordinary lease
   and is delivered again, and is no longer listed as failed. The outbox describes this
   race in a comment and avoids it (`LeaseStillAfterStop`).
2. `engine_failure_masked`. If `Run` notices the cancelled context before the error that
   cancelled it and then the shutdown fails, `errCh` is not drained and the failure is lost.
3. `engine_silent_exit`. "Returning before shutdown is an unexpected worker exit"
   (`README.md`), but a worker that returns `context.Canceled` is taken to have been stopped,
   also when nobody stopped it: the engine goes on without it and reports nothing.
4. `health_busy_after_return`. A check's result is sent before its `running` flag is
   cleared, so that the next request may be told the check is still running.
5. `schema_enum_drift_missed`. "`schema.Diff` reports drift in tables, enums, and sequences"
   (`README.md`), but labels are compared after they were joined by commas: the labels `a` and
   `b` and the one label `a,b` are the same string. `DriftDetected` is what holds: drift is
   reported exactly when there is some, as long as labels have no commas.
6. `clientip_unlisted_forms`. "`Forwarded` accepts literal IPv4 nodes and quoted, bracketed
   IPv6 nodes" (`docs/client-ip.md`), but `parseForwardedNode` also accepts bracketed IPv6 without
   quotes and an IPv4-mapped IPv6 address without brackets, where by the document the header is
   malformed and the peer is the client. `NearestUntrustedHop` is what holds: the documented
   rule for chains without such nodes.

Reachable in the models and documented there, without a run of their own:

- A nested `WithTransaction` whose own context ends between two statements returns an
  error, but its savepoint is not rolled back; a caller that carries on commits its writes
  (`NestedUndone` is stated for live contexts).
- A snapshot captured while the schema changes may show a schema that never existed
  (`PartsTrue` is what holds).
- `Send` may return an error for a message that was delivered, if the answer to the end of
  the data is lost or QUIT fails; a retry then delivers it twice. `SendHonest` says that
  these two errors are the only ones.
- `Health` keeps, of two overlapping requests, the result that was recorded last, which may
  be of the check that ran first.

## Not modelled

- *Durations and backoff*: waits are a set of ticks. The exponential backoff of the queues
  has no cap, but the waits before it would overflow add up to centuries.
- *Payloads, last errors, logging, telemetry, JSON, problem details, headers*: no property
  depends on them.
- *Engine options and routes; `SetTimeout`, `SetVerbose`, `SetLogger`, `SetTelemetry` of
  `Health`; `postgres.go`*: configuration, set before use.
- *`clientip.FromRequest`* and the middleware around it: deprecated in favour of `Resolve`.
- *Rendering of mails, syntax of addresses*: string handling of one call.
- *`httpx`* apart from `clientip`: formatting of one request.
- *`secrets`, `config`, `cmd/devengine`, `testutil`*: I/O, parsing, generated files; nothing
  is shared, and no order of steps matters.
- *`jobs.Repository.ListFailed`* and the like only read; the set they read (`Failed`) is
  defined in `Jobs`.

## Plan

Done: models of all parts with state, and proofs of their safety properties but
`NearestUntrustedHop`. Left: liveness and the scanner of `ClientIP`, which stay with TLC.
