# A TLA+ model of the order management system

The repository is an order management service in Go. A client creates an order
over gRPC, pays for it, cancels it or asks for a refund. The work behind the last
three is done by a *saga*: a goroutine that reserves stock, charges the customer
and confirms the order, or undoes those steps. Sagas record what they did in a
versioned order row, a timeline and an outbox table, from which workers publish
to Kafka. Next to the orders there is a small courier service.

This directory holds TLA+ models of the service, the TLC runs that check them on
small instances, and proofs checked by TLAPS that hold for every instance.
`PROJECT.json` maps each definition to the lines it models and lists the runs,
the mutated definitions that each property must catch, the findings, the hazards
and the theorems.

## The system

| Part | State | Operations that change it | What makes it hard |
|---|---|---|---|
| Saga orchestrator (`service/saga/orchestrator.go`) | a copy of the order in each goroutine | `Start`, `Cancel`, `Refund`, `updateStatus`, `emitEvent` | goroutines of one order interleave; stale copies; crashes between two calls; external calls that took effect although they failed |
| Order repository (`storage/*/order_repository.go`) | the order row with its version | `Create`, `Save` | compare-and-set on the version; a commit whose answer is lost |
| Timeline (`storage/*/timeline_repository.go`) | events per order | `Append` | errors are only logged |
| Outbox table (`storage/*/outbox_repository.go`) | rows pending, processing, sent, failed | `Enqueue`, `PullPending`, `MarkSent`, `MarkFailed` | leases that run out; marks that do not check the owner |
| Outbox worker (`service/outbox/worker.go`) | batch, attempt | `ProcessOnce`, `publishWithRetry`, `publishToDLQ` | replicas, lost answers, shutdown in the middle of a batch |
| gRPC order service (`service/grpc/order_service.go`) | set of running sagas, closed flag | `CreateOrder`, `PayOrder`, `CancelOrder`, `RefundOrder`, `Shutdown` | retries under idempotency keys, dispatch during shutdown |
| Idempotency store and cleanup (`storage/*/idempotency_repository.go`, `service/idempotency`) | records processing, done, failed with a TTL | `CreateProcessing`, `MarkDone`, `MarkFailed`, `DeleteExpired` | crash while processing; cleanup of a record in use |
| Kafka consumer (`messaging/kafka/consumer.go`), dead letter replay (`cmd/dlq-reprocess`) | committed offsets, dead letters | `ConsumeClaim`, `handleMessageWithRetry`, `runReplay` | offsets committed past a failed message; replays that are repeated |
| Batch processor, circuit breaker (`service/saga/batch_processor.go`, `retry.go`) | channels and batches; breaker state | `StartOrder`…, `Stop`; `Execute` | full channels, stop against pending requests; late results |
| Courier service (`service/grpc/courier_service.go`, `storage/*/courier_repository.go`) | couriers, zones, slots, ratings | `RegisterCourier`, `ReplaceZones`, `CreateSlot`, `SubmitRating`, `Save` | capacity checked and used in two statements; half-done registration |
| Migrator (`storage/postgres/migrator.go`) | applied versions | `applyUp`, `applyDown` | several processes, crash between migrations |
| Lifecycle (`app/app.go`) | which parts run | start, staged shutdown with timeouts | order of stopping, timeouts |

Metrics, health reports, version, generated gRPC code and the load generator
hold no state the others depend on and are not modelled.

## Modules

| Module | Models | Extends |
|---|---|---|
| `Saga` | orchestrator, versioned row, timeline, external services | |
| `Outbox`, `Delivery` | outbox table and workers; what they promise | |
| `OrderAmount` | amounts in wrapping integers | |
| `OrderService` | handlers, idempotency store, cleanup, shutdown | `OrderAmount` |
| `OrderRepo`, `OrderStore` | in-memory order repository; PostgreSQL one | `OrderStore` instantiates `OrderRepo` |
| `Consumer` | consumer, offsets, dead letter topic | |
| `Reprocess` | the replay tool, composed with the consumer | `Consumer` |
| `Breaker` | circuit breaker | |
| `Batch` | batch processor and retries, composed with the breaker | `Breaker` |
| `CourierDomain` | rules of the delivery domain | |
| `Courier` | courier service over both repositories | `CourierDomain` |
| `Migrator` | schema migrations | |

`MC…` modules give the constants that a `.cfg` cannot. `…Proofs` modules hold the
theorems. A definition whose comment begins with "Variant" is not part of any
specification: it is a plausible mistake in the definition that follows it, which
the properties of the runs are known to catch (`mutants` in `PROJECT.json`).

### Saga

`Saga.tla` models the orchestrator over one order. Sagas of different orders
share neither the row nor the reservation, so one order is enough.

* `order` is the row (status and version), `saga[c]` a goroutine: its place in
  the code, its arguments, its copy of the row, and inside `updateStatus` the
  status it writes and the attempt it is on. `outbox` and `timeline` hold the
  events; an event carries the version it announces, which the code does not
  write but which identifies the transition it is about. `history` is auxiliary:
  the statuses committed so far.
* `held`, `captured` and `refunded` are the outside: stock reserved, money
  charged and returned. Each external call may succeed, be rejected, answer with
  an unexpected status, or time out after it took effect.
* Every repository operation and external call is a step of its own. What a
  goroutine does between two of them is a function of its record (`StartFrom`,
  `CancelFrom`, `AfterUpdate`, `AfterRelease`, `AfterRefund`, …).
* `SaveConflict` takes the failed `Save` and the reload together. Versions only
  grow, so a conflict seen by `Save` still stands when the row is read again.
* `StorageFails`, `SaveLost`, `ReleaseFails`, `EnqueueFails`, `AppendFails` and
  `Crash` are the failures; a crash ends the running goroutines, and nothing in
  the code takes them up again.

Left out: `publishSagaEvent` (a best-effort copy of each step to a Kafka topic
that nothing in the service reads), metrics, payload texts and reasons, the pause
between retries (any delay is an interleaving), and the branches for a service
built without an orchestrator. A dispatch that is skipped during shutdown is in
`OrderService`.

### Outbox and Delivery

`Outbox.tla` models the table and one worker per replica. A message is its place
in `(created_at, id)` order, so a batch is a set, and rows may become visible in
any order. `expired` stands for the clock: a row in `processing` whose
`updated_at` is older than the lease. A lease that runs out after its worker is
gone is free; one that runs out under a running worker counts as an overrun and is
bounded. `overrun` is auxiliary. The worker's places follow `ProcessOnce` and
`publishWithRetry`; `canceled` is its context. `attempt_count` is written and
never read, and is left out. Rows survive a crash, as in PostgreSQL. `SKIP LOCKED`
is the atomic claim: a row locked by a concurrent claim is one that claim has
already taken.

`Delivery.tla` is what the outbox promises: the row of an accepted event is closed,
and only when the event is in a topic or the dead letter topic refused it. `Outbox`
maps its rows to `accepted` and `closed`, its two topics to `out` and the messages
the dead letter topic refused (`dropped`) to `refused`. The last are the exception:
`worker.go` logs the error of `publishToDLQ` and marks the row failed, so such a
message is in no topic and nothing takes it up again. The at-least-once delivery of
`docs/architecture/outbox.md:15` has no such exception and does not hold of the code.

### OrderService and OrderAmount

`OrderService.tla` models `CreateOrder`, `PayOrder`, `CancelOrder` and
`RefundOrder` from the idempotency key to the answer. `rpc[r]` is a call: its
place in `withIdempotency` and in the handler, the key, the request (which also
stands for its hash), the status it loaded and its answer. `record` is the
`idempotency_keys` table; `backend` chooses between the driver that returns the
record it found and the one that must read it again after a failed `INSERT`, when
cleanup may already have deleted it. `saga[r]` is the background saga, reduced to
the statuses it may write. `phase` follows `Run` of `app.go` after a signal:
draining, stopped, closing, waited or expired, down. `ShutdownSagas` closes the
dispatch, `SagasReturned` and `WaitTimeout` are the two cases of the `select` in
`Shutdown`, and `Exit` is what is left of `Run` after it. Handlers that outlived the
server may take steps in all of these phases. `StopServer`, `WaitTimeout` and
`ServeFails` are the ways a shutdown is cut short, `Crash` and `Restart` the rest. Auxiliary:
`life` (how many records a key has had), `overrun` (keys whose record was deleted
under a running call), `abrupt` (a stop that did not wait).

`OrderAmount.tla` computes sums as `int64` does, with `IntLimit` for 2^63.

### OrderRepo and OrderStore

`OrderRepo.tla` is the interface read off the in-memory implementation: a call
takes effect at one moment, and returns what it saw then or an error.
`OrderStore.tla` has the statements of the PostgreSQL implementation, each on a
connection of the pool, row locks of open transactions, commits whose answer is
lost and `opTimeout`. `ListByCustomer` holds the connection of its rows while it
waits for another one for the items, as the code does. A call of the detailed
module maps to "applied" as soon as it knows its answer. Both modules assume of the
callers that an order is saved only after it was read (`MayAsk`), as `updateStatus`
and `saveOrder` do; orders are never deleted. Without this the drivers differ: the
`UPDATE` of PostgreSQL may find no row and `orderExistsTx` an order created since,
and a first version is then answered with a conflict.

### Consumer and Reprocess

`Consumer.tla` has one partition of a topic. Offsets, marks, commits and sessions
belong to Kafka and the sarama library and are modelled from how `consumer.go`
uses them: a mark covers everything below it, marks are committed now and then and
at the end of a session, and a session without a commit starts at the end of the
log. The retry count of a header is any integer, since `strconv.Atoi` also accepts
negative ones. `settled`, `dropped` and `behind` are auxiliary: offsets that were
handled or dead-lettered, offsets left unmarked after an error, and offsets before
the start of a session that found no commit. `Reprocess.tla` adds
the tool, which reads the partitions of the dead letter topic while the consumer
works on what it replays; the outbox worker writes dead letters too.

### Batch and Breaker

`Breaker.tla` splits `Execute` where the mutex is released: admission, operation,
result. `Batch.tla` puts one worker for each kind of operation in front of it, with
the channel, the batch and the goroutines of a flush, next to operations repeated
by `executeWithRetry` that share the breaker. `select` may take any case that is
ready, so a stop can win against a full channel. `app.go` constructs none of these
three; they are modelled as the library they are.

### Courier and CourierDomain

`CourierDomain.tla` has the checks and conversions as operators. `Courier.tla` has
every call of the service, with one step for each repository operation; a
PostgreSQL transaction is two steps, what it reads under the lock of the courier's
row and what it writes, so that transactions of different couriers overlap.
`resaved` is auxiliary: couriers whose vehicle `Save` changed.

### Migrator

`Migrator.tla` has processes with binaries of different releases, the advisory
lock, the versions read once and one transaction for each migration. `Fail` stands
for an error, a timeout or the death of the process anywhere, after which the lock
is gone with the call or the connection.

## Runs

| Run | Shows |
|---|---|
| `SagaFaults` | Two overlapping sagas, every answer, a storage fault and a crash. Copies are real versions; terminal states are final; nothing is paid without a charge; events are true and, without faults, complete; the inductive invariant of the proofs; every saga returns; a started order is settled unless storage failed or the process crashed. |
| `SagaSerial` | Sagas one after the other: compensation is complete, money balances, the documented state machine is followed. |
| `SagaCancelRace` | *Violated.* `Cancel` closes the order between `Reserve` and its `Save`; `Start` gives up without releasing. |
| `Outboxes` | Two workers, batches of two, faults, an overrun lease, a crash or shutdown: the inductive invariant, exclusive claims, duplicates only with a cause, and `Delivery` with its liveness: every row is closed, with the exception above. |
| `Orders` | Two calls under one key, on both drivers, with a fault, a crash or a shutdown: the handler runs once for each record, a retry gets the same answer, a key answers one request, an accepted request starts its saga unless a stop is cut short, no saga runs once `Shutdown` has waited, no key stays in processing. |
| `OrderStore` | The PostgreSQL repository implements the in-memory one, and every call returns although lists wait for connections. |
| `Messaging` | Consumer, outbox and replay tool on two topics: the committed offset passes an unsettled message only by the mark of a later one, a replay keeps its limit and is complete, every message is consumed or left for a named cause. |
| `ConsumerSkips` | *Violated.* The dead letter of a failed message cannot be written, the message is left unmarked "to be reprocessed" (`consumer.go:137`), and the mark of the next one is committed past it. |
| `Batches` | Batch processor, retries and breaker: operations are neither lost nor duplicated, a stop flushes, a closed breaker is healthy, every operation is processed. |
| `Couriers` | Three overlapping calls on both drivers: phones, zones, slots and ratings stay consistent and every call returns. |
| `CourierZoneRace` | *Violated.* Two PostgreSQL transactions count a zone at the same time and both add a courier. |
| `Migrations` | Two releases and the tool migrate at the same time and fail: the applied versions have no gap, a successful up is complete, the lock is freed. |

Some properties hold only under a condition, which is where the code stops
promising anything:

* `Compensated`, `MoneyBalanced` and `FollowsStateMachine` pass only for sagas that
  do not overlap. Nothing in the code keeps sagas of one order from overlapping:
  two `Start`s may charge twice and take a paid order back to reserved, and `Cancel`
  and `Refund` may pay back twice. A `Cancel` may also use up the three attempts of
  `updateStatus` against a `Start` and leave the order open.
* `Compensated` needs a provider that refunds or rejects: `Cancel` ignores the
  status a refund returns.
* `EventsAreComplete` excludes crashes and failing calls: `Save` and `Enqueue` are
  two operations, and one that is lost between them is not made up for.
* `StartSettles` excludes crashes, since no saga is resumed.
* `SameAnswer` and `OrderlyAcceptedIsStarted` exclude keys whose record expired
  under a running call (24 hours), and the latter a shutdown that was cut short: a
  handler that outlives `GracefulStop` finds the dispatch closed and answers OK.
* `WaitedForSagas` is about a `Shutdown` that returned because no saga was left. Sagas
  that outlast its timeout are killed with the process.
* `DeliversEventually` makes the exception of `Delivery` for messages that the dead
  letter topic refuses.
* `SkipsHaveACause` is what is left of the comment that `ConsumerSkips` refutes: an
  offset is committed past a message that was neither handled nor dead-lettered only
  when that message failed and a later one was marked, or when it lies before the
  start of a session that found no commit. `ConsumedEventually` counts these messages
  as taken up.
* `FinishedIsComplete` is about runs in which the idle timer ended no partition early.
* `OnePrimaryZone` excludes couriers whose vehicle `Save` changed; no handler does.
* `Processed` excludes what is in a channel when `Stop` comes.

The hazards in `PROJECT.json` list these limits with their lines.

### Bounds

Two sagas can exhaust the three attempts of `updateStatus`: a single `Start` commits
three times. Serial runs have four, so that a `Start` may be followed by a `Cancel`, a
`Refund` and another request. An amount
of 2 with requests of 0, 1 and 3 covers a refund that is missing, partial and too
large. `MaxInFlight` separates overlapping from serial runs. For the outbox, two
messages and two workers let a worker stop with half a batch, and two attempts
are enough for a retry and for giving up.

`Orders` has two calls, one key and one trouble: a first call and its retry, or two
at once, with any single fault, crash or stop between any two of their steps; the
five requests include one whose sum wraps around. `OrderStore` has three calls and
two connections, so that two lists hold every connection. `Messaging` has a topic of
two messages, one of them with an empty value, a negative retry count and one at the
limit, two partitions of the dead letter topic and a limit that one of them can use up.
`Batches` has a channel of one, a batch of two and a breaker that opens after two
failures, next to two retried operations: a full channel, a full and a cut batch,
and late successes and failures all happen.
`Couriers` starts from a registered courier and has zones for one courier each, so
that the capacity matters with two. `Migrations` has binaries with two and three
migrations and four runs.

`MaxFaults`, `MaxTroubles`, `MaxOverruns`, `MaxStops`, `MaxCrashes` and `MaxRuns`
bound how often things happen, not when. Deadlock is not checked: every model stops
once the requests it may make are served.

### Fairness

Requests, faults, crashes and signals are never fair.

* `Saga`: weak fairness of each dispatched goroutine. The Go scheduler runs it,
  repository calls have a timeout, and the inventory and payment services are
  assumed to answer, if only with an error.
* `Outbox`: weak fairness of each worker (scheduler, ticker, pauses, restart of a
  stopped replica) and of leases running out (the clock). Without the restart nothing
  could be said of a message after the last replica stops.
* `OrderService`: weak fairness of each handler, of the 24 hours of a record, of the
  cleanup ticker, and of the shutdown, whose waits have timeouts. Sagas need not
  return.
* `Consumer`: weak fairness of the session loop; every handler returns, with success
  or not. The replay tool is not fair.
* `Batch`: weak fairness of workers, goroutines and retries. The breaker's timeout
  need not pass.
* `Courier`, `OrderStore`, `Migrator`: weak fairness of each call or run, which has a
  timeout.

## Proofs

The theorems hold for every value of the constants, from the assumptions named in
the modules: natural numbers, answers among those the code tells apart, and for the
couriers that those registered before (`Known`) are as the service leaves them and
that requests have the fields of their kind. The serial theorems of `SagaProofs` have
the hypothesis `Serial`, which says of the constants what `SagaSerial.cfg` does: at
most one saga at a time, no storage fault or crash, and no answer of a service that
leaves open what happened.

| Module | Theorems | Inductive invariant |
|---|---|---|
| `SagaProofs` | `Invariance`, `TypeCorrect`, `CopiesCorrect`, `ChargedCorrect`, `EventsCorrect`, `TerminalCorrect`, `EventsComplete`; serial: `CompensationCorrect`, `MoneyCorrect`, `StateMachineCorrect` | `SagaInv`, `ToldUnlessFailed`, `SerialInv` |
| `OutboxProofs` | `OutboxInvariant`, `SentRowsArePublished`, `ClaimsExclude`, `PublishedOnce`, `OutboxImplementsDelivery` | `OutboxInv`, `Once` |
| `OrderServiceProofs` | `HandlersRunOnce`, `KeysAnswerOneRequest`, `NoSagaOutlivesTheWait`, `RepeatsGetTheSameAnswer`, `AcceptedRequestsAreStarted` | `Inv`, `Answers`, `Named`, `Accepted` |
| `OrderStoreProofs` | `StoreImplementsMemory` | `Inv` |
| `ReprocessProofs` | `CommitsPassSettledMessages`, `RunsStayWithinLimit`, `FinishedRunsAreComplete` | `ConsumerInv`, `Marks`, `ReplayInv` |
| `BatchProofs` | `StopLeavesNothing`, `OperationsAreConserved`, `ClosedCircuitsAreHealthy` | `Inv`, `Conserved` |
| `CourierProofs` | `TypeCorrect`, `CapacityCorrect`, `SlotsCorrect`, `PhonesCorrect`, `ZonesCorrect`, `SummariesCorrect` | `Inv` |
| `MigratorProofs` | `MigratorInvariant`, `MigrationsHaveNoGap`, `UpBringsUpToDate` | `MigratorInv` |

Only `ClosedIsHealthy` and `WaitedForSagas` are inductive as they stand, given
the types of the variables; the others need a strengthening.
`SagaInv`, `OutboxInv` and `MigratorInv` are invariants of the runs as well.

* `SagaInv` adds that the row is the last commit, that each saga's place fits its
  kind and the status of its copy and that a saga about to write a status of a
  charged order knows of a charge (`Good`), that at most one saga announces a version
  (`OneOwner`), and that what a saga is about to emit is not in the outbox yet
  (`NotYetSent`). The core is the version check: a `Save` that passes it acts on the
  current status, so the new version is larger than any other and belongs to one
  saga.
* `ToldUnlessFailed` says who still has to announce a version: each one is in the
  outbox and the timeline or in the hands of a saga on its way there, as long as no
  storage operation failed and no process died. No such saga is left when all have
  returned.
* `SerialInv` keeps the accounts. Between two sagas the stock and the money fit the
  status of the row (`Balance`); a running saga holds the current row, and they fit
  the status it is about to write or, before and after that, the one of the row.
* `OutboxInv` says where the message of a worker about to mark a row is, and that a
  message in hand is claimed under a running lease unless the lease was overrun. The
  refinement maps each step to one of `Delivery` or to a stutter. `Once` is what holds
  while nothing has gone wrong: a claimed row has a worker that is busy with it, and
  a message in hand is in the topic only between `Publish` and `MarkSent`.
* `Inv` of `OrderServiceProofs` follows the records. A call that ran its handler or
  was answered from a record remembers which record of its key that was; while that
  is the current one, the record is there and holds the call's request (`Ledger`), so
  `CreateProcessing` lets no second call in. `Answers` goes on from there: while a
  handler runs, its record is in processing and no other call has a final answer
  (`Mine`); afterwards the record holds the answer that was given (`Settled`), unless
  it could not be stored, and then only the call that ran has it. Every step of a call
  is one of five effects (`CallEffects`: it gets the key, goes on, is refused, repeats
  a record, ends), so the proof has five cases instead of one for each statement.
  `Named` says that answers and records name orders that were stored. `Accepted` says
  that an orderly stop closes the dispatch only when no call is left (`Drained`), so
  that a call about to answer OK has started its saga (`Dispatched`) and a record that
  answers OK is that of such a call (`Recorded`).
* `Inv` of `OrderStoreProofs` says that an order is still as the statement of an open
  transaction found it, which is what the row lock is for; a commit then maps to one
  atomic `Create` or `Save`.
* `ConsumerInv` says what is known of the offsets below a session's position,
  `Marks` that every mark and every commit is the offset of a settled message,
  `ReplayInv` what the cursor of a replay says of the entries before it. The two
  meet in the dead letter topic, which only grows.
* `Inv` of `BatchProofs` says that an operation is in the list its state names (the
  batch, the rest of a flush, the running goroutines) and that a worker that does not
  flush has none of the last two, one that has ended, or flushes for the last time,
  no batch. `Conserved` counts: the operation is in that list once and in no other.
* `Inv` of `CourierProofs` says which requests a call can have at each of its steps,
  that a PostgreSQL transaction between its checks and its writes holds the row of its
  courier and that what it found is still so (no overlapping slot, the same vehicle),
  and that only couriers that exist have zones or are in an answer.
* `MigratorInv` says that only the holder of the lock is past it and that what it is
  still to do is true of the table.

Every safety property of the passing runs is proved. Only model-checked is liveness
(`CallsReturn`, `StartSettles`, `DeliversEventually`, `KeysSettle`,
`ConsumedEventually`, `Processed`, `LockIsFreed`): fairness and ENABLED are out of the
prover's reach.

In the larger modules most leaves of a proof name `Zenon`. They need no arithmetic,
and the encoding for the SMT solver becomes slow with the size of the module.

## Not modelled

* Generated gRPC code, the load generator, metrics, health and version: no state
  that another part depends on.
* `publishSagaEvent`: a copy of each step to a topic that nothing reads.
* `GetOrder`, `ListOrders`, outbox statistics, migration status and the vehicle
  capabilities: they only read, the last one a constant table.
* The JSON of events and dead letters, logging, flags and configuration from the
  environment, and the wiring in `app.go`: conversions and setup without
  concurrency.
* The SQL of the migrations and the isolation of PostgreSQL below the statements
  (row locks and READ COMMITTED are modelled from how the code uses them).
* Several partitions of the consumed topic: `ConsumeClaim` runs once per partition
  and shares nothing between them.
