# TLA+ models of notip-simulator-backend

The simulator is a Go service that runs virtual IoT gateways. It onboards a
gateway at the provisioning service, keeps it in SQLite, gives it a NATS
connection and a worker that emits encrypted telemetry, lets it answer commands
from JetStream, and removes it when the management service decommissions it.
Nearly all of its logic is concurrency: HTTP requests, a decommission listener,
a start-up recovery and three goroutines per gateway share a map, a database,
channels and connections.

This directory holds specifications of that logic, model-checked with TLC, and
theorems about them checked with TLAPS. Paths below are relative to
`src/internal/`, and `PROJECT.json` maps every definition to the lines it models.

## 1. Inventory

| Component | State it keeps | Operations | Status |
|---|---|---|---|
| MessageBuffer, `app/buffer.go` | channel of envelopes, counters | `Send`, `Flush` | modelled |
| GatewayWorker, `app/worker.go` | `commandCh`, `anomalyCh`, `configCh`, own copy of the gateway, `activeAnomaly`, `anomalyCommandBuffer`, `isRunning` | `Start`, `Stop`, `sensorLoop` | partly: all but the branch for frequency 0 |
| GatewayRegistry, `app/registry.go` | map of workers under a mutex | create (saga and compensation), `Start`, `Stop`, `Delete`, `HandleDecommission`, `RestoreAll`, `StopAll`, anomalies, bulk create | modelled |
| Sensors, in `app/registry.go`, `app/worker.go`, the store | rows, the worker's slices, `outlierCh` | `AddSensor`, `DeleteSensor`, `InjectSensorOutlier` | modelled |
| CommandSubscriber, `adapters/nats/subscriber.go` | channel of 8 commands | callback, `Close` | modelled |
| Command pump, in `startWorker` | the command it holds | loop until cancelled | modelled |
| DecommissionListener, `adapters/nats/decommission_listener.go` | a durable subscription | subscribe in a goroutine, callback, drain | modelled |
| Publisher, `adapters/nats/publisher.go` | connection, JetStream context | `Publish`, `Close` | partly |
| Connector, `adapters/nats/connector.go` | none | `Connect`, the closer | partly |
| SQLite store, `adapters/sqlite/store.go` | tables `gateways` and `sensors` | CRUD, migrations | partly |
| HTTP API, `adapters/http/*` | none | one goroutine per request | partly |
| Application, `app/app.go` | phase of the process | boot, recovery, shutdown | partly |
| ProvisioningClient | none | `Onboard` | partly: its outcomes |
| Generators | a pending outlier | `Next`, `InjectOutlier` | partly, the outlier |
| Encryptor, clock, config, metrics, health, domain types | none, or constants | | declarations; used where they matter |

How they interact:

* A request or the recovery runs `startWorker`, which creates the worker, its
  buffer and its pump, registers it in the map and stores the status `online`.
* JetStream calls the subscriber; subscriber -> channel -> pump -> `commandCh` ->
  `sensorLoop`. An answer is published by the loop, or by the subscriber
  (`expired`).
* `sensorLoop` -> `MessageBuffer.Send` -> channel -> `Flush` -> JetStream.
* HTTP handlers reach a running worker through `anomalyCh` and `outlierCh`, and attach
  sensors to it under its lock.
* `Stop`, `Delete`, `HandleDecommission` and `StopAll` cancel the pump and the
  worker, wait for the loop, then close publisher and connection.
* A bulk request runs one saga per factory id behind a semaphore of its own; each
  onboards at the provisioning service, which accepts a factory id once.

What makes it hard, and what makes it correct:

| Where | Hard behaviour | Correct means |
|---|---|---|
| buffer | `Send` is three selects, `Flush` runs between any two; a publish may never be answered | every envelope is accounted for; eviction costs the oldest; the stream is a subsequence; `Flush` ends and drains |
| worker | commands, anomalies, ticks, time, store errors and `Stop` in any order; commands held back during an anomaly | commands keep their order and are answered at most once; what an ACK announces is applied; nothing is executed during an anomaly; telemetry comes back |
| registry | the mutex is never held across a store or NATS call; ids kept across look-ups; half-done sagas; crashes; cancelled contexts | map, rows, connections and pumps agree; no row is forgotten; requests and the recovery end |
| lifecycle | `Start` and `Stop` share `done` and `cancel` unguarded; a stop may time out; two goroutines per life publish | one loop at a time; `isRunning`, loop and the status they store agree; nobody publishes on a closed connection; stops return, cancelled lives end |
| bulk create | many sagas at once; an identity is spent before the row exists; clients leave and repeat | no identity is lost behind a success; a factory id is one gateway; the response accounts for every item; every request is answered |
| sensors | rows, map and worker each know the sensors, no lock spans two; outliers wait in a channel and in a generator | no sensor without its gateway; one added to a registered gateway is attached exactly once; an outlier is emitted at most once, in order |
| delivery | redelivery, lost acks, full channels, a callback during `Stop` or during the compensation of a saga | an acknowledged command does not vanish unnoticed; the pump always returns; only `Stop` or a compensation tears the subscription down |

The complete list of hazards, each at its line with the properties that cover
it, is in `PROJECT.json`.

## 2. Modules

| Module | What it is |
|---|---|
| `LossyStream` | abstract: a stream holds an ordered subsequence, without duplicates, of what was produced |
| `MessageBuffer` | `Send` and `Flush`; implements `LossyStream` |
| `GatewayWorker` | `sensorLoop` and what reaches it; its answers implement `LossyStream` |
| `CommandDelivery` | JetStream, subscriber, pump, `Stop`, compensation |
| `GatewayRegistry` | lifecycle of all gateways, the database, the process |
| `GatewayCatalog` | abstract: the stages of a gateway as clients see them; `GatewayRegistry` implements it |
| `WorkerLifecycle` | one worker object, its `Start` and `Stop` field access by field access |
| `BulkPromise` | abstract: each item of a bulk request is decided once, the answer tells every outcome |
| `BulkCreate` | the bulk handler, its goroutines and the onboarding; implements `BulkPromise` |
| `Sensors` | sensors of one gateway: rows, worker, outliers |
| `MC*` | instances for TLC |
| `SequenceFacts` | lemmas on sequences the proofs share |
| `*Proofs` | the theorems of the component of that name and their lemmas |

The operators marked *Faulty variant* in a module are not part of its
specification. Each is a plausible mistake in one operation, kept to show that
a property detects it.

### MessageBuffer

An envelope is its production number. `SendOffer`, `SendEvict` and `SendRetry`
are the three `select` statements of `Send`; `FlushTake`, `FlushStop`,
`FlushPublishOK` and `FlushPublishError` are the branches of the loop in `Flush`. A
publish that reports an error may still have been stored by JetStream. One that is
never answered (`FlushReplyLost`) has no deadline: `Publish` passes
`nats.Context(ctx)`, under which the client applies no timeout of its own, and the
worker's context has none, so that `Flush` waits until `Stop`
(`FlushPublishCancelled`). `Cancel` is `w.cancel()` and may come at any point. The counters are those of the
metrics; the gauge of the occupancy is left out, because nothing reads it back.

### GatewayWorker

One life of a worker from `Start` to `Stop`. `sensorLoop` is single-threaded: a
tick is split into `TickDrain`, `TickExpire`, `FlushOne`/`FlushEnd` and
`TickPublish`, in that order, because the other goroutines may fill the channels
in between. `TakeCommand` is the other branch of the select with the whole of
`handleIncomingCommand`, store calls and answer included. `HandleConfig` has the
outcomes of `handleConfigUpdateCommand`: a frequency that is not positive is
refused, a store call fails (possibly after the frequency was stored), the channel
is full, or all succeeds. `waiting` says that the loop is inside the publish of
an answer nobody acknowledges, which only the cancelled context ends
(`AnswerAbandoned`). Of the row only the frequency is kept (`rowFreq`); the status
column has other writers and is in `WorkerLifecycle`. The worker's own `status`
is reduced to *emits* (`online`) and *does not* (`paused`). Time is the `Clock`
action; `anomaly.left` is the time to `expiresAt`. `promised`, `handled`,
`accepted` and `oldest` are observers that no action reads.

### CommandDelivery

A command is the number of its publication. JetStream keeps each command
`waiting`, `delivered`, `settled` or `exhausted`; a delivery may be repeated
until `MaxDeliver`, an acknowledgement may be lost. The callback is
`HandleMsg` and then `Offer`/`AnswerExpired`, `Ack`/`Nak`, so that `Stop` and
`Close` run in between. `PumpTake`, `PumpOffer`, `PumpReturn`, `CloseDrain`,
`CloseChannel` are the goroutine in `startWorker` with its deferred `sub.Close()`.
The callback is live from `Connect` on: either `StartWorker` launches the pump, or
`ListSensors` has failed and `Compensate` runs the same `Close` in the saga's
goroutine and then closes the connection (`CompensateConnection`).
A send on the closed channel, or a publish on the closed publisher, sets
`panicked`, after which nothing happens any more.

### GatewayRegistry

`pc[p]` is the next step of a goroutine: an HTTP request, the listener or the
main goroutine in `RestoreAll`. `gw[p]` and `rid[p]` are what it kept from its
look-up. Every critical section of the mutex, every store call, every connection
attempt and every atomic operation of a worker is one step, and `ClientLeaves`
cancels a request's context at any time, after which its store calls fail.
A worker is named by the row id it was built for.

| Code | Actions |
|---|---|
| `CreateAndStart` | `Onboard`, `CreateGateway`, `Connect`, `SagaListSensors`, `Compensate` |
| `startWorker` | `StartWorker`, `Register`, `CountOnline` |
| `Start` | `StartLookup`, `StartCheck`, `WorkerStart`, `StartUpdateStatus` |
| `Stop` | `StopLookup`, `StopSwap`, `StopClose`, `StopUpdateStatus` |
| `Delete` | `DeleteLookup`, `DeleteSwap`, `DeleteClose`, `DeleteRemove` |
| `HandleDecommission` | `ListenerReceive`, `DeleteSwap`, `DeleteClose`, `ListenerRemove` |
| the listener's `Run` | `Subscribe`, `ListenerAck`, `Drain` |
| `RestoreAll` | `RestoreList`, `RestoreNext`, `RestoreListSensors`, `RestoreConnect`, then `startWorker` |
| `app.Run`, shutdown | `Boot`, `RestoreDone`, `StopAll`, `Exit` |

`Exit` is the end of the process after `StopAll` and also a crash at any step;
rows and unacknowledged events survive it. `abandoned` names the rows for which
an error was returned or logged, so that `EveryRowManaged` says: nothing is
forgotten *silently*. `subscription` is the one of the decommission listener of this
process: it is made in a goroutine of its own, at any time after `Boot`, fails with
no more than a log entry, and is drained at shutdown. `durable` says whether
JetStream has its consumer: `DeliverNew` leaves out what was published before the
consumer existed, and `Drain` may delete the consumer with what waits there. `StopAll` is one step here; what the stop of one worker does step
by step is in `WorkerLifecycle`, and workers share nothing with one another.

`Stage` maps the state to `GatewayCatalog`: a row is *stored* while a saga or the
recovery has still to serve it, *served* while the map has its worker, *retired*
once a removal took it out of the map or an error was reported for it. The
refinement says that the stages are never left in another order: a request, an
error path or the recovery that still knows a row cannot bring it back.

### WorkerLifecycle

One worker and its callers. `pc[c]` is the next step of a call, `kind[c]` the
method: `start`, `stop`, `remove` (`Delete` and `HandleDecommission`, which differ
only in what `GatewayRegistry` models) and `shutdown` (`StopAll`). A *life* is what a
`Start` launches: a context, a done channel, a sensor loop and a flush goroutine,
numbered in order; `doneField` and `cancelField` are the lives to which the fields
`w.done` and `w.cancel` belong at the moment.

| Code | Actions |
|---|---|
| `GatewayRegistry.Start`, `GatewayWorker.Start` | `StartLookup`, `StartCheck`, `StartSwap`, `StartMakeDone`, `StartLaunch`, `StartUpdateStatus` |
| `Stop`, `Delete`, `HandleDecommission`, `StopAll` | `StopLookup`, `RemoveLookup`, `ShutdownLookup`, `StopReturn`, `ShutdownReturn` |
| `GatewayWorker.Stop` | `StopSwap`, `StopCancel`, `StopReadDone`, `StopAwait` (with the timeout), `StopClosePublisher` |
| the writers of the status | `StartUpdateStatus`, `StopReturn` (both by `TellStatus`), `ReportOnline`, `LoopStoreStatus` |
| `sensorLoop`, `Flush` | `LoopBegin` (the argument of the deferred `close`), `LoopPublish`, `LoopExit`, `LoopExitTwice`, `FlushPublish`, `FlushExit` |
| `Publisher.Publish` | `CanLock`, `Published`, `PublishOnClosed` |

A Go panic nobody recovers ends the process: `Die`. Two histories qualify what
can be said: `mixed` (a `Start` and a `Stop` have overlapped) and `timedOut` (a
`Stop` has given up waiting). The code orders neither, and the fields then belong
to the wrong life; the properties state what holds for calls of one kind, however
many race, and for calls that follow one another.

The status column is followed as far as it is the text of a `Start` or a `Stop`.
Their updates run with the context of the request and fail when its client leaves;
the last call of `startWorker` writes `online` however late, and a `config_update`
command writes what it carries. After any of these `status` is `other`, which may
be anything; `Delete` and the decommission may fail to delete the row.

What the loop and the flush
goroutine do with their messages is in the other modules: here they may have one to
publish at any time.

### BulkCreate

An item is a pair of a request and a position. `Post` sanitizes the list, `Acquire`
and `Release` are the semaphore, `OnboardGranted`, `OnboardConflict` and
`OnboardError` the outcomes of `Onboard`: after an error the service may have
provisioned the factory id all the same. `CreateGateway`, `Connect`,
`ListSensors`, `StartWorker` and `Compensate` are the saga with the request's
context, which the client cancels by leaving. `owner` is the memory of the
provisioning service (external). A management id is fresh for each granted
onboarding, so that rows never collide; what happens to a gateway after its saga is
in `GatewayRegistry`.

### Sensors

One gateway from the moment its row exists, under creation or restored, to its
removal (`life`), with requests that add, delete and disturb sensors. `stored`
is the sensors table, `attached` is `w.sensors`, `override` the pending outlier
of the generator with the same index. `AddSensor`, `CreateSensor` and
`AttachSensor` are the three parts of `AddSensor` between which the saga or a
removal runs; attaching is one step, because the map stays locked over it.
`Publish` may lose any value on its way to the buffer, whose own behaviour is in
`MessageBuffer`. `Stop`, `Start` and `LoopExit` are what these operations see of
the worker's lifecycle: after `Stop` the loop may serve further ticks until its
`select` draws the cancelled context. `OutliersSpec` says that the outliers emitted for each sensor
implement `LossyStream`; it spells out the two parts of that specification because
TLC takes no quantifier over a temporal formula with actions.

## 3. Model checking

All runs end within five minutes on two cores. `CHECK_DEADLOCK FALSE` stands
where the system may legitimately stop: a stopped worker, a process that is
down, bounds used up.

| Run | Instance | States | What it shows |
|---|---|---|---|
| `buffer` | capacity 3, 8 envelopes | 163 000 | nothing lost unseen, the newest kept, refinement, draining |
| `registry` | 2 gateways, 2 requests, 2 rows, 1 error, 1 restart, one client gone at a time, no events | 1 251 000 | all races of requests, errors, leaving clients, shutdown, crash and recovery |
| `registry_recovery` | 1 gateway, 1 request, 2 rows, 2 errors (a failed subscription is one), 1 event, 1 restart | 234 000 | map and rows under events; the gauge across errors, crashes and recovery; implements `GatewayCatalog`; requests, events and recovery end |
| `worker` | channels of 1, 2 commands, 2 anomalies | 78 000 | order, refinement, configuration; commands are handled, telemetry resumes |
| `lifecycle` | 2 callers, 2 lives | 213 000 | loop, flag, status and connection of one worker under racing, repeated and overlapping calls; stops return, cancelled lives end |
| `bulk` | 2 requests, lists of up to 3 entries, 2 factory ids, semaphore of 2, 2 errors | 151 000 | identities, rows and responses; implements `BulkPromise`; requests are answered |
| `sensors` | 2 requests, 2 sensors, 2 outliers, channel of 1 | 3 906 000 | rows, worker and outliers stay consistent |
| `delivery` | channels of 1, 2 deliveries, 2 commands | 1 124 000 | nothing acknowledged is lost unseen, the pump returns |

**Why the bounds are enough.** In the buffer an eviction needs a full channel and
a `Flush` step within one `Send`; eight envelopes overflow a capacity of three
repeatedly. In the worker two commands put one in the anomaly buffer and one in
the channel or in the hands of the loop, which is all that overtaking needs; the
anomalies include one that expires in the tick that activates it and one that
lasts; one update fills `configCh`. In the lifecycle two callers are a `Start` and
a `Stop` that meet, two of a kind, or one after the other, and the second life
meets what is left of the first. In the bulk requests a list of three waits for a
semaphore of two, and both lists can name one factory id, also twice. In the
registry two requests on one gateway give every pair of operations, and the second
gateway distinguishes a row from another gateway's; a second row lets a gateway be
created, deleted and created again. A client that has left makes its own
request's calls fail and no other's, so that one at a time meets every other
request. The listener, whose removal shares its steps with `Delete`, meets one
request in `registry_recovery`. One restart suffices for the invariants, since
everything in memory is reset by it, and a recovery after it meets every database
that a first life leaves. In `sensors` two sensors distinguish a sensor from
another's, and the second outlier meets the first in the channel or in the
generator. In the delivery channels of one are full after one command, the second
command meets them full, and the second delivery is the repetition. The theorems below
do not depend on the bounds; they prove every safety property of these runs for any
number of requests, events, errors, restarts, lives, items and deliveries together.

**Fairness**, and what in the code justifies it:

* `MessageBuffer`: weak fairness of `Flush`. Its goroutine is scheduled. A publish
  need not return: it is answered, fails, or waits for the cancelled context, and
  `BufferDrains` promises nothing while it waits. Nothing is assumed of the
  sender or of `Stop`.
* `GatewayWorker`: weak fairness of the tick, of time and of giving an answer up
  once the context is cancelled, not of its acknowledgement: `CommandsHandled` and
  `TelemetryResumes` exempt a loop that such an answer holds. Strong fairness of
  `TakeCommand` and of leaving the loop, because Go's `select` picks at random
  among ready cases, so that a case enabled again and again is not passed over for ever.
* `CommandDelivery`: weak fairness of the pump, strong fairness of its `Done` case
  for the same reason. Nothing of JetStream, the worker or `Stop`.
* `WorkerLifecycle`: weak fairness of a call that has begun, of a goroutine that
  was launched and of a `Publish` whose context is cancelled; strong fairness of
  the exits, again for `select`. NATS need not answer a publication, and nobody has to
  call.
* `BulkCreate`: weak fairness of the goroutines and the handler of a request: the
  HTTP client gives up after 15 seconds, store and connection have timeouts.
* `GatewayRegistry`: weak fairness of each goroutine once its method has begun:
  `w.Stop`, store calls and connection attempts are bounded by timeouts
  (`WorkerLifecycle` shows the first, `StopReturns`). Nobody
  has to send a request or an event, or to start the process again.

### Where code and documentation part

These runs check one expectation that the documentation or a test states, and
TLC finds the behaviour that breaks it.

| Run | Behaviour |
|---|---|
| `lifecycle_panic` | `Stop` waits for the loop, not for `Flush`, and closes the publisher for good; a flush goroutine that still takes a message, of this life or of a later one, dereferences nil and ends the process |
| `registry_restore_blocked` | a gateway stopped before a restart is restored with its own copy `offline`, stored as `online`, and stays silent |
| `registry_decommission` | an event that arrives before the gateway is in the map is acknowledged and has no effect |
| `worker_expired` | a command held back by a disconnect is executed at any age |

Other deviations met while modelling, without a run: a publish that is never
answered holds `Flush`, or the loop with its commands and ticks, until `Stop`,
because the context it is given has no deadline and replaces the request timeout
(`adapters/nats/publisher.go:31`, `app/worker.go:123`); the compensation of a saga
closes the command channel under a callback that may still send on it, which ends
the process (`app/registry.go:461`); a `Start` that follows a `Stop`
runs a worker whose publisher, connection and pump are closed for good, and a
`Start` that looked the worker up before a `Delete` runs it out of everybody's
reach (`app/registry.go:152`; both panic at their first publish, as in
`lifecycle_panic`); a `Start` that meets a `Stop` may leave two loops, or a
status that is not the worker's (`app/worker.go:122`, `app/registry.go:169`);
a decommission subscription that fails is only logged, and events published before
it exists are never delivered (`app/app.go:161`, `adapters/nats/decommission_listener.go:32`); an
identity is spent when the store fails after the onboarding (`app/registry.go:421`)
and a repeated request is then refused; a sensor added while the
saga of its gateway runs may never be attached, or be attached twice and emit
twice (`app/registry.go:238`); a deleted sensor goes on emitting until the next
restart (`app/registry.go:276`); after a lost acknowledgement a command that was
executed is answered `expired` once it is 60 s old; `Stop` does not decrement
the gauge `metrics/metrics.go:24` calls "Current running worker count", and a
`Delete` that fails in the store leaves it one too high until the process ends
(`app/registry.go:189`); a `Stop` or `Start` whose client has left changes the worker
but not the stored status, and `startWorker` may store `online` after a `Stop`
(`app/registry.go:169`, `app/registry.go:531`); a configuration update that is
answered NACK may be stored in part or in full (`app/worker.go:390`); the
buffer's occupancy gauge may rest at an older measure; the compensation of
a saga whose client has left fails with the same cancelled context and leaves
its row to the next recovery (`app/registry.go:469`); a command acknowledged to
JetStream is dropped when `commandCh` is full (`app/registry.go:518`); the
contract names `issuedAt` where `domain/gateway.go:198` decodes `issued_at`, so that a
command written by the contract has the zero time and is always expired.

## 4. Theorems

Every safety invariant, action property and refinement that a passing run checks
is also a theorem; only the liveness properties are left to TLC. The theorems hold
for every value of the constants that satisfies the named assumptions of the
module, bounds included.

| Module | Theorem | States |
|---|---|---|
| `MessageBufferProofs` | `TypeCorrect`, `LossIsCounted`, `EvictionKeepsNewest` | `TypeOK`, `NoSilentLoss`, `NewestKept` always |
| | `ImplementsLossyStream` | the buffer implements `LossyStream` |
| `GatewayWorkerProofs` | `TypeCorrect`, `CommandsKeepOrder`, `AcksAreApplied` | `TypeOK`, `CommandsInOrder` and `BufferNeedsAnomaly`, `AckedConfigApplied` always |
| | `NothingDuringAnomaly` | the action property `QuietDuringAnomaly` |
| | `AnswersImplementLossyStream` | the answers implement `LossyStream` |
| `GatewayRegistryProofs` | `TypeCorrect`, `RegisteredRowsExist`, `StaleIdsAreHarmless`, `RowsAreManaged`, `ConnectionsAreOwned` | `TypeOK`, `RegisteredHasRow`, `OwnRowOnly`, `EveryRowManaged`, `ConnectionsOwned` always |
| | `GaugeCounts` | `GaugeNeverShort` always |
| | `CatalogKept` | the registry implements `GatewayCatalog` |
| `CommandDeliveryProofs` | `TypeCorrect`, `ExecutedOncePerDelivery`, `AcknowledgedIsNotLost`, `PanicsNeedTeardown` | `TypeOK`, `ExecutedPerDelivery`, `AckedNotLost`, `PanicNeedsTeardown` always |
| `WorkerLifecycleProofs` | `TypeCorrect`, `OneLoop`, `StatesAgree` | `TypeOK`, `SingleLoop`, `StateAgrees` always |
| | `ClosesAfterLoop` | the action property `CloseAfterLoop` |
| `BulkCreateProofs` | `TypeCorrect`, `IdentitiesAccounted`, `OneRowPerFactory` | `TypeOK`, `NoSilentConsumption`, `OneGatewayPerFactory` always |
| | `PromiseKept` | the bulk handler implements `BulkPromise` |
| `SensorsProofs` | `TypeCorrect`, `OrphansNever`, `SensorsAttachedOnce` | `TypeOK`, `NoOrphans`, `SensorsServed` always |
| | `OutliersKept` | the outliers of each sensor implement `LossyStream` |

The assumptions are those of the code or of the bounds: channels and the semaphore
have a positive capacity, frequencies are positive, bounds are natural numbers,
names of nobody (`None`, `NoItem`, `Blank`) are nobody's, and at any moment there are finitely many
requests and callers (`RequestsAssumption`, `CallersAssumption`), without which
counting them would mean nothing. No theorem assumes anything of a state.

The arguments:

* **Buffer.** `NoSilentLoss` and `NewestKept` are inductive only together with
  what each point of `Send` knows of the channel: at the retry there is
  room, since `Flush` only takes. The refinement adds that everything on the
  stream is older than what `Flush` holds, and that than what is in the channel.
* **Worker.** The invariant has four parts. Types; the order of commands, which
  needs that a flush begins without an anomaly and that its position is reset;
  the configuration, by the last update in `configCh` that carries a field; the
  newest answer lies behind the commands handled. `CommandsInOrder` and
  `BufferNeedsAnomaly` are proved as one: without the second, a command taken
  from the channel would overtake the buffer.
* **Registry.** `RegisteredHasRow` is not inductive: it needs that at most one
  party, a goroutine that will register or remove a row, the recovery's
  list or the map, is responsible for it (`Exclusive`), that ids not handed out
  have no row (`Fresh`), that a management id has one row (`UniqueRows`), and
  that no request runs while the recovery does (`PhaseInv`). The connections
  need a finer account (`ConnAt`): at each step of a goroutine, whether its
  connection is open and its pump alive. The step lemmas go through the
  effects of the actions (`OwnGoto`, `OwnReturn`, `OwnDelete`, ...) rather than
  through forty actions one by one.
* **Gauge.** `GaugeNeverShort` compares a counter with the sizes of three sets: the
  workers in the map, the goroutines that have still to count one, and those that
  have still to discount one. It is inductive relative to the registry's invariant, which says that
  a gateway that is registered was not registered before and that one that is
  taken out was, so that the map changes its size by one. A step moves one
  goroutine between labels (`GaugeMove`), and what it adds to the lower side it adds
  to the upper one; a failed `Delete` takes from the lower side alone, which is why
  the statement is an inequality.
* **Catalog.** A stage depends on the rows, the map, the rows given up and the
  goroutines that work on them. Each action is reduced to one of eight effects on
  these (`Effects`), and each effect is a step or a stutter of the catalog
  (`CatalogStep`). Beyond the registry's invariant this needs `CatInv`: nobody
  goes on working on a row that was given up, but to remove it.
* **Delivery.** `ExecutedPerDelivery` compares a counter with another and says
  nothing of what is on its way. The invariant counts every place where a delivery
  can be, the inbox, the callback's and the pump's hand and the two channels
  included: all of them together are no more than the deliveries
  (`DeliveriesCover`). `AckedNotLost` needs that the callback reaches its
  acknowledgement only with a command that is accounted for, and
  `PanicNeedsTeardown` that the subscription is drained and closed only by a pump that
  has left its loop after `Stop`, or by the compensation instead of a pump.
* **Lifecycle.** Nothing orders `Start` and `Stop` but the election by
  `isRunning.Swap`, so the invariant is stated where the code's own argument
  holds: while calls of only one kind meet (`~mixed`), there is one winner
  (`OneWinner`), exactly the current life has a loop that nobody has cancelled
  (`OneServing`), and a status of `Start` or `Stop` that differs from `isRunning` has a
  caller on its way to write the column (`StatusFollows`); the other writers leave
  `other`, about which nothing is said. If moreover no `Stop` has given up waiting, a
  cancelled loop that still runs has a `Stop` that waits for its own channel
  (`WaitInv`); this gives `SingleLoop` and `CloseAfterLoop`. What holds
  unconditionally comes first: a loop only closes channels that were made
  (`LivesInOrder`).
* **Bulk.** The invariant follows one item (`ItemInv`): from its onboarding on it owns
  its factory id, it has its row until it is undone, and it is decided
  exactly when it has a gateway or an error, never both. `OneGatewayPerFactory`
  follows because an id has one owner. For `PromiseSpec` the answer has to be read
  like a client reads it: the list of gateways is shorter than the list of
  errors, so the k-th success has to be found at rank k (`RankFacts`,
  `EntriesFacts`).
* **Sensors.** Three parts beside the types. A sensor that is being created is unknown
  everywhere, and one request adds it (`SensorIdsInv`). A saga's worker starts
  with sensors of `early` only, and a sensor waiting to be attached is not attached yet
  (`CopyInv`); this is what keeps copies to one. `OutlierInv` orders
  the outliers of a sensor: what the buffer has is older than what the generator
  holds, and that than what waits in the channel; a generator that holds one is
  the first entry of its sensor, even where a sensor is attached twice.

Three definitions have the form they have because of the proofs, with the same
meaning: `RemoveSensorRow` takes one row out by its position (`Without`), and
`Sanitize` and `GatewayList` pick entries by position and rank (`Entries`) instead
of with a filter over sequences, about which the provers know nothing.

Only model-checked: the liveness properties `BufferDrains`, `CommandsHandled`,
`TelemetryResumes`, `PumpReturns`, `RequestsReturn`, `EventsHandled`,
`StopReturns`, `CancelledEnds` and `BulkReturns`, since liveness under fairness is
out of the provers' reach, and the four counterexamples of section 3.
Where a module contains a faulty variant, TLC and not a proof shows that the
property rejects it.

## 5. Not modelled, and why

* The floating-point generators, AES-GCM, TLS, files, HTTP decoding, DTOs and
  logging: library code, or data no property depends on.
* The loop for a send frequency of 0 (`app/worker.go`, the branch without a
  ticker): a creation replaces a frequency that is not positive by the default,
  which `config` keeps positive, and an update with one is refused (`HandleConfig`),
  so that no row has it.
* The migrations: they run before any other goroutine exists, each file with its
  record in one transaction of SQLite, so that nothing in the repository's code
  decides between their statements.
* The client library. Whether it deletes the listener's durable consumer when the
  subscription is drained is not in the repository; `Drain` does either.
* The errors of the two servers: `app.Run` returns without `StopAll`, which is a
  crash of `GatewayRegistry` for everything that is kept.
* `Publisher.Reconnect` and `GatewayRegistry.UpdateConfig`: no caller.
* The tenant and subject checks of the listener: a malformed subject is
  acknowledged without an effect.

## 6. Plan

1. *Done.* `MessageBuffer` with `LossyStream`; `GatewayRegistry` with
   `GatewayCatalog`; `GatewayWorker`; `CommandDelivery`; `Sensors`;
   `WorkerLifecycle`; `BulkCreate` with `BulkPromise`; the theorems about the first
   three.
2. *Done.* Theorems for `CommandDelivery`, `WorkerLifecycle`, `BulkCreate` and
   `Sensors`; `GaugeNeverShort` and `CatalogSpec` of `GatewayRegistry`.
3. Safety facts behind the liveness properties, which the provers can reach: that
   `Stop` has a step open at every point where it waits, that a cancelled life has
   no step back into its loop, that the pump after `Stop` only moves towards its
   end.
4. A stronger statement for `WorkerLifecycle` when kinds of calls meet: which of
   the facts of `OneServing` survive.
