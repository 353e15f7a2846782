# Verification of the restaurant ordering system

TLA+ specifications of the order service (`src/backend/app`) and of the browser
(`src/frontend/src/lib`) that orders, follows and tests it over MQTT, with TLC
configurations for small instances and TLAPS proofs for every instance.

Check a model with `tlc -workers 2 -config <run>.cfg <MC module>`, the proofs of
a module with `tlapm <module>.tla`; the modules with proofs are `SequenceFacts` and
those named `...Proofs`.

## 1. The system

| part | state | operations | talks to |
| --- | --- | --- | --- |
| **Order registry** (`order_registry.py`, `order_state.py`) | a bounded dict of order states by (table, order id) | `register`, `_make_room`, `apply` with the pure `transition` | called by every task of the service |
| **Order service** (`mqtt_service.py`) | processing queue, status queue, `_pending_update`, `_deferred_republishes`, `_snapshots_initialized`, `_pressure_changed` | the receiver `_handle_message`, one `_consume_orders` per worker, `_publish_status_updates`, `_publish_pressure_updates`, the connection manager | broker, registry, projections |
| **Table snapshots** (`table_projection.py`) | the latest orders of each table, a revision per table | `initialize`, `apply` | status publisher |
| **Kitchen pressure** (`kitchen_pressure.py`) | worker slots, revision, last signature and snapshot | `initialize`, `worker_started`, `worker_stopped`, `capture` | workers, pressure publisher |
| **Broker** (`deploy/mosquitto`) | retained messages, sessions | forwards and retains, QoS 1 | everybody |
| **Order view** (`order-state.ts`, `restaurant-session.svelte.ts`, the order dialog) | the orders in view, a snapshot cursor per table, bulk orders under way | place one or some orders, reduce statuses and snapshots | broker |
| **Broker session** (`restaurant-session.svelte.ts`, `mqtt/client.ts`, `mqtt/settings.ts`, the settings dialog) | the client in use, a connection generation, the state shown, the stored settings | start, connect, subscribe, save, reset, disconnect, destroy | MQTT library, broker, storage |
| **Boundary lab** (`boundary-tests/`, its cards) | the state of four tests, sets of their order ids, timers, loops | run, start, stop, reduce statuses and pressure, destroy | order view, broker session |
| contracts, topics, settings of the service, logging, other UI components, deployment | none of their own that changes | parsing, rendering | |

What is hard. asyncio interleaves the service's tasks at every await: the
receiver has none, a worker has one (the processor), a publisher's turn has two
(the status and the snapshot publish). A publish may fail after the broker
accepted it; requests come at least once; the process, the broker, either link
and the page may each restart or break on their own; and every queue is bounded.
In the browser nothing is locked: a call suspended at an await finds another
client, another session or another test run when it goes on.
`PROJECT.json` lists the hazards at their lines. For each part, correct means:

- registry: bounded, never forgets an active order, no event is ever rejected;
- service: an admitted order is owned by one place at a time, ends, and its
  events reach the broker in order; refused work is not done;
- publisher: an interrupted update is published again, a retry that arrives
  meanwhile is answered once;
- projections: the retained message equals the projection when nothing is left
  to publish, and a revision names one snapshot;
- order view: it converges to the retained snapshots whatever it missed, and
  keeps what the user placed;
- broker session: one broker at a time, what is shown belongs to it, and what is
  stored is what a reload uses;
- lab: its verdicts are those of the events that happened, one test publishes at
  a time, and a test ends.

## 2. Modules

| module | models |
| --- | --- |
| `OrderState` | the reducer: statuses, events, `transition` |
| `OrderService` | service, registry, workers, status publisher, connection, restart |
| `Kitchen` | abstract: what the service promises about orders, without queues, updates or links |
| `OrderServiceProps` | properties of `OrderService`, and the refinement mapping to `Kitchen` |
| `KitchenPressure` | pressure projection and publisher, retained message, the console |
| `TableViews` | status publisher with its projection, retained snapshots, the browser's reducer |
| `BrowserSession` | the clients of a page, changes of the broker, stored settings, the settings dialog |
| `LabTests` | the four tests of the lab as functions from their state to the next |
| `BoundaryLab` | the lab: cards, publishes under way, statuses and snapshots that come back |
| `SequenceFacts` | lemmas on sequences, induction and recursive functions |
| `OrderServiceProofs` | proofs about `OrderService`: its invariant and what follows |
| `KitchenPromiseProofs` | that `OrderService` implements `Kitchen` |
| `OrderHistoryProofs` | proofs about its past: refused work, the order of events |
| `KitchenPressureProofs`, `TableViewsProofs`, `BrowserSessionProofs`, `BoundaryLabProofs` | proofs about the module of that name |
| `MCOrderService`, `MCKitchenPressure`, `MCTableViews`, `MCBrowserSession` | symmetry sets and constant values for TLC |

### OrderService

An action is what one task does between two awaits.

- `Receive*`: one action per outcome of `_handle_message`; each includes
  `register`, the eviction it may make, the put into the processing queue and
  the status update. A request is handed over at most `MaxDeliveries` times. A
  message that is malformed or on another table's topic is logged and changes
  nothing, so it has no action.
- `WorkerStart`, `WorkerPrepared`, `WorkerFailed`: `_consume_orders` up to and
  after the await of the processor. `asyncio.Queue.get` on a non-empty queue does
  not suspend, so the code has fewer interleavings than the model.
- `TakeUpdate`, `StatusPublished`, `SnapshotPublished`: a turn of the publisher,
  cut at its two awaits. `updates` is `_pending_update`, if there is one,
  followed by the status queue; `pending` says whether there is one.
- `ConnectionLost`, `Connect`: the tasks of the connection are cancelled and
  started again. What was being published may or may not have been accepted:
  `announced` holds what the broker last accepted of each order.
- `QueueStatusUpdate`: a full status queue raises a `RuntimeError` that no task
  catches. `service` is then "overflowed" and everything stops until `Restart`.
- `Restart`: memory is gone, the broker's view is not. A process killed while it
  is down or overflowed is the same step.

The history variables `rejected`, `deliveries`, `drops` and `restarts` serve the
bounds and the properties; no guard of the service's own reads them otherwise.

### KitchenPressure

The kitchen is reduced to its queue and its workers, and each place that sets
`_pressure_changed`. `Capture` is the wake-up, the clearing and `capture()`
without an await between them; `Published` is the end of the publish.
`last` is the cached snapshot, from which the last signature follows.
`Initialize` and `Reconnect` are the two ways to connect. The console takes
what the broker forwards in order, applies the guard of `onKitchenPressure`,
and starts from the retained message when it subscribes. `Decodable` is what the
decoder checks beyond the schema: a queue within its capacity. After `Restart` a
retained snapshot of the old instance stays until the new one initializes.

### TableViews

Which updates exist is `OrderService`'s business; here the publisher takes any
update that may follow the last of its order. `Applied` is
`TableSnapshotProjection.apply`, `WithStatus`, `WithSnapshot`, `Newer` and
`Failed` are the functions of `order-state.ts`. An update is a value with a
stamp (its `occurredAt`), so a repeated update equals the first one, as in the
code. `Send` is `placeOrder` behind the dialog, which waits for one order at a
time; its publish returns or fails at any later time, although it may have
arrived (`SendReturns`). `SendBulk` publishes fresh orders of one table at once;
`BulkSettles` marks those that failed only when all have settled, whatever was
shown or lost meanwhile. `Decodable` is what the decoder checks of a snapshot
beyond its schema. `Only` is what `filter` does, a recursive function so that it
can be reasoned about. The snapshots of
`_initialize_retained_snapshots` are published as one step. The broker delivers
to a subscribed browser in order; a lost link loses what was on its way.

### BrowserSession

Every `RestaurantMqttClient` a page creates is kept in `clients`: after
`disconnect()` it goes on to hear from its link until it has ended, which is
where the hazards are. `phase` is where `disconnect()` is, `link` the library's
view of the connection, `asked` whether a subscription is under way, `unacked`
whether an order is published and not yet acknowledged.

- `LinkUp`, `Subscribed`, `SubscribeFails`, `LinkLost`, `Retry`, `InvalidMessage`,
  `Pressure`: the library's events and their handlers in `connect()`. `offline`
  and `close` come in either order; a lost link fails the subscription under way.
- `Publish`, `Acknowledged`: `publishOrder` of the client in use, as far as a
  disconnect waits for it. The library keeps a publish over a lost link.
- `Closing`, `Unsubscribed`, `Ending`, `Ended`: `disconnect()`, cut at its awaits.
  `endAsync()` is not forced (`client.ts:170`): with a publish unacknowledged the
  library waits for it (`draining`), on the link it has, and connects no more.
  The broker answers in order, so an unsubscription settles after the
  subscription before it; a lost link fails both.
- `Save`, `Reset`, `Reconnect`, `Resume`: the dialog, `saveBrokerSettings`,
  `resetBrokerSettings` and `#reconnectToBroker`, cut at the await of the previous
  client. `tasks` are the suspended calls; `generation` decides which goes on.
- `SaveRefused`, `SaveFails`: settings that are not valid, and a `setItem` that
  throws with some of the values written.
- `Reload`, `Destroy`: the page loaded again, in its tab or a new one, and the
  cleanup of `onMount`.

A URL is a record of what `normalizeMqttUrl` looks at, with a `spelling` that
tells what was entered from `url.href`. Of what is received only the kitchen
pressure is followed here, as the broker it came from; orders are `TableViews`'s.
A settled save leaves the dialog's `saving`, also when an outdated call settles.

### LabTests and BoundaryLab

`LabTests` has what each test does with a settled batch, a status, a snapshot, a
timeout and a stop, as functions on a record of its fields; `BoundaryLab` calls
them in the order the controller does. A batch under way is `live` while a loop
still awaits it; after an abort it settles all the same, and takes its failed
orders from whatever run there is by then. The service is the environment:
`Following` lets it repeat events, hand over a failed order again and execute one
it refused, since to find that is what the lab is for. `life`, `ended` and
`returned` are history: what happened, to compare the verdicts with.

## 3. What the runs show

| run | instance | shows |
| --- | --- | --- |
| `service_core` | 3 orders, 1 worker, 1 seat, 2 registry entries, each request twice, 1 restart | types; no rejected event; registry bound and eviction; one update on the way per ready order; a request handed over once and refused is not executed |
| `service_live` | 2 orders, 2 workers, 1 seat, each request twice, 1 drop | queue, registry and workers agree; the service implements `Kitchen`; events reach the broker in order; queued orders settle; deferred retries are replayed |
| `pressure` | 2 admissions, a drop of each link, a restart | no lost change; revisions name snapshots; the console catches up |
| `views` | 2 orders of a table that shows one, placed from this browser, singly or in bulk, 4 updates, 1 fault | retained snapshots are current while the broker lives; the browser converges to them; an order is shown once; a placed order stays until answered; an answer is not taken back |
| `session` | 3 clients, 4 drafts, one fault of each kind | one connection; what is shown is the client's in use; what is stored is what a reload uses; unless a client is stranded, a save ends and the page comes online, with its own broker's pressure |
| `lab` | 2 orders, batches of 2, loops of 1 round | ghosts are reported and nothing else is; orders are counted once; a burst completes when its orders ended; only the active test publishes; every test ends; the rate is kept |

Six runs show a disagreement between the code and what the repository says of it:

| run | counterexample |
| --- | --- |
| `service_ghost` | a refused request is executed when its QoS 1 duplicate arrives after the queue drained; `register` cannot tell it from a retry |
| `service_overflow` | the bounded status queue fills while a publish is awaited, and the service ends |
| `pressure_tables` | a worker goes from one table's order to another's with the same id; the signature has no table, and the retained snapshot keeps the old one |
| `views_shared` | `applyOrderStatus` matches by id alone and overwrites the other table's order |
| `views_broker` | a broker without persistence restarts; the service, connected again with nothing left to publish, has an order that the refreshed page does not show |
| `session_stranded` | the broker is changed while an order is unacknowledged and the link is down: the disconnect does not settle, and the dialog stays locked |

`RefreshRestores`, of `views_broker`, asks for nothing while the service is away
or has something to publish: were `Reconnect` to publish the snapshots of
`initialize` again, it would hold. `SavingEnds` and `SaveReconnects` are the two
sides of one question: a save ends unless the client it replaces is `Stranded`,
and `session_stranded` shows that this happens. `KitchenPromise` and
`OneWorkerPerOrder` are run without restarts; the theorems cover them with any
number.

Each passing property is also checked against a mutant of the model, an operator
named in `PROJECT.json` that stands for a plausible bug.

### Bounds

One seat, one or two workers and a registry of the least size the settings
accept make every limit bite: the queue fills, the registry evicts, refuses and
retries, and with two deliveries of two orders the status queue of eight
overflows, so the paths after it are explored too. Two deliveries are what
it takes to retry, to republish and to defer; one drop suffices to interrupt
each publish once, as the pending update is the only thing that survives it; a
registry of two with three orders is the least in which an eviction has a choice.
In the views one shown order per table and two orders force eviction, and four
updates reach a finished order and one more of the other. Both orders may be placed
in bulk, which is where one publish of a batch fails and the other does not; to a
browser that was refreshed they are orders of others. One fault of any kind meets
every step of the publisher and of the browser; several faults, such as a restart
during an outage, and several tables, are what the theorems add: all five properties
are proved for any bounds, three of them where ids are unique. Three clients are one in use, one it is replaced by and
one more that overlaps with the replacement; each fault once is enough for it to
meet every await, since nothing in the session counts. Two orders fill a batch or
make two rounds, so that a batch of a stopped run meets a later one.
`OverloadKeepsRate` computes the rounds of the shortest run for each rate the card
allows; every fourth round leaves no fraction, so longer runs repeat them. It is
about that computation: in `OverloadRound` the size of a batch is a choice within
the bound, so that batches stay small. Deadlock is not checked:
with bounded requests and faults every instance comes to rest.

### Fairness

`LiveSpec` assumes weak fairness of each worker, of the publisher and of the
connection manager (in `KitchenPressure` also of the pressure publisher and the
console). The code justifies it: the event loop runs every ready task, the
processor only sleeps, a publish on a live connection is acknowledged, and the
manager and the browser's client reconnect until they succeed. Nothing is assumed
of requests, lost connections or restarts. `BrowserSession` assumes that the
library connects until it is told to end, that a subscription and an
unsubscription settle, that a retained snapshot is delivered and a publish
acknowledged while the link is up, and that `endAsync()` settles when nothing is
left to acknowledge, each per client, and that a settled promise resumes its
call; nothing of the user or of the faults, which are finitely many.
`BoundaryLab` assumes that publishes settle and that time passes: a timer fires, a
wait is over, a duration ends. The first does not hold on a link that never comes
back or of a stranded client, and the tests have no timeout over their publishes
(`burst.ts:53`): `ActiveTestEnds` speaks of a page whose broker answers.
`OverloadEnds` stands for the end of the observation. An overflow ends the liveness promises:
both liveness properties of the service say so with `~Running`.

## 4. What is proved

Every safety property the passing runs check is also a theorem, for all values of
the constants that satisfy the module's assumption. The runs came first: each
inductive invariant was checked by TLC on the run's instance before it was proved.

| module | theorem | property |
| --- | --- | --- |
| `OrderServiceProofs` | `ServiceInvariant` | the inductive invariant `ServiceInv` |
| | `TypeCorrect`, `NoEventRejected`, `RegistryIsBounded` | `TypeOK`, `NoRejectedEvent`, `RegistryBounded` |
| | `QueueIsQueued`, `OwnedByOneWorker` | `QueueHoldsQueued`, `OneWorkerPerOrder` |
| | `ReadyOnItsWay`, `PublisherKeepsPosition` | `ReadyIsOnItsWay`, `PublisherPosition` |
| | `ActiveIsKept` | `ActiveNeverForgotten` |
| `KitchenPromiseProofs` | `ServiceKeepsPromise` | `KitchenPromise`, the refinement |
| `OrderHistoryProofs` | `NoGhost`, `InOrder` | `NoGhostWork`, `AnnouncedInOrder` |
| `KitchenPressureProofs` | `PressureTyped`, `ChangeReachesBroker`, `RevisionIsEnough` | `TypeOK`, `NoLostChange`, `RevisionIdentifiesSnapshot` |
| `TableViewsProofs` | `ViewsTyped`, `RetainedCurrent` | `TypeOK`, `RetainedWhileBrokerLives` |
| | `EachShownOnce`, `PlacedStaysInView`, `ViewsMatch` (if ids are unique) | `ShownOnce`, `PlacedOrderIsKept`, `ViewMatchesRetained` |
| `BrowserSessionProofs` | `SessionTyped`, `OneLiveConnection`, `StateShown`, `SettingsSurvive` | `TypeOK`, `OneConnection`, `ShownIsReal`, `StoredIsActive` |
| `BoundaryLabProofs` | `LabTyped`, `GhostReported`, `CountedOnce`, `BurstIsComplete` | `TypeOK`, `GhostIsReported`, `TerminalCountedOnce`, `BurstCompletes` |
| | `OneTestPublishes` | `OnlyTheActiveTestPublishes` |
| | `LoadIsRate`, `KeepsRate` | what `Load` computes, for any rate and number of rounds; `OverloadKeepsRate` |

### Assumptions

`ServiceAssumption` has the checks of `__init__` and `Settings.from_env`. The others
ask that bounds are numbers, that workers and order keys are finite and that a
model value for "nothing" is none of the values it stands beside; `MaxOrders` is at
most 10 because `TableSnapshotProjection.__init__` refuses more.

Three theorems on the order view have the hypothesis `UniqueIds`: no two orders
share an id, whatever their tables. The page's ids are random UUIDs, but neither
the service nor the reducer checks them across tables. The instance of
`views` satisfies it; `views_shared` shows that `ViewMatchesRetained` fails
without it.

### The order service

None of its properties is inductive alone. That the reducer accepts
`ProcessingStarted` needs that the head of the queue is queued
(`QueueHoldsQueued`); that it accepts the worker's event needs
`OneWorkerPerOrder`; that it accepts `PublishConfirmed` and the replay needs that
the update published is the only FoodReady of a food_ready order
(`ReadyIsOnItsWay`) and that the publisher holds it (`PublisherPosition`); that
eviction disturbs none of these needs that only failed and published orders are
evicted, and `RegistryBounded` to know which entries there are. The invariant
`ServiceInv` is their conjunction. All but the types hold only while the service
runs: in the step that overflows, the code stops in the middle of a handler.
The proof takes one lemma per action, each with the facts that action can
disturb.

*Refinement.* `placeOf` says where the code holds an order: in the queue, at a
worker, in an update. From `ServiceInv` it is what the registry's status says
(`Mapped`), so that a step of the service moves the order whose status its event
changes, and forgets at most the one it evicts, which is a step of `Kitchen`; the
other steps stutter, but for `Restart` and the overflow, which close the kitchen.

*History.* `GhostInv` adds that whatever was answered or admitted was delivered;
refusing what is executed then takes a second delivery. `HistoryInv` says that
what the broker saw last of an order, followed by its updates still to be
published, is one history, which ends as the registry's status of it says:
`AnnouncedInOrder` alone speaks of one publish and says nothing of those to come.

### Kitchen pressure

`PressureInv` adds to the properties that without a signalled change the last
snapshot has the signature of the kitchen (`Captured`), that it is pending or
retained (`Retained`), and that no snapshot anywhere is of a later revision than
the present one (`Dated`): so a new revision is new to everybody.

### Table snapshots and the order view

Five parts, each inductive with those before it:

1. `PublisherInv`: a table's retained snapshot is current unless the pending update
   is of that table and the projection has taken it; the publisher then publishes
   the snapshot again after a lost link. `RetainedCurrent` follows.
2. `OnceInv` and `NewInv`: every list, in the projection, in a retained snapshot,
   on its way or in view, has an id once, and nobody has heard of an order the
   form has not placed yet. With them a status or snapshot replaces what it finds.
3. `VersionInv`: every version that a cursor, the broker or a message holds was
   reached by the service, and one of the current version has the current list.
4. `OrderInv`: cursor, messages and retained snapshot are in the order of their
   versions, and a browser that is online has the retained version or will receive
   it. This is what `Newer` relies on: it refuses only the version it has.
5. `ViewInv`: a browser that applied the current snapshot shows the projection,
   and statuses that arrive after that snapshot are known to it, so that they change
   nothing. The exception is the update a lost link left half published: its
   status may be shown before the projection takes it, under a new revision.

The five are also what one would check in a change of `order-state.ts`: the
first needs the service only, the others hold it together with the browser.

### The browser's session and the lab

`ShownIsReal` speaks of a client in use. Between two clients the state shown may be
the last word of the previous one; nothing can be published then. `SessionInv` adds
`Turn` (at most one call awaits a disconnect, and then no client
is in use), `Wired` and `Awaited` (a client that is neither in use nor closed is
the one that call awaits, so the next one is created after it ended) and
`Remembered` (what is stored is active or about to be). `LabInv` adds `OneActive`
and `OneLive` (the batch that is awaited belongs to the active test), `LoopsRun`,
and per test what its counts are counts of; `SaturationForgets` and
`OverloadNotes` tell orders of an earlier run from those of this one.

### Lemmas

`SequenceInduction` and `SetInduction` in `SequenceFacts` state induction with a set
in place of a predicate, and `Recursion` that a function defined by its first value
and a step exists: from these follow what `Only` keeps (`OnlyHolds`, `OnlyConcat`,
`OnlyTwice`...) and what `Load` sums up.

### What the attempts found

- `TypeOK` of `BrowserSession` said that stored credentials are those of one login.
  They need not be: a write that fails after the username leaves the old password
  (`settings.ts:138-139`). It now says what holds.
- `TypeOK` of `TableViews` bounded the revision by the number of updates made. A
  `food_ready` update that is published again after its order was evicted is no new
  update but a new revision. The run's bounds had hidden it.
- The assumptions that the constants for "nothing" are no snapshots and that there
  is a client to create were missing.

### Only model-checked

Liveness, which is beyond the prover: `OrderSettles`, `DeferredIsReplayed`,
`ConsoleCatchesUp`, `SavingEnds`, `ComesOnline`, `PressureFollows` and
`ActiveTestEnds`. They assume the fairness of section 3.

## 5. What is not modelled

Schema validation, topic strings and encodings (an invalid message is reported
and changes nothing else); a processor that returns another order's food, which
the service's own does not; time and the back-off between reconnects (a
connection succeeds some time); the limits of the broker per client and of
aiomqtt's incoming queue; a request the broker acknowledges while the service is
away, which leaves the order "sending" since the page has no timeout; access
control, TLS and deployment; table cards, panels and the pressure monitor, which
render state and keep none that the system depends on; the counts the lab shows
and nothing decides on; how many orders a saturation round publishes, which is a
choice within a bound. `MAX_CREDENTIAL_LENGTH` is the value "too long".

The models are not composed into one: the session leaves the orders in view as
they are when the broker changes (`restaurant-session.svelte.ts:231-256`), so that
`TableViews` and `BrowserSession` share no state but the link and the publishes a
disconnect waits for, and the lab sees
the service only through statuses and snapshots, about which it may assume nothing.

## 6. Plan

All modules of section 2 are written, and the safety properties of the runs proved.
What is left:

1. an abstract view of a table, a register of versions that the service writes and
   browsers read, with `TableViews` shown to implement it from `OrderInv` and
   `ViewInv`;
2. that the updates `TableViews` takes are those `OrderService` publishes: its
   `Follows` against `MayFollow` and `HistoryInv`;
3. the non-temporal part of the liveness arguments: that a measure decreases with
   each step of the worker and the publisher.

## 7. What the code does, for its readers

Met while modelling, and in the models as the code has it; no run states the
opposite, since no test or document of the repository does, or one would have to
read it into the wording.

- `saturation.ts:70` rounds the limit of a quarter of a second up. A "Maximum
  publish rate, orders/s" (`saturation-test-card.svelte:69`) of 1 allows an order
  in every quarter of a second, 4 per second; 5 allows 8.
- Between a change of the broker and the next client, a late acknowledgement may
  set the state shown to "connected" or "offline" (`client.ts:72`, `:171`); the next
  client sets it again (`client.ts:52`).
- A refused subscription (`client.ts:78`) is reported and not tried again while
  the link stays up; the page says "Orders are paused while we reconnect
  automatically" (`+page.svelte:97`) until the link breaks for another reason.
  `ComesOnline` excludes it.
- A batch of a stopped run that settles during the next run is added to the next
  run's published counts (`overload.ts:172`, and alike in `saturation.ts`).
- A burst some publishes of which failed completes when as many orders ended as
  publishes succeeded, although a failed publish may have been executed and
  counted (`burst.ts:114`). `BurstCompletes` is about bursts that were published
  as a whole.
- `idempotency.ts:97` decides over the set of statuses seen, so two complete
  lifecycles of the order pass like one.
- `saveBrokerSettings` stores the URL before the credentials and does not take it
  back when the second write throws; the page keeps its broker and a reload joins
  the other (`restaurant-session.svelte.ts:121`).
