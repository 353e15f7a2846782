---------------------------- MODULE OrderService ----------------------------
(***************************************************************************)
(* The order service of src/backend/app: MqttOrderService with its         *)
(* OrderRegistry, its processing queue and worker pool, and the publisher  *)
(* of status updates, over an MQTT link that can drop.                     *)
(*                                                                         *)
(* asyncio runs one task at a time, so an action is what a task does       *)
(* between two awaits.  The tasks are the receiver (_handle_message, which *)
(* has no await), one _consume_orders per worker, the status publisher,    *)
(* and the connection manager.                                             *)
(***************************************************************************)
EXTENDS OrderState, Naturals, Sequences, FiniteSets, SequencesExt

CONSTANTS
  Tables,             \* tables of the restaurant
  OrderIds,           \* UUIDs, which two tables may choose independently
  Foods,              \* food names
  Workers,            \* worker numbers
  QueueCapacity,      \* ORDER_QUEUE_CAPACITY
  RegistryCapacity,   \* ORDER_REGISTRY_CAPACITY
  MaxDeliveries,      \* bound: how often the broker hands over one request
  MaxDrops,           \* bound: how often the MQTT link drops
  MaxRestarts,        \* bound: how often the process is started anew
  NoKey,              \* a worker's slot when it is idle
  NoFood              \* the ordered food of a key that is not registered

\* An OrderKey: idempotency is scoped to a table.
Keys == Tables \X OrderIds

\* A validated OrderRequested, with its (table_id, order_id) as key.
Orders == [key : Keys, food : Foods]

\* The public events, with the failed event split by its code.
Kinds == {"queued", "processing", "food_ready", "service_overloaded",
          "processing_failed"}
FailedKinds == {"service_overloaded", "processing_failed"}
Updates == [key : Keys, kind : Kinds, food : Foods]

\* maxsize of the status update queue.
StatusCapacity == (Cardinality(Workers) + QueueCapacity) * 4

\* Bounds of __init__ and the cross check of Settings.from_env.
ASSUME ServiceAssumption ==
  /\ IsFiniteSet(Workers) /\ Workers # {}
  /\ QueueCapacity \in Nat \ {0}
  /\ RegistryCapacity \in Nat
  /\ RegistryCapacity >= Cardinality(Workers) + QueueCapacity
  /\ MaxDeliveries \in Nat /\ MaxDrops \in Nat /\ MaxRestarts \in Nat
  /\ NoKey \notin Keys /\ NoFood \notin Foods

VARIABLES
  service,      \* "running", or "overflowed" once a RuntimeError ended run()
  connected,    \* the client is subscribed and the connection tasks run
  status,       \* registry: status of each key, "absent" when unregistered
  ordered,      \* registry: the food the key was registered with
  registered,   \* registry: the keys in dict insertion order
  queue,        \* _processing_queue
  working,      \* the key each worker holds between its get and task_done
  updates,      \* _pending_update, if any, followed by _status_updates
  pending,      \* TRUE when the head of updates is _pending_update
  stage,        \* which publish the status publisher awaits
  deferred,     \* _deferred_republishes
  announced,    \* last status event of each key the broker accepted
  rejected,     \* history: requests answered service_overloaded
  deliveries,   \* history: how often each request was handed over
  drops,        \* history: connection losses so far
  restarts      \* history: restarts of the process so far

registryVars == <<status, ordered, registered>>
kitchenVars == <<queue, working>>
publisherVars == <<pending, stage, deferred, announced>>
linkVars == <<connected, drops, restarts>>
vars == <<service, registryVars, kitchenVars, updates, publisherVars,
          rejected, deliveries, linkVars>>

Running == service = "running"

Update(k, kind, food) == [key |-> k, kind |-> kind, food |-> food]

\* Updates waiting in _status_updates itself.
Waiting == IF pending THEN Len(updates) - 1 ELSE Len(updates)

(***************************************************************************)
(* _queue_status_update(update), when `rest` is what is unpublished before *)
(* and `waiting` of it is still in the queue.  A full queue raises a       *)
(* RuntimeError no task catches: the TaskGroup of run() ends the service.  *)
(***************************************************************************)
QueueStatusUpdate(rest, waiting, u) ==
  \/ /\ waiting < StatusCapacity
     /\ updates' = Append(rest, u)
     /\ service' = service
  \/ /\ waiting >= StatusCapacity
     /\ updates' = rest
     /\ service' = "overflowed"

\* What __init__ of the service and of the registry build.
EmptyMemory ==
  [status |-> [k \in Keys |-> "absent"], ordered |-> [k \in Keys |-> NoFood],
   working |-> [w \in Workers |-> NoKey]]

Init ==
  /\ service = "running" /\ connected = FALSE
  /\ status = EmptyMemory.status /\ ordered = EmptyMemory.ordered
  /\ registered = <<>>
  /\ queue = <<>> /\ working = EmptyMemory.working
  /\ updates = <<>> /\ pending = FALSE /\ stage = "idle" /\ deferred = {}
  /\ announced = [k \in Keys |-> "none"]
  /\ rejected = {} /\ deliveries = [o \in Orders |-> 0]
  /\ drops = 0 /\ restarts = 0

-----------------------------------------------------------------------------
(* The receiver: _handle_message on a valid request.                       *)

\* The broker hands a request over; QoS 1 may hand it over again.
Receive(o) ==
  /\ Running /\ connected
  /\ deliveries[o] < MaxDeliveries
  /\ deliveries' = [deliveries EXCEPT ![o] = @ + 1]
  /\ UNCHANGED <<working, linkVars, pending, stage, announced>>

\* Mutants: eviction of a finished order that is not published yet, and of the
\* oldest order whatever it does.
EvictableFinished ==
  {i \in DOMAIN registered :
     status[registered[i]] \in Terminal \union {"food_ready"}}
EvictableOldest == DOMAIN registered

Evictable == {i \in DOMAIN registered : status[registered[i]] \in Terminal}

\* Mutant: one entry too many.
MakesRoomLate(i) ==
  \/ Len(registered) <= RegistryCapacity /\ i = 0
  \/ /\ Len(registered) > RegistryCapacity
     /\ i \in Evictable /\ \A j \in Evictable : i <= j

\* _make_room succeeds by evicting position i, or with i = 0 evicts nothing.
MakesRoom(i) ==
  \/ Len(registered) < RegistryCapacity /\ i = 0
  \/ /\ Len(registered) >= RegistryCapacity
     /\ i \in Evictable /\ \A j \in Evictable : i <= j

RegistryFull == Len(registered) >= RegistryCapacity /\ Evictable = {}

\* register(o) stores a new entry, whose status the handler leaves at s.
Enters(o, s) ==
  /\ status[o.key] = "absent"
  /\ \E i \in 0..Len(registered) :
       /\ MakesRoom(i)
       /\ LET gone == IF i = 0 THEN {} ELSE {registered[i]}
              kept == IF i = 0 THEN registered ELSE RemoveAt(registered, i)
          IN /\ registered' = Append(kept, o.key)
             /\ status' = [k \in Keys |-> IF k = o.key THEN s
                                          ELSE IF k \in gone THEN "absent"
                                          ELSE status[k]]
             /\ ordered' = [k \in Keys |-> IF k = o.key THEN o.food
                                           ELSE IF k \in gone THEN NoFood
                                           ELSE ordered[k]]

\* register(o) retries a failed entry, in place.
Retries(o, s) ==
  /\ status[o.key] = "failed" /\ ordered[o.key] = o.food
  /\ status' = [status EXCEPT ![o.key] = s]
  /\ UNCHANGED <<ordered, registered>>

\* The status register gives a retried order, and the one a full queue leaves.
\* Mutant: the order is refused and stays queued.
Retried == Transition("failed", "RetryRequested")
RefusedUnmarked(s) == s
Refused(s) == Transition(s, "QueueAdmissionFailed")

\* Mutant: one seat too many.
ReceiveAdmittedOver(o) ==
  /\ Receive(o)
  /\ Len(queue) <= QueueCapacity
  /\ Enters(o, "queued") \/ Retries(o, Retried)
  /\ queue' = Append(queue, o.key)
  /\ QueueStatusUpdate(updates, Waiting, Update(o.key, "queued", o.food))
  /\ UNCHANGED <<deferred, rejected>>

\* RegistrationAction.PROCESS, with room in the processing queue.
ReceiveAdmitted(o) ==
  /\ Receive(o)
  /\ Len(queue) < QueueCapacity
  /\ Enters(o, "queued") \/ Retries(o, Retried)
  /\ queue' = Append(queue, o.key)
  /\ QueueStatusUpdate(updates, Waiting, Update(o.key, "queued", o.food))
  /\ UNCHANGED <<deferred, rejected>>

\* Mutant: the refused order keeps the seat it was waiting for.
ReceiveQueueFullSeated(o) ==
  /\ Receive(o)
  /\ Len(queue) >= QueueCapacity
  /\ Enters(o, Refused("queued")) \/ Retries(o, Refused(Retried))
  /\ queue' = Append(queue, o.key)
  /\ QueueStatusUpdate(updates, Waiting,
                       Update(o.key, "service_overloaded", o.food))
  /\ rejected' = rejected \union {o}
  /\ UNCHANGED deferred

\* RegistrationAction.PROCESS, with the processing queue full.
ReceiveQueueFull(o) ==
  /\ Receive(o)
  /\ Len(queue) >= QueueCapacity
  /\ Enters(o, Refused("queued")) \/ Retries(o, Refused(Retried))
  /\ QueueStatusUpdate(updates, Waiting,
                       Update(o.key, "service_overloaded", o.food))
  /\ rejected' = rejected \union {o}
  /\ UNCHANGED <<queue, deferred>>

\* OrderRegistryFullError.
ReceiveRegistryFull(o) ==
  /\ Receive(o)
  /\ status[o.key] = "absent" /\ RegistryFull
  /\ QueueStatusUpdate(updates, Waiting,
                       Update(o.key, "service_overloaded", o.food))
  /\ rejected' = rejected \union {o}
  /\ UNCHANGED <<registryVars, queue, deferred>>

\* RegistrationAction.CONFLICT and IGNORE: logged, nothing else.
ReceiveIgnored(o) ==
  /\ Receive(o)
  /\ \/ status[o.key] # "absent" /\ ordered[o.key] # o.food
     \/ status[o.key] \in {"queued", "processing"}
  /\ UNCHANGED <<service, registryVars, queue, updates, deferred, rejected>>

\* RegistrationAction.DEFER_REPUBLISH.
ReceiveDeferred(o) ==
  /\ Receive(o)
  /\ status[o.key] = "food_ready" /\ ordered[o.key] = o.food
  /\ deferred' = deferred \union {o.key}
  /\ UNCHANGED <<service, registryVars, queue, updates, rejected>>

\* RegistrationAction.REPUBLISH of the cached food.
ReceiveRepublish(o) ==
  /\ Receive(o)
  /\ status[o.key] = "published" /\ ordered[o.key] = o.food
  /\ status' = [status EXCEPT ![o.key] = Transition(@, "RepublishRequested")]
  /\ QueueStatusUpdate(updates, Waiting, Update(o.key, "food_ready", o.food))
  /\ UNCHANGED <<ordered, registered, queue, deferred, rejected>>

HandleMessage(o) ==
  \/ ReceiveAdmitted(o) \/ ReceiveQueueFull(o) \/ ReceiveRegistryFull(o)
  \/ ReceiveIgnored(o) \/ ReceiveDeferred(o) \/ ReceiveRepublish(o)

-----------------------------------------------------------------------------
(* The workers: _consume_orders and _process_order.                        *)

\* Mutant: the order stays in the queue until its worker is done.
WorkerStartPeeking(w) ==
  /\ Running
  /\ working[w] = NoKey /\ queue # <<>>
  /\ LET k == Head(queue) IN
       /\ status' = [status EXCEPT ![k] = Transition(@, "ProcessingStarted")]
       /\ working' = [working EXCEPT ![w] = k]
       /\ QueueStatusUpdate(updates, Waiting,
                            Update(k, "processing", ordered[k]))
  /\ UNCHANGED <<queue, ordered, registered, publisherVars, rejected,
                 deliveries, linkVars>>

\* get() up to the await of the processor.
WorkerStart(w) ==
  /\ Running
  /\ working[w] = NoKey /\ queue # <<>>
  /\ LET k == Head(queue) IN
       /\ status' = [status EXCEPT ![k] = Transition(@, "ProcessingStarted")]
       /\ working' = [working EXCEPT ![w] = k]
       /\ QueueStatusUpdate(updates, Waiting,
                            Update(k, "processing", ordered[k]))
  /\ queue' = Tail(queue)
  /\ UNCHANGED <<ordered, registered, publisherVars, rejected, deliveries,
                 linkVars>>

\* The processor returned or raised: up to task_done().
Finish(w, event, kind) ==
  /\ Running
  /\ working[w] # NoKey
  /\ LET k == working[w] IN
       /\ status' = [status EXCEPT ![k] = Transition(@, event)]
       /\ QueueStatusUpdate(updates, Waiting, Update(k, kind, ordered[k]))
  /\ working' = [working EXCEPT ![w] = NoKey]
  /\ UNCHANGED <<ordered, registered, queue, publisherVars, rejected,
                 deliveries, linkVars>>

\* Mutant: an internal status goes out as a public event.
WorkerPreparedLeaking(w) == Finish(w, "FoodPrepared", "published")

WorkerPrepared(w) == Finish(w, "FoodPrepared", "food_ready")
WorkerFailed(w) == Finish(w, "ProcessingFailed", "processing_failed")

Work(w) == WorkerStart(w) \/ WorkerPrepared(w) \/ WorkerFailed(w)

-----------------------------------------------------------------------------
(* The status publisher: _publish_status_updates.                          *)

\* Mutant: the update a lost connection left pending is not taken again.
TakeUpdateNew ==
  /\ Running /\ connected
  /\ stage = "idle" /\ updates # <<>> /\ ~pending
  /\ pending' = TRUE /\ stage' = "status"
  /\ UNCHANGED <<service, registryVars, kitchenVars, updates, deferred,
                 announced, rejected, deliveries, linkVars>>

\* Take the next update, or again the one a lost connection left pending.
TakeUpdate ==
  /\ Running /\ connected
  /\ stage = "idle" /\ updates # <<>>
  /\ pending' = TRUE /\ stage' = "status"
  /\ UNCHANGED <<service, registryVars, kitchenVars, updates, deferred,
                 announced, rejected, deliveries, linkVars>>

\* The head of updates as the broker's last status event of its key.
Announce ==
  announced' = [announced EXCEPT ![Head(updates).key] = Head(updates).kind]

\* The status publish returned; the snapshot publish is next.
StatusPublished ==
  /\ Running /\ connected
  /\ stage = "status"
  /\ Announce
  /\ stage' = "snapshot"
  /\ UNCHANGED <<service, registryVars, kitchenVars, updates, pending,
                 deferred, rejected, deliveries, linkVars>>

\* Mutant: the intent of a deferred retry is not looked up.
SnapshotPublishedOnly ==
  /\ Running /\ connected
  /\ stage = "snapshot"
  /\ LET k == Head(updates).key
     IN status' = IF Head(updates).kind # "food_ready" THEN status
                  ELSE [status EXCEPT ![k] = Transition(@, "PublishConfirmed")]
  /\ updates' = Tail(updates)
  /\ pending' = FALSE /\ stage' = "idle"
  /\ UNCHANGED <<service, ordered, registered, kitchenVars, deferred,
                 announced, rejected, deliveries, linkVars>>

\* The snapshot publish returned: the block without awaits that ends a turn.
SnapshotPublished ==
  /\ Running /\ connected
  /\ stage = "snapshot"
  /\ LET u == Head(updates)
         k == u.key
         confirmed == Transition(status[k], "PublishConfirmed")
     IN \/ /\ u.kind # "food_ready"
           /\ updates' = Tail(updates)
           /\ UNCHANGED <<service, status, deferred>>
        \/ /\ u.kind = "food_ready" /\ k \notin deferred
           /\ status' = [status EXCEPT ![k] = confirmed]
           /\ updates' = Tail(updates)
           /\ UNCHANGED <<service, deferred>>
        \/ /\ u.kind = "food_ready" /\ k \in deferred
           /\ status' = [status EXCEPT ![k] =
                           Transition(confirmed, "RepublishRequested")]
           /\ QueueStatusUpdate(Tail(updates), Waiting, u)
           /\ deferred' = deferred \ {k}
  /\ pending' = FALSE /\ stage' = "idle"
  /\ UNCHANGED <<ordered, registered, kitchenVars, announced, rejected,
                 deliveries, linkVars>>

Publish == TakeUpdate \/ StatusPublished \/ SnapshotPublished

-----------------------------------------------------------------------------
(* The connection manager, and the process itself.                         *)

\* _client, subscribe and the start of _run_connected.
Connect ==
  /\ Running /\ ~connected
  /\ connected' = TRUE
  /\ UNCHANGED <<service, registryVars, kitchenVars, updates, publisherVars,
                 rejected, deliveries, drops, restarts>>

\* Mutants: the publisher goes on after its connection, and the pending update
\* is dropped with it.
ConnectionLostUnnoticed ==
  /\ Running /\ connected /\ drops < MaxDrops
  /\ connected' = FALSE /\ drops' = drops + 1
  /\ UNCHANGED <<service, registryVars, kitchenVars, updates, publisherVars,
                 rejected, deliveries, restarts>>

ConnectionLostDropping ==
  /\ Running /\ connected /\ drops < MaxDrops
  /\ connected' = FALSE /\ stage' = "idle"
  /\ drops' = drops + 1
  /\ pending' = FALSE
  /\ updates' = IF pending THEN Tail(updates) ELSE updates
  /\ UNCHANGED <<service, registryVars, kitchenVars, deferred, announced,
                 rejected, deliveries, restarts>>

\* A publish or the receiver raises MqttError: _run_connected cancels its
\* tasks.  The broker may have accepted the status in flight.
ConnectionLost ==
  /\ Running /\ connected /\ drops < MaxDrops
  /\ connected' = FALSE /\ stage' = "idle"
  /\ drops' = drops + 1
  /\ \/ announced' = announced
     \/ stage = "status" /\ Announce
  /\ UNCHANGED <<service, registryVars, kitchenVars, updates, pending,
                 deferred, rejected, deliveries, restarts>>

\* The process ended, by itself or by a kill, and is started anew: what it
\* kept in memory is gone, what the broker saw is not.
Restart ==
  /\ restarts < MaxRestarts /\ restarts' = restarts + 1
  /\ service' = "running" /\ connected' = FALSE
  /\ status' = EmptyMemory.status /\ ordered' = EmptyMemory.ordered
  /\ registered' = <<>>
  /\ queue' = <<>> /\ working' = EmptyMemory.working
  /\ updates' = <<>> /\ pending' = FALSE /\ stage' = "idle" /\ deferred' = {}
  /\ UNCHANGED <<announced, rejected, deliveries, drops>>

-----------------------------------------------------------------------------
Next ==
  \/ \E o \in Orders : HandleMessage(o)
  \/ \E w \in Workers : Work(w)
  \/ Publish
  \/ Connect
  \/ ConnectionLost
  \/ Restart

Spec == Init /\ [][Next]_vars

(***************************************************************************)
(* The event loop runs every ready task, the processor returns (it only    *)
(* sleeps), a publish on a live connection is acknowledged, and the        *)
(* manager reconnects until it succeeds.  Requests, losses and kills are   *)
(* the environment's.                                                      *)
(***************************************************************************)
Fairness ==
  /\ \A w \in Workers : WF_vars(Work(w))
  /\ WF_vars(Publish)
  /\ WF_vars(Connect)

LiveSpec == Spec /\ Fairness
=============================================================================
