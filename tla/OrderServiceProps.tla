------------------------- MODULE OrderServiceProps --------------------------
(***************************************************************************)
(* The properties of OrderService.                                         *)
(***************************************************************************)
EXTENDS OrderService

\* Every variable has its type.
TypeOK ==
  /\ service \in {"running", "overflowed"}
  /\ connected \in BOOLEAN
  /\ status \in [Keys -> Statuses \union {"absent", "raised"}]
  /\ ordered \in [Keys -> Foods \union {NoFood}]
  /\ registered \in Seq(Keys)
  /\ queue \in Seq(Keys) /\ working \in [Workers -> Keys \union {NoKey}]
  /\ updates \in Seq(Updates) /\ pending \in BOOLEAN
  /\ stage \in {"idle", "status", "snapshot"}
  /\ deferred \subseteq Keys
  /\ announced \in [Keys -> Kinds \union {"none"}]
  /\ rejected \subseteq Orders
  /\ deliveries \in [Orders -> 0..MaxDeliveries]
  /\ drops \in 0..MaxDrops /\ restarts \in 0..MaxRestarts

-----------------------------------------------------------------------------
(* Safety.                                                                 *)

\* No handler, worker or publisher ever applies an event the reducer rejects:
\* the InvalidOrderTransitionError of order_state.py is never raised.
NoRejectedEvent == Running => \A k \in Keys : status[k] # "raised"

\* The registry's dict and its statuses agree, and it never outgrows
\* max_orders although entries are evicted, retried and rejected.
RegistryBounded ==
  Running =>
    /\ IsInjective(registered) /\ Len(registered) <= RegistryCapacity
    /\ \A k \in Keys : /\ Contains(registered, k) <=> status[k] # "absent"
                       /\ status[k] # "absent" => ordered[k] \in Foods

\* An admitted order waits in the processing queue exactly while the registry
\* calls it queued, and never twice.
QueueHoldsQueued ==
  Running =>
    /\ IsInjective(queue) /\ Len(queue) <= QueueCapacity
    /\ \A k \in Keys : Contains(queue, k) <=> status[k] = "queued"

\* An order the registry calls processing is owned by exactly one worker, and
\* a worker owns nothing else.
OneWorkerPerOrder ==
  Running =>
    /\ \A w \in Workers : working[w] # NoKey => status[working[w]] = "processing"
    /\ \A v, w \in Workers : working[v] = working[w] /\ working[v] # NoKey
                               => v = w
    /\ \A k \in Keys : status[k] = "processing" =>
                         \E w \in Workers : working[w] = k

\* The FoodReady updates of a sequence of unpublished updates: whether it has
\* one for k, that it has no two for one key, and that they carry the foods f.
IsReady(u, k) == u.key = k /\ u.kind = "food_ready"
ReadyFor(us, k) == \E i \in DOMAIN us : IsReady(us[i], k)
OneReadyEach(us) ==
  \A i, j \in DOMAIN us :
     us[i].kind = "food_ready" /\ IsReady(us[j], us[i].key) => i = j
ReadyCarry(us, f) ==
  \A i \in DOMAIN us : us[i].kind = "food_ready" => us[i].food = f[us[i].key]

\* A food_ready order has exactly one FoodReady still to be published, with
\* the food it was ordered with; nobody else has one.  So a confirmation
\* always finds a food_ready order, and a deferred retry is never left over.
ReadyIsOnItsWay ==
  Running =>
    /\ OneReadyEach(updates) /\ ReadyCarry(updates, ordered)
    /\ \A k \in Keys : ReadyFor(updates, k) <=> status[k] = "food_ready"
    /\ \A k \in deferred : status[k] = "food_ready"

\* The publisher's position: it awaits a publish only on a live connection
\* and only for the update it keeps pending.
PublisherPosition ==
  Running => /\ stage # "idle" => pending /\ connected
             /\ pending => updates # <<>>

\* The work of request o waits for a worker or has one.
Executing(o) ==
  /\ ordered[o.key] = o.food
  /\ Contains(queue, o.key) \/ \E w \in Workers : working[w] = o.key

\* "rejected work never executes later" (README.md:201).
RejectedNeverExecutes == \A o \in rejected : ~Executing(o)

\* The same, for a request the broker handed over only once.
NoGhostWork == \A o \in rejected : deliveries[o] = 1 => ~Executing(o)

\* Every valid order is answered by a lifecycle event and the service goes on
\* (README.md:268-269): the status queue never ends it.
NeverOverflows == service # "overflowed"

-----------------------------------------------------------------------------
(* Steps.                                                                  *)

\* Eviction, retries, refusals and publishing never make the registry forget
\* an active order; only the end of the process does.
ActiveNeverForgotten ==
  [][\A k \in Keys : status[k] \in Active /\ status'[k] = "absent"
                       => Restart]_vars

\* What the public can see of an order: the events that may follow one
\* another on its table's status topic.
MayFollow ==
  {<<"none", "queued">>, <<"none", "service_overloaded">>,
   <<"queued", "processing">>,
   <<"processing", "food_ready">>, <<"processing", "processing_failed">>}
  \* a retry of a failed order, and an order admitted anew once forgotten
  \union ({"food_ready"} \union FailedKinds) \X ({"queued"} \union FailedKinds)

\* However often the link drops between a publish and its confirmation, the
\* broker sees the events of one order in lifecycle order, with repetitions
\* but without gaps, as long as the process lives.
AnnouncedInOrder ==
  [][\A k \in Keys : announced'[k] # announced[k] /\ restarts = 0
                       => <<announced[k], announced'[k]>> \in MayFollow]_vars

\* The kitchen promise, of Kitchen.tla.  An order's place is where the code
\* holds it, not what the registry says of it.
placeOf ==
  [k \in Keys |->
     IF ~Running THEN "out"
     ELSE IF Contains(queue, k) THEN "waiting"
     ELSE IF \E w \in Workers : working[w] = k THEN "cooking"
     ELSE IF ReadyFor(updates, k) THEN "ready"
     ELSE IF status[k] = "published" THEN "served" ELSE "out"]

Promise == INSTANCE Kitchen WITH
  place <- placeOf, Cooks <- Cardinality(Workers), Seats <- QueueCapacity

\* The service implements the kitchen's promise.
KitchenPromise == Promise!Spec

-----------------------------------------------------------------------------
(* Liveness, of LiveSpec.                                                  *)

\* The order is over, its last event is announced, and none is on its way.
Settled(k) ==
  /\ status[k] \in Terminal \union {"absent"}
  /\ announced[k] \in {"food_ready"} \union FailedKinds
  /\ \A i \in DOMAIN updates : updates[i].key # k

\* Every admitted order is eventually over, and the broker has its last event,
\* not that of an earlier attempt.
OrderSettles ==
  \A k \in Keys : status[k] = "queued" ~> Settled(k) \/ ~Running

\* A retry that arrived while the result was being published is answered:
\* the intent leads to another food_ready publication, of its own.
DeferredIsReplayed ==
  \A k \in Keys : k \in deferred ~>
     (k \notin deferred /\ status[k] = "food_ready") \/ ~Running
=============================================================================
