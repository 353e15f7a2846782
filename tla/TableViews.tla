----------------------------- MODULE TableViews -----------------------------
(***************************************************************************)
(* What a browser shows of the tables: the status publisher of the order   *)
(* service with its TableSnapshotProjection, the retained snapshots at the *)
(* broker, the messages on their way, and the reducer of the browser's     *)
(* session (order-state.ts and the callbacks of restaurant-session).       *)
(*                                                                         *)
(* OrderService says which updates there are; here the publisher takes a   *)
(* next one that may follow the last of its order.                         *)
(***************************************************************************)
EXTENDS Naturals, Sequences, FiniteSets, SequencesExt

CONSTANTS
  Keys,             \* order keys <<table, order id>>
  Own,              \* those that this browser places
  MaxOrders,        \* max_orders_per_table
  MaxUpdates,       \* bound: updates published
  MaxFaults,        \* bound: losses of a link, restarts, page refreshes and
                    \* repeated requests
  NoUpdate,         \* nothing pending
  NoSnapshot        \* nothing retained, no snapshot applied

Tables == {k[1] : k \in Keys}

Public == {"queued", "processing", "food_ready", "failed"}
Local == {"sending", "send_failed"}

\* The orders a table may show, an update's order being one of them, and the
\* snapshots of a table.
Views == [table : Tables, id : {k[2] : k \in Keys},
          status : Public \union Local, stamp : Nat]
Snapshots == [instance : Nat, table : Tables, revision : Nat, orders : Seq(Views)]

ASSUME ViewsAssumption ==
  /\ IsFiniteSet(Keys) /\ Own \subseteq Keys
  /\ MaxOrders \in 1..10
  /\ MaxUpdates \in Nat /\ MaxFaults \in Nat
  /\ NoUpdate \notin Views
  /\ NoSnapshot \notin Snapshots \union [instance : Nat, revision : Nat]

VARIABLES
  life,         \* the last update of each order, for those the service knows
  stamps,       \* updates made so far; an update's number is its occurredAt
  pending,      \* _pending_update
  stage,        \* which publish the publisher awaits
  projected,    \* _orders of each table, newest first
  revision,     \* _revisions of each table
  instance,     \* _service_instance_id, as a count of restarts
  connected,    \* the service's connection tasks run
  initialized,  \* _snapshots_initialized
  retained,     \* the broker's retained snapshot of each table
  online,       \* the browser is subscribed
  channel,      \* messages on their way to the browser
  view,         \* orders of the session
  cursors,      \* #snapshotCursors: the last snapshot applied to each table
  placed,       \* of Own, whether an order is "new", "sent" or was "unsent"
  submitting,   \* the one the order dialog waits for
  bulk,         \* bulkOrderingTables: those a bulk order of a table waits for
  faults,       \* history: faults so far
  brokerReset   \* history: the broker was restarted

sourceVars == <<life, stamps, placed>>
publisherVars == <<pending, stage>>
projectionVars == <<projected, revision>>
linkVars == <<connected, initialized>>
formVars == <<submitting, bulk>>
sessionVars == <<view, cursors, formVars>>
faultVars == <<faults, brokerReset>>
vars == <<sourceVars, publisherVars, projectionVars, instance, linkVars,
          retained, online, channel, sessionVars, faultVars>>

\* An order as the public and the browser see it.
View(k, status, stamp) ==
  [table |-> k[1], id |-> k[2], status |-> status, stamp |-> stamp]

\* The public statuses that may follow one another: MayFollow of
\* OrderServiceProps, with the two failures as one.
Follows(status) ==
  CASE status = "none" -> {"queued", "failed"}
    [] status = "queued" -> {"processing"}
    [] status = "processing" -> {"food_ready", "failed"}
    [] status = "food_ready" -> {"queued", "failed"}
    [] status = "failed" -> {"queued", "failed"}

Unknown == [k \in Keys |-> View(k, "none", 0)]

Init ==
  /\ life = Unknown /\ stamps = 0
  /\ pending = NoUpdate /\ stage = "idle"
  /\ projected = [t \in Tables |-> <<>>] /\ revision = [t \in Tables |-> 0]
  /\ instance = 0 /\ connected = FALSE /\ initialized = FALSE
  /\ retained = [t \in Tables |-> NoSnapshot]
  /\ online = FALSE /\ channel = <<>>
  /\ view = <<>> /\ cursors = [t \in Tables |-> NoSnapshot]
  /\ placed = [k \in Own |-> "new"]
  /\ submitting = {} /\ bulk = [t \in Tables |-> {}]
  /\ faults = 0 /\ brokerReset = FALSE

\* The elements of s that are in set, in their order.
Only(s, set) ==
  LET kept[n \in 0..Len(s)] ==
        IF n = 0 THEN <<>>
        ELSE IF s[n] \in set THEN Append(kept[n - 1], s[n]) ELSE kept[n - 1]
  IN kept[Len(s)]

\* One more of the faults the bound allows.
Fault == faults < MaxFaults /\ faults' = faults + 1

-----------------------------------------------------------------------------
(* TableSnapshotProjection.                                                *)

\* Mutant: nothing is evicted.
AppliedUnbounded(orders, u) ==
  IF Contains(orders, u) THEN orders
  ELSE <<u>> \o Only(orders, {e \in ToSet(orders) : e.id # u.id})

\* apply(update): the newest order first, at most MaxOrders of them.  The same
\* update again leaves the table as it is.
Applied(orders, u) ==
  IF Contains(orders, u) THEN orders
  ELSE LET all == <<u>> \o Only(orders, {e \in ToSet(orders) : e.id # u.id})
       IN IF Len(all) > MaxOrders THEN Front(all) ELSE all

\* _build_snapshot; a snapshot that is not rebuilt equals the cached one.
Snapshot(t, rev, orders) ==
  [instance |-> instance, table |-> t, revision |-> rev, orders |-> orders]

Status(u) == [topic |-> "status", body |-> u]
Retained(s) == [topic |-> "snapshot", body |-> s]

\* The broker forwards messages to a subscribed browser.
Forward(ms) == channel' = IF online THEN channel \o ms ELSE channel

-----------------------------------------------------------------------------
(* The service's publisher, _publish_status_updates.                       *)

\* The snapshots _initialize_retained_snapshots publishes, table by
\* table.
Initialize ==
  /\ ~connected /\ ~initialized
  /\ retained' = [t \in Tables |-> Snapshot(t, 0, <<>>)]
  /\ LET order == SetToSeq(Tables) IN
       Forward([i \in DOMAIN order |-> Retained(Snapshot(order[i], 0, <<>>))])
  /\ connected' = TRUE /\ initialized' = TRUE
  /\ UNCHANGED <<sourceVars, publisherVars, projectionVars, instance, online,
                 sessionVars, faultVars>>

Reconnect ==
  /\ ~connected /\ initialized
  /\ connected' = TRUE
  /\ UNCHANGED <<sourceVars, publisherVars, projectionVars, instance,
                 initialized, retained, online, channel, sessionVars,
                 faultVars>>

\* The next update is taken from the queue: a new one, or the food_ready update
\* again when the order was requested again.
TakeUpdate(k) ==
  /\ connected /\ pending = NoUpdate
  /\ k \in Own => placed[k] = "sent"
  /\ \/ /\ stamps < MaxUpdates /\ stamps' = stamps + 1
        /\ \E s \in Follows(life[k].status) : pending' = View(k, s, stamps')
        /\ UNCHANGED faultVars
     \/ /\ life[k].status = "food_ready" /\ pending' = life[k]
        /\ Fault /\ UNCHANGED <<stamps, brokerReset>>
  /\ life' = [life EXCEPT ![k] = pending']
  /\ stage' = "status"
  /\ UNCHANGED <<placed, projectionVars, instance, linkVars, retained, online,
                 channel, sessionVars>>

\* After a reconnect the update that is still pending is published anew.
ResumeUpdate ==
  /\ connected /\ pending # NoUpdate /\ stage = "idle"
  /\ stage' = "status"
  /\ UNCHANGED <<sourceVars, pending, projectionVars, instance, linkVars,
                 retained, online, channel, sessionVars, faultVars>>

\* The status publish returns and the projection applies the update.
StatusPublished ==
  /\ connected /\ stage = "status"
  /\ LET t == pending.table
         orders == Applied(projected[t], pending)
     IN /\ projected' = [projected EXCEPT ![t] = orders]
        /\ revision' = [revision EXCEPT ![t] =
             IF Contains(projected[t], pending) THEN @ ELSE @ + 1]
  /\ stage' = "snapshot"
  /\ Forward(<<Status(pending)>>)
  /\ UNCHANGED <<sourceVars, pending, instance, linkVars, retained, online,
                 sessionVars, faultVars>>

\* The broker takes over the snapshot of the pending update's table.
Retain ==
  LET t == pending.table
      s == Snapshot(t, revision[t], projected[t])
  IN retained' = [retained EXCEPT ![t] = s] /\ Forward(<<Retained(s)>>)

\* The snapshot publish returns.
SnapshotPublished ==
  /\ connected /\ stage = "snapshot"
  /\ Retain
  /\ pending' = NoUpdate /\ stage' = "idle"
  /\ UNCHANGED <<sourceVars, projectionVars, instance, linkVars, online,
                 sessionVars, faultVars>>

\* Mutant: the pending update is dropped with the link.
ConnectionLostDropping ==
  /\ connected /\ Fault
  /\ connected' = FALSE /\ stage' = "idle" /\ pending' = NoUpdate
  /\ UNCHANGED <<sourceVars, projectionVars, instance, initialized, retained,
                 online, channel, sessionVars, brokerReset>>

\* The link drops; the broker may have taken the message in flight.
ConnectionLost ==
  /\ connected /\ Fault
  /\ connected' = FALSE /\ stage' = "idle"
  /\ \/ UNCHANGED <<retained, channel>>
     \/ stage = "status" /\ Forward(<<Status(pending)>>) /\ UNCHANGED retained
     \/ stage = "snapshot" /\ Retain
  /\ UNCHANGED <<sourceVars, pending, projectionVars, instance, initialized,
                 online, sessionVars, brokerReset>>

\* A new process knows no orders, and has a new instance id.
Restart ==
  /\ Fault /\ instance' = instance + 1
  /\ life' = Unknown
  /\ pending' = NoUpdate /\ stage' = "idle"
  /\ projected' = [t \in Tables |-> <<>>] /\ revision' = [t \in Tables |-> 0]
  /\ connected' = FALSE /\ initialized' = FALSE
  /\ UNCHANGED <<stamps, placed, retained, online, channel, sessionVars,
                 brokerReset>>

\* The broker restarts without persistence: retained messages and both links
\* are gone.
BrokerRestart ==
  /\ Fault /\ brokerReset' = TRUE
  /\ retained' = [t \in Tables |-> NoSnapshot]
  /\ connected' = FALSE /\ stage' = "idle"
  /\ online' = FALSE /\ channel' = <<>>
  /\ UNCHANGED <<sourceVars, pending, projectionVars, instance, initialized,
                 sessionVars>>

-----------------------------------------------------------------------------
(* The browser's session.                                                  *)

Rank(status) ==
  CASE status \in Local -> 0
    [] status = "queued" -> 1
    [] status = "processing" -> 2
    [] status \in {"food_ready", "failed"} -> 3

\* applyOrderStatus: orders are matched by their id alone.
WithStatus(orders, u) ==
  LET same == {i \in DOMAIN orders : orders[i].id = u.id}
      e == orders[CHOOSE i \in same : \A j \in same : i <= j]
  IN IF same = {} THEN <<u>> \o orders
     ELSE IF \/ e.status \in {"food_ready", "failed"}
             \/ Rank(u.status) < Rank(e.status)
             \/ e.status = u.status /\ e.stamp = u.stamp
          THEN orders
     ELSE [i \in DOMAIN orders |-> IF i \in same THEN u ELSE orders[i]]

\* Mutant: an order of the snapshot is kept as a local one too.
WithSnapshotTwice(orders, s) ==
  s.orders \o
  Only(orders, {e \in ToSet(orders) : e.table # s.table \/ e.status \in Local})

\* replaceTableFromSnapshot.
WithSnapshot(orders, s) ==
  LET ids == {s.orders[i].id : i \in DOMAIN s.orders}
      all == ToSet(orders)
      localOnly == {e \in all : /\ e.table = s.table /\ e.status \in Local
                                /\ e.id \notin ids}
      other == {e \in all : e.table # s.table}
  IN s.orders \o Only(orders, localOnly) \o Only(orders, other)

\* Mutant: revisions of two instances are compared.
NewerRevision(s) ==
  LET cursor == cursors[s.table] IN cursor # NoSnapshot => s.revision > cursor.revision

\* shouldApplyTableSnapshot.
Newer(s) ==
  LET cursor == cursors[s.table] IN
  cursor # NoSnapshot => cursor.instance # s.instance \/ s.revision > cursor.revision

\* decodeTableSnapshotPayload accepts it: at most ten orders, of its table.
Decodable(s) ==
  /\ Len(s.orders) <= 10
  /\ \A i \in DOMAIN s.orders : s.orders[i].table = s.table

\* Whether a snapshot received is applied.
Applicable(s) == Decodable(s) /\ Newer(s)

Receive ==
  /\ online /\ channel # <<>>
  /\ channel' = Tail(channel)
  /\ LET m == Head(channel) IN
     \/ /\ m.topic = "status"
        /\ view' = WithStatus(view, m.body) /\ UNCHANGED cursors
     \/ /\ m.topic = "snapshot" /\ Applicable(m.body)
        /\ view' = WithSnapshot(view, m.body)
        /\ cursors' = [cursors EXCEPT ![m.body.table] =
             [instance |-> m.body.instance, revision |-> m.body.revision]]
     \/ /\ m.topic = "snapshot" /\ ~Applicable(m.body)
        /\ UNCHANGED <<view, cursors>>
  /\ UNCHANGED <<sourceVars, publisherVars, projectionVars, instance, linkVars,
                 retained, online, formVars, faultVars>>

\* The order dialog takes one order at a time.
Submittable(k) == submitting = {} /\ placed[k] = "new"

\* placeOrder: an order with a fresh UUID is shown as sending while its publish
\* is awaited.
Send(k) ==
  /\ online /\ Submittable(k)
  /\ placed' = [placed EXCEPT ![k] = "sent"]
  /\ view' = <<View(k, "sending", 0)>> \o view
  /\ submitting' = {k}
  /\ UNCHANGED <<life, stamps, publisherVars, projectionVars, instance, linkVars,
                 retained, online, channel, cursors, bulk, faultVars>>

\* placeOrder without a connection: nothing is published.
SendOffline(k) ==
  /\ ~online /\ Submittable(k)
  /\ placed' = [placed EXCEPT ![k] = "unsent"]
  /\ view' = <<View(k, "send_failed", 0)>> \o view
  /\ UNCHANGED <<life, stamps, publisherVars, projectionVars, instance, linkVars,
                 retained, online, channel, cursors, formVars, faultVars>>

\* Mutant: an order that was answered is marked too.
FailedAnyway(orders, keys) ==
  LET ids == {k[2] : k \in keys} IN
  [i \in DOMAIN orders |->
     IF orders[i].id \in ids
     THEN [orders[i] EXCEPT !.status = "send_failed"] ELSE orders[i]]

\* markSendFailed of some orders, also by the id alone.
Failed(orders, keys) ==
  LET ids == {k[2] : k \in keys} IN
  [i \in DOMAIN orders |->
     IF orders[i].id \in ids /\ orders[i].status = "sending"
     THEN [orders[i] EXCEPT !.status = "send_failed"] ELSE orders[i]]

\* The publish of an order returns, or fails although it may have arrived.
SendReturns ==
  /\ submitting # {} /\ submitting' = {}
  /\ view' = view \/ view' = Failed(view, submitting)
  /\ UNCHANGED <<sourceVars, publisherVars, projectionVars, instance, linkVars,
                 retained, online, channel, cursors, bulk, faultVars>>

\* placeRandomOrders: fresh orders of one table are shown and published at
\* once, while no other bulk order of the table is under way.
SendBulk(keys) ==
  /\ online /\ \A k \in keys : placed[k] = "new"
  /\ LET t == (CHOOSE k \in keys : TRUE)[1] IN
       /\ \A k \in keys : k[1] = t
       /\ bulk[t] = {} /\ bulk' = [bulk EXCEPT ![t] = keys]
  /\ placed' = [k \in Own |-> IF k \in keys THEN "sent" ELSE placed[k]]
  /\ \E order \in SetToSeqs(keys) :
       view' = [i \in DOMAIN order |-> View(order[i], "sending", 0)] \o view
  /\ UNCHANGED <<life, stamps, publisherVars, projectionVars, instance, linkVars,
                 retained, online, channel, cursors, submitting, faultVars>>

\* All its publishes have settled: only then those that failed are marked.
BulkSettles(t) ==
  /\ bulk[t] # {} /\ bulk' = [bulk EXCEPT ![t] = {}]
  /\ \E failed \in SUBSET bulk[t] : view' = Failed(view, failed)
  /\ UNCHANGED <<sourceVars, publisherVars, projectionVars, instance, linkVars,
                 retained, online, channel, cursors, submitting, faultVars>>

\* Subscribing brings the retained snapshots.
Connect ==
  /\ ~online /\ online' = TRUE
  /\ \E order \in SetToSeqs({t \in Tables : retained[t] # NoSnapshot}) :
       channel' = [i \in DOMAIN order |-> Retained(retained[order[i]])]
  /\ UNCHANGED <<sourceVars, publisherVars, projectionVars, instance, linkVars,
                 retained, sessionVars, faultVars>>

\* The browser's link drops and the session goes on.
Outage ==
  /\ online /\ Fault
  /\ online' = FALSE /\ channel' = <<>>
  /\ UNCHANGED <<sourceVars, publisherVars, projectionVars, instance, linkVars,
                 retained, sessionVars, brokerReset>>

\* The page is refreshed: a session of its own.
Refresh ==
  /\ Fault
  /\ online' = FALSE /\ channel' = <<>>
  /\ view' = <<>> /\ cursors' = [t \in Tables |-> NoSnapshot]
  /\ submitting' = {} /\ bulk' = [t \in Tables |-> {}]
  /\ UNCHANGED <<sourceVars, publisherVars, projectionVars, instance, linkVars,
                 retained, brokerReset>>

-----------------------------------------------------------------------------
Publisher ==
  \/ \E k \in Keys : TakeUpdate(k)
  \/ ResumeUpdate \/ StatusPublished \/ SnapshotPublished

Browser ==
  \/ Receive \/ Connect \/ Outage \/ Refresh \/ SendReturns
  \/ \E k \in Own : Send(k) \/ SendOffline(k)
  \/ \E keys \in SUBSET Own \ {{}} : SendBulk(keys)
  \/ \E t \in Tables : BulkSettles(t)

Next ==
  \/ Initialize \/ Reconnect \/ Publisher
  \/ ConnectionLost \/ Restart \/ BrokerRestart
  \/ Browser

Spec == Init /\ [][Next]_vars

-----------------------------------------------------------------------------
\* The orders of table t the browser got from the service.
Shown(t) == Only(view, {e \in ToSet(view) : e.table = t /\ e.status \in Public})

\* Every view, update and snapshot is well formed.
TypeOK ==
  /\ pending \in Views \union {NoUpdate}
  /\ stage \in {"idle", "status", "snapshot"}
  /\ \A t \in Tables : /\ projected[t] \in Seq(Views)
                       /\ Len(projected[t]) <= MaxOrders
                       /\ retained[t] \in Snapshots \union {NoSnapshot}
  /\ view \in Seq(Views)
  /\ \A i \in DOMAIN channel :
       channel[i].body \in IF channel[i].topic = "status" THEN Views ELSE Snapshots

\* Whenever the service has nothing to publish, the broker retains what the
\* projection holds of every table, as long as it keeps what it retains.
RetainedWhileBrokerLives ==
  ~brokerReset /\ initialized /\ pending = NoUpdate =>
    \A t \in Tables : retained[t] = Snapshot(t, revision[t], projected[t])

\* The service has published everything and the browser has read everything.
Settled ==
  initialized /\ pending = NoUpdate /\ online /\ channel = <<>>

\* "Per-table retained snapshots restore the ten most recent orders after
\* refresh or a closed browser session" (README.md:219): once the service is
\* connected, has published everything and the browser has read everything, the
\* browser shows of every table the orders the service has.
RefreshRestores ==
  connected /\ Settled => \A t \in Tables : Shown(t) = projected[t]

\* When all is published and read, the browser shows of every table exactly what
\* the broker retains, in its order, whatever it missed, saw twice or saw late;
\* its own orders that the service has not answered stay beside them.
ViewMatchesRetained ==
  Settled => \A t \in Tables :
               retained[t] # NoSnapshot => Shown(t) = retained[t].orders

\* An order is shown once, though a status, a snapshot and the order form may
\* each add it.
ShownOnce ==
  \A i, j \in DOMAIN view :
    view[i].id = view[j].id /\ view[i].table = view[j].table => i = j

\* Whether orders show k with one of the statuses.
Shows(orders, k, statuses) ==
  \E i \in DOMAIN orders : /\ <<orders[i].table, orders[i].id>> = k
                           /\ orders[i].status \in statuses

\* While the page is open, an order placed from it stays in view until the
\* service answers it, whatever snapshots arrive; and once answered, the late
\* failure of its publish does not take the answer back.
PlacedOrderIsKept ==
  [][\A k \in Keys :
       /\ Shows(view, k, Local) =>
            Refresh \/ Shows(view', k, Local \union Public)
       /\ Shows(view, k, Public) => ~Shows(view', k, Local)]_vars
=============================================================================
