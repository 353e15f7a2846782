-------------------------- MODULE KitchenPressure ---------------------------
(***************************************************************************)
(* The kitchen pressure view: KitchenPressureProjection, the task          *)
(* _publish_pressure_updates of the order service, the retained message at *)
(* the broker, and the guard with which a console accepts a snapshot.      *)
(*                                                                         *)
(* The kitchen itself is reduced to its processing queue and its workers;  *)
(* OrderService has the rest.                                              *)
(***************************************************************************)
EXTENDS Naturals, Sequences, FiniteSets

CONSTANTS
  Keys,             \* order keys <<table, order id>>
  Workers,          \* worker numbers
  QueueCapacity,    \* ORDER_QUEUE_CAPACITY
  MaxAdmissions,    \* bound: admissions
  MaxDrops,         \* bound: losses of the service's link
  MaxOutages,       \* bound: losses of the console's link
  MaxRestarts,      \* bound: restarts of the service
  NoKey,            \* an idle worker's slot
  NoSnapshot        \* no snapshot yet

\* What a snapshot may say.
Snapshots == [instance : 0..MaxRestarts, revision : Nat,
              depth : 0..QueueCapacity,
              workers : [Workers -> Keys \union {NoKey}]]

ASSUME PressureAssumption ==
  /\ IsFiniteSet(Workers) /\ Workers # {}
  /\ QueueCapacity \in Nat \ {0}
  /\ MaxAdmissions \in Nat /\ MaxDrops \in Nat /\ MaxOutages \in Nat
  /\ MaxRestarts \in Nat
  /\ NoKey \notin Keys /\ NoSnapshot \notin Snapshots

VARIABLES
  waiting,      \* _processing_queue
  busy,         \* _workers: the order each worker processes
  changed,      \* the _pressure_changed event
  revision,     \* _revision
  last,         \* _last_snapshot, whose signature is _last_signature
  pending,      \* _pending_pressure_snapshot
  instance,     \* _service_instance_id, as a count of restarts
  connected,    \* the service's connection tasks run
  initialized,  \* _snapshots_initialized
  retained,     \* the broker's retained snapshot
  online,       \* the console is subscribed
  channel,      \* snapshots on their way to the console
  shown,        \* kitchenPressure of the console's session
  admissions, drops, outages  \* history: what the bounds count

kitchenVars == <<waiting, busy, changed, admissions>>
projectionVars == <<revision, last, pending, instance>>
linkVars == <<connected, initialized, drops>>
consoleVars == <<online, shown, outages>>
vars == <<kitchenVars, projectionVars, linkVars, retained, channel, consoleVars>>

\* Mutant: every process has the same instance id.
SnapshotAnonymous(rev, depth, workers) ==
  [instance |-> 0, revision |-> rev, depth |-> depth, workers |-> workers]

\* A KitchenPressureSnapshot, without its time stamp.
Snapshot(rev, depth, workers) ==
  [instance |-> instance, revision |-> rev, depth |-> depth,
   workers |-> workers]

\* _signature: the queue's depth and the order id, without the table, of
\* each worker.
Signature(depth, workers) ==
  <<depth, [w \in Workers |-> IF workers[w] = NoKey THEN NoKey
                              ELSE workers[w][2]]>>

SignatureOf(s) == Signature(s.depth, s.workers)

Idle == [w \in Workers |-> NoKey]

Init ==
  /\ waiting = <<>> /\ busy = Idle /\ changed = FALSE
  /\ revision = 0 /\ last = NoSnapshot /\ pending = NoSnapshot /\ instance = 0
  /\ connected = FALSE /\ initialized = FALSE
  /\ retained = NoSnapshot
  /\ online = FALSE /\ channel = <<>> /\ shown = NoSnapshot
  /\ admissions = 0 /\ drops = 0 /\ outages = 0

-----------------------------------------------------------------------------
(* The kitchen: the places where _pressure_changed is set.                 *)

InKitchen(k) ==
  \/ \E i \in DOMAIN waiting : waiting[i] = k
  \/ \E w \in Workers : busy[w] = k

\* Mutant: one seat too many.
AdmitOver(k) ==
  /\ connected /\ admissions < MaxAdmissions
  /\ ~InKitchen(k) /\ Len(waiting) <= QueueCapacity
  /\ waiting' = Append(waiting, k) /\ changed' = TRUE
  /\ admissions' = admissions + 1
  /\ UNCHANGED <<busy, projectionVars, linkVars, retained, channel,
                 consoleVars>>

\* _handle_message admits an order.
Admit(k) ==
  /\ connected /\ admissions < MaxAdmissions
  /\ ~InKitchen(k) /\ Len(waiting) < QueueCapacity
  /\ waiting' = Append(waiting, k) /\ changed' = TRUE
  /\ admissions' = admissions + 1
  /\ UNCHANGED <<busy, projectionVars, linkVars, retained, channel,
                 consoleVars>>

\* _consume_orders takes an order: worker_started.
WorkerStarted(w) ==
  /\ busy[w] = NoKey /\ waiting # <<>>
  /\ busy' = [busy EXCEPT ![w] = Head(waiting)]
  /\ waiting' = Tail(waiting) /\ changed' = TRUE
  /\ UNCHANGED <<admissions, projectionVars, linkVars, retained, channel,
                 consoleVars>>

\* The finally of _consume_orders: worker_stopped.
WorkerStopped(w) ==
  /\ busy[w] # NoKey
  /\ busy' = [busy EXCEPT ![w] = NoKey] /\ changed' = TRUE
  /\ UNCHANGED <<waiting, admissions, projectionVars, linkVars, retained,
                 channel, consoleVars>>

-----------------------------------------------------------------------------
(* The publisher.                                                          *)

\* The broker accepts s: it retains it and forwards it to the console.
Accept(s) ==
  /\ retained' = s
  /\ channel' = IF online THEN Append(channel, s) ELSE channel

\* initialize, at the first connection: the baseline of this instance.  It is
\* published before the service subscribes to requests.
Initialize ==
  /\ ~connected /\ ~initialized
  /\ LET baseline == Snapshot(0, 0, busy) IN
       /\ revision' = 0 /\ last' = baseline
       /\ Accept(baseline)
  /\ connected' = TRUE /\ initialized' = TRUE
  /\ UNCHANGED <<kitchenVars, pending, instance, drops, consoleVars>>

Reconnect ==
  /\ ~connected /\ initialized
  /\ connected' = TRUE
  /\ UNCHANGED <<kitchenVars, projectionVars, initialized, drops, retained,
                 channel, consoleVars>>

\* The publisher wakes up: wait, clear and capture have no await between.
Capture ==
  /\ connected /\ pending = NoSnapshot /\ changed
  /\ changed' = FALSE
  /\ LET depth == Len(waiting)
         next == Snapshot(revision + 1, depth, busy)
     IN \/ /\ Signature(depth, busy) = SignatureOf(last)
           /\ pending' = last /\ UNCHANGED <<revision, last>>
        \/ /\ Signature(depth, busy) # SignatureOf(last)
           /\ pending' = next /\ last' = next /\ revision' = revision + 1
  /\ UNCHANGED <<waiting, busy, admissions, instance, linkVars, retained,
                 channel, consoleVars>>

\* Mutant: the event is cleared after the publish.
PublishedClearing ==
  /\ connected /\ pending # NoSnapshot
  /\ Accept(pending)
  /\ pending' = NoSnapshot /\ changed' = FALSE
  /\ UNCHANGED <<waiting, busy, admissions, revision, last, instance, linkVars,
                 consoleVars>>

\* The publish of the pending snapshot returns.
Published ==
  /\ connected /\ pending # NoSnapshot
  /\ Accept(pending)
  /\ pending' = NoSnapshot
  /\ UNCHANGED <<kitchenVars, revision, last, instance, linkVars, consoleVars>>

\* The link drops: the pending snapshot is kept, and the broker may have it.
ConnectionLost ==
  /\ connected /\ drops < MaxDrops
  /\ connected' = FALSE /\ drops' = drops + 1
  /\ \/ UNCHANGED <<retained, channel>>
     \/ pending # NoSnapshot /\ Accept(pending)
  /\ UNCHANGED <<kitchenVars, projectionVars, initialized, consoleVars>>

\* A new process, with a new instance id; the broker keeps what it retains.
Restart ==
  /\ instance < MaxRestarts /\ instance' = instance + 1
  /\ waiting' = <<>> /\ busy' = Idle /\ changed' = FALSE
  /\ revision' = 0 /\ last' = NoSnapshot /\ pending' = NoSnapshot
  /\ connected' = FALSE /\ initialized' = FALSE
  /\ UNCHANGED <<admissions, drops, retained, channel, consoleVars>>

-----------------------------------------------------------------------------
(* The console's session.                                                  *)

\* It subscribes and is sent what the broker retains.
ConsoleConnects ==
  /\ ~online /\ online' = TRUE
  /\ channel' = IF retained = NoSnapshot THEN <<>> ELSE <<retained>>
  /\ UNCHANGED <<kitchenVars, projectionVars, linkVars, retained, shown,
                 outages>>

\* Its link drops with what was on its way; the shown snapshot stays.
ConsoleDrops ==
  /\ online /\ outages < MaxOutages
  /\ online' = FALSE /\ outages' = outages + 1 /\ channel' = <<>>
  /\ UNCHANGED <<kitchenVars, projectionVars, linkVars, retained, shown>>

\* Mutant: revisions of two instances are compared.
NewerRevision(s) == shown = NoSnapshot \/ s.revision > shown.revision

\* onKitchenPressure takes a snapshot of another instance or a newer revision.
Newer(s) ==
  \/ shown = NoSnapshot
  \/ shown.instance # s.instance
  \/ s.revision > shown.revision

\* decodeKitchenPressurePayload accepts it; its worker ids differ here.
Decodable(s) == s.depth <= QueueCapacity

\* A message that is not accepted is reported and dropped.
ConsoleReceives ==
  /\ online /\ channel # <<>>
  /\ channel' = Tail(channel)
  /\ LET s == Head(channel) IN
       shown' = IF Decodable(s) /\ Newer(s) THEN s ELSE shown
  /\ UNCHANGED <<kitchenVars, projectionVars, linkVars, retained, online,
                 outages>>

-----------------------------------------------------------------------------
Kitchen ==
  \/ \E k \in Keys : Admit(k)
  \/ \E w \in Workers : WorkerStarted(w) \/ WorkerStopped(w)

Next ==
  \/ Kitchen
  \/ Initialize \/ Reconnect \/ Capture \/ Published
  \/ ConnectionLost \/ Restart
  \/ ConsoleConnects \/ ConsoleDrops \/ ConsoleReceives

Spec == Init /\ [][Next]_vars

(* The event loop runs ready tasks, publishes on a live link return, both  *)
(* clients reconnect until they succeed, and workers finish what they have. *)
Fairness ==
  /\ \A w \in Workers : WF_vars(WorkerStarted(w) \/ WorkerStopped(w))
  /\ WF_vars(Initialize \/ Reconnect) /\ WF_vars(Capture \/ Published)
  /\ WF_vars(ConsoleConnects) /\ WF_vars(ConsoleReceives)

LiveSpec == Spec /\ Fairness

-----------------------------------------------------------------------------
TypeOK ==
  /\ waiting \in Seq(Keys) /\ busy \in [Workers -> Keys \union {NoKey}]
  /\ changed \in BOOLEAN /\ connected \in BOOLEAN /\ initialized \in BOOLEAN
  /\ online \in BOOLEAN /\ instance \in 0..MaxRestarts /\ revision \in Nat
  /\ {last, pending, retained, shown} \subseteq Snapshots \union {NoSnapshot}
  /\ channel \in Seq(Snapshots)

\* Nothing is signalled and nothing is pending.
Quiet == initialized /\ ~changed /\ pending = NoSnapshot

\* A change of the kitchen is never lost between the event, its clearing, the
\* capture, a lost link and the retry: when the publisher has nothing left to
\* do, the retained message has the kitchen's depth and orders.
NoLostChange ==
  Quiet => SignatureOf(retained) = Signature(Len(waiting), busy)

\* The retained snapshot shows the order of every worker with its table, also
\* when two tables use the same UUID (README.md:225, README.md:258).
RetainedIsActual ==
  Quiet => retained.depth = Len(waiting) /\ retained.workers = busy

\* The snapshots anyone holds or is sent.
Live ==
  ({last, pending, retained, shown} \union {channel[i] : i \in DOMAIN channel})
    \ {NoSnapshot}

\* The console drops a snapshot by its revision alone, so a revision of an
\* instance must stand for one snapshot wherever it is.
RevisionIdentifiesSnapshot ==
  \A s, t \in Live :
    s.instance = t.instance /\ s.revision = t.revision => s = t

\* The console ends up with the pressure of the kitchen at rest, whatever
\* either link lost and however often the service was restarted.
ConsoleCatchesUp ==
  <>[](/\ shown # NoSnapshot
       /\ shown.instance = instance
       /\ SignatureOf(shown) = Signature(Len(waiting), busy))
=============================================================================
