---------------------------- MODULE BoundaryLab ----------------------------
(***************************************************************************)
(* The boundary lab: BoundaryTestController and its four tests, the cards  *)
(* that start and stop them, the publishes under way, and the statuses and *)
(* pressure snapshots that come back at any time, before a publish returns *)
(* and after a test has ended.                                             *)
(*                                                                         *)
(* The service is the environment: it may do whatever the lab is there to  *)
(* find, such as executing an order it refused.  Orders are numbered in    *)
(* the order of their creation.                                            *)
(***************************************************************************)
EXTENDS LabTests

CONSTANTS
  MaxOrders,   \* bound: orders created
  MaxBatch,    \* bound: orders published at once
  MaxTicks     \* bound: rounds of a loop, for duration * 4

ASSUME LabAssumption ==
  MaxOrders \in Nat /\ MaxBatch \in Nat \ {0} /\ MaxTicks \in Nat \ {0}

VARIABLES
  made,        \* orders created so far
  life,        \* the last event of each order at the service
  ended,       \* history: orders that had a terminal event
  returned,    \* history: orders seen as work after they were refused
  batches,     \* publishes under way; live when the run still awaits them
  burst, idempotency, saturation, overload,
  pressure,    \* a pressure snapshot was received
  mounted      \* the page is open

worldVars == <<life, ended, returned>>
vars == <<made, worldVars, batches, burst, idempotency, saturation, overload,
          pressure, mounted>>

Ids == 1..made

\* boundary-lab's anyTestActive, test by test.
Active(test) ==
  CASE test = "burst" -> burst.status \in {"publishing", "observing"}
    [] test = "idempotency" -> idempotency.status \in {"publishing", "observing"}
    [] test = "saturation" -> saturation.status = "running"
    [] test = "overload" -> overload.status \in {"running", "observing"}

Tests == {"burst", "idempotency", "saturation", "overload"}

\* The buttons that start a test are enabled.
Startable == mounted /\ \A test \in Tests : ~Active(test)

Init ==
  /\ made = 0 /\ life = [i \in 1..MaxOrders |-> "none"]
  /\ ended = {} /\ returned = {} /\ batches = {}
  /\ burst = EmptyBurst /\ idempotency = EmptyIdempotency
  /\ saturation = EmptySaturation /\ overload = EmptyOverload
  /\ pressure = FALSE /\ mounted = TRUE

Batch(test, ids, live) == [test |-> test, ids |-> ids, live |-> live]

\* createOrders and the first half of publishOrders: n fresh orders.
Publish(test, n) ==
  /\ made + n <= MaxOrders /\ made' = made + n
  /\ batches' = batches \union {Batch(test, (made + 1)..(made + n), TRUE)}

\* An abort: the loop no longer waits for its batch, which settles anyway.
Abandoned(test) ==
  {IF b.test = test THEN [b EXCEPT !.live = FALSE] ELSE b : b \in batches}

-----------------------------------------------------------------------------
(* Burst and idempotency.                                                  *)

RunBurst(n) ==
  /\ Startable /\ Publish("burst", n)
  /\ burst' = BurstStarted((made + 1)..(made + n))
  /\ UNCHANGED <<worldVars, idempotency, saturation, overload, pressure, mounted>>

BurstTimeout ==
  /\ burst.timer /\ burst' = BurstTimedOut(burst)
  /\ UNCHANGED <<made, worldVars, batches, idempotency, saturation, overload,
                 pressure, mounted>>

RunIdempotency ==
  /\ Startable /\ Publish("idempotency", 1)
  /\ idempotency' = IdempotencyStarted(made + 1)
  /\ UNCHANGED <<worldVars, burst, saturation, overload, pressure, mounted>>

IdempotencyTimeout ==
  /\ idempotency.timer /\ idempotency' = IdempotencyTimedOut(idempotency)
  /\ UNCHANGED <<made, worldVars, batches, burst, saturation, overload,
                 pressure, mounted>>

-----------------------------------------------------------------------------
(* Saturation.                                                             *)

StartSaturation ==
  /\ Startable /\ pressure
  /\ saturation' = SaturationStarted(made)
  /\ UNCHANGED <<made, worldVars, batches, burst, idempotency, overload,
                 pressure, mounted>>

\* A round of the loop: the deficit of the last snapshot is published, if
\* there is any.
SaturationRound ==
  /\ saturation.loop = "waiting" /\ saturation.ticks < MaxTicks
  /\ \/ \E n \in 1..MaxBatch :
          /\ Publish("saturation", n)
          /\ saturation' = [saturation EXCEPT !.ticks = @ + 1, !.loop = "publishing",
                              !.ids = @ \union (made + 1)..(made + n)]
     \/ /\ saturation' = [saturation EXCEPT !.ticks = @ + 1]
        /\ UNCHANGED <<made, batches>>
  /\ UNCHANGED <<worldVars, burst, idempotency, overload, pressure, mounted>>

\* The duration is over.
SaturationEnds ==
  /\ saturation.loop = "waiting" /\ saturation.ticks > 0
  /\ saturation' = [saturation EXCEPT !.status = "completed", !.loop = "none"]
  /\ UNCHANGED <<made, worldVars, batches, burst, idempotency, overload,
                 pressure, mounted>>

StopSaturation ==
  /\ mounted /\ Active("saturation")
  /\ saturation' = SaturationStopped(saturation)
  /\ batches' = Abandoned("saturation")
  /\ UNCHANGED <<made, worldVars, burst, idempotency, overload, pressure, mounted>>

-----------------------------------------------------------------------------
(* Overload.                                                               *)

\* start(): the warm-up is published at once.
StartOverload(n) ==
  /\ Startable /\ pressure /\ Publish("overload", n)
  /\ overload' = OverloadStarted((made + 1)..(made + n))
  /\ UNCHANGED <<worldVars, burst, idempotency, saturation, pressure, mounted>>

\* A round of the loop: the rate allows some orders in every one.
OverloadRound(n) ==
  /\ overload.loop = "waiting" /\ overload.ticks < MaxTicks
  /\ Publish("overload", n)
  /\ overload' = [overload EXCEPT !.ticks = @ + 1, !.loop = "publishing",
                    !.ids = @ \union (made + 1)..(made + n)]
  /\ UNCHANGED <<worldVars, burst, idempotency, saturation, pressure, mounted>>

\* The traffic stops.
OverloadObserves ==
  /\ overload.loop = "waiting"
  /\ overload' = [overload EXCEPT !.status = "observing", !.loop = "observing"]
  /\ UNCHANGED <<made, worldVars, batches, burst, idempotency, saturation,
                 pressure, mounted>>

OverloadEnds ==
  /\ overload.loop = "observing"
  /\ overload' = OverloadFinished(overload)
  /\ UNCHANGED <<made, worldVars, batches, burst, idempotency, saturation,
                 pressure, mounted>>

StopOverload ==
  /\ mounted /\ Active("overload")
  /\ overload' = OverloadStopped(overload)
  /\ batches' = Abandoned("overload")
  /\ UNCHANGED <<made, worldVars, burst, idempotency, saturation, pressure, mounted>>

-----------------------------------------------------------------------------
(* What comes back.                                                        *)

\* publishOrders: every publish of a batch has settled.
Settle(b) ==
  /\ batches' = batches \ {b}
  /\ \E failed \in SUBSET b.ids :
       LET resumed(s) == IF b.live THEN [s EXCEPT !.loop = "waiting"] ELSE s IN
       \/ /\ b.test = "burst" /\ burst' = BurstSettled(burst, b.ids, failed)
          /\ UNCHANGED <<idempotency, saturation, overload>>
       \/ /\ b.test = "idempotency"
          /\ idempotency' = IdempotencySettled(idempotency, failed = {})
          /\ UNCHANGED <<burst, saturation, overload>>
       \/ /\ b.test = "saturation"
          /\ saturation' = resumed(BatchSettled(saturation, failed))
          /\ UNCHANGED <<burst, idempotency, overload>>
       \/ /\ b.test = "overload"
          /\ overload' = resumed(BatchSettled(overload, failed))
          /\ UNCHANGED <<burst, idempotency, saturation>>
  /\ UNCHANGED <<made, worldVars, pressure, mounted>>

\* The events that may follow the last one of an order, delivered again or
\* handed over again included.
Following(event) ==
  CASE event = "none" -> {"queued", "overloaded"}
    [] event = "queued" -> {"queued", "processing"}
    [] event = "processing" -> {"processing", "food_ready", "failed"}
    [] event = "food_ready" -> {"food_ready"}
    [] event = "failed" -> {"failed", "queued", "overloaded"}
    [] event = "overloaded" -> {"overloaded", "queued"}

\* handleOrderStatus: every test is told.
OrderStatus(id) ==
  /\ mounted
  /\ \E event \in Following(life[id]) :
       /\ life' = [life EXCEPT ![id] = event]
       /\ ended' = WithIf(ended, id, Terminal(event))
       /\ returned' =
            WithIf(returned, id, life[id] = "overloaded" /\ event # "overloaded")
       /\ burst' = BurstStatus(burst, id, event)
       /\ idempotency' = IdempotencyStatus(idempotency, id, event)
       /\ saturation' = SaturationStatus(saturation, id, event)
       /\ overload' = OverloadStatus(overload, id, event)
  /\ batches' = IF overload'.loop = "none" THEN Abandoned("overload") ELSE batches
  /\ UNCHANGED <<made, pressure, mounted>>

\* handlePressure: a snapshot with some orders in workers, which may be ahead
\* of their statuses.
PressureSnapshot ==
  /\ mounted /\ pressure' = TRUE
  /\ \E working \in SUBSET {i \in Ids : life[i] \notin {"food_ready", "failed"}} :
       /\ returned' = returned \union {i \in working : life[i] = "overloaded"}
       /\ overload' = OverloadPressure(overload, working)
  /\ batches' = IF overload'.loop = "none" THEN Abandoned("overload") ELSE batches
  /\ UNCHANGED <<made, life, ended, burst, idempotency, saturation, mounted>>

\* destroy(), when the page is left.
Destroy ==
  /\ mounted /\ mounted' = FALSE
  /\ burst' = BurstCleared(burst)
  /\ idempotency' = IdempotencyCleared(idempotency)
  /\ saturation' = [SaturationStopped(saturation) EXCEPT !.ids = {}]
  /\ overload' = OverloadCleared(OverloadStopped(overload))
  /\ batches' = {IF b.test \in {"saturation", "overload"}
                 THEN [b EXCEPT !.live = FALSE] ELSE b : b \in batches}
  /\ UNCHANGED <<made, worldVars, pressure>>

-----------------------------------------------------------------------------
LoopStep ==
  \/ SaturationRound \/ SaturationEnds
  \/ \E n \in 1..MaxBatch : OverloadRound(n)
  \/ OverloadObserves \/ OverloadEnds

UserStep ==
  \/ RunIdempotency \/ StartSaturation \/ StopSaturation \/ StopOverload \/ Destroy
  \/ \E n \in 1..MaxBatch : RunBurst(n) \/ StartOverload(n)

Next ==
  \/ UserStep \/ LoopStep \/ BurstTimeout \/ IdempotencyTimeout
  \/ \E b \in batches : Settle(b)
  \/ \E id \in Ids : OrderStatus(id)
  \/ PressureSnapshot

Spec == Init /\ [][Next]_vars

\* Publishes settle, and time passes.
Fairness ==
  /\ WF_vars(\E b \in batches : Settle(b))
  /\ WF_vars(BurstTimeout) /\ WF_vars(IdempotencyTimeout)
  /\ WF_vars(SaturationRound \/ SaturationEnds)
  /\ WF_vars(OverloadObserves \/ \E n \in 1..MaxBatch : OverloadRound(n))
  /\ WF_vars(OverloadEnds)

LiveSpec == Spec /\ Fairness
-----------------------------------------------------------------------------
\* Every test is in a state of its type, and a timer runs only for a test that
\* observes.
TypeOK ==
  LET Loads == {"none", "waiting", "publishing", "observing"} IN
  /\ made \in 0..MaxOrders /\ pressure \in BOOLEAN /\ mounted \in BOOLEAN
  /\ \A b \in batches : b.test \in Tests /\ b.ids \subseteq Ids /\ b.live \in BOOLEAN
  /\ \A s \in {burst.ids, burst.terminal, saturation.ids, overload.ids,
               overload.rejected, overload.ghosts} : s \subseteq Ids
  /\ burst.status \in {"idle", "publishing", "observing", "completed", "failed"}
  /\ idempotency.status \in {"idle", "publishing", "observing", "passed", "failed"}
  /\ saturation.status \in {"idle", "running", "completed", "stopped"}
  /\ overload.status \in {"idle", "running", "observing", "passed", "stopped", "failed"}
  /\ saturation.loop \in Loads /\ overload.loop \in Loads
  /\ idempotency.published \in BOOLEAN /\ idempotency.id \in 0..made
  /\ burst.timer => burst.status = "observing"
  /\ idempotency.timer => idempotency.status = "observing"

\* "A rejected UUID appearing later as queued, processing, food ready, or
\* inside a worker immediately fails the test.  Monitoring remains active after
\* a pass" (overload-test-card.svelte:104): as long as its publish was not
\* reported as failed, every such order is a ghost and the run has failed,
\* whatever the loop, a stop or a stale batch did meanwhile; and nothing else
\* is called a ghost.
GhostIsReported ==
  /\ returned \intersect overload.ids \subseteq overload.ghosts
  /\ overload.ghosts \subseteq returned
  /\ overload.ghosts # {} => overload.status = "failed"

\* A test publishes only while it is the one that is active: not after it was
\* stopped, aborted or destroyed in the middle of a publish, and not beside
\* another one ("can be stopped immediately", saturation-test-card.svelte:93).
OnlyTheActiveTestPublishes ==
  [][\A b \in batches' \ batches :
       b.live => {test \in Tests : Active(test)'} = {b.test}]_vars

\* An order that ends is counted once in the saturation run that made it,
\* though its last event may come twice, or before its publish returns, and a
\* failed one may be handed over again.
TerminalCountedOnce ==
  saturation.terminal <= Cardinality({i \in ended : i > saturation.first})

\* A burst whose publishes all succeeded completes only when every order of it
\* ended ("tracks a random burst until every published order is terminal",
\* boundary-test-controller.spec.ts), though its orders end before its
\* publishes do.
BurstCompletes ==
  burst.status = "completed" /\ burst.publishFailed = 0 => burst.ids \subseteq ended

\* Every test comes to its end: a lost order, a failed publish or a ghost does
\* not leave it active, and the others locked out, while the page is open.
ActiveTestEnds ==
  \A test \in Tests : Active(test) ~> ~Active(test) \/ ~mounted

\* The fractions of an order a round may not publish are not lost: before the
\* first run, at any rate the card allows, any number of rounds of the shortest
\* run (five seconds) would publish what the rate says, down to the last whole
\* order (overload.ts:81-83).  Every fourth round leaves no fraction, and every
\* run starts with none, so what holds here holds for longer and later ones.
OverloadKeepsRate ==
  made = 0 =>
    \A rate \in 20..200 :
      LET after == Load(rate, 20) IN
      \A n \in 0..20 : after[n].sent = (n * rate) \div 4
=============================================================================
