------------------------------ MODULE LabTests ------------------------------
(***************************************************************************)
(* What the four tests of the boundary lab do with the results of their    *)
(* publishes and the statuses of their orders: BurstTest, IdempotencyTest, *)
(* SaturationTest and OverloadTest as functions from the state of a test   *)
(* to its next state.  Of the counts a test shows, those that no decision  *)
(* and no property depends on are left out.                                *)
(***************************************************************************)
EXTENDS Naturals, FiniteSets

\* A status changed, as a test sees it; "overloaded" is a failure with the code
\* service_overloaded.
Events == {"queued", "processing", "food_ready", "failed", "overloaded"}
Terminal(event) == event \in {"food_ready", "failed", "overloaded"}
StatusOf(event) == IF event = "overloaded" THEN "failed" ELSE event

\* set with id, when it is to be added.
WithIf(set, id, condition) == IF condition THEN set \union {id} ELSE set

-----------------------------------------------------------------------------
(* BurstTest.                                                              *)

EmptyBurst ==
  [status |-> "idle", ids |-> {}, terminal |-> {}, published |-> 0,
   publishFailed |-> 0, timer |-> FALSE]

\* Mutant: the sets of ids are compared while the publishes go on.
BurstEarly(b) ==
  IF b.status \in {"publishing", "observing"} /\ b.terminal # {}
       /\ Cardinality(b.terminal) >= b.published
  THEN [b EXCEPT !.status = "completed", !.timer = FALSE] ELSE b

\* Mutant: the timeout is left running.
BurstCompleteTimed(b) ==
  IF b.status \in {"publishing", "observing"} /\ b.published > 0
       /\ Cardinality(b.terminal) >= b.published
  THEN [b EXCEPT !.status = "completed"] ELSE b

\* #completeIfReady.
BurstComplete(b) ==
  IF b.status \in {"publishing", "observing"} /\ b.published > 0
       /\ Cardinality(b.terminal) >= b.published
  THEN [b EXCEPT !.status = "completed", !.timer = FALSE] ELSE b

\* run() up to its await.
BurstStarted(ids) == [EmptyBurst EXCEPT !.status = "publishing", !.ids = ids]

\* Mutant: nothing limits the observation.
BurstSettledUntimed(b, ids, failed) ==
  LET n == Cardinality(ids \ failed) IN
  BurstComplete(
    [b EXCEPT !.ids = @ \ failed, !.published = n,
              !.publishFailed = Cardinality(failed),
              !.status = IF n = 0 THEN "failed" ELSE "observing"])

\* run() when the publishes of ids have settled, some of them failed: it stops,
\* is complete already, or observes with a timeout.
BurstSettled(b, ids, failed) ==
  LET n == Cardinality(ids \ failed)
      settled == BurstComplete(
        [b EXCEPT !.ids = @ \ failed, !.published = n,
                  !.publishFailed = Cardinality(failed),
                  !.status = IF n = 0 THEN "failed" ELSE "observing"])
  IN [settled EXCEPT !.timer = (settled.status = "observing")]

\* The timeout.
BurstTimedOut(b) ==
  [b EXCEPT !.timer = FALSE,
            !.status = IF @ = "observing" THEN "failed" ELSE @]

\* handleStatus.
BurstStatus(b, id, event) ==
  IF id \notin b.ids THEN b
  ELSE BurstComplete([b EXCEPT !.terminal = WithIf(@, id, Terminal(event))])

\* #clear; what is shown stays.
BurstCleared(b) ==
  [b EXCEPT !.ids = {}, !.terminal = {}, !.timer = FALSE]

-----------------------------------------------------------------------------
(* IdempotencyTest: one order, published three times, and whether all of   *)
(* them succeeded.  Id 0 is none.                                          *)

EmptyIdempotency ==
  [status |-> "idle", id |-> 0, published |-> FALSE, statuses |-> {},
   timer |-> FALSE]

\* #completeIfReady: the verdict, given again with every later status.
IdempotencyComplete(t) ==
  IF ~t.published \/ t.statuses \intersect {"food_ready", "failed"} = {}
  THEN t
  ELSE [t EXCEPT
          !.status = IF {"queued", "processing"} \subseteq t.statuses
                          /\ Cardinality(t.statuses) = 3
                     THEN "passed" ELSE "failed",
          !.timer = FALSE]

\* run() up to its await.
IdempotencyStarted(id) ==
  [EmptyIdempotency EXCEPT !.status = "publishing", !.id = id]

\* run() when the three publishes have settled.
IdempotencySettled(t, published) ==
  LET settled == IdempotencyComplete(
        [t EXCEPT !.published = published,
                  !.status = IF published THEN "observing" ELSE "failed"])
  IN [settled EXCEPT !.timer = (settled.status = "observing")]

\* The timeout.
IdempotencyTimedOut(t) ==
  [t EXCEPT !.timer = FALSE,
            !.status = IF @ = "observing" THEN "failed" ELSE @]

\* handleStatus.
IdempotencyStatus(t, id, event) ==
  IF id # t.id THEN t
  ELSE IdempotencyComplete([t EXCEPT !.statuses = @ \union {StatusOf(event)}])

\* #clear.
IdempotencyCleared(t) ==
  [t EXCEPT !.id = 0, !.statuses = {}, !.timer = FALSE]

-----------------------------------------------------------------------------
(* SaturationTest and OverloadTest publish in a loop of their own.  `loop` *)
(* says what the loop of the run awaits, "none" when it ended or was       *)
(* aborted; `ticks` counts its rounds, and `first` the orders made before  *)
(* the run.                                                                *)

EmptySaturation ==
  [status |-> "idle", ids |-> {}, terminal |-> 0,
   loop |-> "none", ticks |-> 0, first |-> 0]

\* start() up to the loop.
SaturationStarted(made) ==
  [EmptySaturation EXCEPT !.status = "running", !.loop = "waiting",
                          !.first = made]

\* Mutant: the loop goes on.
SaturationStoppedLate(s) ==
  IF s.status = "running" THEN [s EXCEPT !.status = "stopped"] ELSE s

\* stop(), while there is a run to abort.
SaturationStopped(s) ==
  IF s.status = "running"
  THEN [s EXCEPT !.status = "stopped", !.loop = "none"] ELSE s

\* Mutant: an order that ended is kept.
SaturationStatusKept(s, id, event) ==
  IF id \notin s.ids THEN s
  ELSE [s EXCEPT !.terminal = IF Terminal(event) THEN @ + 1 ELSE @]

\* handleStatus: an order that ended is counted and forgotten.
SaturationStatus(s, id, event) ==
  IF id \notin s.ids THEN s
  ELSE [s EXCEPT !.terminal = IF Terminal(event) THEN @ + 1 ELSE @,
                 !.ids = IF Terminal(event) THEN @ \ {id} ELSE @]

\* #publishBatch of either test, when the publishes of ids have settled: the
\* orders are taken from whatever run there is then, and counted in it.
BatchSettled(s, failed) == [s EXCEPT !.ids = @ \ failed]

EmptyOverload ==
  [status |-> "idle", ids |-> {}, rejected |-> {}, ghosts |-> {},
   loop |-> "none", ticks |-> 0]

\* start() up to the warm-up's await.
OverloadStarted(ids) ==
  [EmptyOverload EXCEPT !.status = "running", !.loop = "publishing",
                        !.ids = ids]

\* Mutant: the fraction is dropped.
RoundWhole(load, rate) ==
  [sent |-> load.sent + (load.budget + rate) \div 4, budget |-> 0]

\* The publishBudget of a round of start(), in quarters of an order: a quarter
\* of the rate is added, and what is left of an order is kept.
Round(load, rate) ==
  [sent |-> load.sent + (load.budget + rate) \div 4,
   budget |-> (load.budget + rate) % 4]

\* What some rounds have published, for each number of rounds.
Load(rate, rounds) ==
  LET after[n \in 0..rounds] ==
        IF n = 0 THEN [sent |-> 0, budget |-> 0] ELSE Round(after[n - 1], rate)
  IN after

\* stop(), while there is a run to abort.
OverloadStopped(o) ==
  [o EXCEPT !.status = IF @ \in {"running", "observing"} THEN "stopped" ELSE @,
            !.loop = "none"]

\* #recordGhost of some orders: the run is aborted and failed.
WithGhosts(o, ids) ==
  IF ids \subseteq o.ghosts THEN o
  ELSE [o EXCEPT !.ghosts = @ \union ids, !.status = "failed", !.loop = "none"]

\* Mutant: what refused an order is looked up after it is noted.
OverloadStatusNoted(o, id, event) ==
  IF id \notin o.ids THEN o
  ELSE WithGhosts(
    [o EXCEPT !.rejected = WithIf(@, id, event = "overloaded")],
    IF id \in o.rejected \/ event = "overloaded" THEN {id} ELSE {})

\* handleStatus.
OverloadStatus(o, id, event) ==
  IF id \notin o.ids THEN o
  ELSE WithGhosts(
    [o EXCEPT !.rejected = WithIf(@, id, event = "overloaded")],
    IF id \in o.rejected /\ event # "overloaded" THEN {id} ELSE {})

\* handlePressure, with the orders that workers process.
OverloadPressure(o, working) == WithGhosts(o, working \intersect o.rejected)

\* #finishObservation.
OverloadFinished(o) ==
  [o EXCEPT !.loop = "none",
            !.status = IF o.ghosts # {} THEN @
                       ELSE IF o.rejected # {} THEN "passed" ELSE "failed"]

\* #clear; what is shown stays.
OverloadCleared(o) ==
  [o EXCEPT !.ids = {}, !.rejected = {}, !.ghosts = {}]
=============================================================================
