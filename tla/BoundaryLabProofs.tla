------------------------- MODULE BoundaryLabProofs -------------------------
(***************************************************************************)
(* Proofs about BoundaryLab: which test may publish, and what the verdicts *)
(* of the tests mean, for any number and size of batches and any rounds.   *)
(***************************************************************************)
EXTENDS BoundaryLab, SequenceFacts, FiniteSetTheorems, TLAPS

-----------------------------------------------------------------------------
(* The inductive invariant.                                                *)

\* The states of the tests, when the orders they know are among some.
BurstState(I) ==
  [status : {"idle", "publishing", "observing", "completed", "failed"},
   ids : SUBSET I, terminal : SUBSET I, published : Nat, publishFailed : Nat,
   timer : BOOLEAN]

IdempotencyState(I) ==
  [status : {"idle", "publishing", "observing", "passed", "failed"},
   id : I \union {0}, published : BOOLEAN,
   statuses : SUBSET {"queued", "processing", "food_ready", "failed"},
   timer : BOOLEAN]

Loads == {"none", "waiting", "publishing", "observing"}

SaturationState(I) ==
  [status : {"idle", "running", "completed", "stopped"}, ids : SUBSET I,
   terminal : Nat, loop : Loads, ticks : Nat, first : Nat]

OverloadState(I) ==
  [status : {"idle", "running", "observing", "passed", "stopped", "failed"},
   ids : SUBSET I, rejected : SUBSET I, ghosts : SUBSET I, loop : Loads,
   ticks : Nat]

\* What a batch is.
Batches == [test : Tests, ids : SUBSET Ids, live : BOOLEAN]

\* The world knows the orders made, and every test is a record of its type.
WorldTyped ==
  /\ made \in 0..MaxOrders /\ pressure \in BOOLEAN /\ mounted \in BOOLEAN
  /\ life \in [1..MaxOrders -> Events \union {"none"}]
  /\ \A i \in 1..MaxOrders : i > made => life[i] = "none"
  /\ ended \subseteq Ids /\ returned \subseteq Ids

Typed ==
  /\ WorldTyped
  /\ batches \subseteq Batches
  /\ burst \in BurstState(Ids) /\ idempotency \in IdempotencyState(Ids)
  /\ saturation \in SaturationState(Ids) /\ overload \in OverloadState(Ids)

\* The test awaits a batch of its own.
Owed(test) ==
  CASE test = "burst" -> burst.status = "publishing"
    [] test = "idempotency" -> idempotency.status = "publishing"
    [] test = "saturation" -> saturation.loop = "publishing"
    [] test = "overload" -> overload.loop = "publishing"

\* One test is active, at most; one batch is live, at most, and awaited.
OneActive == \A s, t \in Tests : Active(s) /\ Active(t) => s = t

OneLive ==
  /\ \A b \in batches : /\ b.live => Owed(b.test)
                        /\ b.test \in {"burst", "idempotency"} => b.live
  /\ \A b, c \in batches : b.live /\ c.live => b = c

\* A loop goes on only in a test that is active.
LoopsRun ==
  /\ saturation.loop \in {"waiting", "publishing"} => saturation.status = "running"
  /\ saturation.loop # "observing"
  /\ overload.loop \in {"waiting", "publishing"} => overload.status = "running"
  /\ overload.loop = "observing" => overload.status = "observing"

\* The burst has counted orders of its own that ended, after it knows how many
\* were published; none of them while it publishes.
BurstCounts ==
  /\ burst.timer => burst.status = "observing"
  /\ burst.terminal \subseteq ended
  /\ burst.status = "publishing" =>
       /\ burst.published = 0 /\ burst.publishFailed = 0
       /\ burst.terminal \subseteq burst.ids
       /\ \A b \in batches : b.test = "burst" => burst.ids \in {{}, b.ids}
  /\ burst.status = "observing" /\ burst.publishFailed = 0 =>
       /\ burst.terminal \subseteq burst.ids
       /\ burst.ids = {} \/ burst.published = Cardinality(burst.ids)

\* The verdict on idempotency waits for the publishes.
IdempotencyWaits ==
  /\ idempotency.timer => idempotency.status = "observing"
  /\ idempotency.status = "publishing" => ~idempotency.published

\* Saturation forgets an order when it ends, and knows none of an earlier run.
SaturationForgets ==
  /\ saturation.first <= made
  /\ \A i \in saturation.ids : i \notin ended /\ i > saturation.first

\* Overload has noted what was refused; a ghost ends the run.
OverloadNotes ==
  /\ \A i \in overload.ids : life[i] = "overloaded" => i \in overload.rejected
  /\ \A i \in overload.rejected : life[i] = "overloaded" \/ i \in returned
  /\ overload.ghosts # {} => overload.loop = "none"

LabInv ==
  /\ Typed /\ OneActive /\ OneLive /\ LoopsRun
  /\ BurstCounts /\ BurstCompletes
  /\ IdempotencyWaits
  /\ SaturationForgets /\ TerminalCountedOnce
  /\ OverloadNotes /\ GhostIsReported

-----------------------------------------------------------------------------
(* Which test is active, and which one awaits a batch.                     *)

\* When each test is active or awaits a batch.
LEMMA ActiveFacts ==
  /\ Active("burst") <=> burst.status \in {"publishing", "observing"}
  /\ Active("idempotency") <=>
       idempotency.status \in {"publishing", "observing"}
  /\ Active("saturation") <=> saturation.status = "running"
  /\ Active("overload") <=> overload.status \in {"running", "observing"}
  /\ Owed("burst") <=> burst.status = "publishing"
  /\ Owed("idempotency") <=> idempotency.status = "publishing"
  /\ Owed("saturation") <=> saturation.loop = "publishing"
  /\ Owed("overload") <=> overload.loop = "publishing"
BY DEF Active, Owed

\* A test that awaits a batch is active.
LEMMA OwedIsActive ==
  ASSUME LoopsRun, NEW test \in Tests, Owed(test)
  PROVE  Active(test)
<1>1. test \in {"burst", "idempotency", "saturation", "overload"}
  BY DEF Tests
<1> QED BY <1>1, ActiveFacts DEF LoopsRun

\* A step that starts no test and hands out no batch.
LEMMA NoneStarts ==
  ASSUME OneActive, OneLive, \A t \in Tests : Active(t)' => Active(t),
         batches' \subseteq Batches,
         \A b \in batches' : b.live => b \in batches /\ Owed(b.test)',
         \A b \in batches' : b.test \in {"burst", "idempotency"} => b \in batches
  PROVE  OneActive' /\ OneLive'
BY DEF OneActive, OneLive

\* A step of a test that is the only one that may be active, hands out a
\* batch, and awaits it.
LEMMA OneStarts ==
  ASSUME OneLive, LoopsRun, batches \subseteq Batches, NEW test \in Tests,
         ~Owed(test), Owed(test)', LoopsRun',
         \A t \in Tests \ {test} : ~Active(t) /\ (Active(t)' => Active(t)),
         NEW ids, batches' = batches \union {Batch(test, ids, TRUE)}
  PROVE  OneActive' /\ OneLive'
<1>1. OneActive'
  BY DEF OneActive
<1>2. \A t \in Tests : ~Owed(t)
  BY OwedIsActive
<1>3. \A b \in batches : ~b.live /\ b.test \in Tests
  BY <1>2 DEF OneLive, Batches
<1>4. /\ Batch(test, ids, TRUE).live = TRUE
      /\ Batch(test, ids, TRUE).test = test
  BY DEF Batch
<1>5. OneLive'
  BY <1>3, <1>4 DEF OneLive
<1> QED BY <1>1, <1>5

\* Another value of one field of a batch, whatever the fields hold.
LEMMA BatchUpdate ==
  ASSUME NEW T, NEW I, NEW L, NEW x \in [test : T, ids : I, live : L],
         NEW l \in L
  PROVE  /\ [x EXCEPT !.live = l] \in [test : T, ids : I, live : L]
         /\ [x EXCEPT !.live = l].test = x.test
         /\ [x EXCEPT !.live = l].ids = x.ids
         /\ [x EXCEPT !.live = l].live = l
OBVIOUS

\* The batches of some tests are abandoned: none of theirs is live.
LEMMA AbandonedFacts ==
  ASSUME batches \subseteq Batches, NEW T,
         NEW left, left = {IF b.test \in T THEN [b EXCEPT !.live = FALSE] ELSE b :
                             b \in batches}
  PROVE  /\ left \subseteq Batches
         /\ \A x \in left : IF x.test \in T THEN ~x.live ELSE x \in batches
<1>1. ASSUME NEW b \in batches
      PROVE  /\ [b EXCEPT !.live = FALSE] \in Batches
             /\ [b EXCEPT !.live = FALSE].test = b.test
             /\ [b EXCEPT !.live = FALSE].live = FALSE
  <2>1. b \in [test : Tests, ids : SUBSET Ids, live : BOOLEAN]
    BY DEF Batches
  <2>2. FALSE \in BOOLEAN
    OBVIOUS
  <2> QED BY <2>1, <2>2, BatchUpdate DEF Batches
<1>2. ASSUME NEW x \in left
      PROVE  x \in Batches /\ IF x.test \in T THEN ~x.live ELSE x \in batches
  <2>1. PICK b \in batches :
          x = IF b.test \in T THEN [b EXCEPT !.live = FALSE] ELSE b
    OBVIOUS
  <2>2. CASE b.test \in T
    <3>1. x = [b EXCEPT !.live = FALSE]
      BY <2>1, <2>2
    <3>2. x \in Batches /\ x.test = b.test /\ x.live = FALSE
      BY <1>1, <3>1
    <3> QED BY <2>2, <3>2
  <2>3. CASE b.test \notin T
    BY <2>1, <2>3
  <2> QED BY <2>2, <2>3
<1> QED BY <1>2

\* The same for one test.
LEMMA AbandonedOne ==
  ASSUME batches \subseteq Batches, NEW test
  PROVE  /\ Abandoned(test) \subseteq Batches
         /\ \A x \in Abandoned(test) :
              IF x.test = test THEN ~x.live ELSE x \in batches
<1>1. Abandoned(test) =
        {IF b.test \in {test} THEN [b EXCEPT !.live = FALSE] ELSE b : b \in batches}
  BY DEF Abandoned
<1>2. \A x \in Abandoned(test) :
        x \in Batches /\ IF x.test \in {test} THEN ~x.live ELSE x \in batches
  BY <1>1, AbandonedFacts
<1> QED BY <1>2

-----------------------------------------------------------------------------
(* BurstTest.                                                              *)

\* Another value of one field of the burst, whatever the fields hold.
LEMMA BurstUpdate ==
  ASSUME NEW S, NEW I, NEW J, NEW P, NEW F, NEW M,
         NEW b \in [status : S, ids : I, terminal : J, published : P,
                    publishFailed : F, timer : M],
         NEW s \in S, NEW i \in I, NEW j \in J, NEW p \in P, NEW f \in F,
         NEW m \in M
  PROVE  LET R == [status : S, ids : I, terminal : J, published : P,
                   publishFailed : F, timer : M]
         IN /\ [b EXCEPT !.status = s] \in R /\ [b EXCEPT !.ids = i] \in R
            /\ [b EXCEPT !.terminal = j] \in R /\ [b EXCEPT !.published = p] \in R
            /\ [b EXCEPT !.publishFailed = f] \in R
            /\ [b EXCEPT !.timer = m] \in R
OBVIOUS

\* The same for the states a burst has.
LEMMA BurstTypes ==
  ASSUME NEW I, NEW b \in BurstState(I)
  PROVE  /\ \A s \in {"idle", "publishing", "observing", "completed", "failed"} :
              [b EXCEPT !.status = s] \in BurstState(I)
         /\ \A X \in SUBSET I : /\ [b EXCEPT !.ids = X] \in BurstState(I)
                                /\ [b EXCEPT !.terminal = X] \in BurstState(I)
         /\ \A n \in Nat : /\ [b EXCEPT !.published = n] \in BurstState(I)
                           /\ [b EXCEPT !.publishFailed = n] \in BurstState(I)
         /\ \A m \in BOOLEAN : [b EXCEPT !.timer = m] \in BurstState(I)
<1>1. \A s \in {"idle", "publishing", "observing", "completed", "failed"},
         X, Y \in SUBSET I, n, k \in Nat, m \in BOOLEAN :
        /\ [b EXCEPT !.status = s] \in BurstState(I)
        /\ [b EXCEPT !.ids = X] \in BurstState(I)
        /\ [b EXCEPT !.terminal = Y] \in BurstState(I)
        /\ [b EXCEPT !.published = n] \in BurstState(I)
        /\ [b EXCEPT !.publishFailed = k] \in BurstState(I)
        /\ [b EXCEPT !.timer = m] \in BurstState(I)
  BY BurstUpdate DEF BurstState
<1>2. /\ "idle" \in {"idle", "publishing", "observing", "completed", "failed"}
      /\ {} \in SUBSET I /\ 0 \in Nat /\ TRUE \in BOOLEAN
  OBVIOUS
<1>3. \A s \in {"idle", "publishing", "observing", "completed", "failed"} :
        [b EXCEPT !.status = s] \in BurstState(I)
  BY <1>1, <1>2
<1>4. \A X \in SUBSET I : /\ [b EXCEPT !.ids = X] \in BurstState(I)
                          /\ [b EXCEPT !.terminal = X] \in BurstState(I)
  BY <1>1, <1>2
<1>5. \A n \in Nat : /\ [b EXCEPT !.published = n] \in BurstState(I)
                     /\ [b EXCEPT !.publishFailed = n] \in BurstState(I)
  BY <1>1, <1>2
<1>6. \A m \in BOOLEAN : [b EXCEPT !.timer = m] \in BurstState(I)
  BY <1>1, <1>2
<1> QED BY <1>3, <1>4, <1>5, <1>6

\* #completeIfReady ends a burst when enough of its orders ended, and changes
\* nothing else.
LEMMA BurstCompleteFacts ==
  ASSUME NEW I, NEW b \in BurstState(I)
  PROVE  LET c == BurstComplete(b) IN
         /\ c \in BurstState(I) /\ c.ids = b.ids /\ c.terminal = b.terminal
         /\ c.published = b.published /\ c.publishFailed = b.publishFailed
         /\ \/ c = b
            \/ /\ c.status = "completed" /\ ~c.timer
               /\ b.status \in {"publishing", "observing"} /\ b.published > 0
               /\ Cardinality(b.terminal) >= b.published
<1> DEFINE c == [[b EXCEPT !.status = "completed"] EXCEPT !.timer = FALSE]
<1>1. [b EXCEPT !.status = "completed"] \in BurstState(I)
  BY BurstTypes
<1>2. c \in BurstState(I)
  BY <1>1, BurstTypes
<1>3. /\ c.ids = b.ids /\ c.terminal = b.terminal /\ c.published = b.published
      /\ c.publishFailed = b.publishFailed /\ c.status = "completed"
      /\ c.timer = FALSE
  BY DEF BurstState
<1>4. BurstComplete(b) \in {b, c}
  BY DEF BurstComplete
<1>5. BurstComplete(b) = b \/
        /\ BurstComplete(b) = c
        /\ b.status \in {"publishing", "observing"} /\ b.published > 0
        /\ Cardinality(b.terminal) >= b.published
  BY DEF BurstComplete
<1> HIDE DEF c
<1> QED BY <1>2, <1>3, <1>5

\* run() has the counts of its batch, and observes with a timeout.
LEMMA BurstSettledFacts ==
  ASSUME NEW I, NEW b \in BurstState(I), NEW ids \in SUBSET I,
         NEW failed \in SUBSET ids, IsFiniteSet(I)
  PROVE  LET s == BurstSettled(b, ids, failed) IN
         /\ s \in BurstState(I) /\ s.ids = b.ids \ failed
         /\ s.terminal = b.terminal
         /\ s.published = Cardinality(ids \ failed)
         /\ s.publishFailed = 0 <=> failed = {}
         /\ s.timer => s.status = "observing"
         /\ s.status \in {"failed", "observing", "completed"}
         /\ s.status = "completed" => Cardinality(s.terminal) >= s.published
<1> DEFINE n == Cardinality(ids \ failed)
           status == IF n = 0 THEN "failed" ELSE "observing"
           u == [[[[b EXCEPT !.ids = b.ids \ failed] EXCEPT !.published = n]
                    EXCEPT !.publishFailed = Cardinality(failed)]
                    EXCEPT !.status = status]
           c == BurstComplete(u)
           s == [c EXCEPT !.timer = (c.status = "observing")]
<1>1. /\ n \in Nat /\ Cardinality(failed) \in Nat
      /\ Cardinality(failed) = 0 <=> failed = {}
  <2>1. IsFiniteSet(ids)
    BY FS_Subset
  <2>2. IsFiniteSet(failed) /\ IsFiniteSet(ids \ failed)
    BY <2>1, FS_Subset
  <2> QED BY <2>2, FS_CardinalityType, FS_EmptySet
<1>2. b.ids \ failed \in SUBSET I /\ status \in {"failed", "observing"}
  BY DEF BurstState
<1>3. u \in BurstState(I)
  <2> HIDE DEF n, status
  <2>1. [b EXCEPT !.ids = b.ids \ failed] \in BurstState(I)
    BY <1>2, BurstTypes
  <2>2. [[b EXCEPT !.ids = b.ids \ failed] EXCEPT !.published = n]
          \in BurstState(I)
    BY <1>1, <2>1, BurstTypes
  <2>3. [[[b EXCEPT !.ids = b.ids \ failed] EXCEPT !.published = n]
           EXCEPT !.publishFailed = Cardinality(failed)] \in BurstState(I)
    BY <1>1, <2>2, BurstTypes
  <2> QED BY <1>2, <2>3, BurstTypes
<1>4. /\ u.ids = b.ids \ failed /\ u.terminal = b.terminal /\ u.published = n
      /\ u.publishFailed = Cardinality(failed) /\ u.status = status
  BY DEF BurstState
<1>5. BurstSettled(b, ids, failed) = s
  BY DEF BurstSettled
<1> HIDE DEF u, n, status
<1>6. /\ c \in BurstState(I) /\ c.ids = u.ids /\ c.terminal = u.terminal
      /\ c.published = u.published /\ c.publishFailed = u.publishFailed
      /\ \/ c = u
         \/ c.status = "completed" /\ Cardinality(u.terminal) >= u.published
  BY <1>3, BurstCompleteFacts
<1> HIDE DEF c
<1>7. (c.status = "observing") \in BOOLEAN
  OBVIOUS
<1>8. s \in BurstState(I)
  BY <1>6, <1>7, BurstTypes
<1>9. /\ s.ids = c.ids /\ s.terminal = c.terminal /\ s.published = c.published
      /\ s.publishFailed = c.publishFailed /\ s.status = c.status
      /\ s.timer = (c.status = "observing")
  BY <1>6 DEF BurstState
<1> HIDE DEF s
<1>10. s.status \in {"failed", "observing", "completed"}
  BY <1>2, <1>4, <1>6, <1>9
<1>11. s.timer => s.status = "observing"
  BY <1>9
<1>12. s.published = Cardinality(ids \ failed)
  BY <1>4, <1>6, <1>9 DEF n
<1>13. s.status = "completed" => Cardinality(s.terminal) >= s.published
  BY <1>2, <1>4, <1>6, <1>9
<1> QED BY <1>1, <1>4, <1>5, <1>6, <1>8, <1>9, <1>10, <1>11, <1>12, <1>13

\* What a set with one more element is.
LEMMA WithIfFacts ==
  ASSUME NEW set, NEW id, NEW condition \in BOOLEAN
  PROVE  /\ set \subseteq WithIf(set, id, condition)
         /\ WithIf(set, id, condition) \subseteq set \union {id}
         /\ condition => id \in WithIf(set, id, condition)
         /\ ~condition => WithIf(set, id, condition) = set
BY DEF WithIf

\* The orders made are finitely many.
LEMMA IdsFinite ==
  ASSUME Typed
  PROVE  IsFiniteSet(Ids) /\ made \in Nat /\ Ids = 1..made
BY FS_Interval, LabAssumption DEF Typed, WorldTyped, Ids

\* What the burst knows stays true while the burst is left alone.
LEMMA BurstKept ==
  ASSUME BurstCounts, BurstCompletes, burst' = burst, ended \subseteq ended',
         \A b \in batches' : b.test = "burst" => b \in batches
  PROVE  BurstCounts' /\ BurstCompletes'
<1>1. BurstCounts'
  BY DEF BurstCounts
<1>2. BurstCompletes'
  BY DEF BurstCompletes
<1> QED BY <1>1, <1>2

\* A burst that was not short of an order completes with all of them.
LEMMA AllCounted ==
  ASSUME NEW I, IsFiniteSet(I), NEW ids \in SUBSET I, NEW terminal \in SUBSET ids,
         Cardinality(terminal) >= Cardinality(ids)
  PROVE  terminal = ids
<1>1. IsFiniteSet(ids)
  BY FS_Subset
<1>2. IsFiniteSet(terminal) /\ Cardinality(terminal) <= Cardinality(ids)
  BY <1>1, FS_Subset
<1>3. Cardinality(terminal) \in Nat /\ Cardinality(ids) \in Nat
  BY <1>1, <1>2, FS_CardinalityType
<1>4. Cardinality(ids) = Cardinality(terminal)
  BY <1>2, <1>3
<1> QED BY <1>1, <1>4, FS_Subset

\* The burst is told of an order.
LEMMA BurstTold ==
  ASSUME Typed, BurstCounts, BurstCompletes, NEW id \in Ids,
         NEW event \in Events, batches' \subseteq Batches,
         \A b \in batches' : b.test = "burst" => b \in batches,
         ended' = WithIf(ended, id, Terminal(event)),
         burst' = BurstStatus(burst, id, event)
  PROVE  /\ burst' \in BurstState(Ids) /\ BurstCounts' /\ BurstCompletes'
         /\ \/ burst'.status = burst.status
            \/ burst.status = "observing" /\ burst'.status = "completed"
<1>1. /\ burst \in BurstState(Ids) /\ IsFiniteSet(Ids)
      /\ burst.ids \in SUBSET Ids /\ burst.terminal \in SUBSET Ids
      /\ burst.published \in Nat
  BY IdsFinite DEF Typed, WorldTyped, BurstState
<1>2. ended \subseteq ended' /\ (Terminal(event) => id \in ended')
  BY DEF WithIf
<1>3. CASE id \notin burst.ids
  <2>1. burst' = burst
    BY <1>3 DEF BurstStatus
  <2> QED BY <1>1, <1>2, <2>1, BurstKept
<1>4. CASE id \in burst.ids
  <2> DEFINE T == WithIf(burst.terminal, id, Terminal(event))
             u == [burst EXCEPT !.terminal = T]
  <2>1. /\ T \subseteq Ids /\ T \subseteq ended'
        /\ burst.terminal \subseteq burst.ids => T \subseteq burst.ids
    BY <1>1, <1>2, <1>4 DEF WithIf, BurstCounts
  <2>2. burst' = BurstComplete(u)
    BY <1>4 DEF BurstStatus
  <2> HIDE DEF T
  <2>3. /\ u \in BurstState(Ids) /\ u.status = burst.status /\ u.ids = burst.ids
        /\ u.terminal = T /\ u.published = burst.published
        /\ u.publishFailed = burst.publishFailed /\ u.timer = burst.timer
    BY <1>1, <2>1, BurstTypes DEF BurstState
  <2> HIDE DEF u
  <2>4. /\ burst' \in BurstState(Ids) /\ burst'.ids = burst.ids
        /\ burst'.terminal = T /\ burst'.published = burst.published
        /\ burst'.publishFailed = burst.publishFailed
        /\ \/ burst' = u
           \/ /\ burst'.status = "completed" /\ ~burst'.timer
              /\ burst.status \in {"publishing", "observing"}
              /\ burst.published > 0 /\ Cardinality(T) >= burst.published
    BY <2>2, <2>3, BurstCompleteFacts
  <2>5. CASE burst' = u
    <3>1. BurstCounts'
      BY <1>2, <2>1, <2>3, <2>5 DEF BurstCounts
    <3>2. BurstCompletes'
      BY <1>2, <2>3, <2>5 DEF BurstCompletes
    <3> QED BY <2>3, <2>5, <3>1, <3>2
  <2>6. CASE /\ burst'.status = "completed" /\ ~burst'.timer
             /\ burst.status \in {"publishing", "observing"}
             /\ burst.published > 0 /\ Cardinality(T) >= burst.published
    <3>1. burst.status = "observing"
      BY <2>6 DEF BurstCounts
    <3>2. BurstCounts'
      BY <2>1, <2>4, <2>6 DEF BurstCounts
    <3>3. ASSUME burst.publishFailed = 0
          PROVE  burst.ids \subseteq ended'
      <4>1. /\ burst.terminal \subseteq burst.ids
            /\ burst.ids = {} \/ burst.published = Cardinality(burst.ids)
        BY <3>1, <3>3 DEF BurstCounts
      <4>2. CASE burst.published = Cardinality(burst.ids)
        <5>1. T = burst.ids
          BY <1>1, <2>1, <2>6, <4>1, <4>2, AllCounted
        <5> QED BY <2>1, <5>1
      <4> QED BY <4>1, <4>2
    <3>4. BurstCompletes'
      BY <2>4, <3>3 DEF BurstCompletes
    <3> QED BY <2>4, <2>6, <3>1, <3>2, <3>4
  <2> QED BY <2>4, <2>5, <2>6
<1> QED BY <1>3, <1>4

\* The publishes of a burst have settled.
LEMMA BurstSettles ==
  ASSUME Typed, BurstCounts, BurstCompletes, NEW b \in batches,
         b.test = "burst", burst.status = "publishing",
         NEW failed \in SUBSET b.ids, ended' = ended,
         burst' = BurstSettled(burst, b.ids, failed)
  PROVE  /\ burst' \in BurstState(Ids) /\ BurstCounts' /\ BurstCompletes'
         /\ burst'.status \in {"failed", "observing", "completed"}
<1>1. /\ burst \in BurstState(Ids) /\ IsFiniteSet(Ids) /\ b.ids \in SUBSET Ids
  BY IdsFinite DEF Typed, WorldTyped, Batches
<1>2. /\ burst' \in BurstState(Ids) /\ burst'.ids = burst.ids \ failed
      /\ burst'.terminal = burst.terminal
      /\ burst'.published = Cardinality(b.ids \ failed)
      /\ burst'.publishFailed = 0 <=> failed = {}
      /\ burst'.timer => burst'.status = "observing"
      /\ burst'.status \in {"failed", "observing", "completed"}
      /\ burst'.status = "completed" =>
           Cardinality(burst'.terminal) >= burst'.published
  <2> DEFINE ids == b.ids
             s == BurstSettled(burst, ids, failed)
  <2>1. ids \in SUBSET Ids /\ failed \in SUBSET ids
    BY <1>1
  <2> HIDE DEF ids
  <2>2. /\ s \in BurstState(Ids) /\ s.ids = burst.ids \ failed
        /\ s.terminal = burst.terminal
        /\ s.published = Cardinality(ids \ failed)
        /\ s.publishFailed = 0 <=> failed = {}
        /\ s.timer => s.status = "observing"
        /\ s.status \in {"failed", "observing", "completed"}
        /\ s.status = "completed" => Cardinality(s.terminal) >= s.published
    BY <1>1, <2>1, BurstSettledFacts, Zenon
  <2>3. burst' = s
    BY DEF ids
  <2> HIDE DEF s
  <2> QED BY <2>2, <2>3 DEF ids
<1>3. /\ burst.terminal \subseteq ended /\ burst.terminal \subseteq burst.ids
      /\ burst.ids \in {{}, b.ids}
  BY DEF BurstCounts
<1>4. BurstCounts'
  <2>1. burst'.publishFailed = 0 =>
          /\ burst'.terminal \subseteq burst'.ids
          /\ burst'.ids = {} \/ burst'.published = Cardinality(burst'.ids)
    <3> SUFFICES ASSUME failed = {}
                 PROVE  /\ burst'.terminal \subseteq burst'.ids
                        /\ burst'.ids = {}
                             \/ burst'.published = Cardinality(burst'.ids)
      BY <1>2
    <3>1. burst'.ids = burst.ids /\ b.ids \ failed = b.ids
      BY <1>2
    <3> QED BY <1>2, <1>3, <3>1
  <2> QED BY <1>2, <1>3, <2>1 DEF BurstCounts
<1>5. ASSUME burst'.status = "completed", burst'.publishFailed = 0
      PROVE  burst'.ids \subseteq ended
  <2>1. failed = {} /\ burst'.ids = burst.ids
    BY <1>2, <1>5
  <2>2. CASE burst.ids = b.ids
    <3>1. b.ids \ failed = b.ids
      BY <2>1
    <3>2. Cardinality(burst.terminal) >= Cardinality(b.ids)
      BY <1>2, <1>5, <3>1
    <3>3. burst.terminal = b.ids
      BY <1>1, <1>3, <2>2, <3>2, AllCounted
    <3> QED BY <1>3, <2>1, <2>2, <3>3
  <2> QED BY <1>3, <2>1, <2>2
<1>6. BurstCompletes'
  BY <1>5 DEF BurstCompletes
<1> QED BY <1>2, <1>4, <1>6

\* A burst is started with a batch of its own.
LEMMA BurstStarts ==
  ASSUME NEW ids \in SUBSET Ids', burst' = BurstStarted(ids),
         \A b \in batches : b.test # "burst",
         batches' = batches \union {Batch("burst", ids, TRUE)}
  PROVE  /\ burst' \in BurstState(Ids') /\ BurstCounts' /\ BurstCompletes'
         /\ burst'.status = "publishing"
<1>1. burst' = [status |-> "publishing", ids |-> ids, terminal |-> {},
                published |-> 0, publishFailed |-> 0, timer |-> FALSE]
  BY DEF BurstStarted, EmptyBurst
<1>2. burst' \in BurstState(Ids')
  <2>1. FALSE \in BOOLEAN
    OBVIOUS
  <2> QED BY <1>1, <2>1 DEF BurstState
<1>3. \A b \in batches' : b.test = "burst" => b.ids = ids
  BY DEF Batch
<1>4. /\ burst'.timer = FALSE /\ burst'.terminal = {} /\ burst'.ids = ids
      /\ burst'.status = "publishing" /\ burst'.published = 0
      /\ burst'.publishFailed = 0
  BY <1>1
<1>5. BurstCounts' /\ BurstCompletes'
  BY <1>3, <1>4 DEF BurstCounts, BurstCompletes
<1> QED BY <1>2, <1>4, <1>5

\* A burst that takes too long has failed.
LEMMA BurstTimesOut ==
  ASSUME Typed, BurstCounts, BurstCompletes, burst.timer, ended' = ended,
         burst' = BurstTimedOut(burst)
  PROVE  /\ burst' \in BurstState(Ids) /\ BurstCounts' /\ BurstCompletes'
         /\ burst.status = "observing" /\ burst'.status = "failed"
<1>1. burst \in BurstState(Ids) /\ burst.status = "observing"
  BY DEF Typed, WorldTyped, BurstCounts
<1> DEFINE u == [[burst EXCEPT !.timer = FALSE] EXCEPT !.status = "failed"]
<1>2. u \in BurstState(Ids)
  BY <1>1, BurstTypes
<1>3. /\ u.terminal = burst.terminal /\ u.timer = FALSE /\ u.status = "failed"
  BY <1>1 DEF BurstState
<1>4. burst' = u
  BY <1>1 DEF BurstTimedOut, BurstState
<1> HIDE DEF u
<1>5. BurstCounts' /\ BurstCompletes'
  BY <1>3, <1>4 DEF BurstCounts, BurstCompletes
<1> QED BY <1>1, <1>2, <1>3, <1>4, <1>5

\* A burst that is cleared keeps what it shows.
LEMMA BurstClears ==
  ASSUME Typed, BurstCounts, BurstCompletes, ended' = ended,
         burst' = BurstCleared(burst),
         \A b \in batches' : b.test = "burst" => b \in batches
  PROVE  /\ burst' \in BurstState(Ids) /\ BurstCounts' /\ BurstCompletes'
         /\ burst'.status = burst.status
<1>1. burst \in BurstState(Ids)
  BY DEF Typed, WorldTyped
<1> DEFINE u == [[[burst EXCEPT !.ids = {}] EXCEPT !.terminal = {}]
                   EXCEPT !.timer = FALSE]
<1>2. u \in BurstState(Ids)
  BY <1>1, BurstTypes
<1>3. /\ u.terminal = {} /\ u.ids = {} /\ u.timer = FALSE
      /\ u.status = burst.status /\ u.published = burst.published
      /\ u.publishFailed = burst.publishFailed
  BY <1>1 DEF BurstState
<1>4. burst' = u
  BY DEF BurstCleared
<1> HIDE DEF u
<1>5. BurstCounts' /\ BurstCompletes'
  BY <1>3, <1>4 DEF BurstCounts, BurstCompletes
<1> QED BY <1>2, <1>3, <1>4, <1>5

-----------------------------------------------------------------------------
(* IdempotencyTest.                                                        *)

\* Another value of one field of the test, whatever the fields hold.
LEMMA IdempotencyUpdate ==
  ASSUME NEW S, NEW I, NEW P, NEW E, NEW M,
         NEW t \in [status : S, id : I, published : P, statuses : E, timer : M],
         NEW s \in S, NEW i \in I, NEW p \in P, NEW e \in E, NEW m \in M
  PROVE  LET R == [status : S, id : I, published : P, statuses : E, timer : M]
         IN /\ [t EXCEPT !.status = s] \in R /\ [t EXCEPT !.id = i] \in R
            /\ [t EXCEPT !.published = p] \in R
            /\ [t EXCEPT !.statuses = e] \in R /\ [t EXCEPT !.timer = m] \in R
OBVIOUS

\* The same for the states the test has.
LEMMA IdempotencyTypes ==
  ASSUME NEW I, NEW t \in IdempotencyState(I)
  PROVE  /\ \A s \in {"idle", "publishing", "observing", "passed", "failed"} :
              [t EXCEPT !.status = s] \in IdempotencyState(I)
         /\ [t EXCEPT !.id = 0] \in IdempotencyState(I)
         /\ \A e \in SUBSET {"queued", "processing", "food_ready", "failed"} :
              [t EXCEPT !.statuses = e] \in IdempotencyState(I)
         /\ \A m \in BOOLEAN : /\ [t EXCEPT !.published = m] \in IdempotencyState(I)
                               /\ [t EXCEPT !.timer = m] \in IdempotencyState(I)
<1>1. \A s \in {"idle", "publishing", "observing", "passed", "failed"},
         e \in SUBSET {"queued", "processing", "food_ready", "failed"},
         p, m \in BOOLEAN :
        /\ [t EXCEPT !.status = s] \in IdempotencyState(I)
        /\ [t EXCEPT !.id = 0] \in IdempotencyState(I)
        /\ [t EXCEPT !.statuses = e] \in IdempotencyState(I)
        /\ [t EXCEPT !.published = p] \in IdempotencyState(I)
        /\ [t EXCEPT !.timer = m] \in IdempotencyState(I)
  <2>1. 0 \in I \union {0}
    OBVIOUS
  <2> QED BY <2>1, IdempotencyUpdate DEF IdempotencyState
<1>2. {} \in SUBSET {"queued", "processing", "food_ready", "failed"}
      /\ TRUE \in BOOLEAN
  OBVIOUS
<1> QED BY <1>1, <1>2

\* A verdict needs the publishes to have succeeded; otherwise nothing changes.
LEMMA VerdictFacts ==
  ASSUME NEW I, NEW t \in IdempotencyState(I)
  PROVE  LET c == IdempotencyComplete(t) IN
         /\ c \in IdempotencyState(I) /\ c.published = t.published
         /\ \/ c = t
            \/ t.published /\ ~c.timer /\ c.status \in {"passed", "failed"}
<1> DEFINE s == IF {"queued", "processing"} \subseteq t.statuses
                     /\ Cardinality(t.statuses) = 3
                THEN "passed" ELSE "failed"
           c == [[t EXCEPT !.status = s] EXCEPT !.timer = FALSE]
<1>1. s \in {"passed", "failed"}
  OBVIOUS
<1>2. \/ IdempotencyComplete(t) = t
      \/ t.published /\ IdempotencyComplete(t) = c
  BY DEF IdempotencyComplete
<1> HIDE DEF s
<1>3. c \in IdempotencyState(I)
  <2>1. [t EXCEPT !.status = s] \in IdempotencyState(I)
    BY <1>1, IdempotencyTypes
  <2> QED BY <2>1, IdempotencyTypes
<1>4. c.published = t.published /\ c.status = s /\ c.timer = FALSE
  BY DEF IdempotencyState
<1> HIDE DEF c
<1> QED BY <1>1, <1>2, <1>3, <1>4

\* The test is told of an order.
LEMMA IdempotencyTold ==
  ASSUME Typed, IdempotencyWaits, NEW id, NEW event \in Events,
         idempotency' = IdempotencyStatus(idempotency, id, event)
  PROVE  /\ idempotency' \in IdempotencyState(Ids) /\ IdempotencyWaits'
         /\ \/ idempotency'.status = idempotency.status
            \/ /\ idempotency.status # "publishing"
               /\ idempotency'.status \in {"passed", "failed"}
<1> DEFINE t == idempotency
           E == t.statuses \union {StatusOf(event)}
           u == [t EXCEPT !.statuses = E]
<1>1. t \in IdempotencyState(Ids)
  BY DEF Typed, WorldTyped
<1>2. E \in SUBSET {"queued", "processing", "food_ready", "failed"}
  <2>1. StatusOf(event) \in {"queued", "processing", "food_ready", "failed"}
    BY DEF StatusOf, Events
  <2> QED BY <1>1, <2>1 DEF IdempotencyState
<1> HIDE DEF E
<1>3. /\ u \in IdempotencyState(Ids) /\ u.status = t.status
      /\ u.published = t.published /\ u.timer = t.timer
  <2>1. u \in IdempotencyState(Ids)
    BY <1>1, <1>2, IdempotencyTypes
  <2>2. u.status = t.status
    BY <1>1 DEF IdempotencyState
  <2>3. u.published = t.published
    BY <1>1 DEF IdempotencyState
  <2>4. u.timer = t.timer
    BY <1>1 DEF IdempotencyState
  <2> QED BY <2>1, <2>2, <2>3, <2>4
<1>4. idempotency' = t \/ idempotency' = IdempotencyComplete(u)
  BY DEF IdempotencyStatus, E
<1> HIDE DEF u
<1>5. CASE idempotency' = t
  BY <1>1, <1>5 DEF IdempotencyWaits
<1>6. CASE idempotency' = IdempotencyComplete(u)
  <2>1. /\ idempotency' \in IdempotencyState(Ids)
        /\ \/ idempotency' = u
           \/ /\ u.published /\ ~idempotency'.timer
              /\ idempotency'.status \in {"passed", "failed"}
    BY <1>3, <1>6, VerdictFacts
  <2>2. CASE idempotency' = u
    BY <1>3, <2>1, <2>2 DEF IdempotencyWaits
  <2>3. CASE /\ u.published /\ ~idempotency'.timer
             /\ idempotency'.status \in {"passed", "failed"}
    <3>1. idempotency.status # "publishing"
      BY <1>3, <2>3 DEF IdempotencyWaits
    <3> QED BY <2>1, <2>3, <3>1 DEF IdempotencyWaits
  <2> QED BY <2>1, <2>2, <2>3
<1> QED BY <1>4, <1>5, <1>6

\* The three publishes have settled.
LEMMA IdempotencySettles ==
  ASSUME Typed, NEW published \in BOOLEAN,
         idempotency' = IdempotencySettled(idempotency, published)
  PROVE  /\ idempotency' \in IdempotencyState(Ids) /\ IdempotencyWaits'
         /\ idempotency'.status \in {"passed", "failed", "observing"}
<1> DEFINE t == idempotency
           status == IF published THEN "observing" ELSE "failed"
           u == [[t EXCEPT !.published = published] EXCEPT !.status = status]
           c == IdempotencyComplete(u)
           s == [c EXCEPT !.timer = (c.status = "observing")]
<1>1. t \in IdempotencyState(Ids) /\ status \in {"observing", "failed"}
  BY DEF Typed, WorldTyped
<1>2. idempotency' = s
  BY DEF IdempotencySettled
<1> HIDE DEF status
<1>3. u \in IdempotencyState(Ids)
  <2>1. [t EXCEPT !.published = published] \in IdempotencyState(Ids)
    BY <1>1, IdempotencyTypes
  <2> QED BY <1>1, <2>1, IdempotencyTypes
<1>4. u.status = status
  BY <1>1 DEF IdempotencyState
<1> HIDE DEF u
<1>5. /\ c \in IdempotencyState(Ids)
      /\ c.status \in {"passed", "failed", "observing"}
  BY <1>1, <1>3, <1>4, VerdictFacts
<1> HIDE DEF c
<1>6. (c.status = "observing") \in BOOLEAN
  OBVIOUS
<1>7. s \in IdempotencyState(Ids)
  BY <1>5, <1>6, IdempotencyTypes
<1>8. s.status = c.status /\ s.timer = (c.status = "observing")
  BY <1>5 DEF IdempotencyState
<1> HIDE DEF s
<1>9. IdempotencyWaits'
  BY <1>2, <1>5, <1>8 DEF IdempotencyWaits
<1> QED BY <1>2, <1>5, <1>7, <1>8, <1>9

\* The test is started.
LEMMA IdempotencyStarts ==
  ASSUME NEW id \in Ids', idempotency' = IdempotencyStarted(id)
  PROVE  /\ idempotency' \in IdempotencyState(Ids') /\ IdempotencyWaits'
         /\ idempotency'.status = "publishing"
<1>1. idempotency' = [status |-> "publishing", id |-> id, published |-> FALSE,
                      statuses |-> {}, timer |-> FALSE]
  BY DEF IdempotencyStarted, EmptyIdempotency
<1>2. idempotency' \in IdempotencyState(Ids')
  <2>1. FALSE \in BOOLEAN
    OBVIOUS
  <2> QED BY <1>1, <2>1 DEF IdempotencyState
<1>3. /\ idempotency'.timer = FALSE /\ idempotency'.published = FALSE
      /\ idempotency'.status = "publishing"
  BY <1>1
<1> QED BY <1>2, <1>3 DEF IdempotencyWaits

\* A test that takes too long has failed.
LEMMA IdempotencyTimesOut ==
  ASSUME Typed, IdempotencyWaits, idempotency.timer,
         idempotency' = IdempotencyTimedOut(idempotency)
  PROVE  /\ idempotency' \in IdempotencyState(Ids) /\ IdempotencyWaits'
         /\ idempotency.status = "observing" /\ idempotency'.status = "failed"
<1> DEFINE u == [[idempotency EXCEPT !.timer = FALSE] EXCEPT !.status = "failed"]
<1>1. idempotency \in IdempotencyState(Ids) /\ idempotency.status = "observing"
  BY DEF Typed, WorldTyped, IdempotencyWaits
<1>2. u \in IdempotencyState(Ids)
  BY <1>1, IdempotencyTypes
<1>3. u.timer = FALSE /\ u.status = "failed"
  BY <1>1 DEF IdempotencyState
<1>4. idempotency' = u
  BY <1>1 DEF IdempotencyTimedOut, IdempotencyState
<1> HIDE DEF u
<1> QED BY <1>1, <1>2, <1>3, <1>4 DEF IdempotencyWaits

\* A test that is cleared keeps what it shows.
LEMMA IdempotencyClears ==
  ASSUME Typed, IdempotencyWaits,
         idempotency' = IdempotencyCleared(idempotency)
  PROVE  /\ idempotency' \in IdempotencyState(Ids) /\ IdempotencyWaits'
         /\ idempotency'.status = idempotency.status
<1> DEFINE u == [[[idempotency EXCEPT !.id = 0] EXCEPT !.statuses = {}]
                   EXCEPT !.timer = FALSE]
<1>1. idempotency \in IdempotencyState(Ids)
  BY DEF Typed, WorldTyped
<1>2. u \in IdempotencyState(Ids)
  BY <1>1, IdempotencyTypes
<1>3. u.timer = FALSE /\ u.status = idempotency.status
  BY <1>1 DEF IdempotencyState
<1>4. u.published = idempotency.published
  BY <1>1 DEF IdempotencyState
<1>5. idempotency' = u
  BY DEF IdempotencyCleared
<1> HIDE DEF u
<1> QED BY <1>2, <1>3, <1>4, <1>5 DEF IdempotencyWaits

-----------------------------------------------------------------------------
(* SaturationTest.                                                         *)

\* Another value of one field of the test.
LEMMA SaturationTypes ==
  ASSUME NEW I, NEW s \in SaturationState(I)
  PROVE  /\ \A x \in {"idle", "running", "completed", "stopped"} :
              /\ [s EXCEPT !.status = x] \in SaturationState(I)
              /\ [s EXCEPT !.status = x].status = x
              /\ [s EXCEPT !.status = x].loop = s.loop
              /\ [s EXCEPT !.status = x].ids = s.ids
         /\ \A x \in SUBSET I :
              /\ [s EXCEPT !.ids = x] \in SaturationState(I)
              /\ [s EXCEPT !.ids = x].ids = x
              /\ [s EXCEPT !.ids = x].status = s.status
              /\ [s EXCEPT !.ids = x].loop = s.loop
         /\ \A x \in Loads :
              /\ [s EXCEPT !.loop = x] \in SaturationState(I)
              /\ [s EXCEPT !.loop = x].loop = x
              /\ [s EXCEPT !.loop = x].status = s.status
              /\ [s EXCEPT !.loop = x].ids = s.ids
         /\ \A x \in Nat :
              /\ [s EXCEPT !.ticks = x] \in SaturationState(I)
              /\ [s EXCEPT !.ticks = x].status = s.status
              /\ [s EXCEPT !.ticks = x].loop = s.loop
              /\ [s EXCEPT !.ticks = x].ids = s.ids
              /\ [s EXCEPT !.terminal = x] \in SaturationState(I)
              /\ [s EXCEPT !.terminal = x].terminal = x
              /\ [s EXCEPT !.terminal = x].status = s.status
              /\ [s EXCEPT !.terminal = x].loop = s.loop
              /\ [s EXCEPT !.terminal = x].ids = s.ids
              /\ [s EXCEPT !.terminal = x].first = s.first
         /\ \A x : /\ [s EXCEPT !.ids = x].first = s.first
                   /\ [s EXCEPT !.ids = x].terminal = s.terminal
                   /\ [s EXCEPT !.loop = x].first = s.first
                   /\ [s EXCEPT !.loop = x].terminal = s.terminal
                   /\ [s EXCEPT !.status = x].first = s.first
                   /\ [s EXCEPT !.status = x].terminal = s.terminal
                   /\ [s EXCEPT !.ticks = x].first = s.first
                   /\ [s EXCEPT !.ticks = x].terminal = s.terminal
BY DEF SaturationState

\* The orders that ended since a run began are finitely many.
LEMMA EndedFinite ==
  ASSUME Typed, NEW first
  PROVE  /\ IsFiniteSet({i \in ended : i > first})
         /\ Cardinality({i \in ended : i > first}) \in Nat
<1>1. {i \in ended : i > first} \in SUBSET Ids
  BY DEF Typed, WorldTyped
<1>2. IsFiniteSet({i \in ended : i > first})
  BY <1>1, IdsFinite, FS_Subset
<1> QED BY <1>2, FS_CardinalityType

\* A run that forgets orders, or takes up new ones, counts what it counted.
LEMMA SaturationMoves ==
  ASSUME Typed, SaturationForgets, TerminalCountedOnce, ended' = ended,
         made' \in Nat, made <= made',
         saturation'.first = saturation.first,
         saturation'.terminal = saturation.terminal,
         saturation'.ids \subseteq Nat,
         \A i \in saturation'.ids : i \in saturation.ids \/ i > made
  PROVE  SaturationForgets' /\ TerminalCountedOnce'
<1>1. /\ made \in Nat /\ \A i \in ended : i \in Nat /\ i <= made
      /\ saturation.first \in Nat /\ saturation.ids \subseteq Ids
  BY IdsFinite DEF Typed, WorldTyped, SaturationState
<1>2. SaturationForgets'
  BY <1>1 DEF SaturationForgets
<1>3. TerminalCountedOnce'
  BY DEF TerminalCountedOnce
<1> QED BY <1>2, <1>3

\* A run that begins has counted nothing.
LEMMA SaturationBegins ==
  ASSUME Typed, ended' = ended, made' = made,
         saturation' = SaturationStarted(made)
  PROVE  /\ saturation' \in SaturationState(Ids)
         /\ SaturationForgets' /\ TerminalCountedOnce'
         /\ saturation'.status = "running" /\ saturation'.loop = "waiting"
<1>1. saturation' = [status |-> "running", ids |-> {}, terminal |-> 0,
                     loop |-> "waiting", ticks |-> 0, first |-> made]
  BY DEF SaturationStarted, EmptySaturation
<1>2. made \in Nat
  BY IdsFinite
<1>3. saturation' \in SaturationState(Ids)
  BY <1>1, <1>2 DEF SaturationState, Loads
<1>4. /\ saturation'.ids = {} /\ saturation'.terminal = 0
      /\ saturation'.first = made
      /\ saturation'.status = "running" /\ saturation'.loop = "waiting"
  BY <1>1
<1>5. SaturationForgets'
  BY <1>2, <1>4 DEF SaturationForgets
<1>6. TerminalCountedOnce'
  BY <1>4, EndedFinite DEF TerminalCountedOnce
<1> QED BY <1>3, <1>4, <1>5, <1>6

\* The run is told of an order: one of its own that ends is counted, forgotten
\* and among those that ended.
LEMMA SaturationTold ==
  ASSUME Typed, SaturationForgets, TerminalCountedOnce, NEW id \in Ids,
         NEW event \in Events, made' = made,
         ended' = WithIf(ended, id, Terminal(event)),
         saturation' = SaturationStatus(saturation, id, event)
  PROVE  /\ saturation' \in SaturationState(Ids)
         /\ SaturationForgets' /\ TerminalCountedOnce'
         /\ saturation'.status = saturation.status
         /\ saturation'.loop = saturation.loop
<1> DEFINE s == saturation
           A == {i \in ended : i > s.first}
<1>1. /\ s \in SaturationState(Ids) /\ s.ids \in SUBSET Ids /\ s.terminal \in Nat
      /\ s.first \in Nat
  BY DEF Typed, WorldTyped, SaturationState
<1>2. /\ IsFiniteSet(A) /\ Cardinality(A) \in Nat
      /\ s.terminal <= Cardinality(A)
  BY EndedFinite DEF TerminalCountedOnce
<1>3. CASE id \in s.ids /\ Terminal(event)
  <2> DEFINE u == [[s EXCEPT !.terminal = s.terminal + 1]
                     EXCEPT !.ids = s.ids \ {id}]
  <2>1. [s EXCEPT !.terminal = s.terminal + 1] \in SaturationState(Ids)
    <3>1. s.terminal + 1 \in Nat
      BY <1>1
    <3> QED BY <1>1, <3>1, SaturationTypes, Zenon
  <2>2. s.ids \ {id} \in SUBSET Ids
    BY <1>1
  <2>3. /\ u \in SaturationState(Ids) /\ u.ids = s.ids \ {id}
        /\ u.status = s.status /\ u.loop = s.loop /\ u.first = s.first
        /\ u.terminal = s.terminal + 1
    <3>1. u \in SaturationState(Ids)
      BY <2>1, <2>2, SaturationTypes, Zenon
    <3> QED BY <1>1, <3>1 DEF SaturationState
  <2>4. saturation' = u
    BY <1>3 DEF SaturationStatus
  <2> HIDE DEF u
  <2>5. ended' = ended \union {id} /\ id \notin ended /\ id > s.first
    BY <1>3 DEF WithIf, SaturationForgets
  <2>6. SaturationForgets'
    BY <2>3, <2>4, <2>5 DEF SaturationForgets
  <2>7. {i \in ended' : i > saturation'.first} = A \union {id}
    BY <2>3, <2>4, <2>5
  <2>8. Cardinality(A \union {id}) = Cardinality(A) + 1
    BY <1>2, <2>5, FS_AddElement
  <2> HIDE DEF A
  <2>9. TerminalCountedOnce'
    <3>1. Cardinality({i \in ended' : i > saturation'.first})
            = Cardinality(A) + 1
      BY <2>7, <2>8
    <3>2. saturation'.terminal <= Cardinality(A) + 1
      BY <1>1, <1>2, <2>3, <2>4
    <3> QED BY <3>1, <3>2 DEF TerminalCountedOnce
  <2> QED BY <2>3, <2>4, <2>6, <2>9
<1>4. CASE ~(id \in s.ids /\ Terminal(event))
  <2>1. /\ saturation' = s
        /\ \A i \in s.ids : i \notin ended'
    <3>1. CASE id \notin s.ids
      BY <3>1 DEF SaturationStatus, WithIf, SaturationForgets
    <3>2. CASE id \in s.ids
      <4>1. ~Terminal(event) /\ ended' = ended
        BY <1>4, <3>2 DEF WithIf
      <4>2. SaturationStatus(s, id, event)
              = [[s EXCEPT !.terminal = s.terminal] EXCEPT !.ids = s.ids]
        BY <3>2, <4>1 DEF SaturationStatus
      <4>3. [s EXCEPT !.terminal = s.terminal] = s /\ [s EXCEPT !.ids = s.ids] = s
        BY <1>1 DEF SaturationState
      <4> QED BY <4>1, <4>2, <4>3 DEF SaturationForgets
    <3> QED BY <3>1, <3>2
  <2>2. SaturationForgets'
    BY <2>1 DEF SaturationForgets
  <2> DEFINE B == {i \in ended' : i > s.first}
  <2>3. A \subseteq B
    BY DEF WithIf
  <2>4. B \subseteq Ids
    BY DEF WithIf, Typed, WorldTyped
  <2> HIDE DEF A
  <2>5. IsFiniteSet(B)
    BY <2>4, IdsFinite, FS_Subset
  <2> HIDE DEF B
  <2>6. Cardinality(A) <= Cardinality(B) /\ Cardinality(B) \in Nat
    BY <2>3, <2>5, FS_Subset, FS_CardinalityType
  <2>7. s.terminal <= Cardinality(B)
    BY <1>1, <1>2, <2>6
  <2>8. TerminalCountedOnce'
    BY <2>1, <2>7 DEF TerminalCountedOnce, B
  <2> QED BY <1>1, <2>1, <2>2, <2>8
<1> QED BY <1>3, <1>4

-----------------------------------------------------------------------------
(* OverloadTest.                                                           *)

\* Another value of one field of the test.
LEMMA OverloadTypes ==
  ASSUME NEW I, NEW o \in OverloadState(I)
  PROVE  /\ \A x \in {"idle", "running", "observing", "passed", "stopped",
                      "failed"} : [o EXCEPT !.status = x] \in OverloadState(I)
         /\ \A x \in SUBSET I : /\ [o EXCEPT !.ids = x] \in OverloadState(I)
                                /\ [o EXCEPT !.rejected = x] \in OverloadState(I)
                                /\ [o EXCEPT !.ghosts = x] \in OverloadState(I)
         /\ \A x \in Loads : [o EXCEPT !.loop = x] \in OverloadState(I)
         /\ \A x \in Nat : [o EXCEPT !.ticks = x] \in OverloadState(I)
BY DEF OverloadState

\* An order that was just made has not been refused, nor seen as work.
LEMMA FreshFacts ==
  ASSUME Typed, NEW i \in 1..MaxOrders, i > made
  PROVE  life[i] = "none" /\ i \notin returned /\ i \notin ended
BY LabAssumption DEF Typed, WorldTyped, Ids

\* What the run notes stays true while it only takes up new orders or loses
\* some, and goes on only without a ghost.
LEMMA OverloadMoves ==
  ASSUME Typed, OverloadNotes, GhostIsReported, UNCHANGED <<life, returned>>,
         overload'.rejected = overload.rejected,
         overload'.ghosts = overload.ghosts,
         overload.ghosts # {} =>
           /\ overload'.status = overload.status
           /\ overload'.loop \in {overload.loop, "none"},
         \A i \in overload'.ids :
           i \in overload.ids \/ (i \in 1..MaxOrders /\ i > made)
  PROVE  OverloadNotes' /\ GhostIsReported'
<1>1. \A i \in overload'.ids :
        \/ i \in overload.ids
        \/ life[i] = "none" /\ i \notin returned
  BY FreshFacts
<1>2. OverloadNotes'
  BY <1>1 DEF OverloadNotes
<1>3. GhostIsReported'
  BY <1>1 DEF GhostIsReported
<1> QED BY <1>2, <1>3

\* A run begins with orders of its own.
LEMMA OverloadBegins ==
  ASSUME Typed, UNCHANGED <<life, returned>>,
         NEW ids \in SUBSET Ids', \A i \in ids : i \in 1..MaxOrders /\ i > made,
         overload' = OverloadStarted(ids)
  PROVE  /\ overload' \in OverloadState(Ids')
         /\ OverloadNotes' /\ GhostIsReported'
         /\ overload'.status = "running" /\ overload'.loop = "publishing"
<1>1. overload' = [status |-> "running", ids |-> ids, rejected |-> {},
                   ghosts |-> {}, loop |-> "publishing", ticks |-> 0]
  BY DEF OverloadStarted, EmptyOverload
<1>2. overload' \in OverloadState(Ids')
  BY <1>1 DEF OverloadState, Loads
<1>3. /\ overload'.ids = ids /\ overload'.rejected = {} /\ overload'.ghosts = {}
      /\ overload'.status = "running" /\ overload'.loop = "publishing"
  BY <1>1
<1>4. \A i \in ids : life[i] = "none" /\ i \notin returned
  BY FreshFacts
<1>5. OverloadNotes' /\ GhostIsReported'
  BY <1>3, <1>4 DEF OverloadNotes, GhostIsReported
<1> QED BY <1>2, <1>3, <1>5

\* New ghosts fail the run and end its loop.
LEMMA WithGhostsFacts ==
  ASSUME NEW I, NEW o \in OverloadState(I), NEW ids \in SUBSET I
  PROVE  LET g == WithGhosts(o, ids) IN
         /\ g \in OverloadState(I) /\ g.ids = o.ids /\ g.rejected = o.rejected
         /\ g.ghosts = o.ghosts \union ids
         /\ \/ g.status = o.status /\ g.loop = o.loop /\ ids \subseteq o.ghosts
            \/ g.status = "failed" /\ g.loop = "none"
<1> DEFINE g == [[[o EXCEPT !.ghosts = o.ghosts \union ids]
                    EXCEPT !.status = "failed"] EXCEPT !.loop = "none"]
<1>1. o.ghosts \union ids \in SUBSET I /\ "none" \in Loads
  BY DEF OverloadState, Loads
<1>2. g \in OverloadState(I)
  <2>1. [o EXCEPT !.ghosts = o.ghosts \union ids] \in OverloadState(I)
    BY <1>1, OverloadTypes
  <2> QED BY <1>1, <2>1, OverloadTypes
<1>3. /\ g.ids = o.ids /\ g.rejected = o.rejected
      /\ g.ghosts = o.ghosts \union ids /\ g.status = "failed"
      /\ g.loop = "none"
  BY DEF OverloadState
<1>4. \/ WithGhosts(o, ids) = o /\ ids \subseteq o.ghosts
      \/ WithGhosts(o, ids) = g
  BY DEF WithGhosts
<1> HIDE DEF g
<1>5. CASE WithGhosts(o, ids) = o /\ ids \subseteq o.ghosts
  BY <1>5
<1>6. CASE WithGhosts(o, ids) = g
  BY <1>2, <1>3, <1>6
<1> QED BY <1>4, <1>5, <1>6

\* The run is told of an order: one that was refused and is seen as work is a
\* ghost, and nothing else is.
LEMMA OverloadTold ==
  ASSUME Typed, OverloadNotes, GhostIsReported, NEW id \in Ids,
         NEW event \in Events, life' = [life EXCEPT ![id] = event],
         returned' = WithIf(returned, id,
                            life[id] = "overloaded" /\ event # "overloaded"),
         overload' = OverloadStatus(overload, id, event)
  PROVE  /\ overload' \in OverloadState(Ids)
         /\ OverloadNotes' /\ GhostIsReported'
         /\ \/ /\ overload'.status = overload.status
               /\ overload'.loop = overload.loop
            \/ overload'.status = "failed" /\ overload'.loop = "none"
<1> DEFINE o == overload
           R == WithIf(o.rejected, id, event = "overloaded")
           G == IF id \in o.rejected /\ event # "overloaded" THEN {id} ELSE {}
           u == [o EXCEPT !.rejected = R]
<1>1. /\ o \in OverloadState(Ids) /\ o.ids \in SUBSET Ids
      /\ o.rejected \in SUBSET Ids /\ o.ghosts \in SUBSET Ids
      /\ life \in [1..MaxOrders -> Events \union {"none"}]
      /\ Ids \subseteq 1..MaxOrders
  BY LabAssumption DEF Typed, WorldTyped, OverloadState, Ids
<1>2. /\ life'[id] = event
      /\ \A i \in 1..MaxOrders : i # id => life'[i] = life[i]
  BY <1>1
<1>3. /\ returned \subseteq returned' /\ returned' \subseteq returned \union {id}
      /\ id \in returned' <=>
           \/ id \in returned
           \/ life[id] = "overloaded" /\ event # "overloaded"
  BY DEF WithIf
<1>4. CASE id \notin o.ids
  <2>1. overload' = o
    BY <1>4 DEF OverloadStatus
  <2>2. OverloadNotes'
    BY <1>1, <1>2, <1>3, <1>4, <2>1 DEF OverloadNotes
  <2>3. GhostIsReported'
    BY <1>3, <1>4, <2>1 DEF GhostIsReported
  <2> QED BY <1>1, <2>1, <2>2, <2>3
<1>5. CASE id \in o.ids
  <2>1. overload' = WithGhosts(u, G)
    BY <1>5 DEF OverloadStatus
  <2>2. /\ R \in SUBSET Ids /\ G \in SUBSET Ids
        /\ o.rejected \subseteq R /\ R \subseteq o.rejected \union {id}
        /\ id \in R <=> id \in o.rejected \/ event = "overloaded"
        /\ G \subseteq {id}
        /\ id \in G <=> id \in o.rejected /\ event # "overloaded"
    BY <1>1 DEF WithIf
  <2> HIDE DEF R, G
  <2>3. /\ u \in OverloadState(Ids) /\ u.ids = o.ids /\ u.rejected = R
        /\ u.ghosts = o.ghosts /\ u.status = o.status /\ u.loop = o.loop
    BY <1>1, <2>2, OverloadTypes DEF OverloadState
  <2> HIDE DEF u
  <2>4. /\ overload' \in OverloadState(Ids) /\ overload'.ids = o.ids
        /\ overload'.rejected = R /\ overload'.ghosts = o.ghosts \union G
        /\ \/ /\ overload'.status = o.status /\ overload'.loop = o.loop
              /\ G \subseteq o.ghosts
           \/ overload'.status = "failed" /\ overload'.loop = "none"
    BY <2>1, <2>2, <2>3, WithGhostsFacts
  <2>5. id \in G => id \in returned'
    BY <1>1, <1>3, <2>2 DEF OverloadNotes
  <2>6. life[id] = "overloaded" /\ event # "overloaded" => id \in G
    BY <1>5, <2>2 DEF OverloadNotes
  <2>7. OverloadNotes'
    <3>1. \A i \in overload'.ids :
            life'[i] = "overloaded" => i \in overload'.rejected
      BY <1>1, <1>2, <2>2, <2>4 DEF OverloadNotes
    <3>2. \A i \in overload'.rejected :
            life'[i] = "overloaded" \/ i \in returned'
      BY <1>1, <1>2, <1>3, <2>2, <2>4 DEF OverloadNotes
    <3>3. overload'.ghosts # {} => overload'.loop = "none"
      BY <2>4 DEF OverloadNotes
    <3> QED BY <3>1, <3>2, <3>3 DEF OverloadNotes
  <2>8. GhostIsReported'
    <3>1. returned' \intersect overload'.ids \subseteq overload'.ghosts
      BY <1>3, <2>4, <2>6 DEF GhostIsReported
    <3>2. overload'.ghosts \subseteq returned'
      BY <1>3, <2>2, <2>4, <2>5 DEF GhostIsReported
    <3>3. overload'.ghosts # {} => overload'.status = "failed"
      BY <2>4 DEF GhostIsReported
    <3> QED BY <3>1, <3>2, <3>3 DEF GhostIsReported
  <2> QED BY <2>4, <2>7, <2>8
<1> QED BY <1>4, <1>5

\* The run is shown the orders in workers.
LEMMA OverloadSees ==
  ASSUME Typed, OverloadNotes, GhostIsReported, NEW working \in SUBSET Ids,
         life' = life,
         returned' = returned \union {i \in working : life[i] = "overloaded"},
         overload' = OverloadPressure(overload, working)
  PROVE  /\ overload' \in OverloadState(Ids)
         /\ OverloadNotes' /\ GhostIsReported'
         /\ \/ /\ overload'.status = overload.status
               /\ overload'.loop = overload.loop
            \/ overload'.status = "failed" /\ overload'.loop = "none"
<1> DEFINE o == overload
           G == working \intersect o.rejected
<1>1. /\ o \in OverloadState(Ids) /\ G \in SUBSET Ids
      /\ overload' = WithGhosts(o, G)
  BY DEF Typed, WorldTyped, OverloadPressure
<1>2. /\ \A i \in G : i \in returned'
      /\ \A i \in returned' : i \in o.ids => i \in returned \/ i \in G
  BY DEF OverloadNotes
<1> HIDE DEF G
<1>3. /\ overload' \in OverloadState(Ids) /\ overload'.ids = o.ids
      /\ overload'.rejected = o.rejected /\ overload'.ghosts = o.ghosts \union G
      /\ \/ /\ overload'.status = o.status /\ overload'.loop = o.loop
            /\ G \subseteq o.ghosts
         \/ overload'.status = "failed" /\ overload'.loop = "none"
  BY <1>1, WithGhostsFacts
<1>4. OverloadNotes'
  BY <1>3 DEF OverloadNotes
<1>5. GhostIsReported'
  BY <1>2, <1>3 DEF GhostIsReported
<1> QED BY <1>3, <1>4, <1>5

\* stop() keeps what the run knows.
LEMMA OverloadStops ==
  ASSUME NEW I, NEW o \in OverloadState(I)
  PROVE  LET s == OverloadStopped(o) IN
         /\ s \in OverloadState(I) /\ s.ids = o.ids /\ s.rejected = o.rejected
         /\ s.ghosts = o.ghosts /\ s.loop = "none"
         /\ s.status = IF o.status \in {"running", "observing"} THEN "stopped"
                       ELSE o.status
<1> DEFINE x == IF o.status \in {"running", "observing"} THEN "stopped"
                ELSE o.status
           s == [[o EXCEPT !.status = x] EXCEPT !.loop = "none"]
<1>1. x \in {"idle", "running", "observing", "passed", "stopped", "failed"}
  BY DEF OverloadState
<1>2. OverloadStopped(o) = s
  BY DEF OverloadStopped
<1> HIDE DEF x
<1>3. s \in OverloadState(I)
  <2>1. [o EXCEPT !.status = x] \in OverloadState(I)
    BY <1>1, OverloadTypes
  <2> QED BY <2>1, OverloadTypes DEF Loads
<1>4. /\ s.ids = o.ids /\ s.rejected = o.rejected /\ s.ghosts = o.ghosts
      /\ s.loop = "none" /\ s.status = x
  BY DEF OverloadState
<1> HIDE DEF s
<1> QED BY <1>2, <1>3, <1>4 DEF x

-----------------------------------------------------------------------------
(* The steps.                                                              *)

\* When each test is active or awaits a batch after a step.
LEMMA NextActiveFacts ==
  /\ Active("burst")' <=> burst'.status \in {"publishing", "observing"}
  /\ Active("idempotency")' <=>
       idempotency'.status \in {"publishing", "observing"}
  /\ Active("saturation")' <=> saturation'.status = "running"
  /\ Active("overload")' <=> overload'.status \in {"running", "observing"}
  /\ Owed("burst")' <=> burst'.status = "publishing"
  /\ Owed("idempotency")' <=> idempotency'.status = "publishing"
  /\ Owed("saturation")' <=> saturation'.loop = "publishing"
  /\ Owed("overload")' <=> overload'.loop = "publishing"
BY DEF Active, Owed

\* What is typed for some orders is typed for more.
LEMMA StatesGrow ==
  ASSUME NEW I, NEW J, I \subseteq J
  PROVE  /\ BurstState(I) \subseteq BurstState(J)
         /\ IdempotencyState(I) \subseteq IdempotencyState(J)
         /\ SaturationState(I) \subseteq SaturationState(J)
         /\ OverloadState(I) \subseteq OverloadState(J)
<1>1. BurstState(I) \subseteq BurstState(J)
  BY DEF BurstState
<1>2. IdempotencyState(I) \subseteq IdempotencyState(J)
  BY DEF IdempotencyState
<1>3. SaturationState(I) \subseteq SaturationState(J)
  BY DEF SaturationState
<1>4. OverloadState(I) \subseteq OverloadState(J)
  BY DEF OverloadState
<1> QED BY <1>1, <1>2, <1>3, <1>4

\* A test that is left alone keeps its part of the invariant, as long as
\* nothing comes back from the service.
LEMMA OthersKept ==
  ASSUME LabInv, UNCHANGED <<life, ended, returned>>, made' \in Nat,
         made <= made'
  PROVE  /\ /\ burst' = burst
            /\ \A b \in batches' : b.test = "burst" => b \in batches
            => /\ burst' \in BurstState(Ids')
               /\ BurstCounts' /\ BurstCompletes'
         /\ idempotency' = idempotency =>
              idempotency' \in IdempotencyState(Ids') /\ IdempotencyWaits'
         /\ saturation' = saturation =>
              /\ saturation' \in SaturationState(Ids')
              /\ SaturationForgets' /\ TerminalCountedOnce'
         /\ overload' = overload =>
              /\ overload' \in OverloadState(Ids')
              /\ OverloadNotes' /\ GhostIsReported'
<1>1. /\ Typed /\ BurstCounts /\ BurstCompletes /\ IdempotencyWaits
      /\ SaturationForgets /\ TerminalCountedOnce /\ OverloadNotes
      /\ GhostIsReported
  BY DEF LabInv
<1>2. /\ made \in Nat /\ Ids \subseteq Nat /\ Ids \subseteq Ids'
  BY <1>1, IdsFinite DEF Ids
<1>3. /\ burst \in BurstState(Ids') /\ idempotency \in IdempotencyState(Ids')
      /\ saturation \in SaturationState(Ids') /\ overload \in OverloadState(Ids')
  BY <1>1, <1>2, StatesGrow DEF Typed
<1>4. /\ burst' = burst
      /\ \A b \in batches' : b.test = "burst" => b \in batches
      => /\ burst' \in BurstState(Ids') /\ BurstCounts' /\ BurstCompletes'
  BY <1>1, <1>3, BurstKept
<1>5. idempotency' = idempotency =>
        idempotency' \in IdempotencyState(Ids') /\ IdempotencyWaits'
  BY <1>1, <1>3 DEF IdempotencyWaits
<1>6. saturation' = saturation =>
        /\ saturation' \in SaturationState(Ids')
        /\ SaturationForgets' /\ TerminalCountedOnce'
  <2>1. saturation.ids \subseteq Nat
    BY <1>1, <1>2 DEF Typed, SaturationState
  <2> QED BY <1>1, <1>2, <1>3, <2>1, SaturationMoves
<1>7. overload' = overload =>
        /\ overload' \in OverloadState(Ids')
        /\ OverloadNotes' /\ GhostIsReported'
  BY <1>1, <1>3, OverloadMoves
<1> QED BY <1>4, <1>5, <1>6, <1>7

\* What publishOrders creates is new to everyone.
LEMMA PublishFacts ==
  ASSUME LabInv, NEW test \in Tests, NEW n \in Nat \ {0}, Publish(test, n),
         UNCHANGED <<life, ended, returned, pressure, mounted>>
  PROVE  LET ids == (made + 1)..(made + n) IN
         /\ made' = made + n /\ made' \in Nat /\ made <= made'
         /\ ids \subseteq Ids' /\ ids # {}
         /\ \A i \in ids : i \in 1..MaxOrders /\ i > made
         /\ batches' = batches \union {Batch(test, ids, TRUE)}
         /\ batches' \subseteq Batches' /\ WorldTyped'
<1> DEFINE ids == (made + 1)..(made + n)
<1>1. /\ Typed /\ made \in Nat /\ MaxOrders \in Nat
      /\ made' = made + n /\ made + n <= MaxOrders
      /\ batches' = batches \union {Batch(test, ids, TRUE)}
  BY IdsFinite, LabAssumption DEF LabInv, Publish
<1>2. /\ made' \in 0..MaxOrders /\ made <= made' /\ Ids \subseteq Ids'
      /\ ids \subseteq Ids' /\ made + 1 \in ids
      /\ \A i \in ids : i \in 1..MaxOrders /\ i > made
  BY <1>1 DEF Ids
<1>3. WorldTyped'
  BY <1>1, <1>2 DEF Typed, WorldTyped
<1> HIDE DEF ids
<1>4. Batch(test, ids, TRUE) \in Batches'
  <2>1. TRUE \in BOOLEAN
    OBVIOUS
  <2> QED BY <1>2, <2>1 DEF Batch, Batches
<1>5. Batches \subseteq Batches'
  BY <1>2 DEF Batches
<1>6. batches' \subseteq Batches'
  BY <1>1, <1>4, <1>5 DEF Typed
<1>7. ids # {} /\ made' \in Nat
  BY <1>1, <1>2
<1> QED BY <1>1, <1>2, <1>3, <1>6, <1>7 DEF ids

\* When a test may be started no batch is live, and no burst and no
\* idempotency test has one.
LEMMA StartableFacts ==
  ASSUME LabInv, Startable
  PROVE  /\ \A t \in Tests : ~Active(t) /\ ~Owed(t)
         /\ \A b \in batches : ~b.live /\ b.test \notin {"burst", "idempotency"}
         /\ LoopsRun /\ OneLive /\ batches \subseteq Batches
<1>1. LoopsRun /\ OneLive /\ batches \subseteq Batches
  BY DEF LabInv, Typed
<1>2. \A t \in Tests : ~Active(t) /\ ~Owed(t)
  BY <1>1, OwedIsActive DEF Startable
<1>3. \A b \in batches : ~b.live /\ b.test \notin {"burst", "idempotency"}
  BY <1>1, <1>2 DEF OneLive, Batches
<1> QED BY <1>1, <1>2, <1>3

\* A burst is started.
LEMMA RunBurstInv ==
  ASSUME LabInv, NEW n \in 1..MaxBatch, RunBurst(n)
  PROVE  LabInv'
<1> DEFINE ids == (made + 1)..(made + n)
<1>1. /\ Startable /\ Publish("burst", n) /\ burst' = BurstStarted(ids)
      /\ UNCHANGED <<life, ended, returned, idempotency, saturation, overload,
                     pressure, mounted>>
  BY DEF RunBurst, worldVars
<1>2. n \in Nat \ {0} /\ "burst" \in Tests
  BY LabAssumption DEF Tests
<1>3. /\ made' \in Nat /\ made <= made' /\ ids \subseteq Ids'
      /\ batches' = batches \union {Batch("burst", ids, TRUE)}
      /\ batches' \subseteq Batches' /\ WorldTyped'
  BY <1>1, <1>2, PublishFacts
<1> HIDE DEF ids
<1>4. /\ \A t \in Tests : ~Active(t) /\ ~Owed(t)
      /\ \A b \in batches : b.test # "burst"
      /\ LoopsRun /\ OneLive /\ batches \subseteq Batches
  BY <1>1, StartableFacts
<1>5. /\ burst' \in BurstState(Ids') /\ BurstCounts' /\ BurstCompletes'
      /\ burst'.status = "publishing"
  BY <1>1, <1>3, <1>4, BurstStarts
<1>6. /\ idempotency' \in IdempotencyState(Ids') /\ IdempotencyWaits'
      /\ saturation' \in SaturationState(Ids')
      /\ SaturationForgets' /\ TerminalCountedOnce'
      /\ overload' \in OverloadState(Ids')
      /\ OverloadNotes' /\ GhostIsReported'
  BY <1>1, <1>3, OthersKept
<1>7. LoopsRun'
  BY <1>1, <1>4 DEF LoopsRun
<1>8. /\ Owed("burst")'
      /\ \A t \in Tests \ {"burst"} : Active(t)' => Active(t)
  BY <1>1, <1>5, ActiveFacts, NextActiveFacts DEF Tests
<1>9. OneActive' /\ OneLive'
  BY <1>2, <1>3, <1>4, <1>7, <1>8, OneStarts
<1> QED BY <1>3, <1>5, <1>6, <1>7, <1>9 DEF LabInv, Typed

\* So is the idempotency test.
LEMMA RunIdempotencyInv ==
  ASSUME LabInv, RunIdempotency
  PROVE  LabInv'
<1> DEFINE ids == (made + 1)..(made + 1)
<1>1. /\ Startable /\ Publish("idempotency", 1)
      /\ idempotency' = IdempotencyStarted(made + 1)
      /\ UNCHANGED <<life, ended, returned, burst, saturation, overload,
                     pressure, mounted>>
  BY DEF RunIdempotency, worldVars
<1>2. 1 \in Nat \ {0} /\ "idempotency" \in Tests
  BY DEF Tests
<1>3. /\ made' \in Nat /\ made <= made' /\ ids \subseteq Ids'
      /\ batches' = batches \union {Batch("idempotency", ids, TRUE)}
      /\ batches' \subseteq Batches' /\ WorldTyped'
  BY <1>1, <1>2, PublishFacts
<1>4. made + 1 \in Ids'
  BY <1>3, IdsFinite DEF LabInv
<1> HIDE DEF ids
<1>5. /\ \A t \in Tests : ~Active(t) /\ ~Owed(t)
      /\ LoopsRun /\ OneLive /\ batches \subseteq Batches
  BY <1>1, StartableFacts
<1>6. /\ idempotency' \in IdempotencyState(Ids') /\ IdempotencyWaits'
      /\ idempotency'.status = "publishing"
  BY <1>1, <1>4, IdempotencyStarts
<1>7. \A b \in batches' : b.test = "burst" => b \in batches
  BY <1>3 DEF Batch
<1>8. /\ burst' \in BurstState(Ids') /\ BurstCounts' /\ BurstCompletes'
      /\ saturation' \in SaturationState(Ids')
      /\ SaturationForgets' /\ TerminalCountedOnce'
      /\ overload' \in OverloadState(Ids')
      /\ OverloadNotes' /\ GhostIsReported'
  BY <1>1, <1>3, <1>7, OthersKept
<1>9. LoopsRun'
  BY <1>1, <1>5 DEF LoopsRun
<1>10. /\ Owed("idempotency")'
       /\ \A t \in Tests \ {"idempotency"} : Active(t)' => Active(t)
  BY <1>1, <1>6, ActiveFacts, NextActiveFacts DEF Tests
<1>11. OneActive' /\ OneLive'
  BY <1>2, <1>3, <1>5, <1>9, <1>10, OneStarts
<1> QED BY <1>3, <1>6, <1>8, <1>9, <1>11 DEF LabInv, Typed

\* Saturation starts without a batch.
LEMMA StartSaturationInv ==
  ASSUME LabInv, StartSaturation
  PROVE  LabInv'
<1>1. /\ Startable /\ saturation' = SaturationStarted(made)
      /\ UNCHANGED <<made, life, ended, returned, batches, burst, idempotency,
                     overload, pressure, mounted>>
  BY DEF StartSaturation, worldVars
<1>2. Typed /\ made \in Nat /\ Ids' = Ids
  BY <1>1, IdsFinite DEF LabInv, Ids
<1>3. /\ \A t \in Tests : ~Active(t)
      /\ \A b \in batches : ~b.live /\ b.test \notin {"burst", "idempotency"}
      /\ LoopsRun
  BY <1>1, StartableFacts
<1>4. /\ saturation' \in SaturationState(Ids)
      /\ SaturationForgets' /\ TerminalCountedOnce'
      /\ saturation'.status = "running" /\ saturation'.loop = "waiting"
  BY <1>1, <1>2, SaturationBegins
<1>5. /\ burst' \in BurstState(Ids') /\ BurstCounts' /\ BurstCompletes'
      /\ idempotency' \in IdempotencyState(Ids') /\ IdempotencyWaits'
      /\ overload' \in OverloadState(Ids')
      /\ OverloadNotes' /\ GhostIsReported'
  BY <1>1, <1>2, OthersKept
<1>6. Typed'
  BY <1>1, <1>2, <1>4, <1>5 DEF Typed, WorldTyped, Batches
<1>7. LoopsRun'
  BY <1>1, <1>3, <1>4 DEF LoopsRun
<1>8. \A t \in Tests \ {"saturation"} : ~Active(t)'
  BY <1>1, <1>3, ActiveFacts, NextActiveFacts DEF Tests
<1>9. OneActive' /\ OneLive'
  BY <1>1, <1>3, <1>8 DEF OneActive, OneLive
<1> QED BY <1>4, <1>5, <1>6, <1>7, <1>9 DEF LabInv

\* A step of saturation that hands out nothing: its loop goes on, ends or is
\* aborted, or its publishes settle.
LEMMA SaturationStep ==
  ASSUME LabInv, UNCHANGED <<made, life, ended, returned, burst, idempotency,
                             overload, pressure, mounted>>,
         saturation' \in SaturationState(Ids),
         saturation'.ids \subseteq saturation.ids,
         saturation'.first = saturation.first,
         saturation'.terminal = saturation.terminal,
         saturation'.status = "running" => saturation.status = "running",
         saturation'.loop \in {"waiting", "publishing"} =>
           saturation'.status = "running",
         saturation'.loop # "observing",
         batches' \subseteq Batches,
         \A b \in batches' :
           /\ b.live => b \in batches
           /\ b.live /\ b.test = "saturation" => saturation'.loop = "publishing"
           /\ b.test \in {"burst", "idempotency"} => b \in batches
  PROVE  LabInv'
<1>1. /\ Typed /\ SaturationForgets /\ TerminalCountedOnce /\ LoopsRun
      /\ OneActive /\ OneLive /\ made \in Nat /\ Ids' = Ids
  BY IdsFinite DEF LabInv, Ids
<1>2. SaturationForgets' /\ TerminalCountedOnce'
  <2>1. saturation'.ids \subseteq Nat
    BY DEF SaturationState, Ids
  <2> QED BY <1>1, <2>1, SaturationMoves
<1>3. /\ burst' \in BurstState(Ids') /\ BurstCounts' /\ BurstCompletes'
      /\ idempotency' \in IdempotencyState(Ids') /\ IdempotencyWaits'
      /\ overload' \in OverloadState(Ids')
      /\ OverloadNotes' /\ GhostIsReported'
  BY <1>1, OthersKept
<1>4. Typed'
  BY <1>1, <1>3 DEF Typed, WorldTyped, Batches
<1>5. LoopsRun'
  BY <1>1 DEF LoopsRun
<1>6. \A t \in Tests : Active(t)' => Active(t)
  BY ActiveFacts, NextActiveFacts DEF Tests
<1>7. \A b \in batches' : b.live => b \in batches /\ Owed(b.test)'
  <2> SUFFICES ASSUME NEW b \in batches', b.live
               PROVE  Owed(b.test)'
    OBVIOUS
  <2>1. b \in batches /\ b.test \in Tests /\ Owed(b.test)
    BY <1>1 DEF OneLive, Typed, Batches
  <2> QED BY <2>1, ActiveFacts, NextActiveFacts DEF Tests
<1>8. OneActive' /\ OneLive'
  BY <1>1, <1>6, <1>7, NoneStarts
<1> QED BY <1>2, <1>3, <1>4, <1>5, <1>8 DEF LabInv

\* A round of saturation.
LEMMA SaturationRoundInv ==
  ASSUME LabInv, SaturationRound
  PROVE  LabInv'
<1> DEFINE s == saturation
<1>1. /\ Typed /\ s \in SaturationState(Ids) /\ s.loop = "waiting"
      /\ s.status = "running" /\ s.ticks \in Nat /\ s.ids \in SUBSET Ids
      /\ UNCHANGED <<life, ended, returned, burst, idempotency, overload,
                     pressure, mounted>>
  BY DEF LabInv, Typed, LoopsRun, SaturationState, SaturationRound, worldVars
<1>2. CASE saturation' = [s EXCEPT !.ticks = @ + 1] /\ UNCHANGED <<made, batches>>
  <2> DEFINE u == [s EXCEPT !.ticks = s.ticks + 1]
  <2>1. s.ticks + 1 \in Nat
    BY <1>1
  <2>2. u \in SaturationState(Ids)
    BY <1>1, <2>1, SaturationTypes, Zenon
  <2>3. /\ u.ids = s.ids /\ u.first = s.first /\ u.terminal = s.terminal
        /\ u.status = s.status /\ u.loop = s.loop
    BY <1>1 DEF SaturationState
  <2>4. saturation' = u
    BY <1>2
  <2> HIDE DEF u
  <2>5. \A b \in batches' : ~(b.live /\ b.test = "saturation")
    BY <1>1, <1>2, ActiveFacts DEF LabInv, OneLive
  <2>6. batches' \subseteq Batches
    BY <1>1, <1>2 DEF Typed
  <2> QED BY <1>1, <1>2, <2>2, <2>3, <2>4, <2>5, <2>6, SaturationStep
<1>3. ASSUME NEW n \in 1..MaxBatch, Publish("saturation", n),
             saturation' = [s EXCEPT !.ticks = @ + 1, !.loop = "publishing",
                              !.ids = @ \union (made + 1)..(made + n)]
      PROVE  LabInv'
  <2> DEFINE ids == (made + 1)..(made + n)
             u == [[[s EXCEPT !.ticks = s.ticks + 1]
                      EXCEPT !.loop = "publishing"] EXCEPT !.ids = s.ids \union ids]
  <2>1. n \in Nat \ {0} /\ "saturation" \in Tests
    BY LabAssumption DEF Tests
  <2>2. /\ made' \in Nat /\ made <= made' /\ ids \subseteq Ids'
        /\ \A i \in ids : i > made
        /\ batches' = batches \union {Batch("saturation", ids, TRUE)}
        /\ batches' \subseteq Batches' /\ WorldTyped'
    BY <1>1, <1>3, <2>1, PublishFacts
  <2>3. saturation' = u
    BY <1>3
  <2> HIDE DEF ids
  <2>4. Ids \subseteq Ids' /\ Ids' \subseteq Nat /\ made \in Nat
    BY <1>1, <2>2, IdsFinite DEF Ids
  <2>5. u \in SaturationState(Ids')
    <3>1. s \in SaturationState(Ids')
      BY <1>1, <2>4, StatesGrow
    <3>2. s.ids \union ids \in SUBSET Ids'
      BY <1>1, <2>2, <2>4
    <3>3. s.ticks + 1 \in Nat /\ "publishing" \in Loads
      BY <1>1 DEF Loads
    <3>4. [s EXCEPT !.ticks = s.ticks + 1] \in SaturationState(Ids')
      BY <3>1, <3>3, SaturationTypes, Zenon
    <3>5. [[s EXCEPT !.ticks = s.ticks + 1] EXCEPT !.loop = "publishing"]
            \in SaturationState(Ids')
      BY <3>3, <3>4, SaturationTypes, Zenon
    <3> QED BY <3>2, <3>5, SaturationTypes, Zenon
  <2>6. /\ u.ids = s.ids \union ids /\ u.first = s.first
        /\ u.terminal = s.terminal /\ u.status = "running"
        /\ u.loop = "publishing"
    BY <1>1 DEF SaturationState
  <2> HIDE DEF u
  <2>7. SaturationForgets' /\ TerminalCountedOnce'
    <3>1. saturation'.ids \subseteq Nat
      BY <1>1, <2>2, <2>3, <2>4, <2>6
    <3> QED BY <1>1, <2>2, <2>3, <2>6, <3>1, SaturationMoves DEF LabInv
  <2>8. \A b \in batches' : b.test = "burst" => b \in batches
    BY <2>2 DEF Batch
  <2>9. /\ burst' \in BurstState(Ids') /\ BurstCounts' /\ BurstCompletes'
        /\ idempotency' \in IdempotencyState(Ids') /\ IdempotencyWaits'
        /\ overload' \in OverloadState(Ids')
        /\ OverloadNotes' /\ GhostIsReported'
    BY <1>1, <2>2, <2>8, OthersKept
  <2>10. LoopsRun'
    BY <1>1, <2>3, <2>6 DEF LabInv, LoopsRun
  <2>11. /\ Owed("saturation")' /\ ~Owed("saturation") /\ Active("saturation")
         /\ \A t \in Tests \ {"saturation"} : Active(t)' => Active(t)
    BY <1>1, <2>3, <2>6, ActiveFacts, NextActiveFacts DEF Tests
  <2>12. \A t \in Tests \ {"saturation"} : ~Active(t)
    BY <2>1, <2>11 DEF LabInv, OneActive
  <2>13. OneActive' /\ OneLive'
    BY <2>1, <2>2, <2>10, <2>11, <2>12, OneStarts DEF LabInv, Typed
  <2> QED BY <2>2, <2>3, <2>5, <2>7, <2>9, <2>10, <2>13 DEF LabInv, Typed
<1> QED BY <1>2, <1>3 DEF SaturationRound

\* What stop() makes of a saturation run.
LEMMA SaturationStops ==
  ASSUME NEW I, NEW s \in SaturationState(I),
         s.loop \in {"waiting", "publishing"} => s.status = "running",
         s.loop # "observing"
  PROVE  LET u == SaturationStopped(s) IN
         /\ u \in SaturationState(I) /\ u.ids = s.ids /\ u.first = s.first
         /\ u.terminal = s.terminal /\ u.loop = "none" /\ u.status # "running"
<1> DEFINE u == [[s EXCEPT !.status = "stopped"] EXCEPT !.loop = "none"]
<1>1. u \in SaturationState(I)
  <2>1. [s EXCEPT !.status = "stopped"] \in SaturationState(I)
    BY SaturationTypes
  <2> QED BY <2>1, SaturationTypes DEF Loads
<1>2. /\ u.ids = s.ids /\ u.first = s.first /\ u.terminal = s.terminal
      /\ u.loop = "none" /\ u.status = "stopped"
  BY DEF SaturationState
<1>3. SaturationStopped(s) = IF s.status = "running" THEN u ELSE s
  BY DEF SaturationStopped
<1> HIDE DEF u
<1>4. s.loop \in {"none", "waiting", "publishing", "observing"}
  BY DEF SaturationState, Loads
<1> QED BY <1>1, <1>2, <1>3, <1>4

\* The duration is over, or the user stops the run.
LEMMA SaturationEndInv ==
  ASSUME LabInv, SaturationEnds \/ StopSaturation
  PROVE  LabInv'
<1> DEFINE s == saturation
<1>1. /\ Typed /\ s \in SaturationState(Ids) /\ batches \subseteq Batches
      /\ s.loop \in {"waiting", "publishing"} => s.status = "running"
      /\ s.loop # "observing"
      /\ UNCHANGED <<made, life, ended, returned, burst, idempotency, overload,
                     pressure, mounted>>
  BY DEF LabInv, Typed, LoopsRun, SaturationEnds, StopSaturation, worldVars
<1>2. CASE SaturationEnds
  <2> DEFINE u == [[s EXCEPT !.status = "completed"] EXCEPT !.loop = "none"]
  <2>1. u \in SaturationState(Ids)
    <3>1. [s EXCEPT !.status = "completed"] \in SaturationState(Ids)
      BY <1>1, SaturationTypes
    <3> QED BY <3>1, SaturationTypes DEF Loads
  <2>2. /\ u.ids = s.ids /\ u.first = s.first /\ u.terminal = s.terminal
        /\ u.loop = "none" /\ u.status = "completed"
    BY <1>1 DEF SaturationState
  <2>3. saturation' = u /\ batches' = batches /\ s.loop = "waiting"
    BY <1>2 DEF SaturationEnds
  <2> HIDE DEF u
  <2>4. \A b \in batches' : ~(b.live /\ b.test = "saturation")
    BY <2>3, ActiveFacts DEF LabInv, OneLive
  <2> QED BY <1>1, <2>1, <2>2, <2>3, <2>4, SaturationStep
<1>3. CASE StopSaturation
  <2>1. /\ saturation' = SaturationStopped(s)
        /\ batches' = Abandoned("saturation")
    BY <1>3 DEF StopSaturation
  <2>2. /\ saturation' \in SaturationState(Ids) /\ saturation'.ids = s.ids
        /\ saturation'.first = s.first /\ saturation'.terminal = s.terminal
        /\ saturation'.loop = "none" /\ saturation'.status # "running"
    BY <1>1, <2>1, SaturationStops
  <2>3. /\ batches' \subseteq Batches
        /\ \A b \in batches' :
             IF b.test = "saturation" THEN ~b.live ELSE b \in batches
    BY <1>1, <2>1, AbandonedOne
  <2> QED BY <1>1, <2>2, <2>3, SaturationStep
<1> QED BY <1>2, <1>3

\* A step of overload that hands out nothing.
LEMMA OverloadStep ==
  ASSUME LabInv, UNCHANGED <<made, life, ended, returned, burst, idempotency,
                             saturation, pressure, mounted>>,
         overload' \in OverloadState(Ids),
         overload'.ids \subseteq overload.ids,
         overload'.rejected = overload.rejected,
         overload'.ghosts = overload.ghosts,
         overload.ghosts # {} =>
           /\ overload'.status = overload.status
           /\ overload'.loop \in {overload.loop, "none"},
         overload'.status \in {"running", "observing"} =>
           overload.status \in {"running", "observing"},
         overload'.loop \in {"waiting", "publishing"} =>
           overload'.status = "running",
         overload'.loop = "observing" => overload'.status = "observing",
         batches' \subseteq Batches,
         \A b \in batches' :
           /\ b.live => b \in batches
           /\ b.live /\ b.test = "overload" => overload'.loop = "publishing"
           /\ b.test \in {"burst", "idempotency"} => b \in batches
  PROVE  LabInv'
<1>1. /\ Typed /\ OverloadNotes /\ GhostIsReported /\ LoopsRun
      /\ OneActive /\ OneLive /\ made \in Nat /\ Ids' = Ids
  BY IdsFinite DEF LabInv, Ids
<1>2. OverloadNotes' /\ GhostIsReported'
  BY <1>1, OverloadMoves
<1>3. /\ burst' \in BurstState(Ids') /\ BurstCounts' /\ BurstCompletes'
      /\ idempotency' \in IdempotencyState(Ids') /\ IdempotencyWaits'
      /\ saturation' \in SaturationState(Ids')
      /\ SaturationForgets' /\ TerminalCountedOnce'
  BY <1>1, OthersKept
<1>4. Typed'
  BY <1>1, <1>3 DEF Typed, WorldTyped, Batches
<1>5. LoopsRun'
  BY <1>1 DEF LoopsRun
<1>6. \A t \in Tests : Active(t)' => Active(t)
  BY ActiveFacts, NextActiveFacts DEF Tests
<1>7. \A b \in batches' : b.live => b \in batches /\ Owed(b.test)'
  <2> SUFFICES ASSUME NEW b \in batches', b.live
               PROVE  Owed(b.test)'
    OBVIOUS
  <2>1. b \in batches /\ b.test \in Tests /\ Owed(b.test)
    BY <1>1 DEF OneLive, Typed, Batches
  <2> QED BY <2>1, ActiveFacts, NextActiveFacts DEF Tests
<1>8. OneActive' /\ OneLive'
  BY <1>1, <1>6, <1>7, NoneStarts
<1> QED BY <1>2, <1>3, <1>4, <1>5, <1>8 DEF LabInv

\* Overload starts with its warm-up.
LEMMA StartOverloadInv ==
  ASSUME LabInv, NEW n \in 1..MaxBatch, StartOverload(n)
  PROVE  LabInv'
<1> DEFINE ids == (made + 1)..(made + n)
<1>1. /\ Startable /\ Publish("overload", n) /\ overload' = OverloadStarted(ids)
      /\ UNCHANGED <<life, ended, returned, idempotency, saturation, burst,
                     pressure, mounted>>
  BY DEF StartOverload, worldVars
<1>2. n \in Nat \ {0} /\ "overload" \in Tests
  BY LabAssumption DEF Tests
<1>3. /\ made' \in Nat /\ made <= made' /\ ids \subseteq Ids'
      /\ \A i \in ids : i \in 1..MaxOrders /\ i > made
      /\ batches' = batches \union {Batch("overload", ids, TRUE)}
      /\ batches' \subseteq Batches' /\ WorldTyped'
  BY <1>1, <1>2, PublishFacts
<1> HIDE DEF ids
<1>4. /\ \A t \in Tests : ~Active(t) /\ ~Owed(t)
      /\ LoopsRun /\ OneLive /\ batches \subseteq Batches
  BY <1>1, StartableFacts
<1>5. /\ overload' \in OverloadState(Ids') /\ OverloadNotes' /\ GhostIsReported'
      /\ overload'.status = "running" /\ overload'.loop = "publishing"
  BY <1>1, <1>3, OverloadBegins DEF LabInv
<1>6. \A b \in batches' : b.test = "burst" => b \in batches
  BY <1>3 DEF Batch
<1>7. /\ burst' \in BurstState(Ids') /\ BurstCounts' /\ BurstCompletes'
      /\ idempotency' \in IdempotencyState(Ids') /\ IdempotencyWaits'
      /\ saturation' \in SaturationState(Ids')
      /\ SaturationForgets' /\ TerminalCountedOnce'
  BY <1>1, <1>3, <1>6, OthersKept
<1>8. LoopsRun'
  BY <1>1, <1>4, <1>5 DEF LoopsRun
<1>9. /\ Owed("overload")'
      /\ \A t \in Tests \ {"overload"} : Active(t)' => Active(t)
  BY <1>1, <1>5, ActiveFacts, NextActiveFacts DEF Tests
<1>10. OneActive' /\ OneLive'
  BY <1>2, <1>3, <1>4, <1>8, <1>9, OneStarts
<1> QED BY <1>3, <1>5, <1>7, <1>8, <1>10 DEF LabInv, Typed

\* A round of overload.
LEMMA OverloadRoundInv ==
  ASSUME LabInv, NEW n \in 1..MaxBatch, OverloadRound(n)
  PROVE  LabInv'
<1> DEFINE o == overload
           ids == (made + 1)..(made + n)
           u == [[[o EXCEPT !.ticks = o.ticks + 1]
                    EXCEPT !.loop = "publishing"] EXCEPT !.ids = o.ids \union ids]
<1>1. /\ Typed /\ o \in OverloadState(Ids) /\ o.loop = "waiting"
      /\ o.status = "running" /\ o.ticks \in Nat /\ o.ids \in SUBSET Ids
      /\ o.ghosts = {} /\ Publish("overload", n)
      /\ UNCHANGED <<life, ended, returned, burst, idempotency, saturation,
                     pressure, mounted>>
  BY DEF LabInv, Typed, LoopsRun, OverloadNotes, OverloadState, OverloadRound,
         worldVars
<1>2. n \in Nat \ {0} /\ "overload" \in Tests
  BY LabAssumption DEF Tests
<1>3. /\ made' \in Nat /\ made <= made' /\ ids \subseteq Ids'
      /\ \A i \in ids : i \in 1..MaxOrders /\ i > made
      /\ batches' = batches \union {Batch("overload", ids, TRUE)}
      /\ batches' \subseteq Batches' /\ WorldTyped'
  BY <1>1, <1>2, PublishFacts
<1>4. overload' = u
  BY DEF OverloadRound
<1> HIDE DEF ids
<1>5. Ids \subseteq Ids'
  BY <1>1, <1>3, IdsFinite DEF Ids
<1>6. u \in OverloadState(Ids')
  <2>1. o \in OverloadState(Ids')
    BY <1>1, <1>5, StatesGrow
  <2>2. o.ids \union ids \in SUBSET Ids'
    BY <1>1, <1>3, <1>5
  <2>3. o.ticks + 1 \in Nat /\ "publishing" \in Loads
    BY <1>1 DEF Loads
  <2>4. [o EXCEPT !.ticks = o.ticks + 1] \in OverloadState(Ids')
    BY <2>1, <2>3, OverloadTypes, Zenon
  <2>5. [[o EXCEPT !.ticks = o.ticks + 1] EXCEPT !.loop = "publishing"]
          \in OverloadState(Ids')
    BY <2>3, <2>4, OverloadTypes, Zenon
  <2> QED BY <2>2, <2>5, OverloadTypes, Zenon
<1>7. /\ u.ids = o.ids \union ids /\ u.rejected = o.rejected
      /\ u.ghosts = o.ghosts /\ u.status = "running" /\ u.loop = "publishing"
  BY <1>1 DEF OverloadState
<1> HIDE DEF u
<1>8. OverloadNotes' /\ GhostIsReported'
  BY <1>1, <1>3, <1>4, <1>7, OverloadMoves DEF LabInv
<1>9. \A b \in batches' : b.test = "burst" => b \in batches
  BY <1>3 DEF Batch
<1>10. /\ burst' \in BurstState(Ids') /\ BurstCounts' /\ BurstCompletes'
       /\ idempotency' \in IdempotencyState(Ids') /\ IdempotencyWaits'
       /\ saturation' \in SaturationState(Ids')
       /\ SaturationForgets' /\ TerminalCountedOnce'
  BY <1>1, <1>3, <1>9, OthersKept
<1>11. LoopsRun'
  BY <1>1, <1>4, <1>7 DEF LabInv, LoopsRun
<1>12. /\ Owed("overload")' /\ ~Owed("overload") /\ Active("overload")
       /\ \A t \in Tests \ {"overload"} : Active(t)' => Active(t)
  BY <1>1, <1>4, <1>7, ActiveFacts, NextActiveFacts DEF Tests
<1>13. \A t \in Tests \ {"overload"} : ~Active(t)
  BY <1>2, <1>12 DEF LabInv, OneActive
<1>14. OneActive' /\ OneLive'
  BY <1>2, <1>3, <1>11, <1>12, <1>13, OneStarts DEF LabInv, Typed
<1> QED BY <1>3, <1>4, <1>6, <1>8, <1>10, <1>11, <1>14 DEF LabInv, Typed

\* The traffic stops, the observation is over, or the user stops the run.
LEMMA OverloadEndInv ==
  ASSUME LabInv, OverloadObserves \/ OverloadEnds \/ StopOverload
  PROVE  LabInv'
<1> DEFINE o == overload
<1>1. /\ Typed /\ OneLive /\ o \in OverloadState(Ids) /\ batches \subseteq Batches
      /\ o.loop \in {"waiting", "publishing"} => o.status = "running"
      /\ o.loop = "observing" => o.status = "observing"
      /\ o.ghosts # {} => o.loop = "none" /\ o.status = "failed"
      /\ UNCHANGED <<made, life, ended, returned, burst, idempotency, saturation,
                     pressure, mounted>>
  BY DEF LabInv, Typed, LoopsRun, OverloadNotes, GhostIsReported,
         OverloadObserves, OverloadEnds, StopOverload, worldVars
<1>2. CASE OverloadObserves
  <2> DEFINE u == [[o EXCEPT !.status = "observing"] EXCEPT !.loop = "observing"]
  <2>1. u \in OverloadState(Ids)
    <3>1. [o EXCEPT !.status = "observing"] \in OverloadState(Ids)
      BY <1>1, OverloadTypes
    <3> QED BY <3>1, OverloadTypes DEF Loads
  <2>2. /\ u.ids = o.ids /\ u.rejected = o.rejected /\ u.ghosts = o.ghosts
        /\ u.status = "observing" /\ u.loop = "observing"
    BY <1>1 DEF OverloadState
  <2>3. overload' = u /\ batches' = batches /\ o.loop = "waiting"
    BY <1>2 DEF OverloadObserves
  <2> HIDE DEF u
  <2>4. \A b \in batches' : ~(b.live /\ b.test = "overload")
    BY <1>1, <2>3, ActiveFacts DEF OneLive
  <2> QED BY <1>1, <2>1, <2>2, <2>3, <2>4, OverloadStep
<1>3. CASE OverloadEnds
  <2> DEFINE x == IF o.rejected # {} THEN "passed" ELSE "failed"
             u == [[o EXCEPT !.loop = "none"] EXCEPT !.status = x]
  <2>1. overload' = u /\ batches' = batches /\ o.loop = "observing"
    BY <1>1, <1>3 DEF OverloadEnds, OverloadFinished
  <2>2. x \in {"passed", "failed"}
    OBVIOUS
  <2> HIDE DEF x
  <2>3. u \in OverloadState(Ids)
    <3>1. [o EXCEPT !.loop = "none"] \in OverloadState(Ids)
      BY <1>1, OverloadTypes DEF Loads
    <3> QED BY <2>2, <3>1, OverloadTypes
  <2>4. /\ u.ids = o.ids /\ u.rejected = o.rejected /\ u.ghosts = o.ghosts
        /\ u.status = x /\ u.loop = "none"
    BY <1>1 DEF OverloadState
  <2> HIDE DEF u
  <2>5. \A b \in batches' : ~(b.live /\ b.test = "overload")
    BY <1>1, <2>1, ActiveFacts DEF OneLive
  <2> QED BY <1>1, <2>1, <2>2, <2>3, <2>4, <2>5, OverloadStep
<1>4. CASE StopOverload
  <2>1. overload' = OverloadStopped(o) /\ batches' = Abandoned("overload")
    BY <1>4 DEF StopOverload
  <2>2. /\ overload' \in OverloadState(Ids) /\ overload'.ids = o.ids
        /\ overload'.rejected = o.rejected /\ overload'.ghosts = o.ghosts
        /\ overload'.loop = "none"
        /\ overload'.status = IF o.status \in {"running", "observing"}
                              THEN "stopped" ELSE o.status
    BY <1>1, <2>1, OverloadStops, Zenon
  <2>3. /\ batches' \subseteq Batches
        /\ \A b \in batches' :
             IF b.test = "overload" THEN ~b.live ELSE b \in batches
    BY <1>1, <2>1, AbandonedOne
  <2>4. overload'.status \notin {"running", "observing"}
    BY <2>2
  <2>5. overload.ghosts # {} => overload'.status = overload.status
    BY <1>1, <2>2
  <2> QED BY <1>1, <2>2, <2>3, <2>4, <2>5, OverloadStep
<1> QED BY <1>2, <1>3, <1>4

\* What a batch that settles leaves behind.
LEMMA SettledFacts ==
  ASSUME LabInv, NEW b \in batches, batches' = batches \ {b}
  PROVE  /\ b.test \in Tests /\ b.ids \subseteq Ids /\ batches' \subseteq Batches
         /\ \A c \in batches' : c \in batches
         /\ b.live => Owed(b.test) /\ \A c \in batches' : ~c.live
         /\ b.test \in {"burst", "idempotency"} => b.live
         /\ OneActive /\ OneLive /\ LoopsRun
BY DEF LabInv, Typed, Batches, OneLive

\* The publishes of a burst have settled.
LEMMA SettleBurstInv ==
  ASSUME LabInv, NEW b \in batches, b.test = "burst", batches' = batches \ {b},
         NEW failed \in SUBSET b.ids,
         burst' = BurstSettled(burst, b.ids, failed),
         UNCHANGED <<made, life, ended, returned, idempotency, saturation,
                     overload, pressure, mounted>>
  PROVE  LabInv'
<1>1. /\ Typed /\ BurstCounts /\ BurstCompletes /\ made \in Nat /\ Ids' = Ids
  BY IdsFinite DEF LabInv, Ids
<1>2. /\ OneActive /\ OneLive /\ LoopsRun /\ batches' \subseteq Batches
      /\ \A c \in batches' : c \in batches /\ ~c.live
      /\ burst.status = "publishing"
  BY SettledFacts, ActiveFacts
<1>3. /\ burst' \in BurstState(Ids) /\ BurstCounts' /\ BurstCompletes'
      /\ burst'.status \in {"failed", "observing", "completed"}
  BY <1>1, <1>2, BurstSettles
<1>4. /\ idempotency' \in IdempotencyState(Ids') /\ IdempotencyWaits'
      /\ saturation' \in SaturationState(Ids')
      /\ SaturationForgets' /\ TerminalCountedOnce'
      /\ overload' \in OverloadState(Ids')
      /\ OverloadNotes' /\ GhostIsReported'
  BY <1>1, OthersKept
<1>5. Typed'
  BY <1>1, <1>2, <1>3, <1>4 DEF Typed, WorldTyped, Batches
<1>6. LoopsRun'
  BY <1>2 DEF LoopsRun
<1>7. \A t \in Tests : Active(t)' => Active(t)
  BY <1>2, ActiveFacts, NextActiveFacts DEF Tests
<1>8. OneActive' /\ OneLive'
  BY <1>2, <1>7, NoneStarts
<1> QED BY <1>3, <1>4, <1>5, <1>6, <1>8 DEF LabInv

\* So have those of the idempotency test.
LEMMA SettleIdempotencyInv ==
  ASSUME LabInv, NEW b \in batches, b.test = "idempotency",
         batches' = batches \ {b}, NEW published \in BOOLEAN,
         idempotency' = IdempotencySettled(idempotency, published),
         UNCHANGED <<made, life, ended, returned, burst, saturation, overload,
                     pressure, mounted>>
  PROVE  LabInv'
<1>1. /\ Typed /\ made \in Nat /\ Ids' = Ids
  BY IdsFinite DEF LabInv, Ids
<1>2. /\ OneActive /\ OneLive /\ LoopsRun /\ batches' \subseteq Batches
      /\ \A c \in batches' : c \in batches /\ ~c.live
      /\ idempotency.status = "publishing"
  BY SettledFacts, ActiveFacts
<1>3. /\ idempotency' \in IdempotencyState(Ids) /\ IdempotencyWaits'
  BY <1>1, IdempotencySettles
<1>4. /\ burst' \in BurstState(Ids') /\ BurstCounts' /\ BurstCompletes'
      /\ saturation' \in SaturationState(Ids')
      /\ SaturationForgets' /\ TerminalCountedOnce'
      /\ overload' \in OverloadState(Ids')
      /\ OverloadNotes' /\ GhostIsReported'
  BY <1>1, <1>2, OthersKept
<1>5. Typed'
  BY <1>1, <1>2, <1>3, <1>4 DEF Typed, WorldTyped, Batches
<1>6. LoopsRun'
  BY <1>2 DEF LoopsRun
<1>7. \A t \in Tests : Active(t)' => Active(t)
  BY <1>2, ActiveFacts, NextActiveFacts DEF Tests
<1>8. OneActive' /\ OneLive'
  BY <1>2, <1>7, NoneStarts
<1> QED BY <1>3, <1>4, <1>5, <1>6, <1>8 DEF LabInv

\* So have those of a saturation run, which may be over, or another one's.
LEMMA SettleSaturationInv ==
  ASSUME LabInv, NEW b \in batches, b.test = "saturation",
         batches' = batches \ {b}, NEW failed \in SUBSET b.ids,
         saturation' = IF b.live
                       THEN [BatchSettled(saturation, failed)
                               EXCEPT !.loop = "waiting"]
                       ELSE BatchSettled(saturation, failed),
         UNCHANGED <<made, life, ended, returned, burst, idempotency, overload,
                     pressure, mounted>>
  PROVE  LabInv'
<1> DEFINE s == saturation
           u == [s EXCEPT !.ids = s.ids \ failed]
           r == [u EXCEPT !.loop = "waiting"]
<1>1. /\ s \in SaturationState(Ids) /\ s.ids \ failed \in SUBSET Ids
      /\ "waiting" \in Loads
  BY DEF LabInv, Typed, SaturationState, Loads
<1>2. /\ LoopsRun /\ batches' \subseteq Batches
      /\ \A c \in batches' : c \in batches
      /\ b.live => s.loop = "publishing" /\ \A c \in batches' : ~c.live
  BY SettledFacts, ActiveFacts
<1>3. u \in SaturationState(Ids)
  BY <1>1, SaturationTypes, Zenon
<1>4. /\ u.ids = s.ids \ failed /\ u.first = s.first /\ u.terminal = s.terminal
      /\ u.status = s.status /\ u.loop = s.loop
  BY <1>1 DEF SaturationState
<1>5. saturation' = IF b.live THEN r ELSE u
  BY DEF BatchSettled
<1> HIDE DEF u
<1>6. r \in SaturationState(Ids)
  BY <1>1, <1>3, SaturationTypes, Zenon
<1>7. /\ r.ids = u.ids /\ r.first = u.first /\ r.terminal = u.terminal
      /\ r.status = u.status /\ r.loop = "waiting"
  BY <1>3 DEF SaturationState
<1> HIDE DEF r
<1>8. \A c \in batches' :
        c.live /\ c.test = "saturation" => ~b.live /\ s.loop = "publishing"
  BY <1>2, ActiveFacts DEF LabInv, OneLive
<1>9. CASE b.live
  BY <1>2, <1>4, <1>5, <1>6, <1>7, <1>8, <1>9, SaturationStep DEF LoopsRun
<1>10. CASE ~b.live
  BY <1>2, <1>3, <1>4, <1>5, <1>8, <1>10, SaturationStep DEF LoopsRun
<1> QED BY <1>9, <1>10

\* So have those of an overload run.
LEMMA SettleOverloadInv ==
  ASSUME LabInv, NEW b \in batches, b.test = "overload",
         batches' = batches \ {b}, NEW failed \in SUBSET b.ids,
         overload' = IF b.live
                     THEN [BatchSettled(overload, failed)
                             EXCEPT !.loop = "waiting"]
                     ELSE BatchSettled(overload, failed),
         UNCHANGED <<made, life, ended, returned, burst, idempotency, saturation,
                     pressure, mounted>>
  PROVE  LabInv'
<1> DEFINE o == overload
           u == [o EXCEPT !.ids = o.ids \ failed]
           r == [u EXCEPT !.loop = "waiting"]
<1>1. /\ o \in OverloadState(Ids) /\ o.ids \ failed \in SUBSET Ids
      /\ "waiting" \in Loads
  BY DEF LabInv, Typed, OverloadState, Loads
<1>2. /\ LoopsRun /\ batches' \subseteq Batches
      /\ \A c \in batches' : c \in batches
      /\ b.live => o.loop = "publishing" /\ \A c \in batches' : ~c.live
  BY SettledFacts, ActiveFacts
<1>3. u \in OverloadState(Ids)
  BY <1>1, OverloadTypes, Zenon
<1>4. /\ u.ids = o.ids \ failed /\ u.rejected = o.rejected
      /\ u.ghosts = o.ghosts /\ u.status = o.status /\ u.loop = o.loop
  BY <1>1 DEF OverloadState
<1>5. overload' = IF b.live THEN r ELSE u
  BY DEF BatchSettled
<1> HIDE DEF u
<1>6. r \in OverloadState(Ids)
  BY <1>1, <1>3, OverloadTypes, Zenon
<1>7. /\ r.ids = u.ids /\ r.rejected = u.rejected /\ r.ghosts = u.ghosts
      /\ r.status = u.status /\ r.loop = "waiting"
  BY <1>3 DEF OverloadState
<1> HIDE DEF r
<1>8. \A c \in batches' :
        c.live /\ c.test = "overload" => ~b.live /\ o.loop = "publishing"
  BY <1>2, ActiveFacts DEF LabInv, OneLive
<1>9. b.live => o.ghosts = {}
  BY <1>2 DEF LabInv, OverloadNotes
<1>10. CASE b.live
  BY <1>2, <1>4, <1>5, <1>6, <1>7, <1>8, <1>9, <1>10, OverloadStep DEF LoopsRun
<1>11. CASE ~b.live
  BY <1>2, <1>3, <1>4, <1>5, <1>8, <1>11, OverloadStep DEF LoopsRun
<1> QED BY <1>10, <1>11

\* The publishes of any test have settled.
LEMMA SettleInv ==
  ASSUME LabInv, NEW b \in batches, Settle(b)
  PROVE  LabInv'
<1>1. /\ batches' = batches \ {b}
      /\ UNCHANGED <<made, life, ended, returned, pressure, mounted>>
  BY DEF Settle, worldVars
<1>2. PICK failed \in SUBSET b.ids :
        LET resumed(s) == IF b.live THEN [s EXCEPT !.loop = "waiting"] ELSE s IN
        \/ /\ b.test = "burst" /\ burst' = BurstSettled(burst, b.ids, failed)
           /\ UNCHANGED <<idempotency, saturation, overload>>
        \/ /\ b.test = "idempotency"
           /\ idempotency' = IdempotencySettled(idempotency, failed = {})
           /\ UNCHANGED <<burst, saturation, overload>>
        \/ /\ b.test = "saturation"
           /\ saturation' = resumed(BatchSettled(saturation, failed))
           /\ UNCHANGED <<burst, idempotency, overload>>
        \/ /\ b.test = "overload"
           /\ overload' = resumed(BatchSettled(overload, failed))
           /\ UNCHANGED <<burst, idempotency, saturation>>
  BY DEF Settle
<1>3. (failed = {}) \in BOOLEAN
  OBVIOUS
<1>4. CASE b.test = "burst"
  BY <1>1, <1>2, <1>4, SettleBurstInv
<1>5. CASE b.test = "idempotency"
  <2>1. /\ idempotency' = IdempotencySettled(idempotency, failed = {})
        /\ UNCHANGED <<burst, saturation, overload>>
    BY <1>2, <1>5
  <2> QED BY <1>1, <1>3, <1>5, <2>1, SettleIdempotencyInv, Zenon
<1>6. CASE b.test = "saturation"
  BY <1>1, <1>2, <1>6, SettleSaturationInv
<1>7. CASE b.test = "overload"
  BY <1>1, <1>2, <1>7, SettleOverloadInv
<1> QED BY <1>2, <1>4, <1>5, <1>6, <1>7

\* The batches of overload are abandoned when its run has failed meanwhile.
LEMMA RunAborted ==
  ASSUME LabInv,
         batches' = IF overload'.loop = "none" THEN Abandoned("overload")
                    ELSE batches
  PROVE  /\ batches' \subseteq Batches
         /\ \A b \in batches' :
              /\ b.live => b \in batches
              /\ b.live /\ b.test = "overload" => overload'.loop # "none"
              /\ b.test \in {"burst", "idempotency"} => b \in batches
<1>1. batches \subseteq Batches
  BY DEF LabInv, Typed
<1>2. CASE overload'.loop = "none"
  BY <1>1, <1>2, AbandonedOne
<1>3. CASE overload'.loop # "none"
  BY <1>1, <1>3
<1> QED BY <1>2, <1>3

\* What comes back starts no test, and hands out no batch.
LEMMA NewsStartsNone ==
  ASSUME LabInv,
         batches' = IF overload'.loop = "none" THEN Abandoned("overload")
                    ELSE batches,
         \/ burst'.status = burst.status
         \/ burst.status = "observing" /\ burst'.status = "completed",
         \/ idempotency'.status = idempotency.status
         \/ /\ idempotency.status # "publishing"
            /\ idempotency'.status \in {"passed", "failed"},
         saturation'.status = saturation.status,
         saturation'.loop = saturation.loop,
         \/ overload'.status = overload.status /\ overload'.loop = overload.loop
         \/ overload'.status = "failed" /\ overload'.loop = "none"
  PROVE  LoopsRun' /\ OneActive' /\ OneLive'
<1>1. LoopsRun /\ OneActive /\ OneLive
  BY DEF LabInv
<1>2. /\ batches' \subseteq Batches
      /\ \A b \in batches' :
           /\ b.live => b \in batches
           /\ b.live /\ b.test = "overload" => overload'.loop # "none"
           /\ b.test \in {"burst", "idempotency"} => b \in batches
  BY RunAborted
<1>3. LoopsRun'
  BY <1>1 DEF LoopsRun
<1>4. \A t \in Tests : Active(t)' => Active(t)
  BY ActiveFacts, NextActiveFacts DEF Tests
<1>5. ASSUME NEW b \in batches', b.live
      PROVE  b \in batches /\ Owed(b.test)'
  <2>1. b \in batches /\ b.test \in Tests /\ Owed(b.test)
    BY <1>1, <1>2, <1>5 DEF OneLive, Batches
  <2>2. b.test = "overload" => overload'.loop # "none"
    BY <1>2, <1>5
  <2> QED BY <2>1, <2>2, ActiveFacts, NextActiveFacts DEF Tests
<1>6. OneActive' /\ OneLive'
  BY <1>1, <1>2, <1>4, <1>5, NoneStarts
<1> QED BY <1>3, <1>6

\* A status is one a test knows.
LEMMA FollowingFacts ==
  ASSUME NEW x \in Events \union {"none"}, NEW event \in Following(x)
  PROVE  event \in Events
BY DEF Following, Events

\* Every test is told of an order.
LEMMA OrderStatusInv ==
  ASSUME LabInv, NEW id \in Ids, OrderStatus(id)
  PROVE  LabInv'
<1>1. PICK event \in Following(life[id]) :
        /\ life' = [life EXCEPT ![id] = event]
        /\ ended' = WithIf(ended, id, Terminal(event))
        /\ returned' =
             WithIf(returned, id, life[id] = "overloaded" /\ event # "overloaded")
        /\ burst' = BurstStatus(burst, id, event)
        /\ idempotency' = IdempotencyStatus(idempotency, id, event)
        /\ saturation' = SaturationStatus(saturation, id, event)
        /\ overload' = OverloadStatus(overload, id, event)
  BY DEF OrderStatus
<1>2. /\ batches' = IF overload'.loop = "none" THEN Abandoned("overload")
                    ELSE batches
      /\ UNCHANGED <<made, pressure, mounted>>
  BY DEF OrderStatus
<1>3. /\ Typed /\ BurstCounts /\ BurstCompletes /\ IdempotencyWaits
      /\ SaturationForgets /\ TerminalCountedOnce /\ OverloadNotes
      /\ GhostIsReported
  BY DEF LabInv
<1>4. /\ life \in [1..MaxOrders -> Events \union {"none"}]
      /\ \A i \in 1..MaxOrders : i > made => life[i] = "none"
      /\ ended \subseteq Ids /\ returned \subseteq Ids
      /\ id \in 1..MaxOrders /\ id <= made /\ made \in Nat
  BY <1>3, LabAssumption DEF Typed, WorldTyped, Ids
<1>5. event \in Events
  BY <1>4, FollowingFacts
<1>6. /\ batches' \subseteq Batches
      /\ \A b \in batches' : b.test = "burst" => b \in batches
  BY <1>2, RunAborted
<1>7. /\ burst' \in BurstState(Ids) /\ BurstCounts' /\ BurstCompletes'
      /\ \/ burst'.status = burst.status
         \/ burst.status = "observing" /\ burst'.status = "completed"
  BY <1>1, <1>3, <1>5, <1>6, BurstTold
<1>8. /\ idempotency' \in IdempotencyState(Ids) /\ IdempotencyWaits'
      /\ \/ idempotency'.status = idempotency.status
         \/ /\ idempotency.status # "publishing"
            /\ idempotency'.status \in {"passed", "failed"}
  BY <1>1, <1>3, <1>5, IdempotencyTold
<1>9. /\ saturation' \in SaturationState(Ids)
      /\ SaturationForgets' /\ TerminalCountedOnce'
      /\ saturation'.status = saturation.status
      /\ saturation'.loop = saturation.loop
  BY <1>1, <1>2, <1>3, <1>5, SaturationTold
<1>10. /\ overload' \in OverloadState(Ids) /\ OverloadNotes' /\ GhostIsReported'
       /\ \/ /\ overload'.status = overload.status
             /\ overload'.loop = overload.loop
          \/ overload'.status = "failed" /\ overload'.loop = "none"
  BY <1>1, <1>3, <1>5, OverloadTold
<1>11. WorldTyped'
  <2>1. life' \in [1..MaxOrders -> Events \union {"none"}]
    BY <1>1, <1>4, <1>5
  <2>2. \A i \in 1..MaxOrders : i > made' => life'[i] = "none"
    BY <1>1, <1>2, <1>4
  <2>3. ended' \subseteq Ids /\ returned' \subseteq Ids
    BY <1>1, <1>4 DEF WithIf
  <2> QED BY <1>2, <1>3, <2>1, <2>2, <2>3 DEF Typed, WorldTyped, Ids
<1>12. Typed'
  BY <1>2, <1>6, <1>7, <1>8, <1>9, <1>10, <1>11 DEF Typed, Ids, Batches
<1>13. LoopsRun' /\ OneActive' /\ OneLive'
  BY <1>2, <1>7, <1>8, <1>9, <1>10, NewsStartsNone
<1> QED BY <1>7, <1>8, <1>9, <1>10, <1>12, <1>13 DEF LabInv

\* The lab is shown what is in workers.
LEMMA PressureSnapshotInv ==
  ASSUME LabInv, PressureSnapshot
  PROVE  LabInv'
<1>1. /\ batches' = IF overload'.loop = "none" THEN Abandoned("overload")
                    ELSE batches
      /\ pressure' = TRUE
      /\ UNCHANGED <<made, life, ended, burst, idempotency, saturation, mounted>>
  BY DEF PressureSnapshot
<1>2. PICK working \in SUBSET {i \in Ids : life[i] \notin {"food_ready", "failed"}} :
        /\ returned' = returned \union {i \in working : life[i] = "overloaded"}
        /\ overload' = OverloadPressure(overload, working)
  BY DEF PressureSnapshot
<1>3. /\ Typed /\ BurstCounts /\ BurstCompletes /\ IdempotencyWaits
      /\ SaturationForgets /\ TerminalCountedOnce /\ OverloadNotes
      /\ GhostIsReported /\ working \in SUBSET Ids
  BY DEF LabInv
<1>4. /\ batches' \subseteq Batches
      /\ \A b \in batches' : b.test = "burst" => b \in batches
  BY <1>1, RunAborted
<1>5. /\ overload' \in OverloadState(Ids) /\ OverloadNotes' /\ GhostIsReported'
      /\ \/ /\ overload'.status = overload.status
            /\ overload'.loop = overload.loop
         \/ overload'.status = "failed" /\ overload'.loop = "none"
  BY <1>1, <1>2, <1>3, OverloadSees
<1>6. BurstCounts' /\ BurstCompletes'
  BY <1>1, <1>3, <1>4, BurstKept
<1>7. IdempotencyWaits' /\ SaturationForgets' /\ TerminalCountedOnce'
  BY <1>1, <1>3 DEF IdempotencyWaits, SaturationForgets, TerminalCountedOnce
<1>8. WorldTyped'
  <2>1. returned' \subseteq Ids
    BY <1>2, <1>3 DEF Typed, WorldTyped
  <2> QED BY <1>1, <1>3, <2>1 DEF Typed, WorldTyped, Ids
<1>9. Typed'
  BY <1>1, <1>3, <1>4, <1>5, <1>8 DEF Typed, Ids, Batches
<1>10. LoopsRun' /\ OneActive' /\ OneLive'
  BY <1>1, <1>5, NewsStartsNone
<1> QED BY <1>5, <1>6, <1>7, <1>9, <1>10 DEF LabInv

\* The page is left.
LEMMA DestroyInv ==
  ASSUME LabInv, Destroy
  PROVE  LabInv'
<1> DEFINE ss == SaturationStopped(saturation)
           so == OverloadStopped(overload)
           u == [ss EXCEPT !.ids = {}]
           c == [[[so EXCEPT !.ids = {}] EXCEPT !.rejected = {}]
                   EXCEPT !.ghosts = {}]
<1>1. /\ burst' = BurstCleared(burst)
      /\ idempotency' = IdempotencyCleared(idempotency)
      /\ saturation' = u /\ overload' = OverloadCleared(so)
      /\ batches' = {IF b.test \in {"saturation", "overload"}
                     THEN [b EXCEPT !.live = FALSE] ELSE b : b \in batches}
      /\ UNCHANGED <<made, life, ended, returned, pressure>> /\ mounted' = FALSE
  BY DEF Destroy, worldVars
<1>2. /\ Typed /\ BurstCounts /\ BurstCompletes /\ IdempotencyWaits
      /\ SaturationForgets /\ TerminalCountedOnce /\ LoopsRun /\ OneActive
      /\ OneLive /\ batches \subseteq Batches /\ made \in Nat /\ Ids' = Ids
      /\ saturation \in SaturationState(Ids) /\ overload \in OverloadState(Ids)
  BY <1>1, IdsFinite DEF LabInv, Typed, Ids
<1>3. /\ batches' \subseteq Batches
      /\ \A b \in batches' : IF b.test \in {"saturation", "overload"}
                             THEN ~b.live ELSE b \in batches
  BY <1>1, <1>2, AbandonedFacts
<1>4. /\ burst' \in BurstState(Ids) /\ BurstCounts' /\ BurstCompletes'
      /\ burst'.status = burst.status
  BY <1>1, <1>2, <1>3, BurstClears
<1>5. /\ idempotency' \in IdempotencyState(Ids) /\ IdempotencyWaits'
      /\ idempotency'.status = idempotency.status
  BY <1>1, <1>2, IdempotencyClears
<1>6. /\ saturation' \in SaturationState(Ids) /\ saturation'.ids = {}
      /\ saturation'.first = saturation.first
      /\ saturation'.terminal = saturation.terminal
      /\ saturation'.loop = "none" /\ saturation'.status # "running"
  <2>1. /\ ss \in SaturationState(Ids) /\ ss.first = saturation.first
        /\ ss.terminal = saturation.terminal /\ ss.loop = "none"
        /\ ss.status # "running"
    BY <1>2, SaturationStops DEF LoopsRun
  <2> HIDE DEF ss
  <2>2. {} \in SUBSET Ids
    OBVIOUS
  <2>3. u \in SaturationState(Ids)
    BY <2>1, <2>2, SaturationTypes, Zenon
  <2>4. /\ u.ids = {} /\ u.first = ss.first /\ u.terminal = ss.terminal
        /\ u.loop = ss.loop /\ u.status = ss.status
    BY <2>1 DEF SaturationState
  <2> HIDE DEF u
  <2> QED BY <1>1, <2>1, <2>3, <2>4
<1>7. SaturationForgets' /\ TerminalCountedOnce'
  BY <1>1, <1>2, <1>6, SaturationMoves
<1>8. /\ overload' \in OverloadState(Ids) /\ overload'.ids = {}
      /\ overload'.rejected = {} /\ overload'.ghosts = {}
      /\ overload'.loop = "none"
      /\ overload'.status \notin {"running", "observing"}
  <2>1. /\ so \in OverloadState(Ids) /\ so.loop = "none"
        /\ so.status = IF overload.status \in {"running", "observing"}
                       THEN "stopped" ELSE overload.status
    BY <1>2, OverloadStops, Zenon
  <2>2. so.status \notin {"running", "observing"}
    BY <2>1
  <2>3. overload' = c
    BY <1>1 DEF OverloadCleared
  <2> HIDE DEF so
  <2>4. {} \in SUBSET Ids
    OBVIOUS
  <2>5. c \in OverloadState(Ids)
    <3>1. [so EXCEPT !.ids = {}] \in OverloadState(Ids)
      BY <2>1, <2>4, OverloadTypes, Zenon
    <3>2. [[so EXCEPT !.ids = {}] EXCEPT !.rejected = {}] \in OverloadState(Ids)
      BY <2>4, <3>1, OverloadTypes, Zenon
    <3> QED BY <2>4, <3>2, OverloadTypes, Zenon
  <2>6. /\ c.ids = {} /\ c.rejected = {} /\ c.ghosts = {} /\ c.loop = so.loop
        /\ c.status = so.status
    BY <2>1 DEF OverloadState
  <2> HIDE DEF c
  <2> QED BY <2>1, <2>2, <2>3, <2>5, <2>6
<1>9. OverloadNotes' /\ GhostIsReported'
  BY <1>8 DEF OverloadNotes, GhostIsReported
<1>10. Typed'
  BY <1>1, <1>2, <1>3, <1>4, <1>5, <1>6, <1>8 DEF Typed, WorldTyped, Batches
<1>11. LoopsRun'
  BY <1>6, <1>8 DEF LoopsRun
<1>12. \A t \in Tests : Active(t)' => Active(t)
  BY <1>4, <1>5, <1>6, <1>8, ActiveFacts, NextActiveFacts DEF Tests
<1>13. ASSUME NEW b \in batches', b.live
       PROVE  b \in batches /\ Owed(b.test)'
  <2>1. b \in batches /\ b.test \in {"burst", "idempotency"} /\ Owed(b.test)
    BY <1>2, <1>3, <1>13 DEF OneLive, Batches, Tests
  <2> QED BY <1>4, <1>5, <2>1, ActiveFacts, NextActiveFacts
<1>14. OneActive' /\ OneLive'
  BY <1>2, <1>3, <1>12, <1>13, NoneStarts
<1> QED BY <1>4, <1>5, <1>7, <1>9, <1>10, <1>11, <1>14 DEF LabInv

\* The timeout of the burst, or of the idempotency test.
LEMMA TimeoutInv ==
  ASSUME LabInv, BurstTimeout \/ IdempotencyTimeout
  PROVE  LabInv'
<1>1. /\ Typed /\ BurstCounts /\ BurstCompletes /\ IdempotencyWaits
      /\ LoopsRun /\ OneActive /\ OneLive /\ made \in Nat /\ Ids' = Ids
      /\ UNCHANGED <<made, life, ended, returned, batches, saturation, overload,
                     pressure, mounted>>
  BY IdsFinite DEF LabInv, Ids, BurstTimeout, IdempotencyTimeout, worldVars
<1>2. /\ saturation' \in SaturationState(Ids')
      /\ SaturationForgets' /\ TerminalCountedOnce'
      /\ overload' \in OverloadState(Ids')
      /\ OverloadNotes' /\ GhostIsReported'
  BY <1>1, OthersKept
<1>3. CASE BurstTimeout
  <2>1. /\ burst.timer /\ burst' = BurstTimedOut(burst)
        /\ idempotency' = idempotency
    BY <1>3 DEF BurstTimeout
  <2>2. /\ burst' \in BurstState(Ids) /\ BurstCounts' /\ BurstCompletes'
        /\ burst.status = "observing" /\ burst'.status = "failed"
    BY <1>1, <2>1, BurstTimesOut
  <2>3. idempotency' \in IdempotencyState(Ids') /\ IdempotencyWaits'
    BY <1>1, <2>1, OthersKept
  <2>4. Typed'
    BY <1>1, <1>2, <2>2, <2>3 DEF Typed, WorldTyped, Batches
  <2>5. LoopsRun'
    BY <1>1 DEF LoopsRun
  <2>6. \A t \in Tests : /\ Active(t)' => Active(t)
                         /\ Owed(t) => Owed(t)'
    BY <1>1, <2>1, <2>2, ActiveFacts, NextActiveFacts DEF Tests
  <2>7. \A b \in batches' : b.live => b \in batches /\ Owed(b.test)'
    BY <1>1, <2>6 DEF OneLive, Typed, Batches
  <2>8. OneActive' /\ OneLive'
    BY <1>1, <2>6, <2>7, NoneStarts DEF Typed
  <2> QED BY <1>2, <2>2, <2>3, <2>4, <2>5, <2>8 DEF LabInv
<1>4. CASE IdempotencyTimeout
  <2>1. /\ idempotency.timer /\ idempotency' = IdempotencyTimedOut(idempotency)
        /\ burst' = burst
    BY <1>4 DEF IdempotencyTimeout
  <2>2. /\ idempotency' \in IdempotencyState(Ids) /\ IdempotencyWaits'
        /\ idempotency.status = "observing" /\ idempotency'.status = "failed"
    BY <1>1, <2>1, IdempotencyTimesOut
  <2>3. burst' \in BurstState(Ids') /\ BurstCounts' /\ BurstCompletes'
    BY <1>1, <2>1, OthersKept
  <2>4. Typed'
    BY <1>1, <1>2, <2>2, <2>3 DEF Typed, WorldTyped, Batches
  <2>5. LoopsRun'
    BY <1>1 DEF LoopsRun
  <2>6. \A t \in Tests : /\ Active(t)' => Active(t)
                         /\ Owed(t) => Owed(t)'
    BY <1>1, <2>1, <2>2, ActiveFacts, NextActiveFacts DEF Tests
  <2>7. \A b \in batches' : b.live => b \in batches /\ Owed(b.test)'
    BY <1>1, <2>6 DEF OneLive, Typed, Batches
  <2>8. OneActive' /\ OneLive'
    BY <1>1, <2>6, <2>7, NoneStarts DEF Typed
  <2> QED BY <1>2, <2>2, <2>3, <2>4, <2>5, <2>8 DEF LabInv
<1> QED BY <1>3, <1>4

\* Nothing has happened in a lab that was just opened.
LEMMA InitInv ==
  ASSUME Init
  PROVE  LabInv
<1>1. /\ made = 0 /\ MaxOrders \in Nat /\ Ids = {} /\ batches = {} /\ ended = {}
      /\ returned = {} /\ pressure = FALSE /\ mounted = TRUE
      /\ life = [i \in 1..MaxOrders |-> "none"]
  BY LabAssumption DEF Init, Ids
<1>2. /\ burst = [status |-> "idle", ids |-> {}, terminal |-> {}, published |-> 0,
                  publishFailed |-> 0, timer |-> FALSE]
      /\ idempotency = [status |-> "idle", id |-> 0, published |-> FALSE,
                        statuses |-> {}, timer |-> FALSE]
      /\ saturation = [status |-> "idle", ids |-> {}, terminal |-> 0,
                       loop |-> "none", ticks |-> 0, first |-> 0]
      /\ overload = [status |-> "idle", ids |-> {}, rejected |-> {},
                     ghosts |-> {}, loop |-> "none", ticks |-> 0]
  BY DEF Init, EmptyBurst, EmptyIdempotency, EmptySaturation, EmptyOverload
<1>3. burst \in BurstState(Ids)
  <2>1. FALSE \in BOOLEAN
    OBVIOUS
  <2> QED BY <1>2, <2>1 DEF BurstState
<1>4. idempotency \in IdempotencyState(Ids)
  <2>1. FALSE \in BOOLEAN
    OBVIOUS
  <2> QED BY <1>2, <2>1 DEF IdempotencyState
<1>5. saturation \in SaturationState(Ids)
  BY <1>2 DEF SaturationState, Loads
<1>6. overload \in OverloadState(Ids)
  BY <1>2 DEF OverloadState, Loads
<1>7. WorldTyped
  <2>1. life \in [1..MaxOrders -> Events \union {"none"}]
    BY <1>1
  <2>2. \A i \in 1..MaxOrders : life[i] = "none"
    BY <1>1
  <2>3. pressure \in BOOLEAN /\ mounted \in BOOLEAN
    BY <1>1
  <2>4. made \in 0..MaxOrders
    BY <1>1
  <2> QED BY <1>1, <2>1, <2>2, <2>3, <2>4 DEF WorldTyped
<1>8. Typed
  BY <1>1, <1>3, <1>4, <1>5, <1>6, <1>7 DEF Typed
<1>9. /\ burst.status = "idle" /\ burst.timer = FALSE /\ burst.terminal = {}
      /\ idempotency.status = "idle" /\ idempotency.timer = FALSE
      /\ saturation.status = "idle" /\ saturation.loop = "none"
      /\ saturation.ids = {} /\ saturation.terminal = 0 /\ saturation.first = 0
      /\ overload.status = "idle" /\ overload.loop = "none" /\ overload.ids = {}
      /\ overload.rejected = {} /\ overload.ghosts = {}
  BY <1>2
<1>10. OneActive /\ OneLive /\ LoopsRun
  BY <1>1, <1>9, ActiveFacts DEF OneActive, OneLive, LoopsRun, Tests
<1>11. BurstCounts /\ BurstCompletes /\ IdempotencyWaits
  BY <1>9 DEF BurstCounts, BurstCompletes, IdempotencyWaits
<1>12. SaturationForgets
  BY <1>1, <1>9 DEF SaturationForgets
<1>13. TerminalCountedOnce
  BY <1>8, <1>9, EndedFinite DEF TerminalCountedOnce
<1>14. OverloadNotes /\ GhostIsReported
  BY <1>1, <1>9 DEF OverloadNotes, GhostIsReported
<1> QED BY <1>8, <1>10, <1>11, <1>12, <1>13, <1>14 DEF LabInv

\* Every step keeps the invariant.
LEMMA StepInv ==
  ASSUME LabInv, [Next]_vars
  PROVE  LabInv'
<1>1. CASE UserStep
  BY <1>1, RunIdempotencyInv, StartSaturationInv, SaturationEndInv,
     OverloadEndInv, DestroyInv, RunBurstInv, StartOverloadInv DEF UserStep
<1>2. CASE LoopStep
  BY <1>2, SaturationRoundInv, SaturationEndInv, OverloadRoundInv,
     OverloadEndInv DEF LoopStep
<1>3. CASE BurstTimeout \/ IdempotencyTimeout
  BY <1>3, TimeoutInv
<1>4. CASE \E b \in batches : Settle(b)
  BY <1>4, SettleInv
<1>5. CASE \E id \in Ids : OrderStatus(id)
  BY <1>5, OrderStatusInv
<1>6. CASE PressureSnapshot
  BY <1>6, PressureSnapshotInv
<1>7. CASE UNCHANGED vars
  <2>1. /\ Typed /\ LoopsRun /\ OneActive /\ OneLive /\ made \in Nat /\ Ids' = Ids
        /\ UNCHANGED <<made, life, ended, returned, batches, burst, idempotency,
                       saturation, overload, pressure, mounted>>
    BY <1>7, IdsFinite DEF LabInv, Ids, vars, worldVars
  <2>2. /\ burst' \in BurstState(Ids') /\ BurstCounts' /\ BurstCompletes'
        /\ idempotency' \in IdempotencyState(Ids') /\ IdempotencyWaits'
        /\ saturation' \in SaturationState(Ids')
        /\ SaturationForgets' /\ TerminalCountedOnce'
        /\ overload' \in OverloadState(Ids')
        /\ OverloadNotes' /\ GhostIsReported'
    BY <2>1, OthersKept
  <2>3. Typed'
    BY <2>1, <2>2 DEF Typed, WorldTyped, Batches
  <2>4. LoopsRun'
    BY <2>1 DEF LoopsRun
  <2>5. \A t \in Tests : (Active(t)' <=> Active(t)) /\ (Owed(t)' <=> Owed(t))
    BY <2>1, ActiveFacts, NextActiveFacts DEF Tests
  <2>6. \A b \in batches' : b.live => b \in batches /\ Owed(b.test)'
    BY <2>1, <2>5 DEF OneLive, Typed, Batches
  <2>7. OneActive' /\ OneLive'
    BY <2>1, <2>5, <2>6, NoneStarts DEF Typed
  <2> QED BY <2>2, <2>3, <2>4, <2>7 DEF LabInv
<1> QED BY <1>1, <1>2, <1>3, <1>4, <1>5, <1>6, <1>7 DEF Next

-----------------------------------------------------------------------------
(* What the lab promises.                                                  *)

\* The inductive invariant holds of every behaviour of the lab: whatever the
\* service does, however many orders a test makes and whenever they settle.
THEOREM LabInvariant == Spec => []LabInv
<1>1. Init => LabInv
  BY InitInv
<1>2. LabInv /\ [Next]_vars => LabInv'
  BY StepInv
<1> QED BY <1>1, <1>2, PTL DEF Spec

\* Every test stays in a state of its type, and a timer runs only for a test
\* that observes (#clear and the timeouts of burst.ts and idempotency.ts).
THEOREM LabTyped == Spec => []TypeOK
<1>1. LabInv => TypeOK
  BY LabAssumption DEF LabInv, Typed, WorldTyped, BurstCounts, IdempotencyWaits,
     Batches, BurstState, IdempotencyState, SaturationState, OverloadState, Loads,
     Ids, TypeOK
<1> QED BY <1>1, LabInvariant, PTL

\* A refused order that is seen as work fails the overload run that made it,
\* also when a status or a snapshot comes after the run was stopped, or while
\* its publishes are under way; and nothing else is called a ghost.
THEOREM GhostReported == Spec => []GhostIsReported
<1>1. LabInv => GhostIsReported
  BY DEF LabInv
<1> QED BY <1>1, LabInvariant, PTL

\* A saturation run counts an order at most once as ended, in spite of events
\* that come again and of publishes of an earlier run that settle in it.
THEOREM CountedOnce == Spec => []TerminalCountedOnce
<1>1. LabInv => TerminalCountedOnce
  BY DEF LabInv
<1> QED BY <1>1, LabInvariant, PTL

\* A burst none of whose publishes failed completes only with all its orders
\* ended, in whatever order the publishes settle and the events come.
THEOREM BurstIsComplete == Spec => []BurstCompletes
<1>1. LabInv => BurstCompletes
  BY DEF LabInv
<1> QED BY <1>1, LabInvariant, PTL

\* The test whose publish is awaited is the active one, and no other is.
LEMMA LiveIsActive ==
  ASSUME LabInv
  PROVE  \A b \in batches : b.live => {test \in Tests : Active(test)} = {b.test}
<1> SUFFICES ASSUME NEW b \in batches, b.live
             PROVE  {test \in Tests : Active(test)} = {b.test}
  OBVIOUS
<1>1. b.test \in Tests /\ Owed(b.test)
  BY DEF LabInv, OneLive, Typed, Batches
<1>2. Active(b.test)
  BY <1>1, OwedIsActive DEF LabInv
<1> QED BY <1>1, <1>2 DEF LabInv, OneActive

\* A test hands out a publish only while it is the one active test: never after
\* it was stopped, aborted or destroyed during an earlier publish.
THEOREM OneTestPublishes == Spec => OnlyTheActiveTestPublishes
<1> DEFINE Sole == \A b \in batches :
                     b.live => {test \in Tests : Active(test)} = {b.test}
<1>1. LabInv => Sole
  BY LiveIsActive
<1>2. Sole' => \A b \in batches' \ batches :
                 b.live => {test \in Tests : Active(test)'} = {b.test}
  OBVIOUS
<1> HIDE DEF Sole
<1> QED BY <1>1, <1>2, LabInvariant, PTL DEF OnlyTheActiveTestPublishes

\* A number is its quarters and what is left of them.
LEMMA QuarterFacts ==
  ASSUME NEW n \in Nat
  PROVE  /\ n \div 4 \in Nat /\ (n % 4) \in Nat
         /\ (n % 4) \in 0..3 /\ 4 * (n \div 4) + (n % 4) = n
<1>1. n \div 4 \in Nat
  BY SMT
<1>2. (n % 4) \in 0..3
  BY SMT
<1>3. 4 * (n \div 4) + (n % 4) = n
  BY SMT
<1> QED BY <1>1, <1>2, <1>3

\* No round of overload loses a fraction of an order, at any rate and in any
\* run: what it publishes and what it keeps is what it had and a quarter of the
\* rate, and it keeps less than an order (overload.ts:81-83).
LEMMA RoundKeepsRate ==
  ASSUME NEW rate \in Nat, NEW load \in [sent : Nat, budget : 0..3]
  PROVE  LET next == Round(load, rate) IN
         /\ next \in [sent : Nat, budget : 0..3]
         /\ 4 * next.sent + next.budget = 4 * load.sent + load.budget + rate
<1> DEFINE n == load.budget + rate
           d == n \div 4
           m == n % 4
<1>1. n \in Nat /\ load.sent \in Nat /\ load.budget \in Nat
  OBVIOUS
<1>2. d \in Nat /\ m \in Nat /\ m \in 0..3 /\ 4 * d + m = n
  BY <1>1, QuarterFacts
<1>3. Round(load, rate) = [sent |-> load.sent + d, budget |-> m]
  BY DEF Round
<1> HIDE DEF d, m
<1>4. 4 * (load.sent + d) + m = 4 * load.sent + load.budget + rate
  BY <1>1, <1>2
<1> QED BY <1>1, <1>2, <1>3, <1>4

\* The rounds of a run, one after the other: Load is what Round makes of them.
LEMMA LoadFacts ==
  ASSUME NEW rate \in Nat, NEW N \in Nat
  PROVE  /\ Load(rate, N) \in [0..N -> [sent : Nat, budget : 0..3]]
         /\ Load(rate, N)[0] = [sent |-> 0, budget |-> 0]
         /\ \A n \in 1..N : Load(rate, N)[n] = Round(Load(rate, N)[n - 1], rate)
<1> DEFINE S == [sent : Nat, budget : 0..3]
           b == [sent |-> 0, budget |-> 0]
           g == [n \in 1..N |-> [l \in S |-> Round(l, rate)]]
<1>1. b \in S
  OBVIOUS
<1>2. \A l \in S : Round(l, rate) \in S
  <2> SUFFICES ASSUME NEW l \in S
               PROVE  Round(l, rate) \in S
    OBVIOUS
  <2> QED BY RoundKeepsRate, Zenon
<1> HIDE DEF b
<1>3. \E f \in [0..N -> S] : f = [n \in 0..N |-> IF n = 0 THEN b
                                              ELSE Round(f[n - 1], rate)]
  <2>1. g \in [1..N -> [S -> S]]
    BY <1>2
  <2> HIDE DEF S, g
  <2>2. PICK f : Iterates(f, N, S, b, g)
    BY <1>1, <2>1, Recursion
  <2>3. /\ f \in [0..N -> S] /\ f[0] = b
        /\ \A n \in 1..N : f[n] = g[n][f[n - 1]]
    BY <2>2 DEF Iterates
  <2>4. \A n \in 1..N : f[n] = Round(f[n - 1], rate)
    <3> SUFFICES ASSUME NEW n \in 1..N
                 PROVE  f[n] = Round(f[n - 1], rate)
      OBVIOUS
    <3>1. f[n - 1] \in S
      BY <2>3
    <3>2. g[n] = [l \in S |-> Round(l, rate)]
      BY DEF g
    <3> QED BY <2>3, <3>1, <3>2
  <2> HIDE DEF S
  <2>5. f = [n \in 0..N |-> IF n = 0 THEN b ELSE Round(f[n - 1], rate)]
    BY <2>3, <2>4
  <2> QED BY <2>3, <2>5
<1> DEFINE k == Load(rate, N)
<1>4. k = [n \in 0..N |-> IF n = 0 THEN b ELSE Round(k[n - 1], rate)]
  BY <1>3 DEF Load, b
<1> HIDE DEF k
<1>5. k[0] = b /\ \A n \in 1..N : k[n] = Round(k[n - 1], rate)
  BY <1>4
<1> HIDE DEF S
<1>6. \A n \in 0..N : k[n] \in S
  <2> DEFINE T == {n \in 0..N : k[n] \in S}
  <2>1. 0 \in T /\ \A n \in 1..N : n - 1 \in T => n \in T
    BY <1>1, <1>2, <1>5
  <2> HIDE DEF T
  <2>2. \A n \in 0..N : n \in T
    BY <2>1, SetInduction
  <2> QED BY <2>2 DEF T
<1>7. k \in [0..N -> S]
  BY <1>4, <1>6
<1> QED BY <1>5, <1>7 DEF k, b, S

\* So many rounds at a rate publish what the rate says, down to the last whole
\* order, for any rate and any number of rounds.
THEOREM LoadIsRate ==
  ASSUME NEW rate \in Nat, NEW N \in Nat, NEW n \in 0..N
  PROVE  Load(rate, N)[n].sent = (n * rate) \div 4
<1> DEFINE k == Load(rate, N)
           S == [sent : Nat, budget : 0..3]
           T == {m \in 0..N : 4 * k[m].sent + k[m].budget = m * rate}
<1>1. /\ k \in [0..N -> S] /\ k[0] = [sent |-> 0, budget |-> 0]
      /\ \A m \in 1..N : k[m] = Round(k[m - 1], rate)
  BY LoadFacts
<1> HIDE DEF k
<1>2. 0 \in T
  BY <1>1
<1>3. ASSUME NEW m \in 1..N, m - 1 \in T
      PROVE  m \in T
  <2>1. m - 1 \in 0..N /\ k[m - 1] \in S /\ k[m] = Round(k[m - 1], rate)
    BY <1>1
  <2>2. 4 * k[m].sent + k[m].budget
          = 4 * k[m - 1].sent + k[m - 1].budget + rate
    BY <2>1, RoundKeepsRate, Zenon
  <2>3. 4 * k[m - 1].sent + k[m - 1].budget = (m - 1) * rate
    BY <1>3
  <2>4. (m - 1) * rate + rate = m * rate
    OBVIOUS
  <2>5. 4 * k[m].sent + k[m].budget = m * rate
    <3> DEFINE x == 4 * k[m].sent + k[m].budget
               y == 4 * k[m - 1].sent + k[m - 1].budget
    <3>1. x = y + rate /\ y = (m - 1) * rate
      BY <2>2, <2>3
    <3> HIDE DEF x, y
    <3>2. x = m * rate
      BY <2>4, <3>1
    <3> QED BY <3>2 DEF x
  <2> QED BY <2>5
<1> HIDE DEF T
<1>4. n \in T
  BY <1>2, <1>3, SetInduction
<1>5. 4 * k[n].sent + k[n].budget = n * rate
  BY <1>4 DEF T
<1>6. k[n].sent \in Nat /\ k[n].budget \in 0..3
  BY <1>1
<1>7. k[n].sent = (4 * k[n].sent + k[n].budget) \div 4
  <2> DEFINE s == k[n].sent
             b == k[n].budget
  <2>1. s \in Nat /\ b \in 0..3
    BY <1>6
  <2> HIDE DEF s, b
  <2>2. s = (4 * s + b) \div 4
    BY <2>1, SMT
  <2> QED BY <2>2 DEF s, b
<1> QED BY <1>5, <1>7 DEF k

\* The fractions of an order a round may not publish are not lost
\* (overload.ts:81-83); by LoadIsRate not at any other rate or length either.
THEOREM KeepsRate == Spec => []OverloadKeepsRate
<1>1. OverloadKeepsRate
  <2> SUFFICES ASSUME NEW rate \in 20..200, NEW n \in 0..20
               PROVE  Load(rate, 20)[n].sent = (n * rate) \div 4
    BY DEF OverloadKeepsRate
  <2>1. rate \in Nat /\ 20 \in Nat
    OBVIOUS
  <2> QED BY <2>1, LoadIsRate
<1> QED BY <1>1, PTL
=============================================================================
