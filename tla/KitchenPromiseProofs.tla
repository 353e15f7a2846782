------------------------ MODULE KitchenPromiseProofs ------------------------
(***************************************************************************)
(* OrderService implements Kitchen: every step of the service is a step of *)
(* the abstract kitchen, or none, for any numbers of orders and workers    *)
(* and any capacities.                                                     *)
(***************************************************************************)
EXTENDS OrderServiceProofs

\* The place of an order by what the registry says of it.
PlaceFor ==
  [absent |-> "out", failed |-> "out", queued |-> "waiting",
   processing |-> "cooking", food_ready |-> "ready", published |-> "served"]

\* The place that goes with each status.
LEMMA PlaceForFacts ==
  /\ PlaceFor["absent"] = "out" /\ PlaceFor["failed"] = "out"
  /\ PlaceFor["queued"] = "waiting" /\ PlaceFor["processing"] = "cooking"
  /\ PlaceFor["food_ready"] = "ready" /\ PlaceFor["published"] = "served"
BY DEF PlaceFor

\* Where the code holds an order is where the registry says it is.
Mapped ==
  IF Running THEN placeOf = [k \in Keys |-> PlaceFor[status[k]]]
             ELSE placeOf = [k \in Keys |-> "out"]

\* On a running service the queue, the workers and the updates hold an order
\* exactly where its status says.
LEMMA MappedByStatus == ServiceInv => Mapped
<1> SUFFICES ASSUME ServiceInv PROVE Mapped
  OBVIOUS
<1>1. CASE ~Running
  BY <1>1 DEF Mapped, placeOf
<1>2. CASE Running
  <2> DEFINE waits(k) == Contains(queue, k)
             cooks(k) == \E w \in Workers : working[w] = k
             ready(k) == ReadyFor(updates, k)
  <2>1. ASSUME NEW k \in Keys
        PROVE  /\ status[k] \in {"absent", "failed", "queued", "processing",
                                 "food_ready", "published"}
               /\ waits(k) <=> status[k] = "queued"
               /\ cooks(k) <=> status[k] = "processing"
               /\ ready(k) <=> status[k] = "food_ready"
    <3>1. status[k] \in {"absent", "failed", "queued", "processing",
                         "food_ready", "published"}
      BY <1>2, InvFacts DEF Statuses
    <3>2. waits(k) <=> status[k] = "queued"
      BY <1>2, InvFacts
    <3>3. cooks(k) <=> status[k] = "processing"
      <4>1. NoKey # k
        BY ServiceAssumption
      <4> QED BY <1>2, <4>1, InvFacts
    <3>4. ready(k) <=> status[k] = "food_ready"
      BY <1>2 DEF ServiceInv, ReadyIsOnItsWay
    <3> QED BY <3>1, <3>2, <3>3, <3>4
  <2>2. placeOf = [k \in Keys |-> IF waits(k) THEN "waiting"
                                  ELSE IF cooks(k) THEN "cooking"
                                  ELSE IF ready(k) THEN "ready"
                                  ELSE IF status[k] = "published"
                                       THEN "served" ELSE "out"]
    BY <1>2 DEF placeOf
  <2> HIDE DEF waits, cooks, ready
  <2>3. ASSUME NEW k \in Keys
        PROVE  (IF waits(k) THEN "waiting" ELSE IF cooks(k) THEN "cooking"
                ELSE IF ready(k) THEN "ready"
                ELSE IF status[k] = "published" THEN "served" ELSE "out")
               = PlaceFor[status[k]]
    BY <2>1, PlaceForFacts
  <2>4. placeOf = [k \in Keys |-> PlaceFor[status[k]]]
    BY <2>2, <2>3
  <2> QED BY <1>2, <2>4 DEF Mapped
<1> QED BY <1>1, <1>2

-----------------------------------------------------------------------------
(* The room in the kitchen.                                                *)

\* The kitchen counts as the service does.
LEMMA SameCount == \A S : Promise!Cardinality(S) = Cardinality(S)
BY DEF Cardinality, Promise!Cardinality

\* An injective sequence holds as many elements as it is long.
LEMMA HeldByQueue ==
  ASSUME NEW S, NEW s \in Seq(S), IsInjective(s)
  PROVE  LET held == {x \in S : Contains(s, x)} IN
         IsFiniteSet(held) /\ Cardinality(held) = Len(s)
<1> DEFINE held == {x \in S : Contains(s, x)}
<1>1. Len(s) \in Nat /\ DOMAIN s = 1..Len(s) /\ s = [i \in 1..Len(s) |-> s[i]]
      /\ \A i \in 1..Len(s) : s[i] \in S
  OBVIOUS
<1>2. s \in Bijection(1..Len(s), held)
  <2>1. s \in [1..Len(s) -> held]
    BY <1>1 DEF Contains
  <2>2. \A i, j \in 1..Len(s) : s[i] = s[j] => i = j
    BY <1>1 DEF IsInjective
  <2>3. \A x \in held : \E i \in 1..Len(s) : s[i] = x
    BY <1>1 DEF Contains
  <2> QED BY <2>1, <2>2, <2>3
          DEF Bijection, Injection, Surjection, IsInjective
<1>3. ExistsBijection(1..Len(s), held)
  BY <1>2 DEF ExistsBijection
<1>4. Cardinality(held) = Len(s)
  BY <1>1, <1>3, FS_CountingElements
<1>5. IsFiniteSet(held)
  BY <1>1, <1>3, FS_NatBijection
<1> QED BY <1>4, <1>5

\* While the queue has room, a waiting order fits in.
LEMMA QueueHasRoom ==
  ASSUME ServiceInv, Running, Len(queue) < QueueCapacity
  PROVE  Cardinality(Promise!At("waiting")) < QueueCapacity
<1>1. placeOf = [k \in Keys |-> PlaceFor[status[k]]]
  BY MappedByStatus DEF Mapped
<1>2. \A k \in Keys : placeOf[k] = "waiting" <=> Contains(queue, k)
  BY <1>1 DEF placeOf
<1>3. Promise!At("waiting") = {k \in Keys : Contains(queue, k)}
  BY <1>2 DEF Promise!At
<1>4. queue \in Seq(Keys) /\ IsInjective(queue)
  BY InvFacts
<1>5. Cardinality({k \in Keys : Contains(queue, k)}) = Len(queue)
  BY <1>4, HeldByQueue
<1> QED BY <1>3, <1>5

\* While a worker is idle, another order may be cooked.
LEMMA WorkerIsFree ==
  ASSUME ServiceInv, Running, NEW w \in Workers, working[w] = NoKey
  PROVE  Cardinality(Promise!At("cooking")) < Cardinality(Workers)
<1> DEFINE cooked == Promise!At("cooking")
           others == Workers \ {w}
           cook == [k \in cooked |-> CHOOSE v \in Workers : working[v] = k]
<1>1. \A k \in cooked : k \in Keys /\ \E v \in Workers : working[v] = k
  BY DEF Promise!At, placeOf
<1>2. cook \in Injection(cooked, others)
  <2>1. ASSUME NEW k \in cooked
        PROVE  cook[k] \in others /\ working[cook[k]] = k
    <3>1. cook[k] \in Workers /\ working[cook[k]] = k
      BY <1>1
    <3>2. k # NoKey
      BY <1>1, ServiceAssumption
    <3> QED BY <3>1, <3>2
  <2> QED BY <2>1 DEF Injection, IsInjective
<1>3. /\ IsFiniteSet(others) /\ Cardinality(others) = Cardinality(Workers) - 1
      /\ Cardinality(Workers) \in Nat /\ Cardinality(others) \in Nat
  BY ServiceAssumption, FS_RemoveElement, FS_CardinalityType
<1>4. IsFiniteSet(cooked) /\ Cardinality(cooked) <= Cardinality(others)
  BY <1>2, <1>3, FS_Injection
<1>5. Cardinality(cooked) \in Nat
  BY <1>4, FS_CardinalityType
<1> QED BY <1>3, <1>4, <1>5

-----------------------------------------------------------------------------
(* The steps.                                                              *)

\* An order alone changes its status.
LEMMA MovedAlone ==
  ASSUME ServiceInv, ServiceInv', Running, Running', NEW k \in Keys, NEW s,
         \A x \in Keys : status'[x] = IF x = k THEN s ELSE status[x]
  PROVE  /\ placeOf[k] = PlaceFor[status[k]]
         /\ placeOf' = Promise!Moved(k, PlaceFor[s], {})
<1>1. placeOf = [x \in Keys |-> PlaceFor[status[x]]]
  BY MappedByStatus DEF Mapped
<1>2. Mapped'
  BY MappedByStatus, PTL
<1>3. placeOf' = [x \in Keys |-> PlaceFor[status'[x]]]
  BY <1>2 DEF Mapped
<1> QED BY <1>1, <1>3 DEF Promise!Moved

\* No order changes its status, or none that the kitchen can tell.
LEMMA NothingMoved ==
  ASSUME ServiceInv, ServiceInv', Running, Running',
         \A k \in Keys : PlaceFor[status'[k]] = PlaceFor[status[k]]
  PROVE  placeOf' = placeOf
<1>1. placeOf = [x \in Keys |-> PlaceFor[status[x]]]
  BY MappedByStatus DEF Mapped
<1>2. Mapped'
  BY MappedByStatus, PTL
<1>3. placeOf' = [x \in Keys |-> PlaceFor[status'[x]]]
  BY <1>2 DEF Mapped
<1> QED BY <1>1, <1>3

\* Storing an entry for o moves its key; at most one other order moves, a
\* published one that the registry forgets.
LEMMA EntryMoves ==
  ASSUME ServiceInv, Running, NEW o \in Orders, NEW s \in Statuses,
         Enters(o, s) \/ Retries(o, s)
  PROVE  /\ o.key \in Keys /\ status[o.key] \in {"absent", "failed"}
         /\ \E gone \in {{}} \union {{x} : x \in Keys} :
              /\ \A x \in gone : status[x] = "published"
              /\ \A x \in Keys :
                   PlaceFor[status'[x]] =
                     IF x = o.key THEN PlaceFor[s]
                     ELSE IF x \in gone THEN "out" ELSE PlaceFor[status[x]]
<1>1. /\ o.key \in Keys /\ registered \in Seq(Keys)
      /\ status \in [Keys -> Statuses \union {"absent", "raised"}]
  BY DEF Orders, ServiceInv, TypeOK
<1>2. ASSUME \A x \in Keys :
               PlaceFor[status'[x]] =
                 IF x = o.key THEN PlaceFor[s] ELSE PlaceFor[status[x]]
      PROVE  \E gone \in {{}} \union {{x} : x \in Keys} :
               /\ \A x \in gone : status[x] = "published"
               /\ \A x \in Keys :
                    PlaceFor[status'[x]] =
                      IF x = o.key THEN PlaceFor[s]
                      ELSE IF x \in gone THEN "out" ELSE PlaceFor[status[x]]
  <2>1. {} \in {{}} \union {{x} : x \in Keys}
    OBVIOUS
  <2>2. WITNESS {} \in {{}} \union {{x} : x \in Keys}
  <2> QED BY <1>2
<1>3. CASE Retries(o, s)
  <2>1. /\ status[o.key] = "failed"
        /\ \A x \in Keys : status'[x] = IF x = o.key THEN s ELSE status[x]
    BY <1>1, <1>3 DEF Retries
  <2> QED BY <1>1, <1>2, <2>1
<1>4. CASE Enters(o, s)
  <2>1. PICK i \in 0..Len(registered) :
          /\ MakesRoom(i)
          /\ status' = [k \in Keys |->
               IF k = o.key THEN s
               ELSE IF k \in (IF i = 0 THEN {} ELSE {registered[i]})
                    THEN "absent" ELSE status[k]]
    BY <1>4 DEF Enters
  <2>2. status[o.key] = "absent"
    BY <1>4 DEF Enters
  <2>3. CASE i = 0
    <3>1. \A x \in Keys : status'[x] = IF x = o.key THEN s ELSE status[x]
      BY <2>1, <2>3
    <3> QED BY <1>1, <1>2, <2>2, <3>1
  <2>4. CASE i # 0
    <3> DEFINE g == registered[i]
    <3>1. g \in Keys /\ status[g] \in Terminal
      BY <1>1, <2>1, <2>4 DEF MakesRoom, Evictable
    <3>2. \A x \in Keys : status'[x] = IF x = o.key THEN s
                             ELSE IF x = g THEN "absent" ELSE status[x]
      BY <2>1, <2>4
    <3> HIDE DEF g
    <3>3. CASE status[g] = "published"
      <4>1. \A x \in Keys :
              PlaceFor[status'[x]] =
                IF x = o.key THEN PlaceFor[s]
                ELSE IF x \in {g} THEN "out" ELSE PlaceFor[status[x]]
        BY <3>2, PlaceForFacts
      <4>2. {g} \in {{}} \union {{x} : x \in Keys}
        BY <3>1
      <4>3. \A x \in {g} : status[x] = "published"
        BY <3>3
      <4> QED BY <1>1, <2>2, <4>1, <4>2, <4>3
    <3>4. CASE status[g] = "failed"
      <4>1. \A x \in Keys :
              PlaceFor[status'[x]] =
                IF x = o.key THEN PlaceFor[s] ELSE PlaceFor[status[x]]
        BY <3>2, <3>4, PlaceForFacts
      <4> QED BY <1>1, <1>2, <2>2, <4>1
    <3> QED BY <3>1, <3>3, <3>4 DEF Terminal
  <2> QED BY <2>3, <2>4
<1> QED BY <1>3, <1>4

\* An admitted request is an admission to the kitchen.
LEMMA AdmittedIsAdmit ==
  ASSUME ServiceInv, ServiceInv', Running, Running', NEW o \in Orders,
         ReceiveAdmitted(o)
  PROVE  Promise!Admit(o.key)
<1>1. Len(queue) < QueueCapacity /\ (Enters(o, "queued") \/ Retries(o, "queued"))
  BY ReducerFacts DEF ReceiveAdmitted
<1>2. o.key \in Keys /\ status[o.key] \in {"absent", "failed"}
  BY <1>1, EntryMoves DEF Statuses
<1>3. PICK gone \in {{}} \union {{x} : x \in Keys} :
        /\ \A x \in gone : status[x] = "published"
        /\ \A x \in Keys :
             PlaceFor[status'[x]] =
               IF x = o.key THEN PlaceFor["queued"]
               ELSE IF x \in gone THEN "out" ELSE PlaceFor[status[x]]
  BY <1>1, EntryMoves DEF Statuses
<1>4. placeOf = [x \in Keys |-> PlaceFor[status[x]]]
  BY MappedByStatus DEF Mapped
<1>5. Mapped'
  BY MappedByStatus, PTL
<1>6. placeOf' = [x \in Keys |-> PlaceFor[status'[x]]]
  BY <1>5 DEF Mapped
<1>7. placeOf[o.key] = "out"
  BY <1>2, <1>4, PlaceForFacts
<1>8. Cardinality(Promise!At("waiting")) < QueueCapacity
  BY <1>1, QueueHasRoom
<1>9. Promise!Forgettable(gone)
  <2>1. gone \subseteq Promise!At("served")
    BY <1>3, <1>4, PlaceForFacts DEF Promise!At
  <2>2. Cardinality(gone) <= 1
    <3>1. CASE gone = {}
      BY <3>1, FS_EmptySet
    <3>2. ASSUME NEW x \in Keys, gone = {x} PROVE Cardinality(gone) <= 1
      BY <3>2, FS_Singleton
    <3> QED BY <1>3, <3>1, <3>2
  <2> QED BY <2>1, <2>2, SameCount DEF Promise!Forgettable
<1>10. placeOf' = Promise!Moved(o.key, "waiting", gone)
  BY <1>3, <1>4, <1>6, PlaceForFacts DEF Promise!Moved
<1> QED BY <1>3, <1>7, <1>8, <1>9, <1>10, SameCount DEF Promise!Admit

\* A refused request at most makes the kitchen forget a served order.
LEMMA RefusedIsForget ==
  ASSUME ServiceInv, ServiceInv', Running, Running', NEW o \in Orders,
         ReceiveQueueFull(o)
  PROVE  (\E k \in Keys : Promise!Forget(k)) \/ placeOf' = placeOf
<1>1. Enters(o, "failed") \/ Retries(o, "failed")
  BY ReducerFacts DEF ReceiveQueueFull
<1>2. o.key \in Keys /\ status[o.key] \in {"absent", "failed"}
  BY <1>1, EntryMoves DEF Statuses
<1>3. PICK gone \in {{}} \union {{x} : x \in Keys} :
        /\ \A x \in gone : status[x] = "published"
        /\ \A x \in Keys :
             PlaceFor[status'[x]] =
               IF x = o.key THEN PlaceFor["failed"]
               ELSE IF x \in gone THEN "out" ELSE PlaceFor[status[x]]
  BY <1>1, EntryMoves DEF Statuses
<1>4. placeOf = [x \in Keys |-> PlaceFor[status[x]]]
  BY MappedByStatus DEF Mapped
<1>5. Mapped'
  BY MappedByStatus, PTL
<1>6. placeOf' = [x \in Keys |-> PlaceFor[status'[x]]]
  BY <1>5 DEF Mapped
<1>7. CASE gone = {}
  BY <1>2, <1>3, <1>4, <1>6, <1>7, PlaceForFacts
<1>8. ASSUME NEW g \in Keys, gone = {g} PROVE Promise!Forget(g)
  <2>1. status[g] = "published"
    BY <1>3, <1>8
  <2>2. placeOf[g] = "served"
    BY <1>4, <2>1, PlaceForFacts
  <2>3. \A x \in Keys : PlaceFor[status'[x]] =
                          IF x = g THEN "out" ELSE PlaceFor[status[x]]
    BY <1>2, <1>3, <1>8, <2>1, PlaceForFacts
  <2>4. placeOf' = Promise!Moved(g, "out", {})
    BY <1>4, <1>6, <2>3 DEF Promise!Moved
  <2> QED BY <2>2, <2>4 DEF Promise!Forget
<1> QED BY <1>3, <1>7, <1>8

\* A request that is handled is one step of the kitchen, or none.
LEMMA HandleMessageKeepsPromise ==
  ASSUME ServiceInv, ServiceInv', Running, Running', NEW o \in Orders,
         HandleMessage(o)
  PROVE  Promise!Next \/ placeOf' = placeOf
<1>1. o.key \in Keys
  BY DEF Orders
<1>2. CASE ReceiveAdmitted(o)
  BY <1>1, <1>2, AdmittedIsAdmit DEF Promise!Next
<1>3. CASE ReceiveQueueFull(o)
  BY <1>3, RefusedIsForget DEF Promise!Next
<1>4. CASE ReceiveRegistryFull(o) \/ ReceiveIgnored(o) \/ ReceiveDeferred(o)
  <2>1. status' = status
    BY <1>4 DEF ReceiveRegistryFull, ReceiveIgnored, ReceiveDeferred,
                registryVars
  <2> QED BY <2>1, NothingMoved
<1>5. CASE ReceiveRepublish(o)
  <2>1. /\ status[o.key] = "published"
        /\ status' = [status EXCEPT ![o.key] = "food_ready"]
    BY <1>5, ReducerFacts DEF ReceiveRepublish
  <2>2. \A x \in Keys : status'[x] = IF x = o.key THEN "food_ready"
                                     ELSE status[x]
    BY <2>1, InvFacts
  <2>3. /\ placeOf[o.key] = PlaceFor["published"]
        /\ placeOf' = Promise!Moved(o.key, PlaceFor["food_ready"], {})
    BY <1>1, <2>1, <2>2, MovedAlone
  <2> QED BY <1>1, <2>3, PlaceForFacts DEF Promise!Replay, Promise!Next
<1> QED BY <1>2, <1>3, <1>4, <1>5 DEF HandleMessage

\* A worker that starts cooks; one that finishes prepares or spoils.
LEMMA WorkKeepsPromise ==
  ASSUME ServiceInv, ServiceInv', Running, Running', NEW w \in Workers, Work(w)
  PROVE  Promise!Next
<1>1. CASE WorkerStart(w)
  <2> DEFINE k == Head(queue)
  <2>1. k \in Keys /\ status[k] = "queued" /\ working[w] = NoKey
    BY <1>1, StartsQueued DEF WorkerStart
  <2>2. status' = [status EXCEPT ![k] = "processing"]
    BY <1>1, <2>1, ReducerFacts DEF WorkerStart
  <2> HIDE DEF k
  <2>3. \A x \in Keys : status'[x] = IF x = k THEN "processing" ELSE status[x]
    BY <2>1, <2>2, InvFacts
  <2>4. /\ placeOf[k] = PlaceFor["queued"]
        /\ placeOf' = Promise!Moved(k, PlaceFor["processing"], {})
    BY <2>1, <2>3, MovedAlone
  <2>5. Promise!Cook(k)
    BY <2>1, <2>4, WorkerIsFree, SameCount, PlaceForFacts DEF Promise!Cook
  <2> QED BY <2>1, <2>5 DEF Promise!Next
<1>2. CASE WorkerPrepared(w) \/ WorkerFailed(w)
  <2> DEFINE k == working[w]
  <2>1. k \in Keys /\ status[k] = "processing"
    BY <1>2, FinishesProcessing DEF WorkerPrepared, WorkerFailed, Finish
  <2>2. PICK s \in {"food_ready", "failed"} : status' = [status EXCEPT ![k] = s]
    BY <1>2, <2>1, ReducerFacts DEF WorkerPrepared, WorkerFailed, Finish
  <2> HIDE DEF k
  <2>3. \A x \in Keys : status'[x] = IF x = k THEN s ELSE status[x]
    BY <2>1, <2>2, InvFacts
  <2>4. /\ placeOf[k] = PlaceFor["processing"]
        /\ placeOf' = Promise!Moved(k, PlaceFor[s], {})
    BY <2>1, <2>3, MovedAlone
  <2>5. Promise!Prepare(k) \/ Promise!Spoil(k)
    BY <2>4, PlaceForFacts DEF Promise!Prepare, Promise!Spoil
  <2> QED BY <2>1, <2>5 DEF Promise!Next
<1> QED BY <1>1, <1>2 DEF Work

\* Only the publisher's confirmation moves an order: it is served.
LEMMA PublishKeepsPromise ==
  ASSUME ServiceInv, ServiceInv', Running, Running', Publish
  PROVE  Promise!Next \/ placeOf' = placeOf
<1>1. CASE TakeUpdate \/ StatusPublished
  <2>1. status' = status
    BY <1>1 DEF TakeUpdate, StatusPublished, registryVars
  <2> QED BY <2>1, NothingMoved
<1>2. CASE SnapshotPublished
  <2> DEFINE u == Head(updates)
             k == u.key
  <2>1. k \in Keys /\ u = updates[1] /\ 1 \in DOMAIN updates
    BY <1>2, HeadIsUpdate DEF SnapshotPublished
  <2>2. u.kind = "food_ready" => status[k] = "food_ready"
    BY <2>1, ReadyStatus
  <2>3. CASE status' = status
    BY <2>3, NothingMoved
  <2>4. CASE u.kind = "food_ready" /\ k \notin deferred
    <3>1. status' = [status EXCEPT ![k] = "published"]
      BY <1>2, <2>2, <2>4, ReducerFacts DEF SnapshotPublished
    <3> HIDE DEF k, u
    <3>2. \A x \in Keys : status'[x] = IF x = k THEN "published" ELSE status[x]
      BY <2>1, <3>1, InvFacts
    <3>3. /\ placeOf[k] = PlaceFor["food_ready"]
          /\ placeOf' = Promise!Moved(k, PlaceFor["published"], {})
      BY <2>1, <2>2, <2>4, <3>2, MovedAlone
    <3> QED BY <2>1, <3>3, PlaceForFacts DEF Promise!Serve, Promise!Next
  <2>5. CASE u.kind = "food_ready" /\ k \in deferred
    <3>1. status' = [status EXCEPT ![k] = "food_ready"]
      BY <1>2, <2>2, <2>5, ReducerFacts DEF SnapshotPublished
    <3>2. \A x \in Keys : status'[x] = status[x]
      BY <2>1, <2>2, <2>5, <3>1, InvFacts
    <3> QED BY <3>2, NothingMoved
  <2> QED BY <1>2, <2>3, <2>4, <2>5 DEF SnapshotPublished
<1> QED BY <1>1, <1>2 DEF Publish

\* The kitchen is empty when the service starts, and once it has ended.
LEMMA EmptyKitchen ==
  ASSUME ServiceInv, ~Running \/ \A k \in Keys : status[k] = "absent"
  PROVE  placeOf = [k \in Keys |-> "out"]
BY MappedByStatus, PlaceForFacts DEF Mapped

\* Every step of the service is a step of the kitchen, or none.
LEMMA StepKeepsPromise ==
  ASSUME ServiceInv, ServiceInv', [Next]_vars
  PROVE  [Promise!Next]_placeOf
<1>1. CASE UNCHANGED vars
  BY <1>1 DEF vars, registryVars, kitchenVars, Running, placeOf, Contains,
              ReadyFor, IsReady
<1>2. CASE Restart
  <2>1. \A k \in Keys : status'[k] = "absent"
    BY <1>2 DEF Restart, EmptyMemory
  <2>2. Mapped'
    BY MappedByStatus, PTL
  <2>3. placeOf' = [k \in Keys |-> "out"]
    BY <2>1, <2>2, PlaceForFacts DEF Mapped
  <2> QED BY <2>3 DEF Promise!Close, Promise!Next
<1>3. CASE Next /\ ~Restart
  <2>1. Running
    BY <1>3
       DEF Next, HandleMessage, ReceiveAdmitted, ReceiveQueueFull,
           ReceiveRegistryFull, ReceiveIgnored, ReceiveDeferred,
           ReceiveRepublish, Receive, Work, WorkerStart, WorkerPrepared,
           WorkerFailed, Finish, Publish, TakeUpdate, StatusPublished,
           SnapshotPublished, Connect, ConnectionLost
  <2>2. CASE ~Running'
    <3>1. placeOf' = [k \in Keys |-> "out"]
      BY <2>2 DEF placeOf
    <3> QED BY <3>1 DEF Promise!Close, Promise!Next
  <2>3. CASE Running'
    <3>1. CASE Connect \/ ConnectionLost
      <4>1. status' = status
        BY <3>1 DEF Connect, ConnectionLost, registryVars
      <4> QED BY <2>1, <2>3, <4>1, NothingMoved
    <3> QED BY <1>3, <2>1, <2>3, <3>1, HandleMessageKeepsPromise,
               WorkKeepsPromise, PublishKeepsPromise DEF Next
  <2> QED BY <2>2, <2>3
<1> QED BY <1>1, <1>2, <1>3

\* The service implements the kitchen: an order is in one place at a time, it
\* is cooked only when it was admitted, served only when it was cooked, and
\* never are more orders waiting or cooking than there are seats and workers,
\* whatever arrives, is retried, is lost with the link or with the process.
THEOREM ServiceKeepsPromise == Spec => KitchenPromise
<1>1. Init => Promise!Init
  <2> SUFFICES ASSUME Init PROVE Promise!Init
    OBVIOUS
  <2>1. \A k \in Keys : status[k] = "absent"
    BY DEF Init, EmptyMemory
  <2> QED BY <2>1, InitInv, EmptyKitchen DEF Promise!Init
<1>2. ServiceInv /\ ServiceInv' /\ [Next]_vars => [Promise!Next]_placeOf
  BY StepKeepsPromise
<1> QED BY <1>1, <1>2, ServiceInvariant, PTL
        DEF Spec, KitchenPromise, Promise!Spec
=============================================================================
