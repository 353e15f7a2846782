------------------------- MODULE OrderServiceProofs -------------------------
(***************************************************************************)
(* Proofs about OrderService, for every number of tables, orders, workers, *)
(* for every capacity and every bound.                                     *)
(***************************************************************************)
EXTENDS OrderServiceProps, SequenceFacts, FiniteSetTheorems

\* The reducer answers with a status or raises.
LEMMA TransitionType ==
  \A s, e : Transition(s, e) \in Statuses \union {"raised"}
BY DEF Transition, Statuses

\* An update built for a key, an event and a food is an update.
LEMMA UpdateType ==
  ASSUME NEW k \in Keys, NEW kind \in Kinds, NEW food \in Foods
  PROVE  /\ Update(k, kind, food) \in Updates
         /\ Update(k, kind, food).key = k
         /\ Update(k, kind, food).kind = kind
         /\ Update(k, kind, food).food = food
BY DEF Update, Updates

\* Queueing a status update keeps the queue well formed.
LEMMA QueueUpdateType ==
  ASSUME NEW rest \in Seq(Updates), NEW waiting, NEW u \in Updates,
         service \in {"running", "overflowed"},
         QueueStatusUpdate(rest, waiting, u)
  PROVE  updates' \in Seq(Updates) /\ service' \in {"running", "overflowed"}
BY AppendFacts DEF QueueStatusUpdate

\* A new entry of the registry has its types.
LEMMA EntersType ==
  ASSUME TypeOK, NEW o \in Orders, NEW s \in Statuses \union {"raised"},
         Enters(o, s)
  PROVE  /\ status' \in [Keys -> Statuses \union {"absent", "raised"}]
         /\ ordered' \in [Keys -> Foods \union {NoFood}]
         /\ registered' \in Seq(Keys)
<1>1. PICK i \in 0..Len(registered) :
        /\ registered' = Append(IF i = 0 THEN registered
                                ELSE RemoveAt(registered, i), o.key)
        /\ status' = [k \in Keys |->
             IF k = o.key THEN s
             ELSE IF k \in (IF i = 0 THEN {} ELSE {registered[i]})
                  THEN "absent" ELSE status[k]]
        /\ ordered' = [k \in Keys |->
             IF k = o.key THEN o.food
             ELSE IF k \in (IF i = 0 THEN {} ELSE {registered[i]})
                  THEN NoFood ELSE ordered[k]]
  BY DEF Enters
<1>2. o.key \in Keys /\ o.food \in Foods
  BY DEF Orders
<1>3. (IF i = 0 THEN registered ELSE RemoveAt(registered, i)) \in Seq(Keys)
  <2>1. registered \in Seq(Keys) /\ Len(registered) \in Nat
    BY DEF TypeOK
  <2>2. i # 0 => i \in 1..Len(registered)
    BY <2>1
  <2> QED BY <2>1, <2>2, RemoveAtFacts
<1>4. registered' \in Seq(Keys)
  BY <1>1, <1>2, <1>3, AppendFacts
<1> QED BY <1>1, <1>2, <1>4 DEF TypeOK

\* A retried entry of the registry has its types.
LEMMA RetriesType ==
  ASSUME TypeOK, NEW o \in Orders, NEW s \in Statuses \union {"raised"},
         Retries(o, s)
  PROVE  /\ status' \in [Keys -> Statuses \union {"absent", "raised"}]
         /\ ordered' \in [Keys -> Foods \union {NoFood}]
         /\ registered' \in Seq(Keys)
BY DEF Retries, TypeOK, Orders

\* What a delivered request leaves alone keeps its type.
LEMMA ReceiveType ==
  ASSUME TypeOK, NEW o \in Orders, Receive(o)
  PROVE  /\ o.key \in Keys /\ o.food \in Foods
         /\ connected' \in BOOLEAN
         /\ working' \in [Workers -> Keys \union {NoKey}]
         /\ pending' \in BOOLEAN /\ stage' \in {"idle", "status", "snapshot"}
         /\ announced' \in [Keys -> Kinds \union {"none"}]
         /\ deliveries' \in [Orders -> 0..MaxDeliveries]
         /\ drops' \in 0..MaxDrops /\ restarts' \in 0..MaxRestarts
<1>1. deliveries[o] + 1 \in 0..MaxDeliveries
  BY ServiceAssumption DEF Receive, TypeOK
<1>2. deliveries' \in [Orders -> 0..MaxDeliveries]
  BY <1>1 DEF Receive, TypeOK
<1> QED BY <1>2 DEF Receive, TypeOK, linkVars, Orders

\* Every way to handle a request keeps the types.
LEMMA HandleMessageType ==
  ASSUME TypeOK, NEW o \in Orders, HandleMessage(o)
  PROVE  TypeOK'
<1>1. Receive(o)
  BY DEF HandleMessage, ReceiveAdmitted, ReceiveQueueFull, ReceiveRegistryFull,
         ReceiveIgnored, ReceiveDeferred, ReceiveRepublish
<1>2. /\ o.key \in Keys /\ o.food \in Foods
      /\ connected' \in BOOLEAN
      /\ working' \in [Workers -> Keys \union {NoKey}]
      /\ pending' \in BOOLEAN /\ stage' \in {"idle", "status", "snapshot"}
      /\ announced' \in [Keys -> Kinds \union {"none"}]
      /\ deliveries' \in [Orders -> 0..MaxDeliveries]
      /\ drops' \in 0..MaxDrops /\ restarts' \in 0..MaxRestarts
  BY <1>1, ReceiveType
<1>3. \A kind \in Kinds : Update(o.key, kind, o.food) \in Updates
  BY <1>2, UpdateType
<1>4. /\ "queued" \in Kinds /\ "food_ready" \in Kinds
      /\ "service_overloaded" \in Kinds
      /\ "queued" \in Statuses \union {"raised"}
  BY DEF Kinds, Statuses
<1>5. /\ updates \in Seq(Updates) /\ queue \in Seq(Keys)
      /\ service \in {"running", "overflowed"}
      /\ deferred \subseteq Keys /\ rejected \subseteq Orders
  BY DEF TypeOK
<1>6. CASE ReceiveAdmitted(o)
  <2>1. /\ status' \in [Keys -> Statuses \union {"absent", "raised"}]
        /\ ordered' \in [Keys -> Foods \union {NoFood}]
        /\ registered' \in Seq(Keys)
    BY <1>4, <1>6, EntersType, RetriesType, TransitionType
       DEF ReceiveAdmitted, Retried
  <2>2. updates' \in Seq(Updates) /\ service' \in {"running", "overflowed"}
    BY <1>3, <1>4, <1>5, <1>6, QueueUpdateType DEF ReceiveAdmitted
  <2>3. queue' \in Seq(Keys)
    BY <1>2, <1>5, <1>6, AppendFacts DEF ReceiveAdmitted
  <2> QED BY <1>2, <1>5, <1>6, <2>1, <2>2, <2>3 DEF ReceiveAdmitted, TypeOK
<1>7. CASE ReceiveQueueFull(o)
  <2>1. /\ status' \in [Keys -> Statuses \union {"absent", "raised"}]
        /\ ordered' \in [Keys -> Foods \union {NoFood}]
        /\ registered' \in Seq(Keys)
    BY <1>7, EntersType, RetriesType, TransitionType
       DEF ReceiveQueueFull, Refused
  <2>2. updates' \in Seq(Updates) /\ service' \in {"running", "overflowed"}
    BY <1>3, <1>4, <1>5, <1>7, QueueUpdateType DEF ReceiveQueueFull
  <2> QED BY <1>2, <1>5, <1>7, <2>1, <2>2 DEF ReceiveQueueFull, TypeOK
<1>8. CASE ReceiveRegistryFull(o)
  <2>1. updates' \in Seq(Updates) /\ service' \in {"running", "overflowed"}
    BY <1>3, <1>4, <1>5, <1>8, QueueUpdateType DEF ReceiveRegistryFull
  <2> QED BY <1>2, <1>5, <1>8, <2>1
          DEF ReceiveRegistryFull, TypeOK, registryVars
<1>9. CASE ReceiveIgnored(o)
  BY <1>2, <1>9 DEF ReceiveIgnored, TypeOK, registryVars
<1>10. CASE ReceiveDeferred(o)
  BY <1>2, <1>10 DEF ReceiveDeferred, TypeOK, registryVars
<1>11. CASE ReceiveRepublish(o)
  <2>1. updates' \in Seq(Updates) /\ service' \in {"running", "overflowed"}
    BY <1>3, <1>4, <1>5, <1>11, QueueUpdateType DEF ReceiveRepublish
  <2>2. status' \in [Keys -> Statuses \union {"absent", "raised"}]
    BY <1>11, TransitionType DEF ReceiveRepublish, TypeOK
  <2> QED BY <1>2, <1>5, <1>11, <2>1, <2>2 DEF ReceiveRepublish, TypeOK
<1> QED BY <1>6, <1>7, <1>8, <1>9, <1>10, <1>11 DEF HandleMessage

\* The inductive invariant: the types and every state invariant.
ServiceInv ==
  /\ TypeOK /\ NoRejectedEvent /\ RegistryBounded /\ QueueHoldsQueued
  /\ OneWorkerPerOrder /\ ReadyIsOnItsWay /\ PublisherPosition

\* An order that is registered has the food it was ordered with.
LEMMA RegisteredHasFood ==
  ASSUME ServiceInv, Running, NEW k \in Keys, status[k] # "absent"
  PROVE  ordered[k] \in Foods
BY DEF ServiceInv, RegistryBounded

\* A worker that starts takes a queued order.
LEMMA StartsQueued ==
  ASSUME ServiceInv, Running, queue # <<>>
  PROVE  /\ queue \in Seq(Keys) /\ Head(queue) \in Keys
         /\ status[Head(queue)] = "queued"
<1>1. queue \in Seq(Keys) /\ Head(queue) \in Keys /\ Head(queue) = queue[1]
      /\ 1 \in 1..Len(queue)
  BY TailFacts DEF ServiceInv, TypeOK
<1>2. Contains(queue, Head(queue))
  BY <1>1 DEF Contains
<1> QED BY <1>1, <1>2 DEF ServiceInv, QueueHoldsQueued

\* A worker that finishes holds an order that is processing.
LEMMA FinishesProcessing ==
  ASSUME ServiceInv, Running, NEW w \in Workers, working[w] # NoKey
  PROVE  working[w] \in Keys /\ status[working[w]] = "processing"
BY DEF ServiceInv, TypeOK, OneWorkerPerOrder

\* Every step of a worker keeps the types.
LEMMA WorkType ==
  ASSUME ServiceInv, NEW w \in Workers, Work(w)
  PROVE  TypeOK'
<1>1. /\ TypeOK /\ Running
  BY DEF ServiceInv, Work, WorkerStart, WorkerPrepared, WorkerFailed, Finish
<1>2. /\ updates \in Seq(Updates) /\ queue \in Seq(Keys)
      /\ service \in {"running", "overflowed"}
  BY <1>1 DEF TypeOK
<1>3. /\ "processing" \in Kinds /\ "food_ready" \in Kinds
      /\ "processing_failed" \in Kinds
  BY DEF Kinds
<1>4. CASE WorkerStart(w)
  <2> DEFINE k == Head(queue)
  <2>1. k \in Keys /\ status[k] = "queued" /\ queue # <<>>
    BY <1>1, <1>4, StartsQueued DEF WorkerStart
  <2>2. ordered[k] \in Foods
    BY <1>1, <2>1, RegisteredHasFood
  <2>3. updates' \in Seq(Updates) /\ service' \in {"running", "overflowed"}
    BY <1>2, <1>3, <1>4, <2>1, <2>2, UpdateType, QueueUpdateType
       DEF WorkerStart
  <2>4. /\ status' \in [Keys -> Statuses \union {"absent", "raised"}]
        /\ working' \in [Workers -> Keys \union {NoKey}]
    BY <1>1, <1>4, <2>1, TransitionType DEF WorkerStart, TypeOK
  <2>5. queue' \in Seq(Keys)
    BY <1>2, <1>4, <2>1, TailFacts DEF WorkerStart
  <2> QED BY <1>1, <1>4, <2>3, <2>4, <2>5
          DEF WorkerStart, TypeOK, publisherVars, linkVars
<1>5. ASSUME NEW event, NEW kind \in Kinds, Finish(w, event, kind)
      PROVE  TypeOK'
  <2> DEFINE k == working[w]
  <2>1. k \in Keys /\ status[k] = "processing"
    BY <1>1, <1>5, FinishesProcessing DEF Finish
  <2>2. ordered[k] \in Foods
    BY <1>1, <2>1, RegisteredHasFood
  <2>3. updates' \in Seq(Updates) /\ service' \in {"running", "overflowed"}
    BY <1>2, <1>5, <2>1, <2>2, UpdateType, QueueUpdateType DEF Finish
  <2>4. /\ status' \in [Keys -> Statuses \union {"absent", "raised"}]
        /\ working' \in [Workers -> Keys \union {NoKey}]
    BY <1>1, <1>5, <2>1, TransitionType DEF Finish, TypeOK
  <2> QED BY <1>1, <1>5, <2>3, <2>4 DEF Finish, TypeOK, publisherVars, linkVars
<1> QED BY <1>3, <1>4, <1>5 DEF Work, WorkerPrepared, WorkerFailed

\* What the publisher is publishing is an update.
LEMMA HeadIsUpdate ==
  ASSUME ServiceInv, Running, stage # "idle"
  PROVE  /\ updates \in Seq(Updates) /\ updates # <<>> /\ Len(updates) \in Nat
         /\ Head(updates) \in Updates /\ Head(updates) = updates[1]
         /\ 1 \in DOMAIN updates
         /\ Head(updates).key \in Keys /\ Head(updates).kind \in Kinds
         /\ Head(updates).food \in Foods
         /\ Tail(updates) \in Seq(Updates)
<1>1. updates \in Seq(Updates) /\ updates # <<>>
  BY DEF ServiceInv, TypeOK, PublisherPosition
<1>2. Head(updates) \in Updates /\ Head(updates) = updates[1]
      /\ 1 \in DOMAIN updates /\ Tail(updates) \in Seq(Updates)
      /\ Len(updates) \in Nat
  BY <1>1, TailFacts
<1> QED BY <1>1, <1>2 DEF Updates

\* The broker's view stays well typed when it accepts a status event.
LEMMA AnnounceType ==
  ASSUME ServiceInv, Running, stage # "idle", Announce
  PROVE  announced' \in [Keys -> Kinds \union {"none"}]
BY HeadIsUpdate DEF Announce, ServiceInv, TypeOK

\* Every step of the publisher keeps the types.
LEMMA PublishType ==
  ASSUME ServiceInv, Publish
  PROVE  TypeOK'
<1>1. TypeOK /\ Running
  BY DEF ServiceInv, Publish, TakeUpdate, StatusPublished, SnapshotPublished
<1>2. CASE TakeUpdate
  BY <1>1, <1>2
     DEF TakeUpdate, TypeOK, registryVars, kitchenVars, linkVars
<1>3. CASE StatusPublished
  <2>1. announced' \in [Keys -> Kinds \union {"none"}]
    BY <1>1, <1>3, AnnounceType DEF StatusPublished
  <2> QED BY <1>1, <1>3, <2>1
          DEF StatusPublished, TypeOK, registryVars, kitchenVars, linkVars
<1>4. CASE SnapshotPublished
  <2> DEFINE u == Head(updates)
  <2>1. /\ updates \in Seq(Updates) /\ Tail(updates) \in Seq(Updates)
        /\ u \in Updates /\ u.key \in Keys
    BY <1>1, <1>4, HeadIsUpdate DEF SnapshotPublished
  <2>2. /\ updates' \in Seq(Updates)
        /\ service' \in {"running", "overflowed"}
    <3>1. CASE updates' = Tail(updates) /\ service' = service
      BY <1>1, <2>1, <3>1 DEF TypeOK
    <3>2. CASE QueueStatusUpdate(Tail(updates), Waiting, u)
      BY <2>1, <3>2, QueueUpdateType, <1>1 DEF TypeOK
    <3> QED BY <1>4, <3>1, <3>2 DEF SnapshotPublished
  <2>3. status' \in [Keys -> Statuses \union {"absent", "raised"}]
    <3>1. PICK new : /\ new \in Statuses \union {"absent", "raised"}
                     /\ \/ status' = status
                        \/ status' = [status EXCEPT ![u.key] = new]
      <4>1. \E e, s : \/ status' = status
                      \/ status' = [status EXCEPT ![u.key] = Transition(s, e)]
        BY <1>4 DEF SnapshotPublished
      <4> QED BY <4>1, TransitionType
    <3> QED BY <1>1, <2>1, <3>1 DEF TypeOK
  <2>4. deferred' \subseteq Keys
    BY <1>1, <1>4 DEF SnapshotPublished, TypeOK
  <2> QED BY <1>1, <1>4, <2>2, <2>3, <2>4
          DEF SnapshotPublished, TypeOK, kitchenVars, linkVars
<1> QED BY <1>2, <1>3, <1>4 DEF Publish

\* Losing, regaining the link and restarting keep the types.
LEMMA LinkType ==
  ASSUME ServiceInv, Connect \/ ConnectionLost \/ Restart
  PROVE  TypeOK'
<1>1. TypeOK
  BY DEF ServiceInv
<1>2. CASE Connect
  BY <1>1, <1>2
     DEF Connect, TypeOK, registryVars, kitchenVars, publisherVars
<1>3. CASE ConnectionLost
  <2>1. announced' \in [Keys -> Kinds \union {"none"}]
    <3>1. stage = "status" => stage # "idle"
      OBVIOUS
    <3> QED BY <1>1, <1>3, <3>1, AnnounceType DEF ConnectionLost, TypeOK
  <2>2. drops' \in 0..MaxDrops
    BY <1>1, <1>3, ServiceAssumption DEF ConnectionLost, TypeOK
  <2> QED BY <1>1, <1>3, <2>1, <2>2
          DEF ConnectionLost, TypeOK, registryVars, kitchenVars
<1>4. CASE Restart
  <2>1. restarts' \in 0..MaxRestarts
    BY <1>1, <1>4, ServiceAssumption DEF Restart, TypeOK
  <2>2. /\ registered' \in Seq(Keys) /\ queue' \in Seq(Keys)
        /\ updates' \in Seq(Updates)
    BY <1>4 DEF Restart
  <2>3. /\ status' \in [Keys -> Statuses \union {"absent", "raised"}]
        /\ ordered' \in [Keys -> Foods \union {NoFood}]
        /\ working' \in [Workers -> Keys \union {NoKey}]
    BY <1>4 DEF Restart, EmptyMemory
  <2> QED BY <1>1, <1>4, <2>1, <2>2, <2>3 DEF Restart, TypeOK
<1> QED BY <1>2, <1>3, <1>4

-----------------------------------------------------------------------------
(* The FoodReady updates still to be published.                            *)

\* Appending an update adds just its own FoodReady.
LEMMA AppendReady ==
  ASSUME NEW us \in Seq(Updates), NEW u \in Updates, OneReadyEach(us),
         u.kind = "food_ready" => ~ReadyFor(us, u.key)
  PROVE  /\ OneReadyEach(Append(us, u))
         /\ \A k : ReadyFor(Append(us, u), k) <=> ReadyFor(us, k) \/ IsReady(u, k)
         /\ \A f : ReadyCarry(us, f) /\ (u.kind = "food_ready" => u.food = f[u.key])
                     => ReadyCarry(Append(us, u), f)
<1> DEFINE vs == Append(us, u)
<1>1. /\ DOMAIN us = 1..Len(us) /\ Len(us) \in Nat
      /\ DOMAIN vs = 1..Len(us) + 1
      /\ \A i \in 1..Len(us) : vs[i] = us[i]
      /\ vs[Len(us) + 1] = u
  BY AppendFacts
<1> HIDE DEF vs
<1>2. ASSUME NEW k, ReadyFor(vs, k) PROVE ReadyFor(us, k) \/ IsReady(u, k)
  BY <1>1, <1>2 DEF ReadyFor
<1>3. ASSUME NEW k, ReadyFor(us, k) PROVE ReadyFor(vs, k)
  BY <1>1, <1>3 DEF ReadyFor
<1>4. ASSUME NEW k, IsReady(u, k) PROVE ReadyFor(vs, k)
  <2>1. Len(us) + 1 \in DOMAIN vs
    BY <1>1
  <2> QED BY <1>1, <1>4, <2>1 DEF ReadyFor
<1>5. ASSUME NEW i \in DOMAIN vs, NEW j \in DOMAIN vs,
             vs[i].kind = "food_ready", IsReady(vs[j], vs[i].key)
      PROVE  i = j
  <2>1. CASE i \in 1..Len(us) /\ j \in 1..Len(us)
    BY <1>1, <1>5, <2>1 DEF OneReadyEach
  <2>2. CASE i = Len(us) + 1 /\ j \in 1..Len(us)
    BY <1>1, <1>5, <2>2 DEF ReadyFor
  <2>3. CASE i \in 1..Len(us) /\ j = Len(us) + 1
    <3>1. IsReady(us[i], u.key) /\ u.kind = "food_ready"
      BY <1>1, <1>5, <2>3 DEF IsReady
    <3> QED BY <1>1, <2>3, <3>1 DEF ReadyFor
  <2> QED BY <1>1, <1>5, <2>1, <2>2, <2>3
<1>6. ASSUME NEW f, ReadyCarry(us, f), u.kind = "food_ready" => u.food = f[u.key]
      PROVE  ReadyCarry(vs, f)
  <2>1. ASSUME NEW i \in DOMAIN vs, vs[i].kind = "food_ready"
        PROVE  vs[i].food = f[vs[i].key]
    <3>1. CASE i \in 1..Len(us)
      BY <1>1, <1>6, <2>1, <3>1 DEF ReadyCarry
    <3>2. CASE i = Len(us) + 1
      BY <1>1, <1>6, <2>1, <3>2
    <3> QED BY <1>1, <3>1, <3>2
  <2> QED BY <2>1 DEF ReadyCarry
<1> QED BY <1>2, <1>3, <1>4, <1>5, <1>6 DEF OneReadyEach, vs

\* Dropping the head drops just its own FoodReady.
LEMMA TailReady ==
  ASSUME NEW us \in Seq(Updates), us # <<>>, OneReadyEach(us)
  PROVE  /\ OneReadyEach(Tail(us))
         /\ \A k : ReadyFor(Tail(us), k)
                     <=> ReadyFor(us, k) /\ ~IsReady(Head(us), k)
         /\ \A f : ReadyCarry(us, f) => ReadyCarry(Tail(us), f)
<1> DEFINE t == Tail(us)
<1>1. /\ Head(us) = us[1] /\ Len(us) \in Nat \ {0} /\ DOMAIN us = 1..Len(us)
      /\ DOMAIN t = 1..Len(us) - 1
      /\ \A i \in 1..Len(us) - 1 : t[i] = us[i + 1]
  BY TailFacts
<1> HIDE DEF t
<1>2. ASSUME NEW i \in DOMAIN t, NEW j \in DOMAIN t,
             t[i].kind = "food_ready", IsReady(t[j], t[i].key)
      PROVE  i = j
  <2>1. /\ i + 1 \in DOMAIN us /\ j + 1 \in DOMAIN us /\ i \in Int /\ j \in Int
        /\ t[i] = us[i + 1] /\ t[j] = us[j + 1]
    BY <1>1
  <2>2. i + 1 = j + 1
    BY <1>2, <2>1 DEF OneReadyEach
  <2> QED BY <2>1, <2>2
<1>3. ASSUME NEW k, ReadyFor(t, k) PROVE ReadyFor(us, k) /\ ~IsReady(Head(us), k)
  <2>1. PICK i \in DOMAIN t : IsReady(t[i], k)
    BY <1>3 DEF ReadyFor
  <2>2. /\ i + 1 \in DOMAIN us /\ 1 \in DOMAIN us /\ i + 1 # 1
        /\ IsReady(us[i + 1], k)
    BY <1>1, <2>1
  <2> QED BY <1>1, <2>2 DEF ReadyFor, OneReadyEach, IsReady
<1>4. ASSUME NEW k, ReadyFor(us, k), ~IsReady(Head(us), k) PROVE ReadyFor(t, k)
  <2>1. PICK i \in DOMAIN us : IsReady(us[i], k)
    BY <1>4 DEF ReadyFor
  <2>2. i - 1 \in DOMAIN t /\ t[i - 1] = us[i]
    BY <1>1, <1>4, <2>1
  <2> QED BY <2>1, <2>2 DEF ReadyFor
<1>5. ASSUME NEW f, ReadyCarry(us, f) PROVE ReadyCarry(t, f)
  BY <1>1, <1>5 DEF ReadyCarry
<1> QED BY <1>2, <1>3, <1>4, <1>5 DEF OneReadyEach, t

\* A service that is still running has queued its update.
LEMMA QueuedUpdate ==
  ASSUME NEW rest, NEW waiting, NEW u, QueueStatusUpdate(rest, waiting, u),
         Running'
  PROVE  updates' = Append(rest, u)
BY DEF QueueStatusUpdate, Running

\* A FoodReady still to be published is of a food_ready order.
LEMMA ReadyStatus ==
  ASSUME ServiceInv, Running, NEW i \in DOMAIN updates,
         updates[i].kind = "food_ready"
  PROVE  updates[i].key \in Keys /\ status[updates[i].key] = "food_ready"
<1>1. updates[i] \in Updates
  BY DEF ServiceInv, TypeOK
<1>2. updates[i].key \in Keys /\ ReadyFor(updates, updates[i].key)
  BY <1>1 DEF ReadyFor, IsReady, Updates
<1> QED BY <1>2 DEF ServiceInv, ReadyIsOnItsWay

\* A step that queues an update keeps ReadyIsOnItsWay if it is a FoodReady
\* exactly when its order becomes food_ready.
LEMMA QueuedKeepsReady ==
  ASSUME ServiceInv, Running, NEW u \in Updates, updates' = Append(updates, u),
         \A k \in Keys : status'[k] = "food_ready"
                           <=> status[k] = "food_ready" \/ IsReady(u, k),
         u.kind = "food_ready" =>
           status[u.key] # "food_ready" /\ u.food = ordered'[u.key],
         \A k \in Keys : status[k] = "food_ready" => ordered'[k] = ordered[k],
         \A k \in deferred' : k \in Keys /\ status'[k] = "food_ready"
  PROVE  ReadyIsOnItsWay'
<1>1. /\ updates \in Seq(Updates) /\ OneReadyEach(updates)
      /\ ReadyCarry(updates, ordered)
      /\ \A k \in Keys : ReadyFor(updates, k) <=> status[k] = "food_ready"
  BY DEF ServiceInv, TypeOK, ReadyIsOnItsWay
<1>2. u.key \in Keys
  BY DEF Updates
<1>3. u.kind = "food_ready" => ~ReadyFor(updates, u.key)
  BY <1>1, <1>2
<1>4. ReadyCarry(updates, ordered')
  BY <1>1, ReadyStatus DEF ReadyCarry
<1>5. /\ OneReadyEach(updates')
      /\ \A k : ReadyFor(updates', k) <=> ReadyFor(updates, k) \/ IsReady(u, k)
      /\ ReadyCarry(updates', ordered')
  BY <1>1, <1>3, <1>4, AppendReady
<1> QED BY <1>1, <1>5 DEF ReadyIsOnItsWay, OneReadyEach, ReadyCarry, ReadyFor, IsReady

-----------------------------------------------------------------------------
(* The registry.                                                           *)

\* What register leaves when it answers PROCESS and the handler leaves the
\* key at s: other keys are kept or, when terminal, forgotten.
LEMMA RegisterFacts ==
  ASSUME ServiceInv, Running, NEW o \in Orders, NEW s \in Statuses,
         Enters(o, s) \/ Retries(o, s)
  PROVE  /\ RegistryBounded'
         /\ o.key \in Keys /\ o.food \in Foods
         /\ status[o.key] \in {"absent", "failed"}
         /\ status'[o.key] = s /\ ordered'[o.key] = o.food
         /\ \A k \in Keys \ {o.key} :
              \/ status'[k] = status[k] /\ ordered'[k] = ordered[k]
              \/ status[k] \in Terminal /\ status'[k] = "absent"
<1>1. /\ o.key \in Keys /\ o.food \in Foods /\ s # "absent"
      /\ registered \in Seq(Keys) /\ Len(registered) \in Nat
      /\ DOMAIN registered = 1..Len(registered)
      /\ RegistryCapacity \in Nat /\ RegistryCapacity > 0
  <2>1. Cardinality(Workers) \in Nat
    BY ServiceAssumption, FS_CardinalityType
  <2> QED BY <2>1, ServiceAssumption
          DEF ServiceInv, TypeOK, Orders, Statuses
<1>2. /\ IsInjective(registered) /\ Len(registered) <= RegistryCapacity
      /\ \A k \in Keys : /\ Contains(registered, k) <=> status[k] # "absent"
                         /\ status[k] # "absent" => ordered[k] \in Foods
      /\ status \in [Keys -> Statuses \union {"absent", "raised"}]
      /\ ordered \in [Keys -> Foods \union {NoFood}]
  BY DEF ServiceInv, TypeOK, RegistryBounded
<1>3. CASE Enters(o, s)
  <2>1. PICK i \in 0..Len(registered) :
          /\ MakesRoom(i)
          /\ registered' = Append(IF i = 0 THEN registered
                                  ELSE RemoveAt(registered, i), o.key)
          /\ status' = [k \in Keys |->
               IF k = o.key THEN s
               ELSE IF k \in (IF i = 0 THEN {} ELSE {registered[i]})
                    THEN "absent" ELSE status[k]]
          /\ ordered' = [k \in Keys |->
               IF k = o.key THEN o.food
               ELSE IF k \in (IF i = 0 THEN {} ELSE {registered[i]})
                    THEN NoFood ELSE ordered[k]]
    BY <1>3 DEF Enters
  <2>2. status[o.key] = "absent"
    BY <1>3 DEF Enters
  <2>3. CASE i = 0
    <3>1. Len(registered) < RegistryCapacity
      BY <1>1, <2>1, <2>3 DEF MakesRoom, Evictable
    <3>2. /\ registered' = Append(registered, o.key)
          /\ status' = [k \in Keys |-> IF k = o.key THEN s ELSE status[k]]
          /\ ordered' = [k \in Keys |-> IF k = o.key THEN o.food ELSE ordered[k]]
      BY <2>1, <2>3
    <3>3. /\ IsInjective(registered')
          /\ Len(registered') <= RegistryCapacity
          /\ \A x : Contains(registered', x)
                      <=> Contains(registered, x) \/ x = o.key
      BY <1>1, <1>2, <2>2, <3>1, <3>2, AppendFacts, AppendHolds, AppendInjects
    <3>4. RegistryBounded'
      BY <1>1, <1>2, <3>2, <3>3 DEF RegistryBounded, IsInjective, Contains
    <3> QED BY <1>1, <2>2, <3>2, <3>4
  <2>4. CASE i # 0
    <3> DEFINE g == registered[i]
               kept == RemoveAt(registered, i)
    <3>1. i \in 1..Len(registered) /\ g \in Keys
          /\ status[g] \in Terminal /\ g # o.key
      BY <1>1, <2>1, <2>2, <2>4 DEF MakesRoom, Evictable, Terminal
    <3>2. /\ registered' = Append(kept, o.key)
          /\ status' = [k \in Keys |-> IF k = o.key THEN s
                          ELSE IF k = g THEN "absent" ELSE status[k]]
          /\ ordered' = [k \in Keys |-> IF k = o.key THEN o.food
                           ELSE IF k = g THEN NoFood ELSE ordered[k]]
      BY <2>1, <2>4
    <3>3. /\ kept \in Seq(Keys) /\ Len(kept) = Len(registered) - 1
          /\ IsInjective(kept)
          /\ \A x : Contains(kept, x) <=> Contains(registered, x) /\ x # g
      BY <1>1, <1>2, <3>1, RemoveAtFacts, RemoveAtHolds
    <3> HIDE DEF kept, g
    <3>4. ~Contains(kept, o.key)
      BY <1>1, <1>2, <2>2, <3>3
    <3>5. /\ IsInjective(registered')
          /\ Len(registered') <= RegistryCapacity
          /\ \A x : Contains(registered', x) <=> Contains(kept, x) \/ x = o.key
      <4>1. IsInjective(registered')
        BY <1>1, <3>2, <3>3, <3>4, AppendInjects
      <4>2. \A x : Contains(registered', x) <=> Contains(kept, x) \/ x = o.key
        BY <1>1, <3>2, <3>3, AppendHolds
      <4>3. Len(registered') = Len(kept) + 1
        BY <1>1, <3>2, <3>3, AppendFacts
      <4> QED BY <1>1, <1>2, <3>3, <4>1, <4>2, <4>3
    <3>6. RegistryBounded'
      BY <1>1, <1>2, <3>1, <3>2, <3>3, <3>5
         DEF RegistryBounded, IsInjective, Contains
    <3> QED BY <1>1, <2>2, <3>1, <3>2, <3>6
  <2> QED BY <2>3, <2>4
<1>4. CASE Retries(o, s)
  <2>1. /\ status[o.key] = "failed" /\ ordered[o.key] = o.food
        /\ status' = [status EXCEPT ![o.key] = s]
        /\ ordered' = ordered /\ registered' = registered
    BY <1>4 DEF Retries
  <2>2. RegistryBounded'
    BY <1>1, <1>2, <2>1 DEF RegistryBounded, IsInjective, Contains
  <2> QED BY <1>1, <1>2, <2>1, <2>2
<1> QED BY <1>3, <1>4

-----------------------------------------------------------------------------
(* One lemma per family of steps: the invariant is kept.                   *)

\* The invariant unfolded on a running service, for the lemmas below.
LEMMA InvFacts ==
  ASSUME ServiceInv, Running
  PROVE  /\ TypeOK
         /\ status \in [Keys -> Statuses \union {"absent", "raised"}]
         /\ queue \in Seq(Keys) /\ Len(queue) \in Nat
         /\ updates \in Seq(Updates) /\ deferred \subseteq Keys
         /\ \A k \in Keys : status[k] # "raised"
         /\ IsInjective(queue) /\ Len(queue) <= QueueCapacity
         /\ QueueCapacity \in Nat
         /\ \A k \in Keys : Contains(queue, k) <=> status[k] = "queued"
         /\ \A w \in Workers : working[w] # NoKey =>
              working[w] \in Keys /\ status[working[w]] = "processing"
         /\ \A v, w \in Workers :
              working[v] = working[w] /\ working[v] # NoKey => v = w
         /\ \A k \in Keys : status[k] = "processing" =>
                              \E w \in Workers : working[w] = k
         /\ \A k \in deferred : k \in Keys /\ status[k] = "food_ready"
         /\ stage # "idle" => pending /\ connected
         /\ pending => updates # <<>>
BY ServiceAssumption
   DEF ServiceInv, TypeOK, NoRejectedEvent, QueueHoldsQueued,
       OneWorkerPerOrder, ReadyIsOnItsWay, PublisherPosition

\* The values of the reducer the handlers, workers and publisher rely on.
LEMMA ReducerFacts ==
  /\ Retried = "queued" /\ Refused("queued") = "failed"
  /\ Refused(Retried) = "failed"
  /\ Transition("queued", "ProcessingStarted") = "processing"
  /\ Transition("processing", "FoodPrepared") = "food_ready"
  /\ Transition("processing", "ProcessingFailed") = "failed"
  /\ Transition("food_ready", "PublishConfirmed") = "published"
  /\ Transition("published", "RepublishRequested") = "food_ready"
<1>1. Retried = "queued"
  BY DEF Retried, Transition
<1>2. Refused("queued") = "failed"
  BY DEF Refused, Transition
<1>3. Transition("queued", "ProcessingStarted") = "processing"
  BY DEF Transition
<1>4. Transition("processing", "FoodPrepared") = "food_ready"
  BY DEF Transition
<1>5. Transition("processing", "ProcessingFailed") = "failed"
  BY DEF Transition
<1>6. Transition("food_ready", "PublishConfirmed") = "published"
  BY DEF Transition
<1>7. Transition("published", "RepublishRequested") = "food_ready"
  BY DEF Transition
<1> QED BY <1>1, <1>2, <1>3, <1>4, <1>5, <1>6, <1>7

\* A request that is admitted.
LEMMA AdmittedInv ==
  ASSUME ServiceInv, Running', NEW o \in Orders, ReceiveAdmitted(o), TypeOK'
  PROVE  ServiceInv'
<1> DEFINE k == o.key
           u == Update(o.key, "queued", o.food)
<1>1. /\ Running /\ working' = working /\ pending' = pending
      /\ stage' = stage /\ connected' = connected /\ deferred' = deferred
      /\ Len(queue) < QueueCapacity /\ queue' = Append(queue, k)
      /\ Enters(o, "queued") \/ Retries(o, "queued")
      /\ QueueStatusUpdate(updates, Waiting, u)
  BY ReducerFacts DEF ReceiveAdmitted, Receive, linkVars
<1>2. /\ RegistryBounded' /\ k \in Keys /\ o.food \in Foods
      /\ status[k] \in {"absent", "failed"}
      /\ status'[k] = "queued" /\ ordered'[k] = o.food
      /\ \A x \in Keys \ {k} :
           \/ status'[x] = status[x] /\ ordered'[x] = ordered[x]
           \/ status[x] \in Terminal /\ status'[x] = "absent"
  BY <1>1, RegisterFacts DEF Statuses
<1>3. \A x \in Keys :
        /\ status'[x] # "raised"
        /\ status'[x] = "queued" <=> status[x] = "queued" \/ x = k
        /\ status'[x] = "processing" <=> status[x] = "processing"
        /\ status'[x] = "food_ready" <=> status[x] = "food_ready"
        /\ status[x] = "food_ready" => ordered'[x] = ordered[x]
  BY <1>1, <1>2, InvFacts DEF Terminal
<1>4. u \in Updates /\ u.kind = "queued" /\ updates' = Append(updates, u)
  BY <1>1, <1>2, UpdateType, QueuedUpdate DEF Kinds
<1>5. NoRejectedEvent'
  BY <1>3 DEF NoRejectedEvent
<1>6. QueueHoldsQueued'
  <2>1. ~Contains(queue, k)
    BY <1>1, <1>2, InvFacts
  <2>2. IsInjective(queue')
    BY <1>1, <1>2, <2>1, InvFacts, AppendInjects
  <2>3. Len(queue') <= QueueCapacity
    BY <1>1, <1>2, InvFacts, AppendFacts
  <2>4. \A x : Contains(queue', x) <=> Contains(queue, x) \/ x = k
    BY <1>1, <1>2, InvFacts, AppendHolds
  <2> QED BY <1>1, <1>3, <2>2, <2>3, <2>4, InvFacts
          DEF QueueHoldsQueued, IsInjective, Contains
<1>7. OneWorkerPerOrder'
  BY <1>1, <1>3, InvFacts DEF OneWorkerPerOrder
<1>8. ReadyIsOnItsWay'
  BY <1>1, <1>3, <1>4, InvFacts, QueuedKeepsReady DEF IsReady
<1>9. PublisherPosition'
  BY <1>1, <1>4, InvFacts, AppendFacts DEF PublisherPosition
<1> QED BY <1>2, <1>5, <1>6, <1>7, <1>8, <1>9 DEF ServiceInv

\* A request refused because the processing queue is full.
LEMMA QueueFullInv ==
  ASSUME ServiceInv, Running', NEW o \in Orders, ReceiveQueueFull(o), TypeOK'
  PROVE  ServiceInv'
<1> DEFINE k == o.key
           u == Update(o.key, "service_overloaded", o.food)
<1>1. /\ Running /\ working' = working /\ pending' = pending
      /\ stage' = stage /\ connected' = connected /\ deferred' = deferred
      /\ queue' = queue
      /\ Enters(o, "failed") \/ Retries(o, "failed")
      /\ QueueStatusUpdate(updates, Waiting, u)
  BY ReducerFacts DEF ReceiveQueueFull, Receive, linkVars
<1>2. /\ RegistryBounded' /\ k \in Keys /\ o.food \in Foods
      /\ status[k] \in {"absent", "failed"}
      /\ status'[k] = "failed" /\ ordered'[k] = o.food
      /\ \A x \in Keys \ {k} :
           \/ status'[x] = status[x] /\ ordered'[x] = ordered[x]
           \/ status[x] \in Terminal /\ status'[x] = "absent"
  BY <1>1, RegisterFacts DEF Statuses
<1>3. \A x \in Keys :
        /\ status'[x] # "raised"
        /\ status'[x] = "queued" <=> status[x] = "queued"
        /\ status'[x] = "processing" <=> status[x] = "processing"
        /\ status'[x] = "food_ready" <=> status[x] = "food_ready"
        /\ status[x] = "food_ready" => ordered'[x] = ordered[x]
  BY <1>1, <1>2, InvFacts DEF Terminal
<1>4. /\ u \in Updates /\ u.kind = "service_overloaded"
      /\ updates' = Append(updates, u)
  BY <1>1, <1>2, UpdateType, QueuedUpdate DEF Kinds
<1>5. NoRejectedEvent'
  BY <1>3 DEF NoRejectedEvent
<1>6. QueueHoldsQueued'
  BY <1>1, <1>3, InvFacts DEF QueueHoldsQueued, IsInjective, Contains
<1>7. OneWorkerPerOrder'
  BY <1>1, <1>3, InvFacts DEF OneWorkerPerOrder
<1>8. ReadyIsOnItsWay'
  BY <1>1, <1>3, <1>4, InvFacts, QueuedKeepsReady DEF IsReady
<1>9. PublisherPosition'
  BY <1>1, <1>4, InvFacts, AppendFacts DEF PublisherPosition
<1> QED BY <1>2, <1>5, <1>6, <1>7, <1>8, <1>9 DEF ServiceInv

\* A request refused because the registry is full of active orders.
LEMMA RegistryFullInv ==
  ASSUME ServiceInv, Running', NEW o \in Orders, ReceiveRegistryFull(o), TypeOK'
  PROVE  ServiceInv'
<1> DEFINE u == Update(o.key, "service_overloaded", o.food)
<1>1. /\ Running /\ working' = working /\ pending' = pending
      /\ stage' = stage /\ connected' = connected /\ deferred' = deferred
      /\ queue' = queue /\ status' = status /\ ordered' = ordered
      /\ registered' = registered
      /\ QueueStatusUpdate(updates, Waiting, u)
  BY DEF ReceiveRegistryFull, Receive, linkVars, registryVars
<1>2. /\ u \in Updates /\ u.kind = "service_overloaded"
      /\ updates' = Append(updates, u)
  BY <1>1, UpdateType, QueuedUpdate DEF Kinds, Orders
<1>3. RegistryBounded'
  BY <1>1 DEF ServiceInv, RegistryBounded, IsInjective, Contains
<1>4. NoRejectedEvent' /\ QueueHoldsQueued' /\ OneWorkerPerOrder'
  BY <1>1, InvFacts
     DEF NoRejectedEvent, QueueHoldsQueued, OneWorkerPerOrder, IsInjective,
         Contains
<1>5. ReadyIsOnItsWay'
  BY <1>1, <1>2, InvFacts, QueuedKeepsReady DEF IsReady
<1>6. PublisherPosition'
  BY <1>1, <1>2, InvFacts, AppendFacts DEF PublisherPosition
<1> QED BY <1>3, <1>4, <1>5, <1>6 DEF ServiceInv

\* A request that is ignored, or noted for a later replay.
LEMMA NotedInv ==
  ASSUME ServiceInv, Running', NEW o \in Orders,
         ReceiveIgnored(o) \/ ReceiveDeferred(o), TypeOK'
  PROVE  ServiceInv'
<1>1. /\ Running /\ working' = working /\ pending' = pending
      /\ stage' = stage /\ connected' = connected /\ updates' = updates
      /\ queue' = queue /\ status' = status /\ ordered' = ordered
      /\ registered' = registered
  BY DEF ReceiveIgnored, ReceiveDeferred, Receive, linkVars, registryVars
<1>2. \A k \in deferred' : k \in Keys /\ status[k] = "food_ready"
  BY <1>1, InvFacts DEF ReceiveIgnored, ReceiveDeferred, Orders
<1>3. RegistryBounded'
  BY <1>1 DEF ServiceInv, RegistryBounded, IsInjective, Contains
<1>4. NoRejectedEvent' /\ QueueHoldsQueued' /\ OneWorkerPerOrder'
  BY <1>1, InvFacts
     DEF NoRejectedEvent, QueueHoldsQueued, OneWorkerPerOrder, IsInjective,
         Contains
<1>5. ReadyIsOnItsWay'
  BY <1>1, <1>2
     DEF ServiceInv, ReadyIsOnItsWay, OneReadyEach, ReadyCarry, ReadyFor,
         IsReady
<1>6. PublisherPosition'
  BY <1>1, InvFacts DEF PublisherPosition
<1> QED BY <1>3, <1>4, <1>5, <1>6 DEF ServiceInv

\* A retry of a published order: its food is queued again.
LEMMA RepublishInv ==
  ASSUME ServiceInv, Running', NEW o \in Orders, ReceiveRepublish(o), TypeOK'
  PROVE  ServiceInv'
<1> DEFINE k == o.key
           u == Update(o.key, "food_ready", o.food)
<1>1. /\ Running /\ working' = working /\ pending' = pending
      /\ stage' = stage /\ connected' = connected /\ deferred' = deferred
      /\ queue' = queue /\ ordered' = ordered /\ registered' = registered
      /\ k \in Keys /\ o.food \in Foods /\ status[k] = "published"
      /\ ordered[k] = o.food
      /\ status' = [status EXCEPT ![k] = "food_ready"]
      /\ QueueStatusUpdate(updates, Waiting, u)
  BY ReducerFacts DEF ReceiveRepublish, Receive, linkVars, Orders
<1>2. /\ u \in Updates /\ u.kind = "food_ready" /\ u.key = k /\ u.food = o.food
      /\ updates' = Append(updates, u)
  BY <1>1, UpdateType, QueuedUpdate DEF Kinds
<1>3. status'[k] = "food_ready" /\ \A x \in Keys \ {k} : status'[x] = status[x]
  BY <1>1, InvFacts
<1>4. RegistryBounded'
  BY <1>1, <1>3 DEF ServiceInv, RegistryBounded, IsInjective, Contains
<1>5. NoRejectedEvent' /\ QueueHoldsQueued' /\ OneWorkerPerOrder'
  <2>1. NoRejectedEvent'
    BY <1>3, InvFacts, <1>1 DEF NoRejectedEvent
  <2>2. QueueHoldsQueued'
    BY <1>1, <1>3, InvFacts DEF QueueHoldsQueued, IsInjective, Contains
  <2>3. OneWorkerPerOrder'
    BY <1>1, <1>3, InvFacts DEF OneWorkerPerOrder
  <2> QED BY <2>1, <2>2, <2>3
<1>6. ReadyIsOnItsWay'
  BY <1>1, <1>2, <1>3, InvFacts, QueuedKeepsReady DEF IsReady
<1>7. PublisherPosition'
  BY <1>1, <1>2, InvFacts, AppendFacts DEF PublisherPosition
<1> QED BY <1>4, <1>5, <1>6, <1>7 DEF ServiceInv

\* A worker takes an order from the queue.
LEMMA StartInv ==
  ASSUME ServiceInv, Running', NEW w \in Workers, WorkerStart(w), TypeOK'
  PROVE  ServiceInv'
<1> DEFINE k == Head(queue)
           u == Update(k, "processing", ordered[k])
<1>1. /\ Running /\ pending' = pending /\ stage' = stage
      /\ connected' = connected /\ deferred' = deferred
      /\ ordered' = ordered /\ registered' = registered
      /\ queue # <<>> /\ queue' = Tail(queue) /\ working[w] = NoKey
      /\ working' = [working EXCEPT ![w] = k]
      /\ status' = [status EXCEPT ![k] = Transition(@, "ProcessingStarted")]
      /\ QueueStatusUpdate(updates, Waiting, u)
  BY DEF WorkerStart, publisherVars, linkVars
<1>2. k \in Keys /\ status[k] = "queued" /\ ordered[k] \in Foods
  BY <1>1, StartsQueued, RegisteredHasFood
<1>3. /\ status'[k] = "processing"
      /\ \A x \in Keys \ {k} : status'[x] = status[x]
  BY <1>1, <1>2, InvFacts, ReducerFacts
<1>4. /\ u \in Updates /\ u.kind = "processing"
      /\ updates' = Append(updates, u)
  BY <1>1, <1>2, UpdateType, QueuedUpdate DEF Kinds
<1>5. RegistryBounded'
  BY <1>1, <1>2, <1>3 DEF ServiceInv, RegistryBounded, IsInjective, Contains
<1>6. NoRejectedEvent'
  BY <1>1, <1>3, InvFacts DEF NoRejectedEvent
<1>7. QueueHoldsQueued'
  <2>1. /\ IsInjective(Tail(queue))
        /\ \A x : Contains(Tail(queue), x) <=> Contains(queue, x) /\ x # k
        /\ Len(Tail(queue)) = Len(queue) - 1
    BY <1>1, InvFacts, TailHolds, TailFacts
  <2>2. /\ IsInjective(queue') /\ Len(queue') <= QueueCapacity
        /\ \A x : Contains(queue', x) <=> Contains(queue, x) /\ x # k
    BY <1>1, <2>1, InvFacts
  <2>3. \A x \in Keys : Contains(queue', x) <=> status'[x] = "queued"
    BY <1>1, <1>3, <2>2, InvFacts
  <2> QED BY <2>2, <2>3 DEF QueueHoldsQueued, IsInjective, Contains
<1>8. OneWorkerPerOrder'
  <2>1. /\ working'[w] = k
        /\ \A v \in Workers \ {w} : working'[v] = working[v]
    BY <1>1 DEF ServiceInv, TypeOK
  <2>2. \A v \in Workers : working[v] # k
    BY <1>1, <1>2, InvFacts, ServiceAssumption
  <2>3. \A v \in Workers : working'[v] # NoKey => status'[working'[v]] = "processing"
    BY <1>1, <1>3, <2>1, <2>2, InvFacts
  <2>4. \A x, v \in Workers :
          working'[x] = working'[v] /\ working'[x] # NoKey => x = v
    BY <1>1, <2>1, <2>2, InvFacts
  <2>5. ASSUME NEW x \in Keys, status'[x] = "processing"
        PROVE  \E v \in Workers : working'[v] = x
    <3>1. CASE x = k
      BY <2>1, <3>1
    <3>2. CASE x # k
      <4>1. PICK v \in Workers : working[v] = x
        BY <1>1, <1>3, <2>5, <3>2, InvFacts
      <4>2. v # w
        BY <1>1, <4>1, ServiceAssumption
      <4> QED BY <2>1, <4>1, <4>2
    <3> QED BY <3>1, <3>2
  <2> QED BY <2>3, <2>4, <2>5 DEF OneWorkerPerOrder
<1>9. ReadyIsOnItsWay'
  BY <1>1, <1>2, <1>3, <1>4, InvFacts, QueuedKeepsReady DEF IsReady
<1>10. PublisherPosition'
  BY <1>1, <1>4, InvFacts, AppendFacts DEF PublisherPosition
<1> QED BY <1>5, <1>6, <1>7, <1>8, <1>9, <1>10 DEF ServiceInv

\* A worker finishes its order, with food or with a failure.
LEMMA FinishInv ==
  ASSUME ServiceInv, Running', NEW w \in Workers, TypeOK', NEW event,
         NEW kind \in Kinds, Finish(w, event, kind),
         \/ event = "FoodPrepared" /\ kind = "food_ready"
         \/ event = "ProcessingFailed" /\ kind = "processing_failed"
  PROVE  ServiceInv'
<1> DEFINE k == working[w]
           u == Update(k, kind, ordered[k])
<1>1. /\ Running /\ pending' = pending /\ stage' = stage
      /\ connected' = connected /\ deferred' = deferred
      /\ ordered' = ordered /\ registered' = registered
      /\ queue' = queue /\ k # NoKey
      /\ working' = [working EXCEPT ![w] = NoKey]
      /\ status' = [status EXCEPT ![k] = Transition(@, event)]
      /\ QueueStatusUpdate(updates, Waiting, u)
  BY DEF Finish, publisherVars, linkVars
<1>2. k \in Keys /\ status[k] = "processing" /\ ordered[k] \in Foods
  BY <1>1, FinishesProcessing, RegisteredHasFood
<1>3. /\ status'[k] = IF kind = "food_ready" THEN "food_ready" ELSE "failed"
      /\ \A x \in Keys \ {k} : status'[x] = status[x]
  BY <1>1, <1>2, InvFacts, ReducerFacts
<1>4. /\ u \in Updates /\ u.kind = kind /\ u.key = k /\ u.food = ordered[k]
      /\ updates' = Append(updates, u)
  BY <1>1, <1>2, UpdateType, QueuedUpdate
<1>5. RegistryBounded'
  BY <1>1, <1>2, <1>3 DEF ServiceInv, RegistryBounded, IsInjective, Contains
<1>6. NoRejectedEvent'
  BY <1>1, <1>3, InvFacts DEF NoRejectedEvent
<1>7. QueueHoldsQueued'
  BY <1>1, <1>2, <1>3, InvFacts DEF QueueHoldsQueued, IsInjective, Contains
<1>8. OneWorkerPerOrder'
  <2>1. /\ working'[w] = NoKey
        /\ \A v \in Workers \ {w} : working'[v] = working[v] /\ working[v] # k
    BY <1>1, InvFacts DEF ServiceInv, TypeOK
  <2>2. \A v \in Workers : working'[v] # NoKey => status'[working'[v]] = "processing"
    BY <1>1, <1>3, <2>1, InvFacts
  <2>3. \A x, v \in Workers :
          working'[x] = working'[v] /\ working'[x] # NoKey => x = v
    BY <1>1, <2>1, InvFacts
  <2>4. ASSUME NEW x \in Keys, status'[x] = "processing"
        PROVE  \E v \in Workers : working'[v] = x
    <3>1. x # k
      BY <1>3, <2>4
    <3>2. PICK v \in Workers : working[v] = x
      BY <1>1, <1>3, <2>4, <3>1, InvFacts
    <3> QED BY <2>1, <3>1, <3>2
  <2> QED BY <2>2, <2>3, <2>4 DEF OneWorkerPerOrder
<1>9. ReadyIsOnItsWay'
  BY <1>1, <1>2, <1>3, <1>4, InvFacts, QueuedKeepsReady DEF IsReady
<1>10. PublisherPosition'
  BY <1>1, <1>4, InvFacts, AppendFacts DEF PublisherPosition
<1> QED BY <1>5, <1>6, <1>7, <1>8, <1>9, <1>10 DEF ServiceInv

\* The publisher ends its turn: a food_ready order is confirmed, and sent
\* again when a retry asked for it meanwhile.
LEMMA ConfirmInv ==
  ASSUME ServiceInv, Running', SnapshotPublished, TypeOK'
  PROVE  ServiceInv'
<1> DEFINE u == Head(updates)
           k == u.key
<1>1. /\ Running /\ pending' = FALSE /\ stage' = "idle"
      /\ ordered' = ordered /\ registered' = registered /\ queue' = queue
      /\ working' = working /\ stage # "idle"
  BY DEF SnapshotPublished, kitchenVars, linkVars
<1>2. /\ updates \in Seq(Updates) /\ updates # <<>>
      /\ u \in Updates /\ k \in Keys /\ u = updates[1] /\ 1 \in DOMAIN updates
      /\ Tail(updates) \in Seq(Updates)
  BY <1>1, HeadIsUpdate
<1>3. /\ OneReadyEach(updates) /\ ReadyCarry(updates, ordered)
      /\ \A x \in Keys : ReadyFor(updates, x) <=> status[x] = "food_ready"
  BY <1>1 DEF ServiceInv, ReadyIsOnItsWay
<1>4. /\ OneReadyEach(Tail(updates)) /\ ReadyCarry(Tail(updates), ordered)
      /\ \A x : ReadyFor(Tail(updates), x)
                  <=> ReadyFor(updates, x) /\ ~IsReady(u, x)
  BY <1>2, <1>3, TailReady
<1>5. u.kind = "food_ready" => status[k] = "food_ready" /\ u.food = ordered[k]
  BY <1>1, <1>2, <1>3, ReadyStatus DEF ReadyCarry
<1>6. CASE u.kind # "food_ready"
  <2>1. updates' = Tail(updates) /\ status' = status /\ deferred' = deferred
    BY <1>6 DEF SnapshotPublished
  <2>2. \A x \in Keys : ReadyFor(updates', x) <=> status'[x] = "food_ready"
    BY <1>3, <1>4, <1>6, <2>1 DEF IsReady
  <2>3. ReadyIsOnItsWay'
    BY <1>1, <1>4, <2>1, <2>2, InvFacts
       DEF ReadyIsOnItsWay, OneReadyEach, ReadyCarry, ReadyFor, IsReady
  <2>4. /\ NoRejectedEvent' /\ QueueHoldsQueued' /\ OneWorkerPerOrder'
        /\ PublisherPosition'
    BY <1>1, <2>1, InvFacts
       DEF NoRejectedEvent, QueueHoldsQueued, OneWorkerPerOrder, IsInjective,
           Contains, PublisherPosition
  <2>5. RegistryBounded'
    BY <1>1, <2>1 DEF ServiceInv, RegistryBounded, IsInjective, Contains
  <2> QED BY <2>3, <2>4, <2>5 DEF ServiceInv
<1>7. CASE u.kind = "food_ready" /\ k \notin deferred
  <2>1. /\ updates' = Tail(updates) /\ deferred' = deferred
        /\ status' = [status EXCEPT ![k] = "published"]
    BY <1>5, <1>7, ReducerFacts DEF SnapshotPublished
  <2>2. /\ status'[k] = "published"
        /\ \A x \in Keys \ {k} : status'[x] = status[x]
    BY <1>1, <1>2, <2>1, InvFacts
  <2>3. \A x \in Keys : ReadyFor(updates', x) <=> status'[x] = "food_ready"
    BY <1>3, <1>4, <1>7, <2>1, <2>2 DEF IsReady
  <2>4. \A x \in deferred' : x \in Keys /\ status'[x] = "food_ready"
    BY <1>1, <1>7, <2>1, <2>2, InvFacts
  <2>5. ReadyIsOnItsWay'
    BY <1>1, <1>4, <2>1, <2>3, <2>4
       DEF ReadyIsOnItsWay, OneReadyEach, ReadyCarry, ReadyFor, IsReady
  <2>6. NoRejectedEvent' /\ PublisherPosition'
    BY <1>1, <2>2, InvFacts DEF NoRejectedEvent, PublisherPosition
  <2>7. QueueHoldsQueued'
    BY <1>1, <1>5, <1>7, <2>2, InvFacts
       DEF QueueHoldsQueued, IsInjective, Contains
  <2>8. OneWorkerPerOrder'
    BY <1>1, <1>5, <1>7, <2>2, InvFacts DEF OneWorkerPerOrder
  <2>9. RegistryBounded'
    BY <1>1, <1>2, <1>5, <1>7, <2>2
       DEF ServiceInv, RegistryBounded, IsInjective, Contains
  <2> QED BY <2>5, <2>6, <2>7, <2>8, <2>9 DEF ServiceInv
<1>8. CASE u.kind = "food_ready" /\ k \in deferred
  <2>1. /\ QueueStatusUpdate(Tail(updates), Waiting, u)
        /\ deferred' = deferred \ {k}
        /\ status' = [status EXCEPT ![k] = "food_ready"]
    BY <1>5, <1>8, ReducerFacts DEF SnapshotPublished
  <2>2. updates' = Append(Tail(updates), u)
    BY <2>1, QueuedUpdate
  <2>3. \A x \in Keys : status'[x] = status[x]
    BY <1>1, <1>2, <1>5, <1>8, <2>1, InvFacts
  <2>4. ~ReadyFor(Tail(updates), k)
    BY <1>4, <1>8 DEF IsReady
  <2>5. /\ OneReadyEach(updates') /\ ReadyCarry(updates', ordered)
        /\ \A x : ReadyFor(updates', x)
                    <=> ReadyFor(Tail(updates), x) \/ IsReady(u, x)
    BY <1>2, <1>4, <1>5, <1>8, <2>2, <2>4, AppendReady
  <2>6. \A x \in Keys : ReadyFor(updates', x) <=> status'[x] = "food_ready"
    BY <1>3, <1>4, <1>5, <1>8, <2>3, <2>5 DEF IsReady
  <2>7. \A x \in deferred' : x \in Keys /\ status'[x] = "food_ready"
    BY <1>1, <2>1, <2>3, InvFacts
  <2>8. ReadyIsOnItsWay'
    BY <1>1, <2>5, <2>6, <2>7
       DEF ReadyIsOnItsWay, OneReadyEach, ReadyCarry, ReadyFor, IsReady
  <2>9. /\ NoRejectedEvent' /\ QueueHoldsQueued' /\ OneWorkerPerOrder'
        /\ PublisherPosition'
    BY <1>1, <2>3, InvFacts
       DEF NoRejectedEvent, QueueHoldsQueued, OneWorkerPerOrder, IsInjective,
           Contains, PublisherPosition
  <2>10. RegistryBounded'
    BY <1>1, <2>3 DEF ServiceInv, RegistryBounded, IsInjective, Contains
  <2> QED BY <2>8, <2>9, <2>10 DEF ServiceInv
<1> QED BY <1>6, <1>7, <1>8

\* The steps that only move the publisher or the link.
LEMMA MoveInv ==
  ASSUME ServiceInv, Running', TypeOK',
         TakeUpdate \/ StatusPublished \/ Connect \/ ConnectionLost
  PROVE  ServiceInv'
<1>1. /\ Running /\ updates' = updates /\ queue' = queue /\ working' = working
      /\ status' = status /\ ordered' = ordered /\ registered' = registered
      /\ deferred' = deferred
  BY DEF TakeUpdate, StatusPublished, Connect, ConnectionLost, registryVars,
         kitchenVars, publisherVars
<1>2. PublisherPosition'
  BY <1>1, InvFacts
     DEF TakeUpdate, StatusPublished, Connect, ConnectionLost, publisherVars,
         linkVars, PublisherPosition
<1>3. NoRejectedEvent' /\ QueueHoldsQueued' /\ OneWorkerPerOrder'
  BY <1>1, InvFacts
     DEF NoRejectedEvent, QueueHoldsQueued, OneWorkerPerOrder, IsInjective,
         Contains
<1>4. RegistryBounded' /\ ReadyIsOnItsWay'
  BY <1>1
     DEF ServiceInv, RegistryBounded, IsInjective, Contains, ReadyIsOnItsWay,
         OneReadyEach, ReadyCarry, ReadyFor, IsReady
<1> QED BY <1>2, <1>3, <1>4 DEF ServiceInv

\* The memory of a new process.
Fresh ==
  /\ TypeOK
  /\ status = EmptyMemory.status /\ registered = <<>> /\ queue = <<>>
  /\ working = EmptyMemory.working /\ updates = <<>> /\ pending = FALSE
  /\ stage = "idle" /\ deferred = {}

\* A new process satisfies the invariant, whatever the old one left behind.
LEMMA FreshInv == Fresh => ServiceInv
<1> SUFFICES ASSUME Fresh PROVE ServiceInv
  OBVIOUS
<1>1. /\ \A k \in Keys : status[k] = "absent"
      /\ \A w \in Workers : working[w] = NoKey
      /\ TypeOK /\ registered = <<>> /\ queue = <<>> /\ updates = <<>>
      /\ pending = FALSE /\ stage = "idle" /\ deferred = {}
  BY DEF Fresh, EmptyMemory
<1>2. DOMAIN <<>> = {} /\ Len(<<>>) = 0
  OBVIOUS
<1>3. RegistryCapacity >= 0 /\ QueueCapacity >= 0
  BY ServiceAssumption
<1>4. RegistryBounded
  BY <1>1, <1>2, <1>3 DEF RegistryBounded, IsInjective, Contains
<1>5. QueueHoldsQueued
  BY <1>1, <1>2, <1>3 DEF QueueHoldsQueued, IsInjective, Contains
<1>6. ReadyIsOnItsWay
  BY <1>1, <1>2 DEF ReadyIsOnItsWay, OneReadyEach, ReadyCarry, ReadyFor
<1> QED BY <1>1, <1>4, <1>5, <1>6
        DEF ServiceInv, NoRejectedEvent, OneWorkerPerOrder, PublisherPosition

\* The initial states satisfy the invariant.
LEMMA InitInv == Init => ServiceInv
<1>1. SUFFICES ASSUME Init PROVE ServiceInv
  OBVIOUS
<1>2. TypeOK
  <2>1. /\ status \in [Keys -> Statuses \union {"absent", "raised"}]
        /\ ordered \in [Keys -> Foods \union {NoFood}]
        /\ working \in [Workers -> Keys \union {NoKey}]
    BY <1>1 DEF Init, EmptyMemory
  <2>2. deliveries \in [Orders -> 0..MaxDeliveries]
        /\ drops \in 0..MaxDrops /\ restarts \in 0..MaxRestarts
    BY <1>1, ServiceAssumption DEF Init
  <2>3. announced \in [Keys -> Kinds \union {"none"}]
    BY <1>1 DEF Init
  <2>4. /\ registered \in Seq(Keys) /\ queue \in Seq(Keys)
        /\ updates \in Seq(Updates)
    BY <1>1 DEF Init
  <2> QED BY <1>1, <2>1, <2>2, <2>3, <2>4 DEF Init, TypeOK
<1> QED BY <1>1, <1>2, FreshInv DEF Init, Fresh

\* Every step keeps the invariant.
LEMMA NextInv == ServiceInv /\ [Next]_vars => ServiceInv'
<1>1. SUFFICES ASSUME ServiceInv, [Next]_vars PROVE ServiceInv'
  OBVIOUS
<1>2. CASE UNCHANGED vars
  BY <1>1, <1>2
     DEF vars, registryVars, kitchenVars, publisherVars, linkVars, Running,
         ServiceInv, TypeOK, NoRejectedEvent, RegistryBounded,
         QueueHoldsQueued, OneWorkerPerOrder, ReadyIsOnItsWay,
         PublisherPosition, IsInjective, Contains, OneReadyEach, ReadyCarry,
         ReadyFor, IsReady
<1>3. CASE Next
  <2>1. TypeOK'
    BY <1>1, <1>3, HandleMessageType, WorkType, PublishType, LinkType
       DEF Next, ServiceInv
  <2>2. CASE ~Running'
    BY <2>1, <2>2
       DEF ServiceInv, NoRejectedEvent, RegistryBounded, QueueHoldsQueued,
           OneWorkerPerOrder, ReadyIsOnItsWay, PublisherPosition
  <2>3. CASE Running'
    <3>1. ASSUME NEW o \in Orders, HandleMessage(o) PROVE ServiceInv'
      BY <1>1, <2>1, <2>3, <3>1, AdmittedInv, QueueFullInv, RegistryFullInv,
         NotedInv, RepublishInv DEF HandleMessage
    <3>2. ASSUME NEW w \in Workers, Work(w) PROVE ServiceInv'
      BY <1>1, <2>1, <2>3, <3>2, StartInv, FinishInv
         DEF Work, WorkerPrepared, WorkerFailed, Kinds
    <3>3. CASE Publish
      BY <1>1, <2>1, <2>3, <3>3, MoveInv, ConfirmInv DEF Publish
    <3>4. CASE Connect \/ ConnectionLost
      BY <1>1, <2>1, <2>3, <3>4, MoveInv
    <3>5. CASE Restart
      <4>1. Fresh'
        BY <2>1, <3>5 DEF Restart, Fresh, EmptyMemory
      <4> QED BY <4>1, FreshInv, PTL
    <3> QED BY <1>3, <3>1, <3>2, <3>3, <3>4, <3>5 DEF Next
  <2> QED BY <2>2, <2>3
<1> QED BY <1>1, <1>2, <1>3 DEF Next

\* The inductive invariant holds in every reachable state.
THEOREM ServiceInvariant == Spec => []ServiceInv
<1>1. QED BY InitInv, NextInv, PTL DEF Spec

\* The types of the service's state.
THEOREM TypeCorrect == Spec => []TypeOK
<1>1. ServiceInv => TypeOK
  BY DEF ServiceInv
<1> QED BY <1>1, ServiceInvariant, PTL

\* The reducer never rejects an event of the service.
THEOREM NoEventRejected == Spec => []NoRejectedEvent
<1>1. ServiceInv => NoRejectedEvent
  BY DEF ServiceInv
<1> QED BY <1>1, ServiceInvariant, PTL

\* The registry keeps its bound and agrees with its statuses.
THEOREM RegistryIsBounded == Spec => []RegistryBounded
<1>1. ServiceInv => RegistryBounded
  BY DEF ServiceInv
<1> QED BY <1>1, ServiceInvariant, PTL

\* An order waits in the processing queue once, exactly while it is queued.
THEOREM QueueIsQueued == Spec => []QueueHoldsQueued
<1>1. ServiceInv => QueueHoldsQueued
  BY DEF ServiceInv
<1> QED BY <1>1, ServiceInvariant, PTL

\* Each processing order is owned by one worker (README.md:214).
THEOREM OwnedByOneWorker == Spec => []OneWorkerPerOrder
<1>1. ServiceInv => OneWorkerPerOrder
  BY DEF ServiceInv
<1> QED BY <1>1, ServiceInvariant, PTL

\* Each food_ready order has exactly one FoodReady to be published.
THEOREM ReadyOnItsWay == Spec => []ReadyIsOnItsWay
<1>1. ServiceInv => ReadyIsOnItsWay
  BY DEF ServiceInv
<1> QED BY <1>1, ServiceInvariant, PTL

\* The publisher awaits a publish only for the update it keeps pending.
THEOREM PublisherKeepsPosition == Spec => []PublisherPosition
<1>1. ServiceInv => PublisherPosition
  BY DEF ServiceInv
<1> QED BY <1>1, ServiceInvariant, PTL

\* The step that makes an entry leaves every other active one registered.
LEMMA EntersKeepsActive ==
  ASSUME TypeOK, NEW o \in Orders, NEW s \in Statuses \union {"raised"},
         Enters(o, s), NEW k \in Keys, status[k] \in Active
  PROVE  status'[k] # "absent"
<1>1. PICK i \in 0..Len(registered) :
        /\ MakesRoom(i)
        /\ status' = [x \in Keys |->
             IF x = o.key THEN s
             ELSE IF x \in (IF i = 0 THEN {} ELSE {registered[i]})
                  THEN "absent" ELSE status[x]]
  BY DEF Enters
<1>2. status[k] # "absent" /\ status[k] \notin Terminal /\ s # "absent"
  BY DEF Active, Terminal, Statuses
<1>3. i # 0 => registered[i] # k
  <2>1. i # 0 => i \in Evictable
    BY <1>1 DEF MakesRoom
  <2> QED BY <2>1, <1>2 DEF Evictable
<1> QED BY <1>1, <1>2, <1>3

\* Only a restart makes the registry forget an active order.
LEMMA StepKeepsActive ==
  ASSUME ServiceInv, Next, NEW k \in Keys, status[k] \in Active,
         status'[k] = "absent"
  PROVE  Restart
<1>1. TypeOK /\ status \in [Keys -> Statuses \union {"absent", "raised"}]
      /\ status[k] # "absent"
  BY DEF ServiceInv, TypeOK, Active, Statuses
<1>2. \A x, e, s : [status EXCEPT ![x] = Transition(s, e)][k] # "absent"
  BY <1>1, TransitionType DEF Statuses
<1>3. ASSUME NEW o \in Orders, HandleMessage(o) PROVE FALSE
  <2>1. Retried \in Statuses \union {"raised"}
        /\ Refused("queued") \in Statuses \union {"raised"}
        /\ Refused(Retried) \in Statuses \union {"raised"}
        /\ "queued" \in Statuses
    BY TransitionType DEF Retried, Refused, Statuses
  <2>2. ASSUME NEW s \in Statuses \union {"raised"},
               Enters(o, s) \/ Retries(o, s)
        PROVE  FALSE
    <3>1. CASE Enters(o, s)
      BY <1>1, <3>1, EntersKeepsActive
    <3>2. CASE Retries(o, s)
      BY <1>1, <3>2 DEF Retries, Statuses
    <3> QED BY <2>2, <3>1, <3>2
  <2>3. CASE ReceiveAdmitted(o)
    BY <2>1, <2>2, <2>3 DEF ReceiveAdmitted
  <2>4. CASE ReceiveQueueFull(o)
    BY <2>1, <2>2, <2>4 DEF ReceiveQueueFull
  <2>5. CASE ReceiveRegistryFull(o) \/ ReceiveIgnored(o) \/ ReceiveDeferred(o)
    BY <1>1, <2>5
       DEF ReceiveRegistryFull, ReceiveIgnored, ReceiveDeferred, registryVars
  <2>6. CASE ReceiveRepublish(o)
    <3>1. \E x, e : status' = [status EXCEPT ![x] = Transition(status[x], e)]
      BY <2>6 DEF ReceiveRepublish
    <3> QED BY <1>2, <3>1
  <2> QED BY <1>3, <2>3, <2>4, <2>5, <2>6 DEF HandleMessage
<1>4. ASSUME NEW w \in Workers, Work(w) PROVE FALSE
  <2>1. \E x, e : status' = [status EXCEPT ![x] = Transition(status[x], e)]
    BY <1>4 DEF Work, WorkerStart, WorkerPrepared, WorkerFailed, Finish
  <2> QED BY <1>2, <2>1
<1>5. CASE Publish
  <2>1. CASE SnapshotPublished
    <3>1. \/ status' = status
          \/ \E x, e, t : status' = [status EXCEPT ![x] = Transition(t, e)]
      BY <2>1 DEF SnapshotPublished
    <3> QED BY <1>1, <1>2, <3>1
  <2>2. CASE TakeUpdate \/ StatusPublished
    BY <1>1, <2>2 DEF TakeUpdate, StatusPublished, registryVars
  <2> QED BY <1>5, <2>1, <2>2 DEF Publish
<1>6. CASE Connect \/ ConnectionLost
  BY <1>1, <1>6 DEF Connect, ConnectionLost, registryVars
<1> QED BY <1>3, <1>4, <1>5, <1>6 DEF Next

\* The registry refuses to evict active orders (README.md:244), and nothing
\* else makes it forget one while the process lives.
THEOREM ActiveIsKept == Spec => ActiveNeverForgotten
<1> DEFINE Keep == \A k \in Keys :
                     status[k] \in Active /\ status'[k] = "absent" => Restart
<1>1. ServiceInv /\ [Next]_vars => [Keep]_vars
  BY StepKeepsActive
<1> QED BY <1>1, ServiceInvariant, PTL DEF Spec, ActiveNeverForgotten
=============================================================================
