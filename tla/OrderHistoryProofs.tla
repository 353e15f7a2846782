------------------------- MODULE OrderHistoryProofs -------------------------
(***************************************************************************)
(* What the order service's past and what the broker saw of it guarantee:  *)
(* refused work that was asked for once is never done, and the events of   *)
(* one order reach the broker in lifecycle order.                          *)
(***************************************************************************)
EXTENDS OrderServiceProofs

-----------------------------------------------------------------------------
(* Refused work.                                                           *)

\* The inductive invariant: what was answered, and what was admitted, was
\* delivered.  So refusing an executing order, or admitting a refused one,
\* takes a second delivery.
GhostInv ==
  /\ \A o \in rejected : deliveries[o] >= 1
  /\ \A o \in Orders : Executing(o) => deliveries[o] >= 1
  /\ NoGhostWork

\* Whatever starts nothing and refuses nothing keeps it.
LEMMA NothingStarts ==
  ASSUME GhostInv, rejected' = rejected, deliveries' = deliveries,
         \A o \in Orders : Executing(o)' => Executing(o), TypeOK
  PROVE  GhostInv'
BY DEF GhostInv, NoGhostWork, TypeOK

\* A delivery of o may start o or refuse o, never both.
LEMMA DeliveredOnce ==
  ASSUME GhostInv, TypeOK, NEW o \in Orders, Receive(o),
         \/ rejected' = rejected
         \/ rejected' = rejected \union {o} /\ ~Executing(o)',
         \A x \in Orders \ {o} : Executing(x)' => Executing(x)
  PROVE  GhostInv'
<1>1. /\ deliveries \in [Orders -> 0..MaxDeliveries] /\ rejected \subseteq Orders
      /\ MaxDeliveries \in Nat
      /\ deliveries' = [deliveries EXCEPT ![o] = deliveries[o] + 1]
  BY ServiceAssumption DEF TypeOK, Receive
<1>2. /\ deliveries'[o] = deliveries[o] + 1 /\ deliveries[o] \in Nat
      /\ \A x \in Orders \ {o} : deliveries'[x] = deliveries[x]
  BY <1>1
<1>3. \A x \in rejected' : deliveries'[x] >= 1
  BY <1>1, <1>2 DEF GhostInv
<1>4. \A x \in Orders : Executing(x)' => deliveries'[x] >= 1
  BY <1>2 DEF GhostInv
<1>5. ASSUME NEW x \in rejected', deliveries'[x] = 1 PROVE ~Executing(x)'
  <2>1. CASE x = o
    <3>1. o \notin rejected
      BY <1>2, <1>5, <2>1 DEF GhostInv
    <3> QED BY <1>5, <2>1, <3>1
  <2>2. CASE x # o
    BY <1>1, <1>2, <1>5, <2>2 DEF GhostInv, NoGhostWork
  <2> QED BY <2>1, <2>2
<1> QED BY <1>3, <1>4, <1>5 DEF GhostInv, NoGhostWork

\* Storing an entry for o starts no other order, and an order that is stored
\* was not executing.
LEMMA EntryStarts ==
  ASSUME ServiceInv, Running, NEW o \in Orders, NEW s \in Statuses,
         Enters(o, s) \/ Retries(o, s), working' = working,
         \A k \in Keys : Contains(queue', k) => Contains(queue, k) \/ k = o.key
  PROVE  /\ \A x \in Orders \ {o} : Executing(x)' => Executing(x)
         /\ \A w \in Workers : working[w] # o.key
         /\ ~Contains(queue, o.key)
<1>1. /\ o.key \in Keys /\ o.food \in Foods
      /\ status[o.key] \in {"absent", "failed"} /\ ordered'[o.key] = o.food
      /\ \A k \in Keys \ {o.key} :
           \/ status'[k] = status[k] /\ ordered'[k] = ordered[k]
           \/ status[k] \in Terminal /\ status'[k] = "absent"
  BY RegisterFacts
<1>2. \A k \in Keys : status[k] \in Terminal \union {"absent"} =>
        ~Contains(queue, k) /\ \A w \in Workers : working[w] # k
  BY InvFacts, ServiceAssumption DEF Terminal
<1>3. ASSUME NEW x \in Orders \ {o}, Executing(x)' PROVE Executing(x)
  <2>1. /\ x.key \in Keys /\ ordered'[x.key] = x.food
        /\ Contains(queue', x.key) \/ \E w \in Workers : working[w] = x.key
    BY <1>3 DEF Executing, Orders
  <2>2. CASE x.key = o.key
    <3>1. x.food = o.food
      BY <1>1, <2>1, <2>2
    <3>2. x = o
      BY <2>2, <3>1 DEF Orders
    <3> QED BY <3>2
  <2>3. CASE x.key # o.key
    <3>1. Contains(queue, x.key) \/ \E w \in Workers : working[w] = x.key
      BY <2>1, <2>3
    <3> QED BY <1>1, <1>2, <2>1, <2>3, <3>1 DEF Executing
  <2> QED BY <2>2, <2>3
<1> QED BY <1>1, <1>2, <1>3 DEF Terminal

\* Every way to handle a request keeps the invariant.
LEMMA HandleMessageGhost ==
  ASSUME ServiceInv, GhostInv, NEW o \in Orders, HandleMessage(o)
  PROVE  GhostInv'
<1>1. /\ Receive(o) /\ Running /\ working' = working /\ TypeOK
      /\ o.key \in Keys /\ queue \in Seq(Keys)
  BY DEF HandleMessage, ReceiveAdmitted, ReceiveQueueFull, ReceiveRegistryFull,
         ReceiveIgnored, ReceiveDeferred, ReceiveRepublish, Receive, ServiceInv,
         TypeOK, Orders
<1>2. CASE ReceiveAdmitted(o)
  <2>1. /\ Enters(o, "queued") \/ Retries(o, "queued")
        /\ queue' = Append(queue, o.key) /\ rejected' = rejected
    BY <1>2, ReducerFacts DEF ReceiveAdmitted
  <2>2. \A k \in Keys : Contains(queue', k) => Contains(queue, k) \/ k = o.key
    BY <1>1, <2>1, AppendHolds
  <2>3. \A x \in Orders \ {o} : Executing(x)' => Executing(x)
    BY <1>1, <2>1, <2>2, EntryStarts DEF Statuses
  <2> QED BY <1>1, <2>1, <2>3, DeliveredOnce
<1>3. CASE ReceiveQueueFull(o)
  <2>1. /\ Enters(o, "failed") \/ Retries(o, "failed")
        /\ queue' = queue /\ rejected' = rejected \union {o}
    BY <1>3, ReducerFacts DEF ReceiveQueueFull
  <2>2. /\ \A x \in Orders \ {o} : Executing(x)' => Executing(x)
        /\ \A w \in Workers : working[w] # o.key
        /\ ~Contains(queue, o.key)
    BY <1>1, <2>1, EntryStarts DEF Statuses
  <2>3. ~Executing(o)'
    BY <1>1, <2>1, <2>2 DEF Executing
  <2> QED BY <1>1, <2>1, <2>2, <2>3, DeliveredOnce
<1>4. CASE ReceiveRegistryFull(o)
  <2>1. /\ status[o.key] = "absent" /\ ordered' = ordered /\ queue' = queue
        /\ rejected' = rejected \union {o}
    BY <1>4 DEF ReceiveRegistryFull, registryVars
  <2>2. ~Contains(queue, o.key) /\ \A w \in Workers : working[w] # o.key
    BY <1>1, <2>1, InvFacts, ServiceAssumption
  <2>3. ~Executing(o)'
    BY <1>1, <2>1, <2>2 DEF Executing
  <2>4. \A x \in Orders \ {o} : Executing(x)' => Executing(x)
    BY <1>1, <2>1 DEF Executing
  <2> QED BY <1>1, <2>1, <2>3, <2>4, DeliveredOnce
<1>5. CASE ReceiveIgnored(o) \/ ReceiveDeferred(o) \/ ReceiveRepublish(o)
  <2>1. ordered' = ordered /\ queue' = queue /\ rejected' = rejected
    BY <1>5
       DEF ReceiveIgnored, ReceiveDeferred, ReceiveRepublish, registryVars
  <2>2. \A x \in Orders \ {o} : Executing(x)' => Executing(x)
    BY <1>1, <2>1 DEF Executing
  <2> QED BY <1>1, <2>1, <2>2, DeliveredOnce
<1> QED BY <1>2, <1>3, <1>4, <1>5 DEF HandleMessage

\* A worker takes an order from the queue, or lets it go.
LEMMA WorkGhost ==
  ASSUME ServiceInv, GhostInv, NEW w \in Workers, Work(w)
  PROVE  GhostInv'
<1>1. /\ TypeOK /\ Running /\ working \in [Workers -> Keys \union {NoKey}]
      /\ queue \in Seq(Keys) /\ IsInjective(queue) /\ NoKey \notin Keys
      /\ rejected' = rejected /\ deliveries' = deliveries /\ ordered' = ordered
  BY ServiceAssumption
     DEF Work, WorkerStart, WorkerPrepared, WorkerFailed, Finish, ServiceInv,
         TypeOK, QueueHoldsQueued
<1>2. CASE WorkerStart(w)
  <2>1. /\ queue # <<>> /\ queue' = Tail(queue)
        /\ working' = [working EXCEPT ![w] = Head(queue)]
    BY <1>2 DEF WorkerStart
  <2>2. /\ Contains(queue, Head(queue))
        /\ \A k : Contains(queue', k) => Contains(queue, k)
    BY <1>1, <2>1, TailFacts, TailHolds DEF Contains
  <2>3. \A v \in Workers : working'[v] = working[v] \/ working'[v] = Head(queue)
    BY <1>1, <2>1
  <2>4. \A x \in Orders : Executing(x)' => Executing(x)
    BY <1>1, <2>2, <2>3 DEF Executing
  <2> QED BY <1>1, <2>4, NothingStarts
<1>3. CASE WorkerPrepared(w) \/ WorkerFailed(w)
  <2>1. queue' = queue /\ working' = [working EXCEPT ![w] = NoKey]
    BY <1>3 DEF WorkerPrepared, WorkerFailed, Finish
  <2>2. \A v \in Workers : working'[v] = working[v] \/ working'[v] = NoKey
    BY <1>1, <2>1
  <2>3. \A x \in Orders : Executing(x)' => Executing(x)
    BY <1>1, <2>1, <2>2 DEF Executing, Orders
  <2> QED BY <1>1, <2>3, NothingStarts
<1> QED BY <1>2, <1>3 DEF Work

\* Every step keeps the invariant.
LEMMA GhostNext == ServiceInv /\ GhostInv /\ [Next]_vars => GhostInv'
<1> SUFFICES ASSUME ServiceInv, GhostInv, [Next]_vars PROVE GhostInv'
  OBVIOUS
<1>1. TypeOK
  BY DEF ServiceInv
<1>2. CASE UNCHANGED vars \/ Publish \/ Connect \/ ConnectionLost
  <2>1. /\ ordered' = ordered /\ queue' = queue /\ working' = working
        /\ rejected' = rejected /\ deliveries' = deliveries
    BY <1>2
       DEF vars, Publish, TakeUpdate, StatusPublished, SnapshotPublished,
           Connect, ConnectionLost, registryVars, kitchenVars
  <2>2. \A x \in Orders : Executing(x)' => Executing(x)
    BY <2>1 DEF Executing
  <2> QED BY <1>1, <2>1, <2>2, NothingStarts
<1>3. CASE Restart
  <2>1. /\ queue' = <<>> /\ \A w \in Workers : working'[w] = NoKey
        /\ rejected' = rejected /\ deliveries' = deliveries
    BY <1>3 DEF Restart, EmptyMemory
  <2>2. \A x \in Orders : ~Contains(queue', x.key) /\ x.key # NoKey
    BY <2>1, ServiceAssumption DEF Contains, Orders
  <2>3. \A x \in Orders : Executing(x)' => Executing(x)
    BY <2>1, <2>2 DEF Executing
  <2> QED BY <1>1, <2>1, <2>3, NothingStarts
<1> QED BY <1>2, <1>3, HandleMessageGhost, WorkGhost DEF Next

\* A request that was handed over once and answered service_overloaded never
\* waits for a worker or has one, in any later state.
THEOREM NoGhost == Spec => []NoGhostWork
<1>1. Init => GhostInv
  <2> SUFFICES ASSUME Init PROVE GhostInv
    OBVIOUS
  <2>1. /\ rejected = {} /\ queue = <<>> /\ \A w \in Workers : working[w] = NoKey
    BY DEF Init, EmptyMemory
  <2>2. \A x \in Orders : ~Contains(queue, x.key) /\ x.key # NoKey
    BY <2>1, ServiceAssumption DEF Contains, Orders
  <2> QED BY <2>1, <2>2 DEF GhostInv, NoGhostWork, Executing
<1>2. GhostInv => NoGhostWork
  BY DEF GhostInv
<1> QED BY <1>1, <1>2, GhostNext, ServiceInvariant, PTL DEF Spec

-----------------------------------------------------------------------------
(* The events of one order, as the broker sees them.                       *)

\* The event b may follow the event a, or repeats it.
Follows(a, b) == a = b \/ <<a, b>> \in MayFollow

\* Of the updates us still to be published: positions i and j hold consecutive
\* updates of one order, i holds the first or the last update of its order.
Consecutive(us, i, j) ==
  /\ i < j /\ us[i].key = us[j].key
  /\ \A m \in DOMAIN us : i < m /\ m < j => us[m].key # us[j].key
IsFirst(us, i) == \A m \in DOMAIN us : m < i => us[m].key # us[i].key
IsLast(us, i) == \A m \in DOMAIN us : i < m => us[m].key # us[i].key

\* The updates of each order follow one another, and follow what f says the
\* broker saw last of it.
Chained(us) ==
  \A i, j \in DOMAIN us : Consecutive(us, i, j) => Follows(us[i].kind, us[j].kind)
Continues(us, f) ==
  \A i \in DOMAIN us : IsFirst(us, i) => Follows(f[us[i].key], us[i].kind)

\* The event of k the broker will have seen last once us is published.
Latest(us, f, k, kind) ==
  \/ \E i \in DOMAIN us : us[i].key = k /\ us[i].kind = kind /\ IsLast(us, i)
  \/ (\A i \in DOMAIN us : us[i].key # k) /\ f[k] = kind

\* What that may be, by the status of the order.
Said ==
  [absent |-> {"none", "food_ready", "service_overloaded", "processing_failed"},
   failed |-> FailedKinds, queued |-> {"queued"}, processing |-> {"processing"},
   food_ready |-> {"food_ready"}, published |-> {"food_ready"}]

\* Appending an update that follows the latest one of its order.
LEMMA AppendFollows ==
  ASSUME NEW us \in Seq(Updates), NEW u \in Updates, NEW f, NEW latest,
         Chained(us), Continues(us, f), Latest(us, f, u.key, latest),
         Follows(latest, u.kind)
  PROVE  LET vs == Append(us, u) IN
         /\ Chained(vs) /\ Continues(vs, f) /\ Latest(vs, f, u.key, u.kind)
         /\ \A k, kind : k # u.key /\ Latest(us, f, k, kind)
                           => Latest(vs, f, k, kind)
<1> DEFINE vs == Append(us, u)
           n == Len(us) + 1
<1>1. /\ DOMAIN us = 1..Len(us) /\ Len(us) \in Nat /\ DOMAIN vs = 1..n
      /\ n \in Nat /\ \A i \in DOMAIN us : i < n /\ vs[i] = us[i]
      /\ vs[n] = u /\ \A i \in DOMAIN vs : i \in DOMAIN us \/ i = n
      /\ \A i \in DOMAIN us : i \in DOMAIN vs
      /\ n \in DOMAIN vs
  BY AppendFacts
<1> HIDE DEF vs, n
<1>2. ASSUME NEW i \in DOMAIN vs, NEW j \in DOMAIN vs, Consecutive(vs, i, j)
      PROVE  Follows(vs[i].kind, vs[j].kind)
  <2>1. i \in DOMAIN us
    BY <1>1, <1>2 DEF Consecutive
  <2>2. CASE j \in DOMAIN us
    <3>1. Consecutive(us, i, j)
      BY <1>1, <1>2, <2>1, <2>2 DEF Consecutive
    <3> QED BY <1>1, <2>1, <2>2, <3>1 DEF Chained
  <2>3. CASE j = n
    <3>1. us[i].key = u.key /\ \A m \in DOMAIN us : i < m => us[m].key # u.key
      BY <1>1, <1>2, <2>1, <2>3 DEF Consecutive
    <3>2. PICK l \in DOMAIN us :
            us[l].key = u.key /\ us[l].kind = latest /\ IsLast(us, l)
      BY <2>1, <3>1 DEF Latest
    <3>3. l = i
      BY <1>1, <2>1, <3>1, <3>2 DEF IsLast
    <3> QED BY <1>1, <2>1, <2>3, <3>2, <3>3
  <2> QED BY <1>1, <2>2, <2>3
<1>3. ASSUME NEW i \in DOMAIN vs, IsFirst(vs, i)
      PROVE  Follows(f[vs[i].key], vs[i].kind)
  <2>1. CASE i \in DOMAIN us
    <3>1. IsFirst(us, i)
      BY <1>1, <1>3, <2>1 DEF IsFirst
    <3> QED BY <1>1, <2>1, <3>1 DEF Continues
  <2>2. CASE i = n
    <3>1. \A m \in DOMAIN us : us[m].key # u.key
      BY <1>1, <1>3, <2>2 DEF IsFirst
    <3> QED BY <1>1, <2>2, <3>1 DEF Latest
  <2> QED BY <1>1, <2>1, <2>2
<1>4. Latest(vs, f, u.key, u.kind)
  <2>1. \A m \in DOMAIN vs : ~(n < m)
    BY <1>1
  <2> QED BY <1>1, <2>1 DEF Latest, IsLast
<1>5. ASSUME NEW k, NEW kind, k # u.key, Latest(us, f, k, kind)
      PROVE  Latest(vs, f, k, kind)
  <2>1. CASE \A i \in DOMAIN us : us[i].key # k
    BY <1>1, <1>5, <2>1 DEF Latest
  <2>2. ASSUME NEW i \in DOMAIN us, us[i].key = k, us[i].kind = kind,
               IsLast(us, i)
        PROVE  Latest(vs, f, k, kind)
    <3>1. IsLast(vs, i) /\ vs[i] = us[i] /\ i \in DOMAIN vs
      BY <1>1, <1>5, <2>2 DEF IsLast
    <3> QED BY <2>2, <3>1 DEF Latest
  <2> QED BY <1>5, <2>1, <2>2 DEF Latest
<1> QED BY <1>2, <1>3, <1>4, <1>5 DEF Chained, Continues, vs

\* Dropping the head the broker has seen.
LEMMA TailFollows ==
  ASSUME NEW us \in Seq(Updates), us # <<>>, NEW f,
         Chained(us), Continues(us, f), f[Head(us).key] = Head(us).kind
  PROVE  /\ Chained(Tail(us)) /\ Continues(Tail(us), f)
         /\ \A k, kind : Latest(us, f, k, kind) => Latest(Tail(us), f, k, kind)
<1> DEFINE t == Tail(us)
<1>1. /\ Head(us) = us[1] /\ 1 \in DOMAIN us
      /\ \A i \in DOMAIN us : i \in Nat \ {0}
      /\ \A i \in DOMAIN t : /\ i \in Nat \ {0} /\ i + 1 \in DOMAIN us
                             /\ t[i] = us[i + 1]
      /\ \A i \in DOMAIN us : i # 1 => /\ i - 1 \in DOMAIN t
                                       /\ us[i] = t[i - 1]
  BY TailFacts
<1> HIDE DEF t
<1>2. ASSUME NEW i \in DOMAIN t, NEW j \in DOMAIN t, Consecutive(t, i, j)
      PROVE  Follows(t[i].kind, t[j].kind)
  <2>1. ASSUME NEW m \in DOMAIN us, i + 1 < m, m < j + 1
        PROVE  us[m].key # us[j + 1].key
    <3>0. m \in Int /\ i \in Nat /\ j \in Int /\ m # 1
      BY <1>1, <2>1
    <3>1. m - 1 \in DOMAIN t /\ us[m] = t[m - 1] /\ i < m - 1 /\ m - 1 < j
      <4>1. m - 1 \in DOMAIN t /\ us[m] = t[m - 1]
        BY <1>1, <3>0
      <4> QED BY <2>1, <3>0, <4>1
    <3> QED BY <1>1, <1>2, <3>1 DEF Consecutive
  <2>2. Consecutive(us, i + 1, j + 1)
    BY <1>1, <1>2, <2>1 DEF Consecutive
  <2> QED BY <1>1, <2>2 DEF Chained
<1>3. ASSUME NEW i \in DOMAIN t, IsFirst(t, i)
      PROVE  Follows(f[t[i].key], t[i].kind)
  <2>1. ASSUME NEW m \in DOMAIN us, m < i + 1, m # 1
        PROVE  us[m].key # us[i + 1].key
    <3>0. m - 1 \in DOMAIN t /\ us[m] = t[m - 1]
      BY <1>1, <2>1
    <3>1. m - 1 \in DOMAIN t /\ us[m] = t[m - 1] /\ m - 1 < i
      <4>1. m \in Int /\ i \in Int
        BY <1>1
      <4> QED BY <2>1, <3>0, <4>1
    <3> QED BY <1>1, <1>3, <3>1 DEF IsFirst
  <2>2. CASE us[1].key = t[i].key
    <3>1. Consecutive(us, 1, i + 1)
      BY <1>1, <2>1, <2>2 DEF Consecutive
    <3>2. Follows(us[1].kind, us[i + 1].kind)
      BY <1>1, <3>1 DEF Chained
    <3> QED BY <1>1, <2>2, <3>2
  <2>3. CASE us[1].key # t[i].key
    <3>1. IsFirst(us, i + 1)
      BY <1>1, <2>1, <2>3 DEF IsFirst
    <3> QED BY <1>1, <3>1 DEF Continues
  <2> QED BY <2>2, <2>3
<1>4. ASSUME NEW k, NEW kind, Latest(us, f, k, kind)
      PROVE  Latest(t, f, k, kind)
  <2>1. CASE \A i \in DOMAIN us : us[i].key # k
    BY <1>1, <1>4, <2>1 DEF Latest
  <2>2. ASSUME NEW i \in DOMAIN us, us[i].key = k, us[i].kind = kind,
               IsLast(us, i)
        PROVE  Latest(t, f, k, kind)
    <3>1. CASE i = 1
      <4>1. \A j \in DOMAIN t : t[j].key # k
        BY <1>1, <2>2, <3>1 DEF IsLast
      <4> QED BY <1>1, <2>2, <3>1, <4>1 DEF Latest
    <3>2. CASE i # 1
      <4>1. PICK n \in DOMAIN t : n = i - 1 /\ t[n] = us[i]
        BY <1>1, <3>2
      <4>2. ASSUME NEW m \in DOMAIN t, n < m PROVE t[m].key # t[n].key
        <5>1. m + 1 \in DOMAIN us /\ t[m] = us[m + 1]
          BY <1>1
        <5>2. m \in Int /\ n = i - 1 /\ i \in Int
          BY <4>1
        <5>3. i < m + 1
          BY <4>2, <5>2
        <5> QED BY <2>2, <4>1, <5>1, <5>3 DEF IsLast
      <4>3. t[n].key = k /\ t[n].kind = kind
        BY <2>2, <4>1
      <4> QED BY <4>2, <4>3 DEF Latest, IsLast
    <3> QED BY <3>1, <3>2
  <2> QED BY <1>4, <2>1, <2>2 DEF Latest
<1> QED BY <1>2, <1>3, <1>4 DEF Chained, Continues, t

\* The broker accepts the event at the head.
LEMMA AnnouncedFollows ==
  ASSUME NEW us \in Seq(Updates), us # <<>>,
         NEW f \in [Keys -> Kinds \union {"none"}], Continues(us, f),
         NEW g, g = [f EXCEPT ![Head(us).key] = Head(us).kind]
  PROVE  /\ Follows(f[Head(us).key], Head(us).kind)
         /\ g[Head(us).key] = Head(us).kind
         /\ Continues(us, g)
         /\ \A k \in Keys : \A kind :
              Latest(us, f, k, kind) => Latest(us, g, k, kind)
<1>1. /\ Head(us) = us[1] /\ 1 \in DOMAIN us /\ us[1].key \in Keys
      /\ \A i \in DOMAIN us : i \in Nat \ {0} /\ us[i].key \in Keys
  <2>1. /\ Head(us) = us[1] /\ 1 \in DOMAIN us
        /\ \A i \in DOMAIN us : i \in Nat \ {0}
    BY TailFacts
  <2>2. \A i \in DOMAIN us : us[i] \in Updates
    OBVIOUS
  <2> QED BY <2>1, <2>2 DEF Updates
<1>2. /\ g[us[1].key] = us[1].kind
      /\ \A k \in Keys : k # us[1].key => g[k] = f[k]
  BY <1>1
<1>3. Follows(f[us[1].key], us[1].kind)
  <2>1. IsFirst(us, 1)
    BY <1>1 DEF IsFirst
  <2> QED BY <1>1, <2>1 DEF Continues
<1>4. Continues(us, g)
  <2>1. ASSUME NEW i \in DOMAIN us, IsFirst(us, i)
        PROVE  Follows(g[us[i].key], us[i].kind)
    <3>1. CASE i = 1
      BY <1>2, <3>1 DEF Follows
    <3>2. CASE i # 1
      <4>1. us[1].key # us[i].key
        BY <1>1, <2>1, <3>2 DEF IsFirst
      <4>2. g[us[i].key] = f[us[i].key]
        BY <1>1, <1>2, <4>1
      <4> QED BY <2>1, <4>2 DEF Continues
    <3> QED BY <3>1, <3>2
  <2> QED BY <2>1 DEF Continues
<1>5. ASSUME NEW k \in Keys, NEW kind, Latest(us, f, k, kind)
      PROVE  Latest(us, g, k, kind)
  BY <1>1, <1>2, <1>5 DEF Latest
<1> QED BY <1>1, <1>2, <1>3, <1>4, <1>5

\* The inductive invariant, while the first process runs: what the broker saw
\* last and what is still to be published are one history of each order, which
\* ends as the registry's status of the order says.
HistoryInv ==
  Running /\ restarts = 0 =>
    /\ Chained(updates) /\ Continues(updates, announced)
    /\ stage = "snapshot" =>
         announced[Head(updates).key] = Head(updates).kind
    /\ \A k \in Keys : \E kind \in Said[status[k]] :
         Latest(updates, announced, k, kind)

\* What may be said next, by the status that is left.
LEMMA SaidFacts ==
  /\ \A kind \in Said["absent"] : Follows(kind, "queued")
                                  /\ Follows(kind, "service_overloaded")
  /\ \A kind \in Said["failed"] : Follows(kind, "queued")
                                  /\ Follows(kind, "service_overloaded")
  /\ \A kind \in Said["queued"] : Follows(kind, "processing")
  /\ \A kind \in Said["processing"] : Follows(kind, "food_ready")
                                      /\ Follows(kind, "processing_failed")
  /\ \A kind \in Said["published"] : Follows(kind, "food_ready")
  /\ Said["failed"] \subseteq Said["absent"]
  /\ Said["published"] \subseteq Said["absent"]
  /\ Said["food_ready"] = Said["published"]
  /\ "service_overloaded" \in Said["failed"]
  /\ "service_overloaded" \in Said["absent"]
  /\ "processing_failed" \in Said["failed"]
  /\ "queued" \in Said["queued"] /\ "processing" \in Said["processing"]
  /\ "food_ready" \in Said["food_ready"]
BY DEF Said, Follows, MayFollow, FailedKinds

\* A step that queues u and changes the status of its order alone, or forgets
\* finished orders, keeps the invariant when u may be said.
LEMMA QueuedHistory ==
  ASSUME ServiceInv, HistoryInv, Running, restarts' = restarts,
         NEW u \in Updates, updates' = Append(updates, u),
         announced' = announced, stage' = stage,
         \A k \in Keys \ {u.key} : Said[status[k]] \subseteq Said[status'[k]],
         \A kind \in Said[status[u.key]] : Follows(kind, u.kind),
         u.kind \in Said[status'[u.key]]
  PROVE  HistoryInv'
<1> SUFFICES ASSUME Running', restarts = 0 PROVE HistoryInv'
  BY DEF HistoryInv
<1>1. /\ Chained(updates) /\ Continues(updates, announced)
      /\ stage = "snapshot" =>
           announced[Head(updates).key] = Head(updates).kind
      /\ \A k \in Keys : \E kind \in Said[status[k]] :
           Latest(updates, announced, k, kind)
  BY DEF HistoryInv
<1>2. updates \in Seq(Updates) /\ u.key \in Keys
  BY InvFacts DEF Updates
<1>3. PICK latest \in Said[status[u.key]] :
        Latest(updates, announced, u.key, latest)
  BY <1>1, <1>2
<1>4. /\ Chained(updates') /\ Continues(updates', announced)
      /\ Latest(updates', announced, u.key, u.kind)
      /\ \A k, kind : k # u.key /\ Latest(updates, announced, k, kind)
                        => Latest(updates', announced, k, kind)
  BY <1>1, <1>2, <1>3, AppendFollows
<1>5. stage = "snapshot" => Head(updates') = Head(updates)
  <2>1. stage = "snapshot" => updates # <<>>
    BY InvFacts
  <2> QED BY <1>2, <2>1
<1>6. ASSUME NEW k \in Keys
      PROVE  \E kind \in Said[status'[k]] : Latest(updates', announced, k, kind)
  <2>1. CASE k = u.key
    BY <1>4, <2>1
  <2>2. CASE k # u.key
    BY <1>1, <1>4, <2>2
  <2> QED BY <2>1, <2>2
<1>7. Chained(updates)' /\ Continues(updates, announced)'
  BY <1>4 DEF Chained, Continues, Consecutive, IsFirst
<1>8. \A k \in Keys : \E kind \in Said[status'[k]] :
        Latest(updates, announced, k, kind)'
  BY <1>6 DEF Latest, IsLast
<1>9. (stage = "snapshot" =>
         announced[Head(updates).key] = Head(updates).kind)'
  BY <1>1, <1>5
<1> QED BY <1>7, <1>8, <1>9 DEF HistoryInv

\* A step that leaves the statuses and what was said alone keeps it.
LEMMA QuietHistory ==
  ASSUME HistoryInv, Running, restarts' = restarts, updates' = updates,
         announced' = announced, stage' \in {stage, "idle", "status"},
         status' = status
  PROVE  HistoryInv'
BY DEF HistoryInv, Chained, Continues, Consecutive, IsFirst, Latest, IsLast

\* Every way to handle a request keeps the invariant.
LEMMA HandleMessageHistory ==
  ASSUME ServiceInv, HistoryInv, Running', NEW o \in Orders, HandleMessage(o)
  PROVE  HistoryInv'
<1>1. /\ Running /\ restarts' = restarts /\ announced' = announced
      /\ stage' = stage /\ o.key \in Keys /\ o.food \in Foods
  BY DEF HandleMessage, ReceiveAdmitted, ReceiveQueueFull, ReceiveRegistryFull,
         ReceiveIgnored, ReceiveDeferred, ReceiveRepublish, Receive, linkVars,
         Orders
<1>2. ASSUME NEW s \in {"queued", "failed"},
             NEW kind \in {"queued", "service_overloaded"},
             Enters(o, s) \/ Retries(o, s), kind \in Said[s],
             updates' = Append(updates, Update(o.key, kind, o.food))
      PROVE  HistoryInv'
  <2>1. /\ status[o.key] \in {"absent", "failed"} /\ status'[o.key] = s
        /\ \A k \in Keys \ {o.key} :
             \/ status'[k] = status[k]
             \/ status[k] \in {"failed", "published"} /\ status'[k] = "absent"
    BY <1>1, <1>2, RegisterFacts DEF Statuses, Terminal
  <2>2. \A k \in Keys \ {o.key} : Said[status[k]] \subseteq Said[status'[k]]
    BY <2>1, SaidFacts
  <2>3. \A x \in Said[status[o.key]] : Follows(x, kind)
    BY <2>1, SaidFacts
  <2>4. /\ Update(o.key, kind, o.food) \in Updates
        /\ Update(o.key, kind, o.food).key = o.key
        /\ Update(o.key, kind, o.food).kind = kind
    BY <1>1, UpdateType DEF Kinds
  <2> QED BY <1>1, <1>2, <2>1, <2>2, <2>3, <2>4, QueuedHistory
<1>3. CASE ReceiveAdmitted(o)
  <2>1. /\ Enters(o, "queued") \/ Retries(o, "queued")
        /\ updates' = Append(updates, Update(o.key, "queued", o.food))
    BY <1>3, ReducerFacts, QueuedUpdate DEF ReceiveAdmitted
  <2> QED BY <1>2, <2>1, SaidFacts
<1>4. CASE ReceiveQueueFull(o)
  <2>1. /\ Enters(o, "failed") \/ Retries(o, "failed")
        /\ updates' = Append(updates, Update(o.key, "service_overloaded", o.food))
    BY <1>4, ReducerFacts, QueuedUpdate DEF ReceiveQueueFull
  <2> QED BY <1>2, <2>1, SaidFacts
<1>5. CASE ReceiveRegistryFull(o)
  <2> DEFINE u == Update(o.key, "service_overloaded", o.food)
  <2>1. /\ status[o.key] = "absent" /\ status' = status
        /\ updates' = Append(updates, u)
    BY <1>5, QueuedUpdate DEF ReceiveRegistryFull, registryVars
  <2>2. u \in Updates /\ u.key = o.key /\ u.kind = "service_overloaded"
    BY <1>1, UpdateType DEF Kinds
  <2> HIDE DEF u
  <2> QED BY <1>1, <2>1, <2>2, SaidFacts, QueuedHistory
<1>6. CASE ReceiveIgnored(o) \/ ReceiveDeferred(o)
  <2>1. status' = status /\ updates' = updates
    BY <1>6 DEF ReceiveIgnored, ReceiveDeferred, registryVars
  <2> QED BY <1>1, <2>1, QuietHistory
<1>7. CASE ReceiveRepublish(o)
  <2> DEFINE u == Update(o.key, "food_ready", o.food)
  <2>1. /\ status[o.key] = "published"
        /\ status' = [status EXCEPT ![o.key] = "food_ready"]
        /\ updates' = Append(updates, u)
    BY <1>7, ReducerFacts, QueuedUpdate DEF ReceiveRepublish
  <2>2. u \in Updates /\ u.key = o.key /\ u.kind = "food_ready"
    BY <1>1, UpdateType DEF Kinds
  <2> HIDE DEF u
  <2>3. /\ status'[o.key] = "food_ready"
        /\ \A k \in Keys \ {o.key} : status'[k] = status[k]
    BY <1>1, <2>1, InvFacts
  <2> QED BY <1>1, <2>1, <2>2, <2>3, SaidFacts, QueuedHistory
<1> QED BY <1>3, <1>4, <1>5, <1>6, <1>7 DEF HandleMessage

\* A worker's steps keep it.
LEMMA WorkHistory ==
  ASSUME ServiceInv, HistoryInv, Running', NEW w \in Workers, Work(w)
  PROVE  HistoryInv'
<1>1. /\ Running /\ restarts' = restarts /\ announced' = announced
      /\ stage' = stage
  BY DEF Work, WorkerStart, WorkerPrepared, WorkerFailed, Finish,
         publisherVars, linkVars
<1>2. ASSUME NEW k \in Keys, NEW s, NEW kind \in Kinds, kind \in Said[s],
             status[k] # "absent", status' = [status EXCEPT ![k] = s],
             updates' = Append(updates, Update(k, kind, ordered[k])),
             \A x \in Said[status[k]] : Follows(x, kind)
      PROVE  HistoryInv'
  <2>1. ordered[k] \in Foods
    BY <1>1, <1>2, RegisteredHasFood
  <2>2. /\ Update(k, kind, ordered[k]) \in Updates
        /\ Update(k, kind, ordered[k]).key = k
        /\ Update(k, kind, ordered[k]).kind = kind
    BY <2>1, UpdateType
  <2>3. status'[k] = s /\ \A x \in Keys \ {k} : status'[x] = status[x]
    BY <1>1, <1>2, InvFacts
  <2> QED BY <1>1, <1>2, <2>2, <2>3, QueuedHistory
<1>3. CASE WorkerStart(w)
  <2> DEFINE k == Head(queue)
  <2>1. k \in Keys /\ status[k] = "queued"
    BY <1>1, <1>3, StartsQueued DEF WorkerStart
  <2>2. /\ status' = [status EXCEPT ![k] = "processing"]
        /\ updates' = Append(updates, Update(k, "processing", ordered[k]))
    BY <1>3, <2>1, ReducerFacts, QueuedUpdate DEF WorkerStart
  <2> HIDE DEF k
  <2> QED BY <1>2, <2>1, <2>2, SaidFacts DEF Kinds
<1>4. CASE WorkerPrepared(w) \/ WorkerFailed(w)
  <2> DEFINE k == working[w]
  <2>1. k \in Keys /\ status[k] = "processing"
    BY <1>1, <1>4, FinishesProcessing DEF WorkerPrepared, WorkerFailed, Finish
  <2>2. \/ /\ status' = [status EXCEPT ![k] = "food_ready"]
           /\ updates' = Append(updates, Update(k, "food_ready", ordered[k]))
        \/ /\ status' = [status EXCEPT ![k] = "failed"]
           /\ updates' = Append(updates,
                                Update(k, "processing_failed", ordered[k]))
    BY <1>4, <2>1, ReducerFacts, QueuedUpdate
       DEF WorkerPrepared, WorkerFailed, Finish
  <2> HIDE DEF k
  <2> QED BY <1>2, <2>1, <2>2, SaidFacts DEF Kinds
<1> QED BY <1>3, <1>4 DEF Work

\* The broker accepts the status event that is being published.
LEMMA AnnounceHistory ==
  ASSUME ServiceInv, HistoryInv, Running, stage = "status", Announce,
         restarts' = restarts, updates' = updates, status' = status
  PROVE  /\ HistoryInv'
         /\ restarts = 0 => \A k \in Keys : announced'[k] # announced[k] =>
                              <<announced[k], announced'[k]>> \in MayFollow
<1> SUFFICES ASSUME restarts = 0
             PROVE  /\ HistoryInv'
                    /\ \A k \in Keys : announced'[k] # announced[k] =>
                         <<announced[k], announced'[k]>> \in MayFollow
  BY DEF HistoryInv
<1>1. /\ Chained(updates) /\ Continues(updates, announced)
      /\ \A k \in Keys : \E kind \in Said[status[k]] :
           Latest(updates, announced, k, kind)
  BY DEF HistoryInv
<1>2. /\ updates \in Seq(Updates) /\ updates # <<>> /\ Head(updates).key \in Keys
      /\ announced \in [Keys -> Kinds \union {"none"}]
      /\ announced' = [announced EXCEPT ![Head(updates).key] = Head(updates).kind]
  BY HeadIsUpdate DEF Announce, ServiceInv, TypeOK
<1>3. /\ Follows(announced[Head(updates).key], Head(updates).kind)
      /\ announced'[Head(updates).key] = Head(updates).kind
      /\ Continues(updates, announced')
      /\ \A k \in Keys : \A kind :
           Latest(updates, announced, k, kind)
             => Latest(updates, announced', k, kind)
  BY <1>1, <1>2, AnnouncedFollows
<1>4. \A k \in Keys : \E kind \in Said[status[k]] :
        Latest(updates, announced', k, kind)
  BY <1>1, <1>3
<1>5. HistoryInv'
  BY <1>1, <1>3, <1>4
     DEF HistoryInv, Chained, Continues, Consecutive, IsFirst, Latest, IsLast
<1>6. ASSUME NEW k \in Keys, announced'[k] # announced[k]
      PROVE  <<announced[k], announced'[k]>> \in MayFollow
  <2>1. k = Head(updates).key
    BY <1>2, <1>6
  <2> QED BY <1>3, <1>6, <2>1 DEF Follows
<1> QED BY <1>5, <1>6

\* The publisher's steps keep it.
LEMMA PublishHistory ==
  ASSUME ServiceInv, HistoryInv, Running', Publish
  PROVE  HistoryInv'
<1>1. /\ Running /\ restarts' = restarts
  BY DEF Publish, TakeUpdate, StatusPublished, SnapshotPublished, linkVars
<1>2. CASE TakeUpdate
  BY <1>1, <1>2, QuietHistory DEF TakeUpdate, registryVars
<1>3. CASE StatusPublished
  BY <1>1, <1>3, AnnounceHistory DEF StatusPublished, registryVars
<1>4. CASE SnapshotPublished
  <2> SUFFICES ASSUME restarts = 0 PROVE HistoryInv'
    BY <1>1 DEF HistoryInv
  <2> DEFINE u == Head(updates)
             k == u.key
             t == Tail(updates)
  <2>1. /\ updates \in Seq(Updates) /\ updates # <<>> /\ t \in Seq(Updates)
        /\ u \in Updates /\ k \in Keys /\ u = updates[1] /\ 1 \in DOMAIN updates
        /\ announced' = announced /\ stage' = "idle"
    BY <1>1, <1>4, HeadIsUpdate DEF SnapshotPublished
  <2>2. u.kind = "food_ready" => status[k] = "food_ready"
    BY <1>1, <2>1, ReadyStatus
  <2>3. /\ Chained(updates) /\ Continues(updates, announced)
        /\ announced[k] = u.kind
        /\ \A x \in Keys : \E kind \in Said[status[x]] :
             Latest(updates, announced, x, kind)
    BY <1>1, <1>4 DEF HistoryInv, SnapshotPublished
  <2>4. /\ Chained(t) /\ Continues(t, announced)
        /\ \A x, kind : Latest(updates, announced, x, kind)
                          => Latest(t, announced, x, kind)
    BY <2>1, <2>3, TailFollows
  <2> HIDE DEF t
  <2>5. \A x \in Keys : \E kind \in Said[status[x]] :
          Latest(t, announced, x, kind)
    BY <2>3, <2>4
  <2>6. CASE u.kind # "food_ready" \/ k \notin deferred
    <3>1. /\ updates' = t
          /\ \/ status' = status
             \/ /\ u.kind = "food_ready"
                /\ status' = [status EXCEPT ![k] = "published"]
      BY <1>4, <2>2, <2>6, ReducerFacts DEF SnapshotPublished, t
    <3>2. \A x \in Keys : Said[status'[x]] = Said[status[x]]
      BY <1>1, <2>1, <2>2, <3>1, InvFacts, SaidFacts
    <3>3. \A x \in Keys : \E kind \in Said[status'[x]] :
            Latest(t, announced, x, kind)
      BY <2>5, <3>2
    <3> QED BY <2>1, <2>4, <3>1, <3>3
            DEF HistoryInv, Chained, Continues, Consecutive, IsFirst, Latest,
                IsLast
  <2>7. CASE u.kind = "food_ready" /\ k \in deferred
    <3>1. /\ updates' = Append(t, u)
          /\ status' = [status EXCEPT ![k] = "food_ready"]
      <4>1. /\ QueueStatusUpdate(t, Waiting, u)
            /\ status' = [status EXCEPT ![k] = "food_ready"]
        BY <1>4, <2>2, <2>7, ReducerFacts DEF SnapshotPublished, t
      <4> QED BY <4>1, QueuedUpdate
    <3>2. /\ status[k] = "food_ready"
          /\ \A x \in Keys : status'[x] = status[x]
      BY <1>1, <2>1, <2>2, <2>7, <3>1, InvFacts
    <3>3. PICK latest \in Said["food_ready"] : Latest(t, announced, k, latest)
      BY <2>1, <2>5, <3>2
    <3>4. Follows(latest, u.kind)
      BY <2>7, <3>3, SaidFacts
    <3>5. /\ Chained(updates') /\ Continues(updates', announced)
          /\ Latest(updates', announced, k, u.kind)
          /\ \A x, kind : x # k /\ Latest(t, announced, x, kind)
                            => Latest(updates', announced, x, kind)
      BY <2>1, <2>4, <3>1, <3>3, <3>4, AppendFollows
    <3>6. ASSUME NEW x \in Keys
          PROVE  \E kind \in Said[status'[x]] :
                   Latest(updates', announced, x, kind)
      <4>1. CASE x = k
        BY <2>7, <3>2, <3>5, <4>1, SaidFacts
      <4>2. CASE x # k
        BY <2>5, <3>2, <3>5, <4>2
      <4> QED BY <4>1, <4>2
    <3> QED BY <2>1, <3>5, <3>6
            DEF HistoryInv, Chained, Continues, Consecutive, IsFirst, Latest,
                IsLast
  <2> QED BY <2>6, <2>7
<1> QED BY <1>2, <1>3, <1>4 DEF Publish

\* Every step keeps the invariant.
LEMMA HistoryNext == ServiceInv /\ HistoryInv /\ [Next]_vars => HistoryInv'
<1> SUFFICES ASSUME ServiceInv, HistoryInv, [Next]_vars, Running'
             PROVE  HistoryInv'
  BY DEF HistoryInv
<1>1. CASE UNCHANGED vars
  BY <1>1 DEF vars, registryVars, publisherVars, linkVars, Running, HistoryInv,
              Chained, Continues, Consecutive, IsFirst, Latest, IsLast
<1>2. CASE Connect
  <2>1. /\ Running /\ restarts' = restarts /\ updates' = updates
        /\ status' = status /\ stage' = stage /\ announced' = announced
    BY <1>2 DEF Connect, registryVars, publisherVars
  <2> QED BY <2>1, QuietHistory
<1>3. CASE ConnectionLost
  <2>1. /\ Running /\ restarts' = restarts /\ updates' = updates
        /\ status' = status /\ stage' = "idle"
        /\ announced' = announced \/ (stage = "status" /\ Announce)
    BY <1>3 DEF ConnectionLost, registryVars
  <2>2. CASE announced' = announced
    BY <2>1, <2>2, QuietHistory
  <2>3. CASE stage = "status" /\ Announce
    BY <2>1, <2>3, AnnounceHistory
  <2> QED BY <2>1, <2>2, <2>3
<1>4. CASE Restart
  <2>1. restarts' # 0
    BY <1>4 DEF Restart, ServiceInv, TypeOK
  <2> QED BY <2>1 DEF HistoryInv
<1> QED BY <1>1, <1>2, <1>3, <1>4, HandleMessageHistory, WorkHistory,
           PublishHistory DEF Next

\* The broker sees the events of an order in lifecycle order, without gaps,
\* however often the link drops, as long as the first process lives.
THEOREM InOrder == Spec => AnnouncedInOrder
<1> DEFINE Step == \A k \in Keys :
                     announced'[k] # announced[k] /\ restarts = 0
                       => <<announced[k], announced'[k]>> \in MayFollow
<1>1. Init => HistoryInv
  <2> SUFFICES ASSUME Init PROVE HistoryInv
    OBVIOUS
  <2>1. /\ updates = <<>> /\ stage = "idle"
        /\ \A k \in Keys : status[k] = "absent" /\ announced[k] = "none"
    BY DEF Init, EmptyMemory
  <2>2. DOMAIN updates = {}
    BY <2>1
  <2> QED BY <2>1, <2>2 DEF HistoryInv, Chained, Continues, Latest, Said
<1>2. ServiceInv /\ HistoryInv /\ [Next]_vars => [Step]_vars
  <2> SUFFICES ASSUME ServiceInv, HistoryInv, Next PROVE Step
    OBVIOUS
  <2>1. CASE announced' = announced
    BY <2>1
  <2>2. CASE StatusPublished \/ ConnectionLost
    <3>1. CASE stage = "status" /\ Announce
      BY <2>2, <3>1, AnnounceHistory
         DEF StatusPublished, ConnectionLost, registryVars, linkVars
    <3> QED BY <2>1, <2>2, <3>1 DEF StatusPublished, ConnectionLost
  <2>3. CASE Next /\ ~StatusPublished /\ ~ConnectionLost
    <3>1. announced' = announced
      BY <2>3
         DEF Next, HandleMessage, ReceiveAdmitted, ReceiveQueueFull,
             ReceiveRegistryFull, ReceiveIgnored, ReceiveDeferred,
             ReceiveRepublish, Receive, Work, WorkerStart, WorkerPrepared,
             WorkerFailed, Finish, Publish, TakeUpdate, SnapshotPublished,
             Connect, Restart, publisherVars
    <3> QED BY <3>1
  <2> QED BY <2>1, <2>2, <2>3
<1> QED BY <1>1, <1>2, HistoryNext, ServiceInvariant, PTL
        DEF Spec, AnnouncedInOrder
=============================================================================
