----------------------- MODULE KitchenPressureProofs ------------------------
(***************************************************************************)
(* Proofs about KitchenPressure: no change of the kitchen is lost between  *)
(* the event, the capture and a lost link, and a revision stands for one   *)
(* snapshot, for any orders, workers, capacity and bounds.                 *)
(***************************************************************************)
EXTENDS KitchenPressure, SequenceFacts

-----------------------------------------------------------------------------
(* The inductive invariant.                                                *)

\* The queue has the room the service gave it, so that a depth is one.
HasRoom == Len(waiting) <= QueueCapacity

\* Nothing happens before the baseline is published; from then on there is a
\* last snapshot, of this instance and revision.
Begun ==
  IF initialized
  THEN last \in Snapshots /\ last.instance = instance /\ last.revision = revision
  ELSE /\ waiting = <<>> /\ busy = Idle /\ ~changed /\ ~connected
       /\ last = NoSnapshot /\ pending = NoSnapshot

\* While no change is signalled the last snapshot is of the kitchen as it is.
Captured ==
  initialized /\ ~changed =>
    SignatureOf(last) = Signature(Len(waiting), busy)

\* The last snapshot is still to be published or the broker retains it.
Retained ==
  /\ pending # NoSnapshot => pending = last
  /\ initialized /\ pending = NoSnapshot => retained = last

\* No snapshot is from a later instance or revision than the present ones.
Dated ==
  \A s \in Live :
    /\ s.instance <= instance
    /\ s.instance = instance =>
         initialized /\ s.revision <= revision
           /\ (s.revision = revision => s = last)

PressureInv ==
  /\ TypeOK /\ HasRoom /\ Begun /\ Captured /\ Retained /\ Dated
  /\ RevisionIdentifiesSnapshot

-----------------------------------------------------------------------------
(* Snapshots, and who holds them.                                          *)

\* A snapshot of the kitchen says what it is made of.
LEMMA SnapshotFacts ==
  ASSUME instance \in 0..MaxRestarts, NEW rev \in Nat,
         NEW depth \in 0..QueueCapacity,
         NEW workers \in [Workers -> Keys \union {NoKey}]
  PROVE  LET s == Snapshot(rev, depth, workers) IN
         /\ s \in Snapshots /\ s # NoSnapshot
         /\ s.instance = instance /\ s.revision = rev
         /\ SignatureOf(s) = Signature(depth, workers)
BY PressureAssumption DEF Snapshot, Snapshots, SignatureOf

\* The snapshots on their way to the console.
Sent == {channel[i] : i \in DOMAIN channel}

\* Whatever is alive is a snapshot.
LEMMA LiveFacts ==
  ASSUME TypeOK
  PROVE  /\ Live = ({last, pending, retained, shown} \union Sent) \ {NoSnapshot}
         /\ Live \subseteq Snapshots
BY DEF TypeOK, Live, Sent

\* The broker forwards what it accepts, and nothing else.
LEMMA AcceptFacts ==
  ASSUME TypeOK, NEW s \in Snapshots, Accept(s)
  PROVE  /\ retained' = s /\ channel' \in Seq(Snapshots)
         /\ Sent' \subseteq Sent \union {s}
<1>1. channel \in Seq(Snapshots)
  BY DEF TypeOK
<1>2. CASE channel' = channel
  BY <1>1, <1>2 DEF Accept, Sent
<1>3. CASE channel' = Append(channel, s)
  <2>1. /\ channel' \in Seq(Snapshots) /\ DOMAIN channel = 1..Len(channel)
        /\ DOMAIN channel' = 1..Len(channel) + 1
        /\ \A i \in 1..Len(channel) : channel'[i] = channel[i]
        /\ channel'[Len(channel) + 1] = s /\ Len(channel) \in Nat
    BY <1>1, <1>3, AppendFacts
  <2>2. \A i \in DOMAIN channel' : channel'[i] \in Sent \union {s}
    BY <2>1 DEF Sent
  <2> QED BY <2>1, <2>2 DEF Accept, Sent
<1> QED BY <1>2, <1>3 DEF Accept

\* Snapshots that were alive before stay apart.
LEMMA NothingNew ==
  ASSUME Dated, RevisionIdentifiesSnapshot, Live' \subseteq Live,
         UNCHANGED <<instance, revision, last>>, initialized => initialized'
  PROVE  Dated' /\ RevisionIdentifiesSnapshot'
BY DEF Dated, RevisionIdentifiesSnapshot

\* So does one that is newer than those of its instance.
LEMMA NewerSnapshot ==
  ASSUME TypeOK, Dated, RevisionIdentifiesSnapshot, instance' = instance,
         initialized', last'.instance = instance, last'.revision = revision',
         revision' \in Nat, Live' \subseteq Live \union {last'},
         \A s \in Live : s.instance = instance => s.revision < revision'
  PROVE  Dated' /\ RevisionIdentifiesSnapshot'
<1>1. \A s \in Live : s.instance \in Nat /\ s.revision \in Nat
  BY LiveFacts DEF Snapshots
<1>2. instance \in Nat
  BY DEF TypeOK
<1>3. Dated'
  BY <1>1, <1>2 DEF Dated
<1>4. RevisionIdentifiesSnapshot'
  BY <1>1 DEF RevisionIdentifiesSnapshot
<1> QED BY <1>3, <1>4

-----------------------------------------------------------------------------
(* The kitchen.                                                            *)

\* A step of the kitchen signals a change, and sends nothing.
LEMMA KitchenInv ==
  ASSUME PressureInv, Kitchen
  PROVE  PressureInv'
<1>1. /\ TypeOK /\ initialized
      /\ changed' = TRUE
      /\ UNCHANGED <<projectionVars, linkVars, retained, channel, consoleVars>>
  <2>1. TypeOK
    BY DEF PressureInv
  <2>2. initialized
    <3>1. ~initialized => waiting = <<>> /\ busy = Idle /\ ~connected
      BY DEF PressureInv, Begun
    <3>2. busy = Idle => \A w \in Workers : busy[w] = NoKey
      BY DEF Idle
    <3> QED BY <3>1, <3>2 DEF Kitchen, Admit, WorkerStarted, WorkerStopped
  <2> QED BY <2>1, <2>2 DEF Kitchen, Admit, WorkerStarted, WorkerStopped
<1>2. /\ waiting \in Seq(Keys) /\ Len(waiting) \in Nat
      /\ busy \in [Workers -> Keys \union {NoKey}] /\ HasRoom
      /\ QueueCapacity \in Nat
  BY <1>1, PressureAssumption DEF PressureInv, TypeOK
<1>3. waiting' \in Seq(Keys) /\ HasRoom' /\ busy' \in [Workers -> Keys \union {NoKey}]
  <2>1. ASSUME NEW k \in Keys, Admit(k)
        PROVE  /\ waiting' \in Seq(Keys) /\ HasRoom'
               /\ busy' \in [Workers -> Keys \union {NoKey}]
    BY <1>2, <2>1, AppendFacts DEF Admit, HasRoom
  <2>2. ASSUME NEW w \in Workers, WorkerStarted(w)
        PROVE  /\ waiting' \in Seq(Keys) /\ HasRoom'
               /\ busy' \in [Workers -> Keys \union {NoKey}]
    <3>1. /\ waiting' \in Seq(Keys) /\ Head(waiting) \in Keys
          /\ Len(waiting') = Len(waiting) - 1
      BY <1>2, <2>2, TailFacts DEF WorkerStarted
    <3>2. busy' = [busy EXCEPT ![w] = Head(waiting)]
      BY <2>2 DEF WorkerStarted
    <3> QED BY <1>2, <3>1, <3>2 DEF HasRoom
  <2>3. ASSUME NEW w \in Workers, WorkerStopped(w)
        PROVE  /\ waiting' \in Seq(Keys) /\ HasRoom'
               /\ busy' \in [Workers -> Keys \union {NoKey}]
    BY <1>2, <2>3 DEF WorkerStopped, HasRoom
  <2> QED BY <2>1, <2>2, <2>3 DEF Kitchen
<1>4. TypeOK'
  <2>1. changed' \in BOOLEAN
    BY <1>1, Zenon
  <2> QED BY <1>1, <1>3, <2>1
          DEF TypeOK, projectionVars, linkVars, consoleVars
<1>5. Begun' /\ Captured' /\ Retained'
  BY <1>1 DEF PressureInv, Begun, Captured, Retained, projectionVars, linkVars
<1>6. Dated' /\ RevisionIdentifiesSnapshot'
  <2>1. Live' = Live
    BY <1>1 DEF Live, projectionVars, consoleVars
  <2> QED BY <1>1, <2>1, NothingNew DEF PressureInv, projectionVars, linkVars
<1> QED BY <1>3, <1>4, <1>5, <1>6 DEF PressureInv

-----------------------------------------------------------------------------
(* The publisher.                                                          *)

\* The baseline is the first snapshot of its instance.
LEMMA InitializeInv ==
  ASSUME PressureInv, Initialize
  PROVE  PressureInv'
<1> DEFINE baseline == Snapshot(0, 0, busy)
<1>1. /\ TypeOK /\ ~initialized /\ waiting = <<>> /\ busy = Idle /\ ~changed
      /\ pending = NoSnapshot
  BY DEF PressureInv, Begun, Initialize
<1>2. /\ baseline \in Snapshots /\ baseline # NoSnapshot
      /\ baseline.instance = instance /\ baseline.revision = 0
      /\ SignatureOf(baseline) = Signature(0, busy)
  BY <1>1, SnapshotFacts, PressureAssumption DEF TypeOK
<1>3. /\ revision' = 0 /\ last' = baseline /\ Accept(baseline)
      /\ connected' = TRUE /\ initialized' = TRUE
      /\ UNCHANGED <<waiting, busy, changed, pending, instance, online, shown>>
  BY DEF Initialize, kitchenVars, consoleVars
<1> HIDE DEF baseline
<1>4. /\ retained' = baseline /\ channel' \in Seq(Snapshots)
      /\ Sent' \subseteq Sent \union {baseline}
  BY <1>1, <1>2, <1>3, AcceptFacts
<1>5. TypeOK'
  <2>1. connected' \in BOOLEAN /\ initialized' \in BOOLEAN
    BY <1>3, Zenon
  <2> QED BY <1>1, <1>2, <1>3, <1>4, <2>1 DEF TypeOK
<1>6. HasRoom' /\ Begun' /\ Captured' /\ Retained'
  BY <1>1, <1>2, <1>3, <1>4
     DEF PressureInv, HasRoom, Begun, Captured, Retained
<1>7. Dated' /\ RevisionIdentifiesSnapshot'
  <2>1. Live' \subseteq Live \union {last'}
    <3>1. Live' = ({last', pending', retained', shown'} \union Sent')
                    \ {NoSnapshot}
      BY DEF Live, Sent
    <3> QED BY <1>1, <1>3, <1>4, <3>1, LiveFacts
  <2>2. \A s \in Live : s.instance # instance
    BY <1>1 DEF PressureInv, Dated
  <2> QED BY <1>1, <1>2, <1>3, <2>1, <2>2, NewerSnapshot DEF PressureInv
<1> QED BY <1>5, <1>6, <1>7 DEF PressureInv

\* A wake-up captures the kitchen as it is, under the last revision or under
\* the next one.
LEMMA CaptureInv ==
  ASSUME PressureInv, Capture
  PROVE  PressureInv'
<1> DEFINE depth == Len(waiting)
           next == Snapshot(revision + 1, depth, busy)
<1>1. /\ TypeOK /\ initialized /\ pending = NoSnapshot /\ retained = last
      /\ last \in Snapshots /\ last # NoSnapshot /\ last.instance = instance
      /\ last.revision = revision /\ revision \in Nat
  BY PressureAssumption DEF PressureInv, Begun, Retained, TypeOK, Capture
<1>2. depth \in 0..QueueCapacity
  BY PressureAssumption DEF PressureInv, TypeOK, HasRoom
<1>3. /\ next \in Snapshots /\ next # NoSnapshot
      /\ next.instance = instance /\ next.revision = revision + 1
      /\ SignatureOf(next) = Signature(depth, busy)
  BY <1>1, <1>2, SnapshotFacts DEF TypeOK
<1>4. /\ changed' = FALSE
      /\ UNCHANGED <<waiting, busy, instance, connected, initialized, retained,
                     channel, online, shown>>
  BY DEF Capture, linkVars, consoleVars
<1>5. /\ Sent' = Sent
      /\ Live' = ({last', pending', retained', shown'} \union Sent')
                   \ {NoSnapshot}
  BY <1>4 DEF Live, Sent
<1>6. \/ /\ Signature(depth, busy) = SignatureOf(last)
         /\ pending' = last /\ UNCHANGED <<revision, last>>
      \/ pending' = next /\ last' = next /\ revision' = revision + 1
  BY DEF Capture
<1>7. changed' \in BOOLEAN
  BY <1>4, Zenon
<1> HIDE DEF next, depth
<1>8. CASE /\ Signature(depth, busy) = SignatureOf(last)
           /\ pending' = last /\ UNCHANGED <<revision, last>>
  <2>1. TypeOK'
    BY <1>1, <1>4, <1>7, <1>8 DEF TypeOK
  <2>2. HasRoom' /\ Begun' /\ Captured' /\ Retained'
    BY <1>1, <1>4, <1>8
       DEF PressureInv, HasRoom, Begun, Captured, Retained, depth
  <2>3. Live' \subseteq Live
    BY <1>1, <1>4, <1>5, <1>8, LiveFacts
  <2>4. Dated' /\ RevisionIdentifiesSnapshot'
    BY <1>4, <1>8, <2>3, NothingNew DEF PressureInv
  <2> QED BY <2>1, <2>2, <2>4 DEF PressureInv
<1>9. CASE pending' = next /\ last' = next /\ revision' = revision + 1
  <2>1. TypeOK'
    BY <1>1, <1>3, <1>4, <1>7, <1>9 DEF TypeOK
  <2>2. HasRoom' /\ Begun' /\ Captured' /\ Retained'
    BY <1>1, <1>3, <1>4, <1>9
       DEF PressureInv, HasRoom, Begun, Captured, Retained, depth
  <2>3. Live' \subseteq Live \union {last'}
    BY <1>1, <1>4, <1>5, <1>9, LiveFacts
  <2>4. \A s \in Live : s.instance = instance => s.revision < revision'
    <3>1. \A s \in Live : s.instance = instance => s.revision <= revision
      BY DEF PressureInv, Dated
    <3>2. \A s \in Live : s.revision \in Nat
      BY <1>1, LiveFacts DEF Snapshots
    <3> QED BY <1>1, <1>9, <3>1, <3>2
  <2>5. Dated' /\ RevisionIdentifiesSnapshot'
    <3>1. initialized' /\ last'.instance = instance /\ last'.revision = revision'
          /\ revision' \in Nat
      BY <1>1, <1>3, <1>4, <1>9
    <3> QED BY <1>1, <1>4, <2>3, <2>4, <3>1, NewerSnapshot DEF PressureInv
  <2> QED BY <2>1, <2>2, <2>5 DEF PressureInv
<1> QED BY <1>6, <1>8, <1>9

\* What is accepted was captured before, whether or not the service learns of
\* it.
LEMMA AcceptInv ==
  ASSUME PressureInv, initialized, pending # NoSnapshot, Accept(pending),
         pending' \in {pending, NoSnapshot}, connected' \in BOOLEAN,
         UNCHANGED <<waiting, busy, changed, revision, last, instance,
                     initialized, online, shown>>
  PROVE  PressureInv'
<1>1. TypeOK /\ pending = last /\ pending \in Snapshots
  BY DEF PressureInv, Retained, TypeOK
<1>2. /\ retained' = pending /\ channel' \in Seq(Snapshots)
      /\ Sent' \subseteq Sent \union {pending}
  BY <1>1, AcceptFacts
<1>3. TypeOK'
  BY <1>1, <1>2 DEF TypeOK
<1>4. HasRoom' /\ Begun' /\ Captured' /\ Retained'
  BY <1>1, <1>2 DEF PressureInv, HasRoom, Begun, Captured, Retained
<1>5. Live' \subseteq Live
  <2>1. Live' = ({last', pending', retained', shown'} \union Sent')
                  \ {NoSnapshot}
    BY DEF Live, Sent
  <2> QED BY <1>1, <1>2, <2>1, LiveFacts
<1>6. Dated' /\ RevisionIdentifiesSnapshot'
  BY <1>5, NothingNew DEF PressureInv
<1> QED BY <1>3, <1>4, <1>6 DEF PressureInv

\* A publish that returns, and a link that drops, lose no snapshot.
LEMMA PublishInv ==
  ASSUME PressureInv, Published \/ ConnectionLost
  PROVE  PressureInv'
<1>1. TypeOK /\ initialized
  <2>1. connected
    BY DEF Published, ConnectionLost
  <2> QED BY <2>1 DEF PressureInv, Begun
<1>2. CASE Published
  <2>1. connected' \in BOOLEAN
    BY <1>1, <1>2 DEF TypeOK, Published, linkVars
  <2> QED BY <1>1, <1>2, <2>1, AcceptInv
          DEF Published, kitchenVars, linkVars, consoleVars
<1>3. CASE ConnectionLost
  <2>1. connected' \in BOOLEAN
    BY <1>3, Zenon DEF ConnectionLost
  <2>2. UNCHANGED <<waiting, busy, changed, revision, last, pending, instance,
                    initialized, online, shown>>
    BY <1>3 DEF ConnectionLost, kitchenVars, projectionVars, consoleVars
  <2>3. CASE pending # NoSnapshot /\ Accept(pending)
    BY <1>1, <2>1, <2>2, <2>3, AcceptInv
  <2>4. CASE UNCHANGED <<retained, channel>>
    <3>1. TypeOK'
      BY <1>1, <2>1, <2>2, <2>4 DEF TypeOK
    <3>2. HasRoom' /\ Begun' /\ Captured' /\ Retained'
      BY <1>1, <2>2, <2>4 DEF PressureInv, HasRoom, Begun, Captured, Retained
    <3>3. Live' = Live
      BY <2>2, <2>4 DEF Live
    <3>4. Dated' /\ RevisionIdentifiesSnapshot'
      BY <2>2, <3>3, NothingNew DEF PressureInv
    <3> QED BY <3>1, <3>2, <3>4 DEF PressureInv
  <2> QED BY <1>3, <2>3, <2>4 DEF ConnectionLost
<1> QED BY <1>2, <1>3

\* The link is back.
LEMMA ReconnectInv ==
  ASSUME PressureInv, Reconnect
  PROVE  PressureInv'
<1>1. /\ TypeOK /\ initialized /\ connected' = TRUE
      /\ UNCHANGED <<waiting, busy, changed, revision, last, pending, instance,
                     initialized, retained, channel, online, shown>>
  BY DEF PressureInv, Reconnect, kitchenVars, projectionVars, consoleVars
<1>2. TypeOK'
  <2>1. connected' \in BOOLEAN
    BY <1>1, Zenon
  <2> QED BY <1>1, <2>1 DEF TypeOK
<1>3. HasRoom' /\ Begun' /\ Captured' /\ Retained'
  BY <1>1 DEF PressureInv, HasRoom, Begun, Captured, Retained
<1>4. Live' = Live
  BY <1>1 DEF Live
<1>5. Dated' /\ RevisionIdentifiesSnapshot'
  BY <1>1, <1>4, NothingNew DEF PressureInv
<1> QED BY <1>2, <1>3, <1>5 DEF PressureInv

\* Whatever outlives a restart is of an earlier instance.
LEMMA RestartInv ==
  ASSUME PressureInv, Restart
  PROVE  PressureInv'
<1>1. /\ TypeOK /\ instance \in 0..MaxRestarts /\ instance' = instance + 1
      /\ instance < MaxRestarts /\ MaxRestarts \in Nat
      /\ waiting' = <<>> /\ busy' = Idle /\ changed' = FALSE
      /\ revision' = 0 /\ last' = NoSnapshot /\ pending' = NoSnapshot
      /\ connected' = FALSE /\ initialized' = FALSE
      /\ UNCHANGED <<retained, channel, online, shown>>
  BY PressureAssumption DEF PressureInv, TypeOK, Restart, consoleVars
<1>2. TypeOK'
  <2>1. /\ changed' \in BOOLEAN /\ connected' \in BOOLEAN
        /\ initialized' \in BOOLEAN
    BY <1>1, Zenon
  <2>2. waiting' \in Seq(Keys) /\ busy' \in [Workers -> Keys \union {NoKey}]
    BY <1>1 DEF Idle
  <2>3. instance' \in 0..MaxRestarts /\ revision' \in Nat
    BY <1>1
  <2> QED BY <1>1, <2>1, <2>2, <2>3 DEF TypeOK
<1>3. HasRoom' /\ Begun' /\ Captured' /\ Retained'
  BY <1>1, PressureAssumption DEF HasRoom, Begun, Captured, Retained
<1>4. Live' \subseteq Live
  BY <1>1 DEF Live
<1>5. \A s \in Live : s.instance \in Nat /\ s.instance <= instance
  BY <1>1, LiveFacts DEF PressureInv, Dated, Snapshots
<1>6. Dated'
  BY <1>1, <1>4, <1>5 DEF Dated
<1>7. RevisionIdentifiesSnapshot'
  BY <1>4 DEF PressureInv, RevisionIdentifiesSnapshot
<1> QED BY <1>2, <1>3, <1>6, <1>7 DEF PressureInv

-----------------------------------------------------------------------------
(* The console.                                                            *)

\* The console is sent what the broker retains, loses it or takes it over.
LEMMA ConsoleInv ==
  ASSUME PressureInv, ConsoleConnects \/ ConsoleDrops \/ ConsoleReceives
  PROVE  PressureInv'
<1>1. /\ TypeOK /\ channel \in Seq(Snapshots)
      /\ UNCHANGED <<waiting, busy, changed, revision, last, pending, instance,
                     connected, initialized, retained>>
  BY DEF PressureInv, TypeOK, ConsoleConnects, ConsoleDrops, ConsoleReceives,
         kitchenVars, projectionVars, linkVars
<1>2. /\ online' \in BOOLEAN /\ channel' \in Seq(Snapshots)
      /\ shown' \in Sent \union {shown} /\ Sent' \subseteq Sent \union {retained}
  <2>1. CASE ConsoleConnects
    <3>1. online' \in BOOLEAN
      BY <2>1, Zenon DEF ConsoleConnects
    <3>2. CASE retained = NoSnapshot
      BY <2>1, <3>1, <3>2 DEF ConsoleConnects, Sent
    <3>3. CASE retained # NoSnapshot
      <4>1. retained \in Snapshots /\ channel' = <<retained>>
        BY <1>1, <2>1, <3>3 DEF TypeOK, ConsoleConnects
      <4>2. /\ channel' \in Seq(Snapshots) /\ DOMAIN channel' = {1}
            /\ channel'[1] = retained
        BY <4>1
      <4> QED BY <2>1, <3>1, <4>2 DEF ConsoleConnects, Sent
    <3> QED BY <3>2, <3>3
  <2>2. CASE ConsoleDrops
    <3>1. online' \in BOOLEAN
      BY <2>2, Zenon DEF ConsoleDrops
    <3> QED BY <2>2, <3>1 DEF ConsoleDrops, Sent
  <2>3. CASE ConsoleReceives
    <3>1. /\ channel' = Tail(channel) /\ channel # <<>> /\ online' = online
          /\ shown' \in {Head(channel), shown}
      BY <2>3 DEF ConsoleReceives
    <3>2. /\ channel' \in Seq(Snapshots) /\ Head(channel) = channel[1]
          /\ Len(channel) \in Nat \ {0} /\ DOMAIN channel = 1..Len(channel)
          /\ DOMAIN channel' = 1..Len(channel) - 1
          /\ \A i \in 1..Len(channel) - 1 : channel'[i] = channel[i + 1]
      BY <1>1, <3>1, TailFacts
    <3>3. Head(channel) \in Sent
      BY <3>2 DEF Sent
    <3>4. Sent' \subseteq Sent
      BY <3>2 DEF Sent
    <3> QED BY <1>1, <3>1, <3>2, <3>3, <3>4 DEF TypeOK
  <2> QED BY <2>1, <2>2, <2>3
<1>3. Sent \subseteq Snapshots
  BY <1>1 DEF Sent
<1>4. TypeOK'
  BY <1>1, <1>2, <1>3 DEF TypeOK
<1>5. HasRoom' /\ Begun' /\ Captured' /\ Retained'
  BY <1>1 DEF PressureInv, HasRoom, Begun, Captured, Retained
<1>6. Live' \subseteq Live
  <2>1. Live' = ({last', pending', retained', shown'} \union Sent')
                  \ {NoSnapshot}
    BY DEF Live, Sent
  <2> QED BY <1>1, <1>2, <2>1, LiveFacts
<1>7. Dated' /\ RevisionIdentifiesSnapshot'
  BY <1>1, <1>6, NothingNew DEF PressureInv
<1> QED BY <1>4, <1>5, <1>7 DEF PressureInv

-----------------------------------------------------------------------------
(* The theorems.                                                           *)

\* The invariant holds before anything happened.
LEMMA InitInv ==
  ASSUME Init
  PROVE  PressureInv
<1>1. /\ waiting = <<>> /\ busy = Idle /\ changed = FALSE
      /\ revision = 0 /\ last = NoSnapshot /\ pending = NoSnapshot /\ instance = 0
      /\ connected = FALSE /\ initialized = FALSE /\ retained = NoSnapshot
      /\ online = FALSE /\ channel = <<>> /\ shown = NoSnapshot
  BY DEF Init
<1>2. TypeOK
  <2>1. /\ changed \in BOOLEAN /\ connected \in BOOLEAN
        /\ initialized \in BOOLEAN /\ online \in BOOLEAN
    BY <1>1, Zenon
  <2>2. waiting \in Seq(Keys) /\ busy \in [Workers -> Keys \union {NoKey}]
    BY <1>1 DEF Idle
  <2> QED BY <1>1, <2>1, <2>2, PressureAssumption DEF TypeOK
<1>3. HasRoom /\ Begun /\ Captured /\ Retained
  BY <1>1, PressureAssumption DEF HasRoom, Begun, Captured, Retained
<1>4. Live = {}
  BY <1>1 DEF Live
<1>5. Dated /\ RevisionIdentifiesSnapshot
  BY <1>4 DEF Dated, RevisionIdentifiesSnapshot
<1> QED BY <1>2, <1>3, <1>5 DEF PressureInv

\* Every step keeps it.
LEMMA StepInv ==
  ASSUME PressureInv, [Next]_vars
  PROVE  PressureInv'
<1>1. CASE UNCHANGED vars
  <2>1. UNCHANGED <<waiting, busy, changed, revision, last, pending, instance,
                    connected, initialized, retained, channel, online, shown>>
    BY <1>1 DEF vars, kitchenVars, projectionVars, linkVars, consoleVars
  <2>2. TypeOK'
    BY <2>1 DEF PressureInv, TypeOK
  <2>3. Live' = Live
    BY <2>1 DEF Live
  <2>4. Dated' /\ RevisionIdentifiesSnapshot'
    BY <2>1, <2>3, NothingNew DEF PressureInv
  <2>5. HasRoom' /\ Begun' /\ Captured' /\ Retained'
    BY <2>1 DEF PressureInv, HasRoom, Begun, Captured, Retained
  <2> QED BY <2>2, <2>4, <2>5 DEF PressureInv
<1>2. CASE Next
  BY <1>2, KitchenInv, InitializeInv, ReconnectInv, CaptureInv, PublishInv,
     RestartInv, ConsoleInv DEF Next
<1> QED BY <1>1, <1>2

\* The inductive invariant holds in every state the publisher reaches.
THEOREM PressureInvariant == Spec => []PressureInv
<1>1. Init => PressureInv
  BY InitInv
<1>2. PressureInv /\ [Next]_vars => PressureInv'
  BY StepInv
<1> QED BY <1>1, <1>2, PTL DEF Spec

\* Every snapshot, wherever it is, says a depth the queue can have and orders
\* the workers can hold.
THEOREM PressureTyped == Spec => []TypeOK
<1>1. PressureInv => TypeOK
  BY DEF PressureInv
<1> QED BY <1>1, PressureInvariant, PTL

\* A change of the kitchen is not lost: when the publisher has nothing left to
\* do, the broker retains the pressure there is.
THEOREM ChangeReachesBroker == Spec => []NoLostChange
<1>1. PressureInv => NoLostChange
  BY DEF PressureInv, Captured, Retained, NoLostChange, Quiet
<1> QED BY <1>1, PressureInvariant, PTL

\* A console that drops a snapshot for its revision drops one it has seen.
THEOREM RevisionIsEnough == Spec => []RevisionIdentifiesSnapshot
<1>1. PressureInv => RevisionIdentifiesSnapshot
  BY DEF PressureInv
<1> QED BY <1>1, PressureInvariant, PTL
=============================================================================
